\* Passive peer: the remote sends acceptable and unacceptable CERs, a
\* watchdog and a request of its own, and the network may be cut; fair
\* scheduling of the process's own goroutines.
CONSTANTS
    r1 = r1
    r2 = r2
    h1 = h1
    h2 = h2
    NoChan = NoChan
    NoHbh = NoHbh
    Role = "passive"
    Requesters <- MCNoRequesters
    ReqHbh <- MCNoReqHbh
    HbH <- MCHbH
    RemoteRequests <- PassiveRemote
    RemoteBudget = 2
    NetFaults = {"cut"}
    QueueBound = 3
    DWRBound = 4
SPECIFICATION FairSpec
INVARIANT CERRejectionAnswered
PROPERTY WatchdogDetectsCut
\* The peer's life ends when its event loop returns.
CHECK_DEADLOCK FALSE
