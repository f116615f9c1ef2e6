\* Active peer: one caller, the remote's watchdogs and DPR, EOF and
\* broken connections.
CONSTANTS
    r1 = r1
    r2 = r2
    h1 = h1
    h2 = h2
    NoChan = NoChan
    NoHbh = NoHbh
    Role = "active"
    Requesters <- MCOneRequester
    ReqHbh <- MCOneReqHbh
    HbH <- MCHbH
    RemoteRequests <- ActiveRemote
    RemoteBudget = 1
    NetFaults = {"eof", "broken"}
    QueueBound = 3
    DWRBound = 4
SPECIFICATION Spec
INVARIANT TypeOK
INVARIANT EngagedOnlyAfterHandshake
INVARIANT WatchdogClosesInTime
\* The peer's life ends when its event loop returns.
CHECK_DEADLOCK FALSE
