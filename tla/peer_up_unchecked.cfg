\* An active peer whose remote sends its own CER or a DPR during the handshake.
CONSTANTS
    r1 = r1
    r2 = r2
    h1 = h1
    h2 = h2
    NoChan = NoChan
    NoHbh = NoHbh
    Role = "active"
    Requesters <- MCNoRequesters
    ReqHbh <- MCNoReqHbh
    HbH <- MCHbH
    RemoteRequests <- ClosingRemote
    RemoteBudget = 1
    NetFaults = {}
    QueueBound = 3
    DWRBound = 4
SPECIFICATION Spec
PROPERTY LifecycleRefined
\* The peer's life ends when its event loop returns.
CHECK_DEADLOCK FALSE
