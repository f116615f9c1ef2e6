\* Active peer disengaged by the router while it is still connecting.
CONSTANTS
    r1 = r1
    r2 = r2
    h1 = h1
    h2 = h2
    NoChan = NoChan
    NoHbh = NoHbh
    Role = "active"
    Requesters <- MCNoRequesters
    ReqHbh <- MCNoReqHbh
    HbH <- MCHbH
    RemoteRequests <- NoRemote
    RemoteBudget = 0
    NetFaults = {}
    QueueBound = 3
    DWRBound = 4
SPECIFICATION Spec
INVARIANT ConnectionReleased
\* The peer's life ends when its event loop returns.
CHECK_DEADLOCK FALSE
