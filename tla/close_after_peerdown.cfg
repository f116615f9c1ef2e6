\* Passive peer closed by the router: Disengage, PeerDownEvent, then
\* DiameterPeer.Close while the readLoop is still running.
CONSTANTS
    r1 = r1
    r2 = r2
    h1 = h1
    h2 = h2
    NoChan = NoChan
    NoHbh = NoHbh
    Role = "passive"
    Requesters <- MCNoRequesters
    ReqHbh <- MCNoReqHbh
    HbH <- MCHbH
    RemoteRequests <- PassiveRemote
    RemoteBudget = 0
    NetFaults = {}
    QueueBound = 3
    DWRBound = 4
SPECIFICATION Spec
INVARIANT NoSendOnClosedChannel
\* The peer's life ends when its event loop returns.
CHECK_DEADLOCK FALSE
