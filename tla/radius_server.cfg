\* Clients sending three datagrams over a lossy, duplicating network to a
\* server that may be closed at any time.
CONSTANTS
    c1 = c1
    c2 = c2
    KnownClients <- MCKnownClients
    Datagrams <- MCDatagrams
    MaxDatagrams = 3
    NetFaults = {"lost", "duplicated"}
SPECIFICATION FairSpec
INVARIANT NoPanicOnClose
PROPERTY CloseStopsServer
\* A server that is never closed waits for datagrams for ever.
CHECK_DEADLOCK FALSE
