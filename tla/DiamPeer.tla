------------------------------ MODULE DiamPeer ------------------------------
(***************************************************************************)
(* The Diameter peer actor of src/diampeer/diamPeer.go.                    *)
(*                                                                         *)
(* One DiameterPeer owns a single event loop (eventLoop) that takes events *)
(* from a buffered channel (eventLoopChannel) in FIFO order and is the     *)
(* only writer of status, requestsMap and outstandingDWA.  Around it run   *)
(* the goroutines that feed the channel: the connect goroutine (active     *)
(* peers), the readLoop, the callers of DiameterRequest, the handler       *)
(* goroutines of incoming requests, the watchdog ticker and the router     *)
(* calling Disengage.  The remote Diameter node and the TCP connection are *)
(* the environment.                                                        *)
(*                                                                         *)
(* Messages are abstracted to their command, whether they carry a good     *)
(* result (Result-Code success, acceptable Origin-Host) and their          *)
(* hop-by-hop id.  Reply channels (RChan) are identified with the          *)
(* requester that created them.                                            *)
(***************************************************************************)
EXTENDS Integers, Sequences, FiniteSets, Bags, BagsExt, Functions

CONSTANTS
    Role,            \* "active" (NewActiveDiameterPeer) or "passive" (NewPassiveDiameterPeer)
    Requesters,      \* goroutines calling DiameterRequest, one request each
    ReqHbh,          \* Requesters -> HbH: the HopByHopId of each caller's request
    HbH,             \* hop-by-hop ids of application messages
    RemoteRequests,  \* messages the remote node may send unprompted
    RemoteBudget,    \* bound: how many unprompted messages the remote sends
    NetFaults,       \* subset of {"eof", "broken", "cut"}: faults the network may show
    QueueBound,      \* bound on eventLoopChannel length (the code's capacity is 100)
    DWRBound,        \* bound on outstandingDWA at which the ticker is no longer explored
    NoChan,          \* model value: nil RChan
    NoHbh            \* model value: hop-by-hop id of base-application messages

ASSUME Role \in {"active", "passive"}
ASSUME ReqHbh \in [Requesters -> HbH]
ASSUME NetFaults \subseteq {"eof", "broken", "cut"}

VARIABLES
    status,          \* dp.status
    evq,             \* dp.eventLoopChannel, a FIFO of events
    requestsMap,     \* dp.requestsMap: partial function HbH -> Requesters
    outstandingDWA,  \* dp.outstandingDWA
    tickerArmed,     \* dp.watchdogTicker was reset to WatchdogIntervalMillis
    blocked,         \* requester whose unbuffered RChan the loop is stuck sending to
    conn,            \* the TCP connection as seen by this process
    cut,             \* the network between the two nodes is partitioned
    readLoop,        \* state of the readLoop goroutine
    toPeer,          \* bytes written on the socket, not yet read by the remote
    fromPeer,        \* bytes sent by the remote, not yet read by readLoop
    remoteBudget,    \* unprompted messages the remote may still send
    req,             \* state of each DiameterRequest caller
    handlers,        \* bag of hop-by-hop ids of running handler goroutines
    disengaged,      \* the router has called Disengage
    ctrl,            \* ControlChannel: sequence of events reported to the router
    wrote,           \* history: base-application answers handed to WriteTo
    capsSeen,        \* history: CER/CEA messages processed by the loop
    chanClosed,      \* DiameterPeer.Close has closed eventLoopChannel
    crashed          \* a goroutine sent on the closed channel: the process panicked

vars == <<status, evq, requestsMap, outstandingDWA, tickerArmed, blocked,
          conn, cut, readLoop, toPeer, fromPeer, remoteBudget, req,
          handlers, disengaged, ctrl, wrote, capsSeen, chanClosed, crashed>>

-----------------------------------------------------------------------------
(* Messages and events                                                     *)

Kinds == {"CER", "CEA", "DWR", "DWA", "DPR", "DPA", "AppReq", "AppAns"}

Msg(k, ok, h) == [kind |-> k, ok |-> ok, hbh |-> h]

Messages == [kind : Kinds, ok : BOOLEAN, hbh : HbH \cup {NoHbh}]

IsRequest(m) == m.kind \in {"CER", "DWR", "DPR", "AppReq"}

Statuses == {"Connecting", "Connected", "Engaged", "Closing", "Closed"}

CloseCauses == {"CERState", "CERInvalid", "DPR", "CEA", "DWA", "Watchdog", "Router"}

\* Events of the eventLoopChannel.  The cause of a PeerCloseCommand is not
\* in the code's struct; it only names the statement that queued it.
Ev(t) == [type |-> t]
Egress(m, r) == [type |-> "Egress", msg |-> m, rchan |-> r]
Ingress(m) == [type |-> "Ingress", msg |-> m]
Cancel(h) == [type |-> "Cancel", hbh |-> h]
PeerClose(c) == [type |-> "PeerClose", cause |-> c]

Events ==
    [type : {"ConnEstablished", "ConnError", "ReadEOF", "ReadError",
             "WriteError", "PeerUp", "Watchdog"}]
    \cup [type : {"Egress"}, msg : Messages, rchan : Requesters \cup {NoChan}]
    \cup [type : {"Ingress"}, msg : Messages]
    \cup [type : {"Cancel"}, hbh : HbH]
    \cup [type : {"PeerClose"}, cause : CloseCauses]

\* PeerUpEvent, PeerDownEvent and the PeerCloseCommand of a write error, as
\* sent on ControlChannel.
CtrlEvents == {"PeerUp", "PeerDown", "CloseCmd"}

ReqStates == {"idle", "checked", "waiting", "answered", "error", "timeout", "nilreply"}

Room == Len(evq) < QueueBound

\* A goroutine other than the loop sends e on eventLoopChannel: a send on
\* the closed channel panics and ends the process.
Send(e) ==
    /\ ~crashed
    /\ IF chanClosed
       THEN /\ crashed' = TRUE
            /\ UNCHANGED evq
       ELSE /\ Room
            /\ evq' = Append(evq, e)
            /\ UNCHANGED crashed

-----------------------------------------------------------------------------
(* Initial states: NewActiveDiameterPeer / NewPassiveDiameterPeer          *)

NewActiveDiameterPeer ==
    /\ status = "Connecting"
    /\ conn = "dialing"
    /\ readLoop = "none"

NewPassiveDiameterPeer ==
    /\ status = "Connected"
    /\ conn = "open"
    /\ readLoop = "running"

Init ==
    /\ IF Role = "active" THEN NewActiveDiameterPeer ELSE NewPassiveDiameterPeer
    /\ evq = <<>>
    /\ requestsMap = <<>>
    /\ outstandingDWA = 0
    /\ tickerArmed = FALSE
    /\ blocked = NoChan
    /\ cut = FALSE
    /\ toPeer = <<>>
    /\ fromPeer = <<>>
    /\ remoteBudget = RemoteBudget
    /\ req = [r \in Requesters |-> "idle"]
    /\ handlers = EmptyBag
    /\ disengaged = FALSE
    /\ ctrl = <<>>
    /\ wrote = {}
    /\ capsSeen = {}
    /\ chanClosed = FALSE
    /\ crashed = FALSE

-----------------------------------------------------------------------------
(* Helpers of the event loop                                               *)

\* The loop runs, is not stuck on a reply channel, and has an event.
LoopReady == status # "Closed" /\ blocked = NoChan /\ evq # <<>>

Head1 == Head(evq)

\* Consume the head event and queue the loop's own sends after the rest.
Consume(selfSends) == evq' = Tail(evq) \o selfSends

\* The deferred function of eventLoop closes dp.connection if the loop has
\* one (readLoop was started when it was assigned).
ClosedConn ==
    IF readLoop # "none" /\ conn \in {"open", "eof", "broken"} THEN "closed" ELSE conn

\* Mutant: the loop ends without reporting PeerDownEvent.
ExitLoopSilent ==
    /\ status' = "Closed"
    /\ ctrl' = ctrl

\* Leaving the loop: status Closed, a PeerDownEvent, the deferred close.
ExitLoop ==
    /\ status' = "Closed"
    /\ ctrl' = Append(ctrl, "PeerDown")

\* Send v on the unbuffered RChan of requester r: the rendezvous happens if
\* r still sits in its select, otherwise the loop blocks for ever.
Reply(r, v) ==
    IF req[r] = "waiting"
    THEN /\ req' = [req EXCEPT ![r] = v]
         /\ UNCHANGED blocked
    ELSE /\ blocked' = r
         /\ UNCHANGED req

Delivered(r) == req[r] = "waiting"

Insert(f, h, r) == [x \in DOMAIN f \cup {h} |-> IF x = h THEN r ELSE f[x]]

Delete(f, h) == Restrict(f, DOMAIN f \ {h})

\* Mutant: the duplicate check of the Egress case is left out.
DuplicatedHbHUnchecked(m, r) == FALSE

\* A request with an RChan whose HopByHopId is already in requestsMap.
DuplicatedHbH(m, r) == m.hbh \in DOMAIN requestsMap /\ r # NoChan

\* Mutant: the RChan != nil conjunct of the outer condition is dropped (the
\* inner check repeats it, so both go), storing base requests with no RChan.
StoresReplyAnyRequest(m, r) == IsRequest(m)

\* A request with an RChan is stored in requestsMap after the write.
StoresReply(m, r) == IsRequest(m) /\ r # NoChan

\* handleCER only accepts a CER in status Connected.
CERInStatus == status = "Connected"

\* Mutant: the Result-Code of the CEA is not checked.
CEASuccessNoResultCheck(m) == TRUE

\* The CEA is good: Origin-Host as configured and Result-Code success.
CEASuccess(m) == m.ok

\* Mutant: the threshold is one higher.
MaxOutstandingDWAOffByOne == 3

\* maxOustandingDWA of the WatchdogMsg case.
MaxOutstandingDWA == 2

\* Mutant: the commented-out "dp.status = StatusClosing" of the CER case.
RejectCERClosing ==
    /\ Consume(<<Egress(Msg("CEA", FALSE, NoHbh), NoChan), PeerClose("CERInvalid")>>)
    /\ status' = "Closing"

\* handleCER failed with sendErrorMessage: DIAMETER_UNKNOWN_PEER, then the
\* PeerCloseCommand; the status is left as it is.
RejectCER ==
    /\ Consume(<<Egress(Msg("CEA", FALSE, NoHbh), NoChan), PeerClose("CERInvalid")>>)
    /\ UNCHANGED status

\* handleCER accepted the peer: the success CEA is queued, then the case
\* sets Engaged and queues PeerUpMsg.
AcceptCER ==
    /\ Consume(<<Egress(Msg("CEA", TRUE, NoHbh), NoChan), Ev("PeerUp")>>)
    /\ status' = "Engaged"

-----------------------------------------------------------------------------
(* Event loop handlers, one per case of the select in eventLoop            *)

HandleConnectionEstablished ==
    /\ LoopReady /\ Head1.type = "ConnEstablished"
    /\ readLoop' = "running"
    /\ status' = "Connected"
    /\ Consume(<<Egress(Msg("CER", TRUE, NoHbh), NoChan)>>)
    /\ UNCHANGED <<requestsMap, outstandingDWA, tickerArmed, blocked, conn, cut,
                   toPeer, fromPeer, remoteBudget, req, handlers, disengaged,
                   ctrl, wrote, capsSeen>>

\* ConnectionErrorMsg, ReadEOFMsg and ReadErrorMsg all end the loop.
HandleConnectionDown ==
    /\ LoopReady /\ Head1.type \in {"ConnError", "ReadEOF", "ReadError"}
    /\ ExitLoop
    /\ conn' = ClosedConn
    /\ Consume(<<>>)
    /\ UNCHANGED <<requestsMap, outstandingDWA, tickerArmed, blocked, cut,
                   readLoop, toPeer, fromPeer, remoteBudget, req, handlers,
                   disengaged, wrote, capsSeen>>

\* WriteErrorMsg: status Closing and a PeerCloseCommand to the router.
HandleWriteError ==
    /\ LoopReady /\ Head1.type = "WriteError"
    /\ status' = "Closing"
    /\ ctrl' = Append(ctrl, "CloseCmd")
    /\ Consume(<<>>)
    /\ UNCHANGED <<requestsMap, outstandingDWA, tickerArmed, blocked, conn, cut,
                   readLoop, toPeer, fromPeer, remoteBudget, req, handlers,
                   disengaged, wrote, capsSeen>>

\* Mutant: the watchdog ticker is not reset to the configured interval.
HandlePeerUpNoTicker ==
    /\ LoopReady /\ Head1.type = "PeerUp"
    /\ status' = "Engaged"
    /\ ctrl' = Append(ctrl, "PeerUp")
    /\ Consume(<<>>)
    /\ UNCHANGED <<requestsMap, outstandingDWA, tickerArmed, blocked, conn, cut,
                   readLoop, toPeer, fromPeer, remoteBudget, req, handlers,
                   disengaged, wrote, capsSeen>>

HandlePeerUp ==
    /\ LoopReady /\ Head1.type = "PeerUp"
    /\ status' = "Engaged"
    /\ ctrl' = Append(ctrl, "PeerUp")
    /\ tickerArmed' = TRUE
    /\ Consume(<<>>)
    /\ UNCHANGED <<requestsMap, outstandingDWA, blocked, conn, cut, readLoop,
                   toPeer, fromPeer, remoteBudget, req, handlers, disengaged,
                   wrote, capsSeen>>

\* PeerCloseCommand: cancel the dial, close the connection, PeerDown.  The
\* outstanding requests are not drained (the TODO of the code).
HandlePeerClose ==
    /\ LoopReady /\ Head1.type = "PeerClose"
    /\ ExitLoop
    \* dp.cancel is written by the connect goroutine without synchronisation:
    \* the loop may still read nil and leave the dial running.
    /\ conn' \in IF conn = "dialing" THEN {"failed", "dialing"} ELSE {ClosedConn}
    /\ Consume(<<>>)
    /\ UNCHANGED <<requestsMap, outstandingDWA, tickerArmed, blocked, cut,
                   readLoop, toPeer, fromPeer, remoteBudget, req, handlers,
                   disengaged, wrote, capsSeen>>

\* WriteTo succeeds on an open socket, fails on a broken or closed one, and
\* may do either once the remote has closed its side.
WriteOutcomes ==
    CASE conn = "open" -> {TRUE}
      [] conn = "eof"  -> {TRUE, FALSE}
      [] OTHER         -> {FALSE}

HandleEgress ==
    /\ LoopReady /\ Head1.type = "Egress"
    /\ LET m == Head1.msg
           r == Head1.rchan
           stores == StoresReply(m, r)
       IN
       IF status \notin {"Connected", "Engaged"}
       THEN \* not sent because of the status
            /\ Consume(<<>>)
            /\ UNCHANGED <<status, requestsMap, blocked, toPeer, req, wrote>>
       ELSE IF DuplicatedHbH(m, r)
       THEN \* Duplicated HopByHopId
            /\ Reply(r, "error")
            /\ Consume(<<>>)
            /\ UNCHANGED <<status, requestsMap, toPeer, wrote>>
       ELSE
            /\ wrote' = IF m.kind \in {"CEA", "DPA"} THEN wrote \cup {m} ELSE wrote
            /\ \E ok \in WriteOutcomes :
                 IF ok
                 THEN /\ toPeer' = Append(toPeer, m)
                      /\ requestsMap' = IF stores THEN Insert(requestsMap, m.hbh, r)
                                                  ELSE requestsMap
                      /\ Consume(<<>>)
                      /\ UNCHANGED <<status, blocked, req>>
                 ELSE \* WriteErrorMsg to itself, then the error on RChan,
                      \* then (no break) the entry is stored anyway
                      /\ status' = "Closing"
                      /\ Consume(<<Ev("WriteError")>>)
                      /\ UNCHANGED toPeer
                      /\ IF stores
                         THEN /\ Reply(r, "error")
                              /\ requestsMap' = IF Delivered(r)
                                                THEN Insert(requestsMap, m.hbh, r)
                                                ELSE requestsMap
                         ELSE UNCHANGED <<blocked, req, requestsMap>>
    /\ UNCHANGED <<outstandingDWA, tickerArmed, conn, cut, readLoop, fromPeer,
                   remoteBudget, handlers, disengaged, ctrl, capsSeen>>

\* Ingress of a non-base request: the handler runs on its own goroutine.
HandleIngressAppRequest ==
    /\ LoopReady /\ Head1.type = "Ingress" /\ Head1.msg.kind = "AppReq"
    /\ handlers' = BagAdd(handlers, Head1.msg.hbh)
    /\ Consume(<<>>)
    /\ UNCHANGED <<status, requestsMap, outstandingDWA, tickerArmed, blocked,
                   conn, cut, readLoop, toPeer, fromPeer, remoteBudget, req,
                   disengaged, ctrl, wrote, capsSeen>>

\* Ingress CER, with handleCER inlined: a CER outside Connected is refused
\* without answer; a valid one is answered with success and engages the
\* peer at once; an invalid one gets DIAMETER_UNKNOWN_PEER and a close.
HandleIngressCER ==
    /\ LoopReady /\ Head1.type = "Ingress" /\ Head1.msg.kind = "CER"
    /\ capsSeen' = capsSeen \cup {Head1.msg}
    /\ IF ~CERInStatus
       THEN /\ Consume(<<PeerClose("CERState")>>)
            /\ UNCHANGED status
       ELSE IF Head1.msg.ok
       THEN AcceptCER
       ELSE RejectCER
    /\ UNCHANGED <<requestsMap, outstandingDWA, tickerArmed, blocked, conn, cut,
                   readLoop, toPeer, fromPeer, remoteBudget, req, handlers,
                   disengaged, ctrl, wrote>>

HandleIngressDWR ==
    /\ LoopReady /\ Head1.type = "Ingress" /\ Head1.msg.kind = "DWR"
    /\ Consume(<<Egress(Msg("DWA", TRUE, NoHbh), NoChan)>>)
    /\ UNCHANGED <<status, requestsMap, outstandingDWA, tickerArmed, blocked,
                   conn, cut, readLoop, toPeer, fromPeer, remoteBudget, req,
                   handlers, disengaged, ctrl, wrote, capsSeen>>

\* DPR: the DPA and the close are queued, then the status becomes Closing.
HandleIngressDPR ==
    /\ LoopReady /\ Head1.type = "Ingress" /\ Head1.msg.kind = "DPR"
    /\ Consume(<<Egress(Msg("DPA", TRUE, NoHbh), NoChan), PeerClose("DPR")>>)
    /\ status' = "Closing"
    /\ UNCHANGED <<requestsMap, outstandingDWA, tickerArmed, blocked, conn, cut,
                   readLoop, toPeer, fromPeer, remoteBudget, req, handlers,
                   disengaged, ctrl, wrote, capsSeen>>

\* CEA: success (with the expected Origin-Host) queues PeerUpMsg whatever
\* the status; anything else closes.
HandleIngressCEA ==
    /\ LoopReady /\ Head1.type = "Ingress" /\ Head1.msg.kind = "CEA"
    /\ capsSeen' = capsSeen \cup {Head1.msg}
    /\ IF CEASuccess(Head1.msg)
       THEN /\ Consume(<<Ev("PeerUp")>>)
            /\ UNCHANGED status
       ELSE /\ status' = "Closing"
            /\ Consume(<<PeerClose("CEA")>>)
    /\ UNCHANGED <<requestsMap, outstandingDWA, tickerArmed, blocked, conn, cut,
                   readLoop, toPeer, fromPeer, remoteBudget, req, handlers,
                   disengaged, ctrl, wrote>>

HandleIngressDWA ==
    /\ LoopReady /\ Head1.type = "Ingress" /\ Head1.msg.kind = "DWA"
    /\ IF Head1.msg.ok
       THEN /\ outstandingDWA' = outstandingDWA - 1
            /\ Consume(<<>>)
            /\ UNCHANGED status
       ELSE /\ Consume(<<PeerClose("DWA")>>)
            /\ status' = "Closing"
            /\ UNCHANGED outstandingDWA
    /\ UNCHANGED <<requestsMap, tickerArmed, blocked, conn, cut, readLoop,
                   toPeer, fromPeer, remoteBudget, req, handlers, disengaged,
                   ctrl, wrote, capsSeen>>

\* Non-base answer: a stalled answer is discarded; otherwise it is sent on
\* the request's RChan, which is then closed and the entry deleted.
HandleIngressAppAnswer ==
    /\ LoopReady /\ Head1.type = "Ingress" /\ Head1.msg.kind = "AppAns"
    /\ LET h == Head1.msg.hbh IN
       IF h \notin DOMAIN requestsMap
       THEN UNCHANGED <<requestsMap, blocked, req>>
       ELSE /\ Reply(requestsMap[h], "answered")
            /\ requestsMap' = IF Delivered(requestsMap[h]) THEN Delete(requestsMap, h)
                                                         ELSE requestsMap
    /\ Consume(<<>>)
    /\ UNCHANGED <<status, outstandingDWA, tickerArmed, conn, cut, readLoop,
                   toPeer, fromPeer, remoteBudget, handlers, disengaged, ctrl,
                   wrote, capsSeen>>

\* CancelDiameterRequest: close the RChan and delete the entry.  A caller
\* still waiting on a closed RChan receives nil (and panics in the code).
HandleCancel ==
    /\ LoopReady /\ Head1.type = "Cancel"
    /\ LET h == Head1.hbh IN
       IF h \notin DOMAIN requestsMap
       THEN UNCHANGED <<requestsMap, req>>
       ELSE /\ requestsMap' = Delete(requestsMap, h)
            /\ req' = IF req[requestsMap[h]] = "waiting"
                      THEN [req EXCEPT ![requestsMap[h]] = "nilreply"]
                      ELSE req
    /\ Consume(<<>>)
    /\ UNCHANGED <<status, outstandingDWA, tickerArmed, blocked, conn, cut,
                   readLoop, toPeer, fromPeer, remoteBudget, handlers,
                   disengaged, ctrl, wrote, capsSeen>>

\* WatchdogMsg: with more than maxOustandingDWA (2) unanswered, queue a
\* close; in every case queue a DWR and count it.
HandleWatchdog ==
    /\ LoopReady /\ Head1.type = "Watchdog"
    /\ Consume(IF outstandingDWA > MaxOutstandingDWA
               THEN <<PeerClose("Watchdog"), Egress(Msg("DWR", TRUE, NoHbh), NoChan)>>
               ELSE <<Egress(Msg("DWR", TRUE, NoHbh), NoChan)>>)
    /\ outstandingDWA' = outstandingDWA + 1
    /\ UNCHANGED <<status, requestsMap, tickerArmed, blocked, conn, cut,
                   readLoop, toPeer, fromPeer, remoteBudget, req, handlers,
                   disengaged, ctrl, wrote, capsSeen>>

\* The ticker case of the select: a tick while Engaged queues a WatchdogMsg.
Tick ==
    /\ status = "Engaged" /\ tickerArmed /\ blocked = NoChan
    /\ Room /\ outstandingDWA < DWRBound
    /\ evq' = Append(evq, Ev("Watchdog"))
    /\ UNCHANGED <<status, requestsMap, outstandingDWA, tickerArmed, blocked,
                   conn, cut, readLoop, toPeer, fromPeer, remoteBudget, req,
                   handlers, disengaged, ctrl, wrote, capsSeen, chanClosed, crashed>>

EventLoop ==
  /\ UNCHANGED <<chanClosed, crashed>>
  /\ \/ HandleConnectionEstablished
     \/ HandleConnectionDown
     \/ HandleWriteError
     \/ HandlePeerUp
     \/ HandlePeerClose
     \/ HandleEgress
     \/ HandleIngressAppRequest
     \/ HandleIngressCER
     \/ HandleIngressDWR
     \/ HandleIngressDPR
     \/ HandleIngressCEA
     \/ HandleIngressDWA
     \/ HandleIngressAppAnswer
     \/ HandleCancel
     \/ HandleWatchdog

-----------------------------------------------------------------------------
(* The other goroutines of the process                                     *)

\* connect: DialContext returns a connection or an error.
Connect ==
    /\ conn = "dialing"
    /\ \/ /\ conn' = "open"
          /\ Send(Ev("ConnEstablished"))
       \/ /\ conn' = "failed"
          /\ Send(Ev("ConnError"))
    /\ UNCHANGED <<status, requestsMap, outstandingDWA, tickerArmed, blocked,
                   cut, readLoop, toPeer, fromPeer, remoteBudget, req,
                   handlers, disengaged, ctrl, wrote, capsSeen, chanClosed>>

\* readLoop: forward each message read from the connection.
ReadMessage ==
    /\ readLoop = "running"
    /\ conn \in {"open", "eof"} /\ fromPeer # <<>>
    /\ Send(Ingress(Head(fromPeer)))
    /\ fromPeer' = Tail(fromPeer)
    /\ UNCHANGED <<status, requestsMap, outstandingDWA, tickerArmed, blocked,
                   conn, cut, readLoop, toPeer, remoteBudget, req, handlers,
                   disengaged, ctrl, wrote, capsSeen, chanClosed>>

\* readLoop: EOF or a read error ends it.
ReadEnd ==
    /\ readLoop = "running"
    /\ \/ /\ conn = "eof" /\ fromPeer = <<>>
          /\ Send(Ev("ReadEOF"))
       \/ /\ conn \in {"broken", "closed"}
          /\ Send(Ev("ReadError"))
    /\ readLoop' = "exited"
    /\ UNCHANGED <<status, requestsMap, outstandingDWA, tickerArmed, blocked,
                   conn, cut, toPeer, fromPeer, remoteBudget, req, handlers,
                   disengaged, ctrl, wrote, capsSeen, chanClosed>>

\* DiameterRequest: the unsynchronised read of dp.status; a caller that
\* finds the peer not Engaged returns an error and is not modelled further.
CheckStatus(r) ==
    /\ ~crashed /\ req[r] = "idle" /\ status = "Engaged"
    /\ req' = [req EXCEPT ![r] = "checked"]
    /\ UNCHANGED <<status, evq, requestsMap, outstandingDWA, tickerArmed, blocked,
                   conn, cut, readLoop, toPeer, fromPeer, remoteBudget,
                   handlers, disengaged, ctrl, wrote, capsSeen, chanClosed, crashed>>

\* DiameterRequest: wg.Add(1), then the EgressDiameterMessage.
SendRequest(r) ==
    /\ req[r] = "checked"
    /\ Send(Egress(Msg("AppReq", TRUE, ReqHbh[r]), r))
    /\ req' = [req EXCEPT ![r] = "waiting"]
    /\ UNCHANGED <<status, requestsMap, outstandingDWA, tickerArmed, blocked,
                   conn, cut, readLoop, toPeer, fromPeer, remoteBudget,
                   handlers, disengaged, ctrl, wrote, capsSeen, chanClosed>>

\* DiameterRequest: the timer fires first; CancelDiameterRequest is sent.
RequestTimeout(r) ==
    /\ req[r] = "waiting"
    /\ Send(Cancel(ReqHbh[r]))
    /\ req' = [req EXCEPT ![r] = "timeout"]
    /\ UNCHANGED <<status, requestsMap, outstandingDWA, tickerArmed, blocked,
                   conn, cut, readLoop, toPeer, fromPeer, remoteBudget,
                   handlers, disengaged, ctrl, wrote, capsSeen, chanClosed>>

\* A handler goroutine returns an answer (sent as Egress) or an error (no
\* answer at all).
HandlerDone ==
    /\ \E h \in BagToSet(handlers) :
         /\ handlers' = BagRemove(handlers, h)
         /\ \/ Send(Egress(Msg("AppAns", TRUE, h), NoChan))
            \/ ~crashed /\ UNCHANGED <<evq, crashed>>
    /\ UNCHANGED <<status, requestsMap, outstandingDWA, tickerArmed, blocked,
                   conn, cut, readLoop, toPeer, fromPeer, remoteBudget, req,
                   disengaged, ctrl, wrote, capsSeen, chanClosed>>

\* The router calls Disengage (before it can have closed the peer).
Disengage ==
    /\ ~disengaged /\ ~chanClosed
    /\ Send(PeerClose("Router"))
    /\ disengaged' = TRUE
    /\ UNCHANGED <<status, requestsMap, outstandingDWA, tickerArmed, blocked,
                   conn, cut, readLoop, toPeer, fromPeer, remoteBudget, req,
                   handlers, ctrl, wrote, capsSeen, chanClosed>>

\* dp.wg: held by the connect goroutine (wg.Add before it is started), by
\* each DiameterRequest caller from its wg.Add to its return, and by each
\* handler goroutine.  The readLoop does not take it.
WaitGroupCount ==
    (IF conn = "dialing" THEN 1 ELSE 0)
    + Cardinality({r \in Requesters : req[r] = "waiting"})
    + BagCardinality(handlers)

\* The router calls DiameterPeer.Close once it has received PeerDownEvent:
\* wg.Wait() returns when the count is zero, then eventLoopChannel is closed.
Close ==
    /\ ~crashed /\ ~chanClosed
    /\ "PeerDown" \in Range(ctrl)
    /\ WaitGroupCount = 0
    /\ chanClosed' = TRUE
    /\ UNCHANGED <<status, evq, requestsMap, outstandingDWA, tickerArmed, blocked,
                   conn, cut, readLoop, toPeer, fromPeer, remoteBudget, req,
                   handlers, disengaged, ctrl, wrote, capsSeen, crashed>>

-----------------------------------------------------------------------------
(* The remote Diameter node and the network                                *)

RemoteUp == conn = "open" /\ ~cut

\* The remote reads our next message and answers it, or leaves it
\* unanswered (a stalled request).
Answers(m) ==
    CASE m.kind = "CER"    -> {<<Msg("CEA", ok, NoHbh)>> : ok \in BOOLEAN}
      [] m.kind = "DWR"    -> {<<Msg("DWA", ok, NoHbh)>> : ok \in BOOLEAN}
      [] m.kind = "AppReq" -> {<<Msg("AppAns", TRUE, m.hbh)>>, <<>>}
      [] OTHER             -> {<<>>}

RemoteReceive ==
    /\ RemoteUp /\ toPeer # <<>>
    /\ toPeer' = Tail(toPeer)
    /\ \E a \in Answers(Head(toPeer)) : fromPeer' = fromPeer \o a
    /\ UNCHANGED <<status, evq, requestsMap, outstandingDWA, tickerArmed,
                   blocked, conn, cut, readLoop, remoteBudget, req, handlers,
                   disengaged, ctrl, wrote, capsSeen>>
    /\ UNCHANGED <<chanClosed, crashed>>

RemoteSend ==
    /\ RemoteUp /\ remoteBudget > 0
    /\ \E m \in RemoteRequests : fromPeer' = Append(fromPeer, m)
    /\ remoteBudget' = remoteBudget - 1
    /\ UNCHANGED <<status, evq, requestsMap, outstandingDWA, tickerArmed,
                   blocked, conn, cut, readLoop, toPeer, req, handlers,
                   disengaged, ctrl, wrote, capsSeen>>
    /\ UNCHANGED <<chanClosed, crashed>>

\* The remote closes its side (readLoop will see EOF after the data).
RemoteClose ==
    /\ "eof" \in NetFaults /\ RemoteUp
    /\ conn' = "eof"
    /\ UNCHANGED <<status, evq, requestsMap, outstandingDWA, tickerArmed,
                   blocked, cut, readLoop, toPeer, fromPeer, remoteBudget, req,
                   handlers, disengaged, ctrl, wrote, capsSeen>>
    /\ UNCHANGED <<chanClosed, crashed>>

\* The connection breaks: reads and writes fail from now on.
ConnectionBreak ==
    /\ "broken" \in NetFaults /\ conn \in {"open", "eof"}
    /\ conn' = "broken"
    /\ UNCHANGED <<status, evq, requestsMap, outstandingDWA, tickerArmed,
                   blocked, cut, readLoop, toPeer, fromPeer, remoteBudget, req,
                   handlers, disengaged, ctrl, wrote, capsSeen>>
    /\ UNCHANGED <<chanClosed, crashed>>

\* The network is cut: nothing more reaches either side, no error is seen.
NetworkCut ==
    /\ "cut" \in NetFaults /\ ~cut /\ conn = "open"
    /\ cut' = TRUE
    /\ UNCHANGED <<status, evq, requestsMap, outstandingDWA, tickerArmed,
                   blocked, conn, readLoop, toPeer, fromPeer, remoteBudget, req,
                   handlers, disengaged, ctrl, wrote, capsSeen>>
    /\ UNCHANGED <<chanClosed, crashed>>

-----------------------------------------------------------------------------

Next ==
    \/ EventLoop
    \/ Tick
    \/ Connect
    \/ ReadMessage
    \/ ReadEnd
    \/ \E r \in Requesters : CheckStatus(r) \/ SendRequest(r) \/ RequestTimeout(r)
    \/ HandlerDone
    \/ Disengage
    \/ Close
    \/ RemoteReceive
    \/ RemoteSend
    \/ RemoteClose
    \/ ConnectionBreak
    \/ NetworkCut

Spec == Init /\ [][Next]_vars

\* The process's own goroutines are scheduled fairly: the event loop, the
\* ticker, the connect and read goroutines and the handlers.  The remote
\* node, the network, callers and the router are not.
Fairness ==
    /\ WF_vars(EventLoop)
    /\ WF_vars(Tick)
    /\ WF_vars(Connect)
    /\ WF_vars(ReadMessage)
    /\ WF_vars(ReadEnd)
    /\ WF_vars(HandlerDone)

FairSpec == Spec /\ Fairness

-----------------------------------------------------------------------------
(* Properties                                                              *)

TypeOK ==
    /\ status \in Statuses
    /\ evq \in Seq(Events)
    /\ DOMAIN requestsMap \subseteq HbH
    /\ \A h \in DOMAIN requestsMap : requestsMap[h] \in Requesters
    /\ outstandingDWA \in Int
    /\ tickerArmed \in BOOLEAN
    /\ blocked \in Requesters \cup {NoChan}
    /\ conn \in {"dialing", "failed", "open", "eof", "broken", "closed"}
    /\ cut \in BOOLEAN
    /\ readLoop \in {"none", "running", "exited"}
    /\ toPeer \in Seq(Messages)
    /\ fromPeer \in Seq(Messages)
    /\ remoteBudget \in 0..RemoteBudget
    /\ req \in [Requesters -> ReqStates]
    /\ IsABag(handlers) /\ BagToSet(handlers) \subseteq HbH
    /\ disengaged \in BOOLEAN
    /\ ctrl \in Seq(CtrlEvents)
    /\ wrote \subseteq Messages
    /\ capsSeen \subseteq Messages
    /\ chanClosed \in BOOLEAN
    /\ crashed \in BOOLEAN

\* The peer is Engaged (eligible for routing) only after it has processed a
\* successful capabilities exchange: a good CEA (active) or a CER that
\* handleCER accepted (passive).
EngagedOnlyAfterHandshake ==
    status = "Engaged" => \E m \in capsSeen : m.ok

\* The device watchdog escalates: the WatchdogMsg handler never lets more
\* than three DWRs be unanswered without a PeerCloseCommand being queued
\* (or the loop having ended).
WatchdogClosesInTime ==
    outstandingDWA > 3 =>
        \/ status = "Closed"
        \/ \E i \in 1..Len(evq) : evq[i] = PeerClose("Watchdog")

\* handleCER answers an unacceptable CER with DIAMETER_UNKNOWN_PEER before
\* closing: when the PeerCloseCommand it queued is next, the error CEA has
\* been handed to WriteTo.
CERRejectionAnswered ==
    (status # "Closed" /\ evq # <<>> /\ Head(evq) = PeerClose("CERInvalid"))
        => Msg("CEA", FALSE, NoHbh) \in wrote

\* A DiameterRequest caller that is still waiting is owed an answer or an
\* error by the event loop: its EgressDiameterMessage is still queued, or
\* requestsMap holds its HopByHopId for it, or the peer is shutting down
\* (a closing loop drops the Egress and the caller's timer must fire).
WaitingRequestTracked ==
    \A r \in Requesters :
        req[r] = "waiting" =>
            \/ \E i \in 1..Len(evq) : evq[i].type = "Egress" /\ evq[i].rchan = r
            \/ ReqHbh[r] \in DOMAIN requestsMap /\ requestsMap[ReqHbh[r]] = r
            \/ status \in {"Closing", "Closed"}

\* The event loop never blocks sending on an RChan whose DiameterRequest
\* caller has already returned (spec 4.D: pending entries are single-shot,
\* "the answer arrives first or the cancel removes the entry").
NoOrphanedReplySend ==
    blocked = NoChan

\* A DiameterRequest caller never receives from a response channel that the
\* CancelDiameterRequest case has closed under it: that receive yields nil
\* and the caller reaches panic("unreachable code") after its select.
NoUnreachablePanic ==
    \A r \in Requesters : req[r] # "nilreply"

\* DiameterPeer.Close, called as its comment asks only after PeerDownEvent,
\* closes eventLoopChannel when no goroutine can send on it any more (the
\* comments on readLoopChannel, wg and DiameterRequest's wg.Add): no send
\* on the closed channel ever panics the process.
NoSendOnClosedChannel == ~crashed

\* Once the loop has ended, no established TCP connection is left open
\* (spec 5: every acquired socket is released on every exit path).  A dial
\* still in progress is no leak: it may yet fail.
ConnectionReleased ==
    status = "Closed" => conn \notin {"open", "eof", "broken"}

\* The lifecycle events of ControlChannel (the PeerCloseCommand of a write
\* error asks the router to close and is no lifecycle event).
Reported == SelectSeq(ctrl, LAMBDA e : e # "CloseCmd")

Lifecycle == INSTANCE PeerLifecycle WITH lifecycle <- status, reported <- Reported

\* The peer implements the lifecycle it promises the router (spec 4.D and
\* 8 (i), (ii)): eventLoop only moves dp.status forward, PeerUpEvent is sent
\* at most once and only as the peer becomes or is Engaged, and
\* PeerDownEvent is sent exactly when the loop ends with status Closed.
LifecycleRefined == Lifecycle!Spec

\* A peer that is Engaged when the network is cut notices it through the
\* unanswered DWRs and eventually closes (spec 8, scenario 3).
WatchdogDetectsCut ==
    (cut /\ status = "Engaged") ~> (status = "Closed")

=============================================================================
