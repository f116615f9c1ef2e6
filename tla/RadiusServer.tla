---------------------------- MODULE RadiusServer ----------------------------
(***************************************************************************)
(* The RADIUS server socket of src/unnamed/part_006 (package radiusserver): *)
(* NewRadiusServer, the readLoop goroutine, one goroutine per accepted     *)
(* packet, and Close with its atomic status.                               *)
(*                                                                         *)
(* A datagram is abstracted to its sender, whether it decodes with the     *)
(* client's secret, whether it is an Access-Request and whether its        *)
(* request authenticator is valid.  The handler's answer and its           *)
(* serialisation are an outcome: a response to write, or an error.         *)
(***************************************************************************)
EXTENDS Naturals, Sequences

CONSTANTS
    Datagrams,      \* datagrams clients may send
    KnownClients,   \* senders found by FindRadiusClient
    MaxDatagrams,   \* bound: datagrams sent by clients
    NetFaults       \* subset of {"lost", "duplicated"}: what UDP may do

StatusOperational == 0
StatusTerminated == 1

VARIABLES
    status,         \* rs.status
    socket,         \* the UDP socket: open or closed
    inbox,          \* datagrams received by the socket, not yet read
    sent,           \* datagrams sent by clients so far
    loop,           \* readLoop: reading, returned, or panicked
    closer,         \* the goroutine calling Close: idle, storing, closing, returned
    goroutines      \* handler goroutines in order of creation: [dg, pc]

vars == <<status, socket, inbox, sent, loop, closer, goroutines>>

-----------------------------------------------------------------------------

\* NewRadiusServer: the socket is listening and readLoop is started.
NewRadiusServer ==
    /\ status = StatusOperational
    /\ socket = "open"
    /\ loop = "reading"
    /\ closer = "idle"
    /\ goroutines = <<>>

Init ==
    /\ NewRadiusServer
    /\ inbox = <<>>
    /\ sent = 0

\* A request other than Access-Request must carry a valid authenticator.
ValidRequestAuthenticator(d) == d.code = "AccessRequest" \/ d.authOk

\* The checks of an iteration of readLoop after ReadFrom: a known client,
\* a packet that decodes, and for non Access-Requests a valid authenticator.
Accepted(d) ==
    /\ d.client \in KnownClients
    /\ d.decodes
    /\ ValidRequestAuthenticator(d)

\* Mutant: Close closes the socket before it stores the status.
CloseSwapped ==
    \/ /\ closer = "idle"
       /\ socket' = "closed"
       /\ closer' = "storing"
       /\ UNCHANGED status
    \/ /\ closer = "storing"
       /\ status' = StatusTerminated
       /\ closer' = "returned"
       /\ UNCHANGED socket

\* Close: atomic.StoreInt32 of StatusTerminated, then socket.Close.
Close ==
    \/ /\ closer = "idle"
       /\ status' = StatusTerminated
       /\ closer' = "closing"
       /\ UNCHANGED socket
    \/ /\ closer = "closing"
       /\ socket' = "closed"
       /\ closer' = "returned"
       /\ UNCHANGED status

CloseStep ==
    /\ Close
    /\ UNCHANGED <<inbox, sent, loop, goroutines>>

\* Mutant: every read error is taken as transient and the loop goes on.
ReadErrorRetried ==
    /\ loop = "reading" /\ socket = "closed"
    /\ UNCHANGED <<status, socket, inbox, sent, loop, closer, goroutines>>

\* ReadFrom on the closed socket fails: readLoop returns if the status says
\* the server was closed, and panics otherwise.
ReadError ==
    /\ loop = "reading" /\ socket = "closed"
    /\ loop' = IF status = StatusTerminated THEN "returned" ELSE "panicked"
    /\ UNCHANGED <<status, socket, inbox, sent, closer, goroutines>>

\* One iteration of readLoop on a datagram: dropped by the checks, or
\* handed to a new goroutine.
ReadPacket ==
    /\ loop = "reading" /\ socket = "open" /\ inbox # <<>>
    /\ inbox' = Tail(inbox)
    /\ goroutines' = IF Accepted(Head(inbox))
                     THEN Append(goroutines, [dg |-> Head(inbox), pc |-> "handle"])
                     ELSE goroutines
    /\ UNCHANGED <<status, socket, sent, loop, closer>>

SetPc(i, p) == goroutines' = [goroutines EXCEPT ![i].pc = p]

\* The handler and response.ToBytes: a response to write, or an error and
\* the packet is discarded.
Handle(i) ==
    /\ goroutines[i].pc = "handle"
    /\ \/ SetPc(i, "write")
       \/ SetPc(i, "dropped")
    /\ UNCHANGED <<status, socket, inbox, sent, loop, closer>>

\* socket.WriteTo the sender: fails once the socket is closed.
WriteResponse(i) ==
    /\ goroutines[i].pc = "write"
    /\ SetPc(i, IF socket = "open" THEN "done" ELSE "dropped")
    /\ UNCHANGED <<status, socket, inbox, sent, loop, closer>>

\* A client sends a datagram; UDP may lose or duplicate it.
ClientSend ==
    /\ sent < MaxDatagrams
    /\ sent' = sent + 1
    /\ \E d \in Datagrams :
         \/ inbox' = Append(inbox, d)
         \/ "lost" \in NetFaults /\ UNCHANGED inbox
         \/ "duplicated" \in NetFaults /\ inbox' = inbox \o <<d, d>>
    /\ UNCHANGED <<status, socket, loop, closer, goroutines>>

ReadLoop == ReadError \/ ReadPacket

Goroutine(i) == Handle(i) \/ WriteResponse(i)

Next ==
    \/ ReadLoop
    \/ \E i \in DOMAIN goroutines : Goroutine(i)
    \/ CloseStep
    \/ ClientSend

Spec == Init /\ [][Next]_vars

\* readLoop, the handler goroutines and a Close under way run: they are
\* goroutines of the process.  Clients, and whether Close is called at all,
\* get no fairness.
FairSpec ==
    /\ Spec
    /\ WF_vars(ReadLoop)
    /\ \A i \in 1..MaxDatagrams * 2 : WF_vars(i \in DOMAIN goroutines /\ Goroutine(i))
    /\ WF_vars(closer # "idle" /\ CloseStep)

-----------------------------------------------------------------------------
(* Properties                                                              *)

\* Closing the server never panics it: whenever Close and readLoop
\* interleave, the read error that socket.Close causes is recognised by the
\* status as a graceful close.
NoPanicOnClose == loop # "panicked"

\* Once Close has returned, readLoop eventually returns (its goroutine and
\* the socket are released) and every handler goroutine ends.
CloseStopsServer ==
    closer = "returned" ~>
        /\ loop = "returned"
        /\ \A i \in DOMAIN goroutines : goroutines[i].pc \in {"done", "dropped"}

=============================================================================
