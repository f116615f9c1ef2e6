---------------------------- MODULE PeerLifecycle ----------------------------
(***************************************************************************)
(* What a Diameter peer promises its router (spec 4.D state machine and    *)
(* 8, peer state-machine invariants (i) and (ii)): the status only moves   *)
(* forward through Connecting, Connected, Engaged, Closing and Closed;     *)
(* PeerUp is reported at most once and only while Engaged; PeerDown is     *)
(* reported exactly when the peer becomes Closed, which is terminal.       *)
(*                                                                         *)
(* lifecycle is the peer status, reported the PeerUp/PeerDown events sent  *)
(* on the control channel, in order.                                       *)
(***************************************************************************)
EXTENDS Naturals, Sequences

VARIABLES lifecycle, reported

Phases == {"Connecting", "Connected", "Engaged", "Closing", "Closed"}

InitPhases == {"Connecting", "Connected"}

Init ==
    /\ lifecycle \in InitPhases
    /\ reported = <<>>

\* A status change from a to b with nothing reported.
Trans(a, b) ==
    /\ lifecycle = a
    /\ lifecycle' = b
    /\ UNCHANGED reported

\* The connection is up (active peer).
Establish == Trans("Connecting", "Connected")

\* The capabilities exchange completed.
Engage == Trans("Connected", "Engaged")

\* PeerUp is reported once, while Engaged or on becoming Engaged.
ReportUp ==
    /\ lifecycle \in {"Connected", "Engaged"}
    /\ \A i \in 1..Len(reported) : reported[i] # "PeerUp"
    /\ lifecycle' = "Engaged"
    /\ reported' = Append(reported, "PeerUp")

\* A protocol violation, a failed write or a DPR starts the close.
InitiateClose ==
    /\ lifecycle \in {"Connected", "Engaged"}
    /\ lifecycle' = "Closing"
    /\ UNCHANGED reported

\* The peer ends, from any status, reporting PeerDown.
Close ==
    /\ lifecycle # "Closed"
    /\ lifecycle' = "Closed"
    /\ reported' = Append(reported, "PeerDown")

Next == Establish \/ Engage \/ ReportUp \/ InitiateClose \/ Close

Spec == Init /\ [][Next]_<<lifecycle, reported>>

=============================================================================
