---------------------------- MODULE MC_DiamPeer ----------------------------
(***************************************************************************)
(* Instantiation of DiamPeer for TLC: two DiameterRequest callers, two     *)
(* hop-by-hop ids, and the repertoires of unprompted messages the remote   *)
(* node may send in each run.                                              *)
(***************************************************************************)
EXTENDS DiamPeer

CONSTANTS r1, r2, h1, h2

MCRequesters == {r1, r2}
MCOneRequester == {r1}
MCNoRequesters == {}

MCHbH == {h1, h2}

\* Each caller builds its request with its own HopByHopId.
MCReqHbh == [r \in MCRequesters |-> IF r = r1 THEN h1 ELSE h2]
\* Both callers reuse one HopByHopId.
MCSharedReqHbh == [r \in MCRequesters |-> h1]
MCOneReqHbh == [r \in MCOneRequester |-> h1]
MCNoReqHbh == [r \in MCNoRequesters |-> h1]

\* Active peer: the remote sends watchdogs, a disconnect and an
\* application request of its own.
ActiveRemote ==
    {Msg("DWR", TRUE, NoHbh), Msg("DPR", TRUE, NoHbh)}

\* Passive peer: the remote opens with a CER, acceptable or not, and may
\* repeat it, send a watchdog, a DWA nobody asked for (a duplicate answer)
\* or an application request.
PassiveRemote ==
    {Msg("CER", TRUE, NoHbh), Msg("CER", FALSE, NoHbh), Msg("DWR", TRUE, NoHbh),
     Msg("DWA", TRUE, NoHbh), Msg("AppReq", TRUE, h1)}

\* Active peer whose remote also sends its own CER, or disconnects.
ClosingRemote == {Msg("CER", TRUE, NoHbh), Msg("DPR", TRUE, NoHbh)}

NoRemote == {}

=============================================================================
