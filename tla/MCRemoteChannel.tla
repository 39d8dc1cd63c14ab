-------------------------- MODULE MCRemoteChannel ---------------------------
(***************************************************************************)
(* Instances of RemoteChannel for TLC.                                     *)
(***************************************************************************)
EXTENDS RemoteChannel, TLC

CONSTANTS d1, a1, p1

\* Two messages on the accepted channel, one on the dialed one.
TwoAndOne == a1 :> {2, 4} @@ d1 :> {2}
=============================================================================
