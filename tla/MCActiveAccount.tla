-------------------------- MODULE MCActiveAccount --------------------------
(***************************************************************************)
(* Instances of ActiveAccount for TLC.                                     *)
(***************************************************************************)
EXTENDS ActiveAccount, TLC

CONSTANTS a1, a2, w1, w2

\* Two accounts, each of a wallet of its own.
PeerOfTwo == a1 :> w1 @@ a2 :> w2

=============================================================================
