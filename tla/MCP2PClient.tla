---------------------------- MODULE MCP2PClient ----------------------------
(***************************************************************************)
(* Instances of P2PClient for TLC.                                         *)
(***************************************************************************)
EXTENDS P2PClient, TLC

CONSTANTS p, q, m1, m2, m3

\* Two messages of a peer that is known and one of a peer to be added.
FromTwo == m1 :> p @@ m2 :> q @@ m3 :> p

=============================================================================
