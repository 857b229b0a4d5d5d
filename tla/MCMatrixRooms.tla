--------------------------- MODULE MCMatrixRooms ---------------------------
(***************************************************************************)
(* Instances of MatrixRooms for TLC.                                       *)
(***************************************************************************)
EXTENDS MatrixRooms, TLC

CONSTANTS d, w, s1, s2, m1, m2

\* A request of the dApp and an answer of the wallet.
FromBoth == m1 :> d @@ m2 :> w

\* The two clients begin at two servers.
TwoHomes == d :> s1 @@ w :> s2

=============================================================================
