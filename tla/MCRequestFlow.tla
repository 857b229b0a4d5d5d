--------------------------- MODULE MCRequestFlow ---------------------------
(***************************************************************************)
(* Instances of RequestFlow for TLC.                                       *)
(***************************************************************************)
EXTENDS RequestFlow, TLC

CONSTANTS d1, d2, r1, r2

\* One dApp: a permission request and an operation.
SenderOne == r1 :> d1 @@ r2 :> d1
KindOne == r1 :> "permission" @@ r2 :> "operation"
VersionTwo == r1 :> "2" @@ r2 :> "2"
VersionThree == r1 :> "3" @@ r2 :> "3"

\* Two dApps that ask for permission.
SenderTwo == r1 :> d1 @@ r2 :> d2
KindTwo == r1 :> "permission" @@ r2 :> "permission"
VersionMixed == r1 :> "2" @@ r2 :> "3"

=============================================================================
