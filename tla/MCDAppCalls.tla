---------------------------- MODULE MCDAppCalls ----------------------------
(***************************************************************************)
(* Instances of DAppCalls for TLC.                                         *)
(***************************************************************************)
EXTENDS DAppCalls, TLC

CONSTANTS alice

\* The account may be asked for operations, not to sign.
MCScopesOf == alice :> {"operation"}

\* Every method is called, first or second.
MCPrograms == {<<"permission", "operation">>, <<"challenge", "chain">>,
               <<"sign", "broadcast">>, <<"simulated", "chainpermission">>}

=============================================================================
