--------------------------- MODULE MCWalletStorage ---------------------------
(***************************************************************************)
(* Two dApps with a permission for the same account, a second account, and *)
(* three calls, of which any two overlap in every way.                     *)
(***************************************************************************)
EXTENDS WalletStorage, TLC

CONSTANTS d1, d2, a1, a2, c1, c2, c3

MCDApps == {d1, d2}
MCAccounts == {a1, a2}
MCCalls == {c1, c2, c3}
MCEarlier == {[account |-> a1, dApp |-> d1], [account |-> a1, dApp |-> d2]}

\* The calls are begun in any order, and the dApps start alike.
MCSymmetry == Permutations(MCCalls) \cup Permutations(MCDApps)

=============================================================================
