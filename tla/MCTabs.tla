------------------------------- MODULE MCTabs -------------------------------
(***************************************************************************)
(* Instances of Tabs for TLC.                                              *)
(***************************************************************************)
EXTENDS Tabs, TLC

\* Pages and calls are interchangeable, for safety properties.
MCSymmetry == Permutations(Tabs) \cup Permutations(Requests)

=============================================================================
