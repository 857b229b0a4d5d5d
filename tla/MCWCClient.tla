----------------------------- MODULE MCWCClient -----------------------------
(***************************************************************************)
(* Instances of WCClient for TLC.                                          *)
(***************************************************************************)
EXTENDS WCClient, TLC

CONSTANTS r1, r2, r3, s1, s2

\* An operation, a permission request and a message without a handler.
TypeAll == r1 :> "operation" @@ r2 :> "permission" @@ r3 :> "other"

\* Two sessions of different wallets, each with its account: the session stands
\* for its wallet and its account, too, so the two may be exchanged.
ControllerOwn == [s \in {s1, s2} |-> s]
AccountOwn == [s \in {s1, s2} |-> s]
MCSymmetry == Permutations({s1, s2})

\* A wallet approves everything, or not all methods, or for another network.
NamespacesThree ==
  LET all == {"getAccounts", "send", "sign"}
      On(network) == {[chain |-> "tezos", network |-> network]}
  IN  {[tezos |-> TRUE, methods |-> all, accounts |-> On("mainnet")],
       [tezos |-> TRUE, methods |-> all \ {"sign"}, accounts |-> On("mainnet")],
       [tezos |-> TRUE, methods |-> all, accounts |-> On("ghostnet")]}

=============================================================================
