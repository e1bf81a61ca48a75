----------------------------- MODULE MCRowLocks -----------------------------
(***************************************************************************)
(* Small instances of RowLocks: two payments in opposite directions, and one *)
(* that competes with the first for alice's money.                          *)
(***************************************************************************)
EXTENDS RowLocks, TLC

Pay(uetr, value, from, to) ==
  [UETR |-> uetr, EndToEndId |-> "e", Value |-> value, Ccy |-> "USD",
   DbtrAcct |-> from, DbtrAgt |-> "b1", CdtrAcct |-> to, CdtrAgt |-> "b1", Fits |-> TRUE]

MCDoc == [there |-> Pay("u1", 600, "alice", "bob"),
          back  |-> Pay("u2", 700, "bob", "alice"),
          more  |-> Pay("u3", 500, "alice", "bob")]
MCRoutingNumber == [a \in Accounts |-> "b1"]
MCCurrency == [a \in Accounts |-> "USD"]
MCOpening == [a \in Accounts |-> 100]

Symmetry == Permutations(Sessions)

\* No step depends on what a POST was answered.
WithoutReply == <<payment, balance, reserved, active, ledger, outbox, tx>>
=============================================================================
