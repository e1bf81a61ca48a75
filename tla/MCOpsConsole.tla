---------------------------- MODULE MCOpsConsole ----------------------------
(***************************************************************************)
(* A small instance of OpsConsole: a payment that can settle, one from an    *)
(* account to itself, and one that is rejected.                              *)
(***************************************************************************)
EXTENDS OpsConsole, TLC

Good == [UETR |-> "u", EndToEndId |-> "e", Value |-> 600, Ccy |-> "USD",
         DbtrAcct |-> "alice", DbtrAgt |-> "b1",
         CdtrAcct |-> "bob",   CdtrAgt |-> "b2", Fits |-> TRUE]
MCDoc == [p1   |-> [Good EXCEPT !.UETR = "u1"],
          self |-> [Good EXCEPT !.UETR = "u2", !.CdtrAcct = "alice", !.CdtrAgt = "b1"],
          euro |-> [Good EXCEPT !.UETR = "u3", !.Ccy = "EUR"]]
MCRoutingNumber == [a \in Accounts |-> IF a = "alice" THEN "b1" ELSE "b2"]
MCCurrency == [a \in Accounts |-> "USD"]
MCOpening == [a \in Accounts |-> IF a = "alice" THEN 100 ELSE 0]

\* The page does not tell its handlers apart.
Symmetry == Permutations(Clients)

\* No step depends on what a POST was answered.
WithoutReply == <<payment, balance, reserved, active, ledger, outbox, report, task, page>>
=============================================================================
