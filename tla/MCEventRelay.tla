---------------------------- MODULE MCEventRelay ----------------------------
(***************************************************************************)
(* Small instances of EventRelay: payments of alice to bob, whose money pays *)
(* for either of the two but not for both.                                  *)
(***************************************************************************)
EXTENDS EventRelay

Pay(uetr, value) ==
  [UETR |-> uetr, EndToEndId |-> "e", Value |-> value, Ccy |-> "USD",
   DbtrAcct |-> "alice", DbtrAgt |-> "b1",
   CdtrAcct |-> "bob",   CdtrAgt |-> "b2", Fits |-> TRUE]

MCDoc == [p1 |-> Pay("u1", 600), p2 |-> Pay("u2", 700)]
MCRoutingNumber == [a \in Accounts |-> IF a = "alice" THEN "b1" ELSE "b2"]
MCCurrency == [a \in Accounts |-> "USD"]
MCOpening == [a \in Accounts |-> IF a = "alice" THEN 70 ELSE 0]

\* A record of a payment that the database no longer has.
MCDemo == << <<"demo", "payment.validated">> >>
NoTopic == << >>
=============================================================================
