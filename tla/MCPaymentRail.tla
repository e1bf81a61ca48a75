--------------------------- MODULE MCPaymentRail ---------------------------
(***************************************************************************)
(* Small instances of PaymentRail.                                          *)
(***************************************************************************)
EXTENDS PaymentRail

\* A body that passes every check; an instance changes what it is about.
Good == [UETR |-> "u", EndToEndId |-> "e", Value |-> 600, Ccy |-> "USD",
         DbtrAcct |-> "alice", DbtrAgt |-> "b1",
         CdtrAcct |-> "bob",   CdtrAgt |-> "b2", Fits |-> TRUE]

MCRoutingNumber == [a \in Accounts |-> IF a = "alice" THEN "b1" ELSE "b2"]
MCCurrency == [a \in Accounts |-> "USD"]

\* alice can pay one of p1 and p2 but not both, and bob pays alice back out of what he
\* was paid.  Two of the three amounts need rounding.
MCMoney ==
  [p1 |-> [Good EXCEPT !.UETR = "u1"],
   p2 |-> [Good EXCEPT !.UETR = "u2", !.Value = 504],
   p3 |-> [Good EXCEPT !.UETR = "u3", !.Value = 395,
           !.DbtrAcct = "bob", !.DbtrAgt = "b2", !.CdtrAcct = "alice", !.CdtrAgt = "b1"]]
MCMoneyOpening == [a \in Accounts |-> IF a = "alice" THEN 100 ELSE 0]

\* Bodies at the edges: a payment to oneself; another with its UETR, which overflows the
\* creditor's balance; one that rounds to nothing; two without a UETR; one too long.
MCEdges ==
  [self  |-> [Good EXCEPT !.UETR = "u1", !.CdtrAcct = "alice", !.CdtrAgt = "b1"],
   full  |-> [Good EXCEPT !.UETR = "u1", !.Value = 1000],
   dust  |-> [Good EXCEPT !.UETR = "u2", !.Value = 4],
   anon  |-> [Good EXCEPT !.UETR = ""],
   anon2 |-> [Good EXCEPT !.UETR = "", !.Ccy = "EUR", !.Value = -15],
   long  |-> [Good EXCEPT !.UETR = "u3", !.Fits = FALSE]]
MCEdgesOpening == [a \in Accounts |-> IF a = "alice" THEN 100 ELSE 80]
=============================================================================
