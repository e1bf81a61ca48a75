-------------------------- MODULE AtomicTransfer ---------------------------
(***************************************************************************)
(* What the rail promises about money, without messages, rows or states of  *)
(* a payment in between: the amount of a payment is set aside at once, and   *)
(* later the whole of it either arrives at the creditor or comes back.      *)
(* Once set aside, paying and releasing need nothing of anybody's account:   *)
(* that is what a reservation is for.                                       *)
(***************************************************************************)
EXTENDS Integers, FiniteSets, Totals

CONSTANTS
  Payments,
  Accounts,
  From,       \* From[p], To[p]: the account p is paid from and to, as a set that is
  To,         \*   empty when there is no such account
  Value,      \* Value[p]: the amount of p
  Funds       \* Funds[a]: what a has at the start

VARIABLES
  transfer,   \* transfer[p] \in {"idle", "held", "paid", "void"}
  available   \* available[a]: what a may still promise

vars == <<transfer, available>>

Move(p, from, to) == transfer[p] = from /\ transfer' = [transfer EXCEPT ![p] = to]

Give(a, delta) == [b \in Accounts |-> IF b \in a THEN available[b] + delta ELSE available[b]]

Init ==
  /\ transfer = [p \in Payments |-> "idle"]
  /\ available = Funds

Hold(p) ==
  /\ Move(p, "idle", "held")
  /\ From[p] # {} /\ To[p] # {}
  /\ \A a \in From[p] : available[a] >= Value[p]
  /\ available' = Give(From[p], -Value[p])

Pay(p) ==
  /\ Move(p, "held", "paid")
  /\ Value[p] > 0
  /\ available' = Give(To[p], Value[p])

Release(p) ==
  /\ Move(p, "held", "void")
  /\ available' = Give(From[p], Value[p])

Refuse(p) ==
  /\ Move(p, "idle", "void")
  /\ UNCHANGED available

Next == \E p \in Payments : Hold(p) \/ Pay(p) \/ Release(p) \/ Refuse(p)

Spec == Init /\ [][Next]_vars

-----------------------------------------------------------------------------
\* Money is neither made nor lost: what is available and what is held add up to what
\* the accounts had at the start.
Conservation ==
  Total(available, Accounts)
    + Total(Value, {p \in Payments : transfer[p] = "held"}) = Total(Funds, Accounts)
=============================================================================
