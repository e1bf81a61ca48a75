---------------------------- MODULE RelayProofs -----------------------------
(***************************************************************************)
(* No order to act is early or lost on its way from the outbox to a worker,  *)
(* for any finite set of requests, any records in the topic before the       *)
(* service first ran, any number of faults and any choice of operators.     *)
(***************************************************************************)
EXTENDS HistoryProofs, EventRelay

-----------------------------------------------------------------------------
(* Sequences                                                                *)

\* What InsertAt puts where.
LEMMA Inserted ==
  ASSUME NEW S, NEW s \in Seq(S), NEW e \in S, NEW i \in 1..Len(s) + 1
  PROVE  /\ InsertAt(s, i, e) \in Seq(S)
         /\ Len(InsertAt(s, i, e)) = Len(s) + 1
         /\ \A j \in 1..Len(s) + 1 :
              InsertAt(s, i, e)[j] = IF j < i THEN s[j] ELSE IF j = i THEN e ELSE s[j - 1]
<1> DEFINE front == SubSeq(s, 1, i - 1)
           back == SubSeq(s, i, Len(s))
<1>1. front \in Seq(S) /\ Len(front) = i - 1 /\ \A j \in 1..i - 1 : front[j] = s[j]
  OBVIOUS
<1>2. back \in Seq(S) /\ Len(back) = Len(s) - i + 1
      /\ \A j \in 1..Len(s) - i + 1 : back[j] = s[i + j - 1]
  OBVIOUS
<1>3. <<e>> \in Seq(S) /\ Len(<<e>>) = 1 /\ <<e>>[1] = e
  OBVIOUS
<1>4. InsertAt(s, i, e) = front \o <<e>> \o back
  BY DEF InsertAt
<1> HIDE DEF front, back
<1> QED
  BY <1>1, <1>2, <1>3, <1>4

\* What RemoveAt leaves where.
LEMMA Removed ==
  ASSUME NEW S, NEW s \in Seq(S), NEW i \in 1..Len(s)
  PROVE  /\ RemoveAt(s, i) \in Seq(S)
         /\ Len(RemoveAt(s, i)) = Len(s) - 1
         /\ \A j \in 1..Len(s) - 1 : RemoveAt(s, i)[j] = IF j < i THEN s[j] ELSE s[j + 1]
<1> DEFINE front == SubSeq(s, 1, i - 1)
           back == SubSeq(s, i + 1, Len(s))
<1>1. front \in Seq(S) /\ Len(front) = i - 1 /\ \A j \in 1..i - 1 : front[j] = s[j]
  OBVIOUS
<1>2. back \in Seq(S) /\ Len(back) = Len(s) - i
      /\ \A j \in 1..Len(s) - i : back[j] = s[i + j]
  OBVIOUS
<1>3. RemoveAt(s, i) = front \o back
  BY DEF RemoveAt
<1>4. Len(s) \in Nat /\ i \in Int
  OBVIOUS
<1> HIDE DEF front, back
<1>5. front \o back \in Seq(S) /\ Len(front \o back) = Len(s) - 1
  <2>1. front \in Seq(S) /\ back \in Seq(S)
    BY <1>1, <1>2
  <2>2. front \o back \in Seq(S) /\ Len(front \o back) = Len(front) + Len(back)
    BY <2>1
  <2>3. Len(front) = i - 1 /\ Len(back) = Len(s) - i
    BY <1>1, <1>2
  <2> QED
    BY <1>4, <2>2, <2>3
<1>6. ASSUME NEW j \in 1..Len(s) - 1
      PROVE  (front \o back)[j] = IF j < i THEN s[j] ELSE s[j + 1]
  <2>1. (front \o back)[j] = IF j <= Len(front) THEN front[j] ELSE back[j - Len(front)]
    BY <1>1, <1>2, <1>4
  <2>2. CASE j < i
    BY <1>1, <1>4, <2>1, <2>2
  <2>3. CASE j >= i
    <3>1. j - Len(front) \in 1..Len(s) - i /\ i + (j - Len(front)) = j + 1
      BY <1>1, <1>4, <2>3
    <3> QED
      BY <1>1, <1>2, <1>4, <2>1, <2>3, <3>1
  <2>4. j \in Int
    BY <1>4
  <2>5. j < i \/ j >= i
    BY <1>4, <2>4
  <2> QED
    BY <2>2, <2>3, <2>5
<1> QED
  BY <1>3, <1>5, <1>6

\* An insertion keeps what was there, and an injective sequence injective.
LEMMA InsertedRange ==
  ASSUME NEW S, NEW s \in Seq(S), NEW e \in S, NEW i \in 1..Len(s) + 1
  PROVE  /\ Range(InsertAt(s, i, e)) = Range(s) \cup {e}
         /\ e \notin Range(s) /\ IsInjective(s) => IsInjective(InsertAt(s, i, e))
<1> DEFINE t == InsertAt(s, i, e)
<1> HIDE DEF t
<1>1. /\ t \in Seq(S) /\ Len(t) = Len(s) + 1
      /\ \A j \in 1..Len(s) + 1 : t[j] = IF j < i THEN s[j] ELSE IF j = i THEN e ELSE s[j - 1]
  <2>1. t = InsertAt(s, i, e)
    BY DEF t
  <2>2. /\ InsertAt(s, i, e) \in Seq(S) /\ Len(InsertAt(s, i, e)) = Len(s) + 1
        /\ \A j \in 1..Len(s) + 1 :
              InsertAt(s, i, e)[j] = IF j < i THEN s[j] ELSE IF j = i THEN e ELSE s[j - 1]
    BY Inserted
  <2> QED
    BY <2>1, <2>2, Zenon
<1>2. DOMAIN t = 1..Len(s) + 1 /\ DOMAIN s = 1..Len(s) /\ Len(s) \in Nat
  BY <1>1
<1>3. ASSUME NEW k \in DOMAIN s PROVE \E j \in DOMAIN t : t[j] = s[k]
  <2>1. CASE k < i
    BY <1>1, <1>2, <2>1
  <2>2. CASE k >= i
    <3>1. k + 1 \in DOMAIN t /\ t[k + 1] = s[k]
      BY <1>1, <1>2, <2>2
    <3> QED
      BY <3>1
  <2> QED
    BY <1>2, <2>1, <2>2
<1>4. i \in DOMAIN t /\ t[i] = e
  BY <1>1, <1>2
<1>5. ASSUME NEW j \in DOMAIN t PROVE t[j] = e \/ \E k \in DOMAIN s : t[j] = s[k]
  BY <1>1, <1>2
<1>6. Range(t) = Range(s) \cup {e}
  BY <1>3, <1>4, <1>5 DEF Range
<1>7. ASSUME e \notin Range(s), IsInjective(s) PROVE IsInjective(t)
  <2>1. \A k \in DOMAIN s : s[k] # e
    BY <1>7 DEF Range
  <2>2. \A k, m \in DOMAIN s : s[k] = s[m] => k = m
    BY <1>7 DEF IsInjective
  <2> SUFFICES ASSUME NEW a \in DOMAIN t, NEW b \in DOMAIN t, t[a] = t[b] PROVE a = b
    BY DEF IsInjective
  <2> DEFINE Before(j) == IF j < i THEN j ELSE j - 1
  <2>3. ASSUME NEW j \in DOMAIN t
        PROVE  j = i \/ (j \in Int /\ Before(j) \in DOMAIN s /\ t[j] = s[Before(j)])
    <3>1. CASE j < i
      BY <1>1, <1>2, <3>1
    <3>2. CASE j > i
      BY <1>1, <1>2, <3>2
    <3> QED
      BY <1>2, <3>1, <3>2
  <2>4. CASE a = i \/ b = i
    BY <1>4, <2>1, <2>3, <2>4
  <2>5. CASE a # i /\ b # i
    <3>1. Before(a) = Before(b) /\ a \in Int /\ b \in Int
      <4> HIDE DEF Before
      <4> QED
        BY <2>2, <2>3, <2>5
    <3> QED
      BY <2>5, <3>1
  <2> QED
    BY <2>4, <2>5
<1> QED
  BY <1>6, <1>7 DEF t

\* A removal takes away nothing but what was at its place.
LEMMA RemovedRange ==
  ASSUME NEW S, NEW s \in Seq(S), NEW i \in 1..Len(s)
  PROVE  /\ Range(RemoveAt(s, i)) \subseteq Range(s)
         /\ Range(s) \ {s[i]} \subseteq Range(RemoveAt(s, i))
         /\ IsInjective(s) => IsInjective(RemoveAt(s, i))
<1> DEFINE t == RemoveAt(s, i)
<1>1. /\ t \in Seq(S) /\ Len(t) = Len(s) - 1
      /\ \A j \in 1..Len(s) - 1 : t[j] = IF j < i THEN s[j] ELSE s[j + 1]
  BY Removed
<1> HIDE DEF t
<1>2. DOMAIN t = 1..Len(s) - 1 /\ DOMAIN s = 1..Len(s) /\ Len(s) \in Nat
  BY <1>1
<1>3. ASSUME NEW k \in DOMAIN s, k # i PROVE \E j \in DOMAIN t : t[j] = s[k]
  <2>1. CASE k < i
    BY <1>1, <1>2, <2>1
  <2>2. CASE k > i
    <3>1. k - 1 \in DOMAIN t /\ t[k - 1] = s[k]
      BY <1>1, <1>2, <2>2
    <3> QED
      BY <3>1
  <2> QED
    BY <1>2, <1>3, <2>1, <2>2
<1>4. ASSUME NEW j \in DOMAIN t PROVE \E k \in DOMAIN s : t[j] = s[k]
  <2>1. CASE j < i
    BY <1>1, <1>2, <2>1
  <2>2. CASE j >= i
    <3>1. j + 1 \in DOMAIN s /\ t[j] = s[j + 1]
      BY <1>1, <1>2, <2>2
    <3> QED
      BY <3>1
  <2> QED
    BY <1>2, <2>1, <2>2
<1>5. Range(t) \subseteq Range(s) /\ Range(s) \ {s[i]} \subseteq Range(t)
  BY <1>3, <1>4 DEF Range
<1>6. ASSUME IsInjective(s) PROVE IsInjective(t)
  <2>1. \A k, m \in DOMAIN s : s[k] = s[m] => k = m
    BY <1>6 DEF IsInjective
  <2> SUFFICES ASSUME NEW a \in DOMAIN t, NEW b \in DOMAIN t, t[a] = t[b] PROVE a = b
    BY DEF IsInjective
  <2> DEFINE From(j) == IF j < i THEN j ELSE j + 1
  <2>2. From(a) \in DOMAIN s /\ From(b) \in DOMAIN s
    BY <1>2
  <2>3. t[a] = s[From(a)] /\ t[b] = s[From(b)]
    BY <1>1, <1>2
  <2>4. From(a) = From(b)
    <3> HIDE DEF From
    <3> QED
      BY <2>1, <2>2, <2>3
  <2> QED
    BY <1>2, <2>4
<1> QED
  BY <1>5, <1>6 DEF t

-----------------------------------------------------------------------------
(* What an operation of the rail does to payments and events                *)

\* The event that tells worker w to move payment r on.
Order(r, w) == <<r, Wanted[w]>>

\* The events of a payment that its status is still before are not recorded yet.
EventsToCome ==
  \A r \in Requests :
    /\ payment[r].status = "none" => \A type \in EventType : <<r, type>> \notin outbox
    /\ payment[r].status = "validated" =>
         <<r, "payment.cleared">> \notin outbox /\ <<r, "payment.accepted">> \notin outbox
    /\ payment[r].status = "awaiting_response" => <<r, "payment.accepted">> \notin outbox

\* r moves on, and if a worker is to move it further, an order for it is recorded that
\* was not there before.
Advances(r) ==
  /\ \A q \in Requests : q # r => payment'[q] = payment[q]
  /\ payment'[r].status # payment[r].status
  /\ \/ outbox' = outbox /\ \A w \in Workers : payment'[r].status # Expected[w]
     \/ \E w \in Workers :
          /\ payment'[r].status = Expected[w]
          /\ \A v \in Workers : payment'[r].status = Expected[v] => v = w
          /\ Order(r, w) \notin outbox
          /\ outbox' = outbox \cup {Order(r, w)}

\* The two tables of the workers, row by row.
LEMMA WorkerTables ==
  /\ Wanted["clearing"] = "payment.validated" /\ Expected["clearing"] = "validated"
  /\ Wanted["receiver"] = "payment.cleared" /\ Expected["receiver"] = "awaiting_response"
  /\ Wanted["settlement"] = "payment.accepted" /\ Expected["settlement"] = "accepted"
  /\ \A w \in Workers : Wanted[w] \in EventType /\ Announced(Wanted[w]) = Expected[w]
<1>1. /\ Wanted["clearing"] = "payment.validated" /\ Expected["clearing"] = "validated"
      /\ Wanted["receiver"] = "payment.cleared" /\ Expected["receiver"] = "awaiting_response"
      /\ Wanted["settlement"] = "payment.accepted" /\ Expected["settlement"] = "accepted"
  BY DEF Wanted, Expected
<1>2. /\ Announced("payment.validated") = "validated"
      /\ Announced("payment.cleared") = "awaiting_response"
      /\ Announced("payment.accepted") = "accepted"
  BY DEF Announced
<1> QED
  BY <1>1, <1>2 DEF Workers, EventType

\* An operation that comes to a status that no worker waits for records nothing.
LEMMA EndAdvances ==
  ASSUME TypeOK, EventsToCome, NEW r \in Requests, NEW statuses, Becomes(r, statuses),
         statuses \subseteq {"rejected", "failed", "settled"},
         payment[r].status \notin statuses, UNCHANGED outbox
  PROVE  Advances(r) /\ EventsToCome'
<1>1. /\ payment'[r].status \in statuses
      /\ \A q \in Requests : q # r => payment'[q] = payment[q]
  BY DEF TypeOK, Becomes
<1>2. \A w \in Workers : payment'[r].status # Expected[w]
  BY <1>1, WorkerTables DEF Workers
<1>3. Advances(r)
  BY <1>1, <1>2 DEF Advances
<1>4. EventsToCome'
  BY <1>1 DEF EventsToCome
<1> QED
  BY <1>3, <1>4

\* An operation that comes to the status that w waits for records the order for w.
LEMMA OrderAdvances ==
  ASSUME TypeOK, EventsToCome, NEW r \in Requests, NEW w \in Workers,
         Becomes(r, {Expected[w]}), outbox' = outbox \cup {Order(r, w)},
         \/ w = "clearing" /\ payment[r].status = "none"
         \/ w = "receiver" /\ payment[r].status = "validated"
         \/ w = "settlement" /\ payment[r].status = "awaiting_response"
  PROVE  Advances(r) /\ EventsToCome'
<1>1. /\ payment'[r].status = Expected[w]
      /\ \A q \in Requests : q # r => payment'[q] = payment[q]
  BY DEF TypeOK, Becomes
<1>2. Order(r, w) \notin outbox /\ payment'[r].status # payment[r].status
  BY <1>1, WorkerTables DEF EventsToCome, Order, EventType
<1>3. \A v \in Workers : payment'[r].status = Expected[v] => v = w
  BY <1>1, WorkerTables DEF Workers
<1>4. Advances(r)
  BY <1>1, <1>2, <1>3 DEF Advances
<1>5. EventsToCome'
  BY <1>1, WorkerTables DEF EventsToCome, Order, EventType
<1> QED
  BY <1>4, <1>5

\* Every operation on r advances r.
LEMMA OperationAdvances ==
  ASSUME TypeOK, EventsToCome, NEW r \in Requests,
         \/ StorePayment(r)
         \/ ClearPayment(r)
         \/ AcceptPayment(r)
         \/ \E text \in Reasons : RejectPayment(r, text)
         \/ SettlePayment(r)
  PROVE  Advances(r) /\ EventsToCome'
<1>1. CASE StorePayment(r)
  <2>1. payment[r].status = "none"
    <3>1. payment[r] = NoRow
      BY <1>1 DEF StorePayment, UETRTaken, Stored
    <3>2. NoRow.status = "none"
      BY DEF NoRow
    <3> QED
      BY <3>1, <3>2
  <2>2. Becomes(r, {"validated", "rejected"}) /\ payment' = [payment EXCEPT ![r] = ValidatedRow(r)]
    BY <1>1, StoreEffect DEF StorePayment, Commit
  <2>3. payment'[r] = ValidatedRow(r) /\ payment'[r] \in CommittedRow
        /\ payment'[r].status \in {"validated", "rejected"}
    BY <2>2 DEF TypeOK, Becomes
  <2>4. CASE payment'[r].status = "validated"
    <3>1. Becomes(r, {"validated"}) /\ outbox' = outbox \cup {<<r, "payment.validated">>}
      BY <1>1, <2>2, <2>3, <2>4 DEF Becomes, StorePayment
    <3> QED
      BY <2>1, <3>1, OrderAdvances, WorkerTables DEF Order, Workers
  <2>5. CASE payment'[r].status = "rejected"
    <3>1. Becomes(r, {"rejected"}) /\ UNCHANGED outbox
      BY <1>1, <2>2, <2>3, <2>5 DEF Becomes, StorePayment
    <3> QED
      BY <2>1, <3>1, EndAdvances
  <2> QED
    BY <2>3, <2>4, <2>5
<1>2. CASE ClearPayment(r)
  <2>1. payment[r].status = "validated"
    BY <1>2, ClearEffect
  <2>2. CASE Becomes(r, {"failed"}) /\ UNCHANGED outbox
    BY <2>1, <2>2, EndAdvances
  <2>3. CASE Becomes(r, {"awaiting_response"}) /\ outbox' = outbox \cup {<<r, "payment.cleared">>}
    BY <2>1, <2>3, OrderAdvances, WorkerTables DEF Order, Workers
  <2> QED
    BY <1>2, <2>2, <2>3, ClearEffect
<1>3. CASE AcceptPayment(r)
  BY <1>3, AcceptEffect, OrderAdvances, WorkerTables DEF Order, Workers
<1>4. ASSUME NEW text \in Reasons, RejectPayment(r, text) PROVE Advances(r) /\ EventsToCome'
  BY <1>4, RejectEffect, EndAdvances
<1>5. CASE SettlePayment(r)
  BY <1>5, SettleEffect, EndAdvances
<1> QED
  BY <1>1, <1>2, <1>3, <1>4, <1>5

\* What joins the queue is what was recorded, wherever it is inserted.
LEMMA RecordedQueue ==
  ASSUME queue \in Seq(outbox), IsInjective(queue), NEW r \in Requests, Advances(r),
         NEW cause, Recorded(cause)
  PROVE  /\ outbox \subseteq outbox'
         /\ queue' \in Seq(outbox') /\ IsInjective(queue')
         /\ Range(queue') = Range(queue) \cup (outbox' \ outbox)
<1>1. outbox \subseteq outbox'
  BY DEF Advances
<1>2. CASE outbox' = outbox
  BY <1>2 DEF Recorded
<1>3. CASE outbox' # outbox
  <2>1. PICK event \in outbox' \ outbox, i \in Position(cause)..Len(queue) :
          queue' = InsertAt(queue, i + 1, event)
    BY <1>3 DEF Recorded
  <2>2. outbox' = outbox \cup {event}
    BY <2>1 DEF Advances
  <2>3. Position(cause) \in 0..Len(queue)
    <3>1. CASE cause \in Range(queue)
      <4>1. \E j \in DOMAIN queue : queue[j] = cause
        BY <3>1 DEF Range
      <4>2. Position(cause) \in DOMAIN queue
        BY <3>1, <4>1 DEF Position
      <4> QED
        BY <4>2
    <3>2. CASE cause \notin Range(queue)
      BY <3>2 DEF Position
    <3> QED
      BY <3>1, <3>2
  <2>4. i + 1 \in 1..Len(queue) + 1
    BY <2>1, <2>3
  <2>5. queue \in Seq(outbox')
    BY <1>1
  <2>6. event \notin Range(queue)
    BY <2>1 DEF Range
  <2>7. /\ queue' \in Seq(outbox')
        /\ Range(queue') = Range(queue) \cup {event} /\ IsInjective(queue')
    BY <2>1, <2>4, <2>5, <2>6, Inserted, InsertedRange
  <2> QED
    BY <1>1, <2>1, <2>2, <2>7
<1> QED
  BY <1>2, <1>3

-----------------------------------------------------------------------------
(* The invariant                                                            *)

\* How many records w is done with, but for committing them.
Handled(w) == IF stage[w] = "handling" THEN fetched[w] - 1 ELSE fetched[w]

\* The event is in the queue, and will not be taken from it next.
Waiting(event) ==
  event \in Range(queue) /\ ~(publisher.at = "mark" /\ publisher.event = event)

\* A record of the event is still to be handled by w.
Ahead(event, w) == \E i \in DOMAIN topic : i > Handled(w) /\ topic[i] = event

\* NoStrandedPayment is not inductive: what the publisher is about to mark must be in
\* the topic where the worker will still come to it, and what the worker is done with
\* must not be what a payment waits for, whether it has committed it or not.
OrdersAhead ==
  \A r \in Requests, w \in Workers :
    payment[r].status = Expected[w] => Waiting(Order(r, w)) \/ Ahead(Order(r, w), w)

\* The workers' variables are functions on the workers.
Positions ==
  /\ fetched \in [Workers -> Nat] /\ committed \in [Workers -> Nat]
  /\ stage \in [Workers -> {"polling", "handling", "committing"}]

\* What the service itself has sent to the topic is in the outbox.
Sent == \A i \in Old + 1..Len(topic) : topic[i] \in outbox

RelayInvariant ==
  /\ TypeOK /\ EventsToCome
  /\ RelayTypeOK /\ Positions
  /\ Sent /\ OrdersAhead

\* How far a worker has come.
LEMMA Places ==
  ASSUME RelayTypeOK, Positions, NEW w \in Workers
  PROVE  /\ fetched[w] \in Nat /\ committed[w] \in Nat /\ Handled(w) \in Nat
         /\ topic \in Seq(outbox \cup Range(OldTopic)) /\ Len(topic) \in Nat
         /\ committed[w] <= Handled(w) /\ Handled(w) <= fetched[w] /\ fetched[w] <= Len(topic)
<1>1. /\ fetched[w] \in Nat /\ committed[w] \in Nat
      /\ stage[w] \in {"polling", "handling", "committing"}
  BY DEF Positions
<1>2. /\ topic \in Seq(outbox \cup Range(OldTopic)) /\ Len(topic) \in Nat
  BY DEF RelayTypeOK
<1>3. /\ committed[w] \in 0..fetched[w] /\ fetched[w] \in 0..Len(topic)
      /\ stage[w] # "polling" => committed[w] < fetched[w]
  BY DEF RelayTypeOK
<1>4. /\ stage[w] = "handling" => Handled(w) = fetched[w] - 1
      /\ stage[w] # "handling" => Handled(w) = fetched[w]
  BY DEF Handled
<1> QED
  BY <1>1, <1>2, <1>3, <1>4

\* A worker has committed no more than it is done with, so what is ahead of it is beyond
\* what it has committed.
LEMMA NothingStranded == RelayInvariant => NoStrandedPayment
<1> SUFFICES ASSUME RelayInvariant, NEW r \in Requests, NEW w \in Workers,
                    payment[r].status = Expected[w]
             PROVE  \/ Order(r, w) \in Range(queue)
                    \/ \E i \in committed[w] + 1..Len(topic) : topic[i] = Order(r, w)
  BY DEF NoStrandedPayment, Order
<1>1. Waiting(Order(r, w)) \/ Ahead(Order(r, w), w)
  BY DEF RelayInvariant, OrdersAhead
<1>2. CASE Waiting(Order(r, w))
  BY <1>2 DEF Waiting
<1>3. CASE Ahead(Order(r, w), w)
  <2>1. PICK i \in DOMAIN topic : i > Handled(w) /\ topic[i] = Order(r, w)
    BY <1>3 DEF Ahead
  <2>2. /\ committed[w] \in Nat /\ Handled(w) \in Nat /\ committed[w] <= Handled(w)
        /\ DOMAIN topic = 1..Len(topic) /\ Len(topic) \in Nat
    BY Places DEF RelayInvariant
  <2>3. i \in committed[w] + 1..Len(topic)
    BY <2>1, <2>2
  <2> QED
    BY <2>1, <2>3
<1> QED
  BY <1>1, <1>2, <1>3

\* What the service sent to the topic is in the outbox, and the outbox tells the truth.
LEMMA NothingEarly == RelayInvariant /\ OutboxTellsStates => NeverEarly
<1> SUFFICES ASSUME RelayInvariant, OutboxTellsStates,
                    NEW i \in Old + 1..Len(topic), NEW w \in Workers, topic[i][2] = Wanted[w]
             PROVE  Reached(topic[i][1], Expected[w])
  BY DEF NeverEarly
<1>1. topic[i] \in outbox
  BY DEF RelayInvariant, Sent
<1>2. Reached(topic[i][1], Announced(topic[i][2]))
  BY <1>1 DEF OutboxTellsStates
<1> QED
  BY <1>2, WorkerTables

-----------------------------------------------------------------------------
(* The relay's own steps                                                    *)

\* Payments and outbox stay: the orders stay ahead if none that is waited for is lost.
LEMMA OrdersStay ==
  ASSUME RelayInvariant, UNCHANGED <<payment, outbox>>,
         \A r \in Requests, w \in Workers :
           payment[r].status = Expected[w] =>
             /\ Waiting(Order(r, w)) => Waiting(Order(r, w))' \/ Ahead(Order(r, w), w)'
             /\ Ahead(Order(r, w), w) => Ahead(Order(r, w), w)'
  PROVE  OrdersAhead' /\ EventsToCome'
<1>1. OrdersAhead'
  BY WorkerTables DEF RelayInvariant, OrdersAhead, Expected, Order, Wanted
<1>2. EventsToCome'
  BY DEF RelayInvariant, EventsToCome
<1> QED
  BY <1>1, <1>2

\* A record is ahead as long as the topic only grows and the worker stays.
LEMMA AheadStays ==
  ASSUME RelayInvariant, NEW w \in Workers, NEW event, Ahead(event, w),
         \/ topic' = topic \/ topic' = Append(topic, publisher.event),
         Handled(w)' \in Int, Handled(w)' <= Handled(w)
  PROVE  Ahead(event, w)'
<1>1. PICK i \in DOMAIN topic : i > Handled(w) /\ topic[i] = event
  BY DEF Ahead
<1>2. topic \in Seq(outbox \cup Range(OldTopic)) /\ Handled(w) \in Nat
  BY Places DEF RelayInvariant
<1>3. i \in DOMAIN topic' /\ topic'[i] = topic[i]
  BY <1>1, <1>2
<1>4. i > Handled(w)'
  BY <1>1, <1>2
<1> QED
  BY <1>1, <1>3, <1>4 DEF Ahead

\* The invariant without what the rail's own proof keeps.
RelayKept == EventsToCome /\ RelayTypeOK /\ Positions /\ Sent /\ OrdersAhead

\* A fault is counted.
LEMMA FaultCounted ==
  ASSUME RelayInvariant, Fault \/ UNCHANGED faults
  PROVE  faults' \in 0..MaxFaults
BY MaxFaultsAssumption DEF RelayInvariant, RelayTypeOK, Fault

\* The event that the publisher has in hand is still in the queue.
LEMMA InHand ==
  ASSUME RelayInvariant, publisher.at \in {"send", "mark"}
  PROVE  /\ publisher = [at |-> publisher.at, event |-> publisher.event]
         /\ publisher.event \in Range(queue) /\ publisher.event \in outbox
<1>1. publisher \in [at : {"send", "mark"}, event : Range(queue)]
  <2>1. Idle.at = "read"
    BY DEF Idle
  <2> QED
    BY <2>1 DEF RelayInvariant, RelayTypeOK
<1>2. Range(queue) \subseteq outbox
  BY DEF RelayInvariant, RelayTypeOK, Range
<1> QED
  BY <1>1, <1>2

\* A step of the publisher: the queue may only lose the event that it marks, and the
\* topic only gets the event that it sends.
LEMMA PublisherKeeps ==
  ASSUME RelayInvariant, UNCHANGED <<vars, fetched, committed, stage>>,
         Fault \/ UNCHANGED faults,
         queue' \in Seq(outbox), IsInjective(queue'), Range(queue') \subseteq Range(queue),
         publisher' \in [at : {"send", "mark"}, event : Range(queue')] \cup {Idle},
         \/ topic' = topic
         \/ topic' = Append(topic, publisher.event) /\ publisher.event \in outbox,
         \A event : Waiting(event) =>
           Waiting(event)' \/ (topic' = Append(topic, publisher.event) /\ event = publisher.event)
  PROVE  RelayKept'
<1>1. /\ topic \in Seq(outbox \cup Range(OldTopic)) /\ Len(topic) \in Nat
      /\ \A w \in Workers : Handled(w) \in Nat /\ Handled(w) <= Len(topic)
                            /\ Handled(w)' = Handled(w)
  <2>1. \A w \in Workers : Handled(w)' = Handled(w)
    BY DEF Handled
  <2>2. topic \in Seq(outbox \cup Range(OldTopic)) /\ Len(topic) \in Nat
    BY DEF RelayInvariant, RelayTypeOK
  <2>3. ASSUME NEW w \in Workers PROVE Handled(w) \in Nat /\ Handled(w) <= Len(topic)
    BY Places DEF RelayInvariant
  <2> QED
    BY <2>1, <2>2, <2>3
<1>2. topic' \in Seq(outbox' \cup Range(OldTopic)) /\ Len(topic') \in Nat
      /\ Len(topic') >= Len(topic)
  BY <1>1 DEF vars
<1>3. faults' \in 0..MaxFaults
  BY FaultCounted
<1>4. Positions'
  BY DEF RelayInvariant, Positions
<1>5. RelayTypeOK'
  <2>1. ASSUME NEW w \in Workers
        PROVE  /\ committed'[w] \in 0..fetched'[w]
               /\ fetched'[w] \in 0..Len(topic')
               /\ stage'[w] \in {"polling", "handling", "committing"}
               /\ stage'[w] # "polling" => committed'[w] < fetched'[w]
    BY <1>1, <1>2 DEF RelayInvariant, RelayTypeOK
  <2>2. UNCHANGED outbox
    BY DEF vars
  <2> QED
    BY <1>2, <1>3, <2>1, <2>2 DEF RelayTypeOK
<1>6. Sent'
  <2> SUFFICES ASSUME NEW i \in Old + 1..Len(topic') PROVE topic'[i] \in outbox'
    BY DEF Sent, Old
  <2>1. Old \in Nat
    BY OldTopicAssumption DEF Old
  <2>2. CASE i <= Len(topic)
    BY <1>1, <2>1, <2>2 DEF RelayInvariant, Sent, vars
  <2>3. CASE i > Len(topic)
    BY <1>1, <2>1, <2>3 DEF vars
  <2> QED
    BY <1>1, <2>1, <2>2, <2>3
<1>7. ASSUME NEW r \in Requests, NEW w \in Workers
      PROVE  /\ Waiting(Order(r, w)) => Waiting(Order(r, w))' \/ Ahead(Order(r, w), w)'
             /\ Ahead(Order(r, w), w) => Ahead(Order(r, w), w)'
  <2>1. Ahead(Order(r, w), w) => Ahead(Order(r, w), w)'
    BY <1>1, AheadStays
  <2>2. ASSUME topic' = Append(topic, publisher.event), Order(r, w) = publisher.event
        PROVE  Ahead(Order(r, w), w)'
    <3>1. Len(topic) + 1 \in DOMAIN topic' /\ topic'[Len(topic) + 1] = Order(r, w)
      BY <1>1, <2>2
    <3>2. Len(topic) + 1 > Handled(w)'
      BY <1>1
    <3>3. Order(r, w)' = Order(r, w)
      BY DEF Order, Wanted
    <3> QED
      BY <3>1, <3>2, <3>3 DEF Ahead
  <2>3. Waiting(Order(r, w)) =>
          Waiting(Order(r, w))' \/ (topic' = Append(topic, publisher.event)
                                    /\ Order(r, w) = publisher.event)
    BY DEF Order, Wanted
  <2> QED
    BY <2>1, <2>2, <2>3
<1>8. OrdersAhead' /\ EventsToCome'
  BY <1>7, OrdersStay DEF vars
<1> QED
  BY <1>4, <1>5, <1>6, <1>8 DEF RelayKept

\* What the publisher does.
LEMMA PublisherStep ==
  ASSUME RelayInvariant, ReadEvent \/ SendEvent \/ SendFails \/ MarkEvent \/ MarkFails
  PROVE  RelayKept'
<1>1. queue \in Seq(outbox) /\ IsInjective(queue) /\ Range(queue) \subseteq outbox
  BY DEF RelayInvariant, RelayTypeOK, Range
<1>2. Idle.at = "read"
  BY DEF Idle
<1>3. CASE ReadEvent
  <2>1. Head(queue) \in Range(queue)
    BY <1>1, <1>3 DEF ReadEvent, Range
  <2>2. publisher'.at = "send" /\ publisher' \in [at : {"send", "mark"}, event : Range(queue)]
    BY <1>3, <2>1 DEF ReadEvent
  <2>3. \A event : Waiting(event) => Waiting(event)'
    BY <1>3, <2>2 DEF ReadEvent, Waiting
  <2> QED
    BY <1>1, <1>3, <2>2, <2>3, PublisherKeeps DEF ReadEvent
<1>4. CASE SendEvent
  <2>1. publisher.event \in Range(queue) /\ publisher.event \in outbox
        /\ publisher = [at |-> publisher.at, event |-> publisher.event]
    BY <1>4, InHand DEF SendEvent
  <2>2. publisher' = [at |-> "mark", event |-> publisher.event]
    BY <1>4, <2>1 DEF SendEvent
  <2>3. \A event : Waiting(event) => Waiting(event)' \/ event = publisher.event
    BY <1>4, <2>2 DEF SendEvent, Waiting
  <2> QED
    BY <1>1, <1>4, <2>1, <2>2, <2>3, PublisherKeeps DEF SendEvent
<1>5. CASE SendFails
  <2>1. publisher.event \in outbox
    BY <1>5, InHand DEF SendFails
  <2>2. \A event : Waiting(event) => Waiting(event)'
    BY <1>2, <1>5 DEF SendFails, Waiting
  <2> QED
    BY <1>1, <1>5, <2>1, <2>2, PublisherKeeps DEF SendFails
<1>6. CASE MarkEvent
  <2> DEFINE i == Position(publisher.event)
  <2>1. publisher.event \in Range(queue)
    BY <1>6, InHand DEF MarkEvent
  <2>2. i \in 1..Len(queue) /\ queue[i] = publisher.event
    <3>1. \E j \in DOMAIN queue : queue[j] = publisher.event
      BY <2>1 DEF Range
    <3>2. i \in DOMAIN queue /\ queue[i] = publisher.event
      BY <2>1, <3>1 DEF Position
    <3> QED
      BY <1>1, <3>2
  <2>3. queue' = RemoveAt(queue, i)
    BY <1>6 DEF MarkEvent
  <2> HIDE DEF i
  <2>4. /\ queue' \in Seq(outbox) /\ IsInjective(queue')
        /\ Range(queue') \subseteq Range(queue)
        /\ Range(queue) \ {publisher.event} \subseteq Range(queue')
    BY <1>1, <2>2, <2>3, Removed, RemovedRange
  <2>5. \A event : Waiting(event) => Waiting(event)'
    BY <1>2, <1>6, <2>4 DEF MarkEvent, Waiting
  <2> QED
    BY <1>6, <2>4, <2>5, PublisherKeeps DEF MarkEvent
<1>7. CASE MarkFails
  <2>1. \A event : Waiting(event) => Waiting(event)'
    BY <1>2, <1>7 DEF MarkFails, Waiting
  <2> QED
    BY <1>1, <1>7, <2>1, PublisherKeeps DEF MarkFails
<1> QED
  BY <1>3, <1>4, <1>5, <1>6, <1>7

\* The workers' places change and nothing else: the orders stay ahead if no worker gets
\* past a record that a payment waits for.
LEMMA WorkersKeep ==
  ASSUME RelayInvariant, UNCHANGED <<payment, outbox, queue, topic>>,
         Fault \/ UNCHANGED faults, publisher' = publisher \/ publisher' = Idle,
         Positions',
         \A w \in Workers : /\ committed'[w] \in 0..fetched'[w]
                            /\ fetched'[w] \in 0..Len(topic)
                            /\ stage'[w] # "polling" => committed'[w] < fetched'[w]
                            /\ Handled(w)' \in Nat,
         \A w \in Workers : \A r \in Requests : \A i \in DOMAIN topic :
           payment[r].status = Expected[w] /\ topic[i] = Order(r, w) /\ i > Handled(w)
             => i > Handled(w)'
  PROVE  RelayKept'
<1>1. faults' \in 0..MaxFaults
  BY FaultCounted
<1>2. RelayTypeOK'
  <2>1. publisher' \in [at : {"send", "mark"}, event : Range(queue)] \cup {Idle}
    BY DEF RelayInvariant, RelayTypeOK
  <2>2. /\ queue' \in Seq(outbox) /\ IsInjective(queue')
        /\ topic' \in Seq(outbox' \cup Range(OldTopic))
    BY DEF RelayInvariant, RelayTypeOK
  <2>3. \A w \in Workers : stage'[w] \in {"polling", "handling", "committing"}
    BY DEF Positions
  <2> QED
    BY <1>1, <2>1, <2>2, <2>3 DEF RelayTypeOK
<1>3. Sent'
  BY DEF RelayInvariant, Sent, Old
<1>4. ASSUME NEW event, Waiting(event) PROVE Waiting(event)'
  <2>1. Idle.at = "read"
    BY DEF Idle
  <2> QED
    BY <1>4, <2>1 DEF Waiting
<1>5. ASSUME NEW r \in Requests, NEW w \in Workers, payment[r].status = Expected[w]
      PROVE  /\ Waiting(Order(r, w)) => Waiting(Order(r, w))'
             /\ Ahead(Order(r, w), w) => Ahead(Order(r, w), w)'
  <2>1. Waiting(Order(r, w)) => Waiting(Order(r, w))'
    <3>1. PICK event : event = Order(r, w)
      OBVIOUS
    <3> QED
      BY <1>4, <3>1 DEF Order, Wanted
  <2>2. Ahead(Order(r, w), w) => Ahead(Order(r, w), w)'
    <3>1. Order(r, w)' = Order(r, w)
      BY DEF Order, Wanted
    <3> QED
      BY <1>5, <3>1 DEF Ahead
  <2> QED
    BY <2>1, <2>2
<1>6. OrdersAhead' /\ EventsToCome'
  BY <1>5, OrdersStay
<1> QED
  BY <1>2, <1>3, <1>6 DEF RelayKept

\* One worker's place changes to a place f, c, st of its own.
LEMMA OneWorkerKeeps ==
  ASSUME RelayInvariant, UNCHANGED <<vars, queue, publisher, topic>>,
         Fault \/ UNCHANGED faults, NEW w \in Workers,
         NEW f \in Nat, NEW c \in Nat, NEW st \in {"polling", "handling", "committing"},
         fetched' = [fetched EXCEPT ![w] = f],
         committed' = [committed EXCEPT ![w] = c],
         stage' = [stage EXCEPT ![w] = st],
         c <= f, f <= Len(topic), st # "polling" => c < f,
         \/ Handled(w)' = Handled(w)
         \/ /\ Handled(w)' = Handled(w) + 1
            /\ \A r \in Requests : payment[r].status = Expected[w]
                                     => topic[fetched[w]] # Order(r, w)
            /\ Handled(w) + 1 = fetched[w]
  PROVE  RelayKept'
<1>1. Positions'
  BY DEF RelayInvariant, Positions
<1>2. /\ fetched'[w] = f /\ committed'[w] = c /\ stage'[w] = st
      /\ \A v \in Workers : v # w => /\ fetched'[v] = fetched[v] /\ committed'[v] = committed[v]
                                     /\ stage'[v] = stage[v] /\ Handled(v)' = Handled(v)
  BY DEF RelayInvariant, Positions, Handled
<1>3. \A v \in Workers : Handled(v) \in Nat
  BY Places DEF RelayInvariant
<1>4. ASSUME NEW v \in Workers
      PROVE  /\ committed'[v] \in 0..fetched'[v] /\ fetched'[v] \in 0..Len(topic)
             /\ stage'[v] # "polling" => committed'[v] < fetched'[v]
             /\ Handled(v)' \in Nat
  <2>1. Len(topic) \in Nat
    BY Places DEF RelayInvariant
  <2>2. CASE v = w
    BY <1>2, <1>3, <2>1, <2>2
  <2>3. CASE v # w
    BY <1>2, <1>3, <2>3 DEF RelayInvariant, RelayTypeOK
  <2> QED
    BY <2>2, <2>3
<1>5. ASSUME NEW v \in Workers, NEW r \in Requests, NEW i \in DOMAIN topic,
             payment[r].status = Expected[v], topic[i] = Order(r, v), i > Handled(v)
      PROVE  i > Handled(v)'
  <2>1. i \in Int
    BY DEF RelayInvariant, RelayTypeOK
  <2>2. CASE Handled(v)' = Handled(v)
    BY <1>5, <2>2
  <2>3. CASE v = w /\ Handled(w)' = Handled(w) + 1
    <3>1. i # Handled(w) + 1
      BY <1>3, <1>5, <2>3
    <3> QED
      BY <1>3, <1>5, <2>1, <2>3, <3>1
  <2> QED
    BY <1>2, <2>2, <2>3
<1>6. UNCHANGED <<payment, outbox, queue, topic>> /\ publisher' = publisher
  BY DEF vars
<1> QED
  BY <1>1, <1>4, <1>5, <1>6, WorkersKeep

\* What a worker does besides calling its handler.
LEMMA WorkerStep ==
  ASSUME RelayInvariant, NEW w \in Workers,
         Poll(w) \/ Skip(w) \/ Duplicate(w) \/ CommitOffset(w) \/ CommitFails(w)
  PROVE  RelayKept'
<1>1. /\ fetched[w] \in Nat /\ committed[w] \in Nat /\ Len(topic) \in Nat
      /\ committed[w] <= fetched[w] /\ fetched[w] <= Len(topic)
      /\ stage[w] # "polling" => committed[w] < fetched[w]
  <2>1. stage[w] # "polling" => committed[w] < fetched[w]
    BY DEF RelayInvariant, RelayTypeOK
  <2> QED
    BY <2>1, Places DEF RelayInvariant
<1>2. /\ fetched = [fetched EXCEPT ![w] = fetched[w]]
      /\ committed = [committed EXCEPT ![w] = committed[w]]
      /\ DOMAIN fetched = Workers /\ DOMAIN stage = Workers
  BY DEF RelayInvariant, Positions
<1>3. CASE Poll(w)
  <2>1. /\ fetched' = [fetched EXCEPT ![w] = fetched[w] + 1]
        /\ stage' = [stage EXCEPT ![w] = "handling"]
        /\ stage[w] = "polling" /\ fetched[w] < Len(topic)
        /\ UNCHANGED <<vars, queue, publisher, topic, committed, faults>>
    BY <1>3 DEF Poll, Goto
  <2>2. stage'[w] = "handling" /\ fetched'[w] = fetched[w] + 1
    BY <1>2, <2>1
  <2>3. Handled(w)' = fetched[w] /\ Handled(w) = fetched[w]
    BY <1>1, <2>1, <2>2 DEF Handled
  <2>4. /\ fetched[w] + 1 \in Nat /\ committed[w] < fetched[w] + 1
        /\ committed[w] <= fetched[w] + 1 /\ fetched[w] + 1 <= Len(topic)
    BY <1>1, <2>1
  <2>5. committed' = [committed EXCEPT ![w] = committed[w]]
    BY <1>2, <2>1
  <2> QED
    BY <1>1, <2>1, <2>3, <2>4, <2>5, OneWorkerKeeps
<1>4. CASE Skip(w) \/ Duplicate(w)
  <2>1. /\ stage[w] = "handling" /\ stage' = [stage EXCEPT ![w] = "committing"]
        /\ UNCHANGED <<vars, queue, publisher, topic, fetched, committed, faults>>
    BY <1>4 DEF Skip, Duplicate, Goto
  <2>2. stage'[w] = "committing" /\ fetched'[w] = fetched[w]
    BY <1>2, <2>1
  <2>3. Handled(w)' = fetched[w] /\ Handled(w) = fetched[w] - 1
    BY <2>1, <2>2 DEF Handled
  <2>4. Handled(w)' = Handled(w) + 1 /\ Handled(w) + 1 = fetched[w]
    BY <1>1, <2>3
  <2>5. ASSUME NEW r \in Requests, payment[r].status = Expected[w]
        PROVE  topic[fetched[w]] # Order(r, w)
    BY <1>4, <2>5 DEF Skip, Duplicate, Record, Order
  <2>6. /\ fetched' = [fetched EXCEPT ![w] = fetched[w]]
        /\ committed' = [committed EXCEPT ![w] = committed[w]]
        /\ committed[w] < fetched[w]
    BY <1>1, <1>2, <2>1
  <2> QED
    BY <1>1, <2>1, <2>4, <2>5, <2>6, OneWorkerKeeps
<1>5. CASE CommitOffset(w)
  <2>1. /\ committed' = [committed EXCEPT ![w] = fetched[w]]
        /\ stage' = [stage EXCEPT ![w] = "polling"]
        /\ stage[w] = "committing"
        /\ UNCHANGED <<vars, queue, publisher, topic, fetched, faults>>
    BY <1>5 DEF CommitOffset, Goto
  <2>2. stage'[w] = "polling" /\ fetched'[w] = fetched[w]
    BY <1>2, <2>1
  <2>3. Handled(w)' = Handled(w)
    BY <2>1, <2>2 DEF Handled
  <2>4. fetched' = [fetched EXCEPT ![w] = fetched[w]] /\ fetched[w] <= fetched[w]
    BY <1>1, <1>2, <2>1
  <2> QED
    BY <1>1, <2>1, <2>3, <2>4, OneWorkerKeeps
<1>6. CASE CommitFails(w)
  <2>1. stage' = [stage EXCEPT ![w] = "polling"]
    BY <1>6 DEF CommitFails, Goto
  <2>2. Handled(w)' = Handled(w)
    BY <1>2, <1>6, <2>1 DEF Handled, CommitFails
  <2> QED
    BY <1>1, <1>2, <1>6, <2>1, <2>2, OneWorkerKeeps DEF CommitFails
<1> QED
  BY <1>3, <1>4, <1>5, <1>6

\* A crash takes every worker back to what it has committed.
LEMMA CrashStep ==
  ASSUME RelayInvariant, Crash
  PROVE  RelayKept'
<1>1. /\ fetched' = committed /\ committed' = committed
      /\ stage' = [w \in Workers |-> "polling"]
      /\ UNCHANGED <<payment, outbox, queue, topic>> /\ publisher' = Idle /\ Fault
  BY DEF Crash, vars
<1>2. Positions'
  BY <1>1 DEF RelayInvariant, Positions
<1>3. \A w \in Workers : stage'[w] = "polling" /\ Handled(w)' = committed[w]
  BY <1>1 DEF Handled
<1>4. ASSUME NEW w \in Workers
      PROVE  /\ committed[w] \in Nat /\ Handled(w) \in Nat /\ committed[w] <= Handled(w)
             /\ Len(topic) \in Nat /\ committed[w] <= Len(topic)
             /\ DOMAIN topic = 1..Len(topic)
  <2>1. /\ committed[w] \in Nat /\ Handled(w) \in Nat /\ fetched[w] \in Nat
        /\ committed[w] <= Handled(w) /\ Handled(w) <= fetched[w]
        /\ Len(topic) \in Nat /\ fetched[w] <= Len(topic) /\ DOMAIN topic = 1..Len(topic)
    BY Places DEF RelayInvariant
  <2> QED
    BY <2>1
<1>5. \A w \in Workers : /\ committed'[w] \in 0..fetched'[w]
                         /\ fetched'[w] \in 0..Len(topic)
                         /\ stage'[w] # "polling" => committed'[w] < fetched'[w]
                         /\ Handled(w)' \in Nat
  BY <1>1, <1>3, <1>4
<1>6. \A w \in Workers : \A r \in Requests : \A i \in DOMAIN topic :
        payment[r].status = Expected[w] /\ topic[i] = Order(r, w) /\ i > Handled(w)
          => i > Handled(w)'
  BY <1>3, <1>4
<1> QED
  BY <1>1, <1>2, <1>5, <1>6, WorkersKeep

\* A step that leaves all the relay's variables, payments and outbox as they are: the
\* status of an account is no concern of the relay.
LEMMA QuietStep ==
  ASSUME RelayInvariant, UNCHANGED <<payment, outbox, relayVars>>, Fault \/ UNCHANGED faults
  PROVE  RelayKept'
<1>1. UNCHANGED <<queue, publisher, topic, fetched, committed, stage>>
  BY DEF relayVars
<1>2. Positions' /\ \A w \in Workers : Handled(w)' = Handled(w)
  BY <1>1 DEF RelayInvariant, Positions, Handled
<1>3. \A w \in Workers : Handled(w) \in Nat
  BY Places DEF RelayInvariant
<1>4. \A w \in Workers : /\ committed'[w] \in 0..fetched'[w]
                         /\ fetched'[w] \in 0..Len(topic)
                         /\ stage'[w] # "polling" => committed'[w] < fetched'[w]
                         /\ Handled(w)' \in Nat
  BY <1>1, <1>2, <1>3 DEF RelayInvariant, RelayTypeOK
<1> QED
  BY <1>1, <1>2, <1>4, WorkersKeep

-----------------------------------------------------------------------------
(* Operations                                                               *)

\* An operation on r, by a worker that has an order for r in hand or by someone else.
LEMMA OperationKeeps ==
  ASSUME RelayInvariant, NEW r \in Requests, Advances(r), EventsToCome',
         NEW cause, Recorded(cause),
         UNCHANGED <<publisher, topic, fetched, committed>>, Fault \/ UNCHANGED faults,
         \/ UNCHANGED stage
         \/ \E w \in Workers : /\ stage[w] = "handling" /\ topic[fetched[w]][1] = r
                               /\ stage' = [stage EXCEPT ![w] = "committing"]
  PROVE  RelayKept'
<1>1. /\ outbox \subseteq outbox'
      /\ queue' \in Seq(outbox') /\ IsInjective(queue')
      /\ Range(queue') = Range(queue) \cup (outbox' \ outbox)
  BY RecordedQueue DEF RelayInvariant, RelayTypeOK
<1>2. faults' \in 0..MaxFaults
  BY FaultCounted
<1>3. Positions'
  BY DEF RelayInvariant, Positions
<1>4. Sent'
  BY <1>1 DEF RelayInvariant, Sent, Old
<1>5. ASSUME NEW v \in Workers
      PROVE  /\ Handled(v)' = Handled(v)
                \/ (Handled(v)' = Handled(v) + 1 /\ topic[Handled(v) + 1][1] = r)
             /\ stage'[v] # "polling" => stage[v] # "polling"
  <2>1. fetched[v] \in Nat /\ DOMAIN stage = Workers
    BY DEF RelayInvariant, Positions
  <2>2. CASE stage'[v] = stage[v]
    BY <2>2 DEF Handled
  <2>3. CASE /\ stage[v] = "handling" /\ topic[fetched[v]][1] = r
             /\ stage' = [stage EXCEPT ![v] = "committing"]
    <3>1. stage'[v] = "committing"
      BY <2>1, <2>3
    <3>2. Handled(v)' = fetched[v] /\ Handled(v) = fetched[v] - 1
      BY <2>3, <3>1 DEF Handled
    <3>3. Handled(v) + 1 = fetched[v]
      BY <2>1, <3>2
    <3> QED
      BY <2>3, <3>2, <3>3
  <2> QED
    BY <2>1, <2>2, <2>3
<1>6. RelayTypeOK'
  <2>1. Range(queue) \subseteq Range(queue')
    BY <1>1
  <2>2. publisher' \in [at : {"send", "mark"}, event : Range(queue')] \cup {Idle}
    BY <2>1 DEF RelayInvariant, RelayTypeOK
  <2>3. topic' \in Seq(outbox' \cup Range(OldTopic))
    BY <1>1 DEF RelayInvariant, RelayTypeOK
  <2>4. ASSUME NEW w \in Workers
        PROVE  /\ committed'[w] \in 0..fetched'[w] /\ fetched'[w] \in 0..Len(topic')
               /\ stage'[w] \in {"polling", "handling", "committing"}
               /\ stage'[w] # "polling" => committed'[w] < fetched'[w]
    <3>1. stage'[w] \in {"polling", "handling", "committing"}
      BY <1>3 DEF Positions
    <3> QED
      BY <1>5, <3>1 DEF RelayInvariant, RelayTypeOK
  <2> QED
    BY <1>1, <1>2, <2>2, <2>3, <2>4 DEF RelayTypeOK
<1>7. ASSUME NEW q \in Requests, NEW v \in Workers, payment'[q].status = Expected[v]
      PROVE  Waiting(Order(q, v))' \/ Ahead(Order(q, v), v)'
  <2>1. Order(q, v)' = Order(q, v)
    BY DEF Order, Wanted
  <2>2. CASE q = r
    <3>1. Order(r, v) \notin outbox /\ Order(r, v) \in outbox'
      BY <1>7, <2>2 DEF Advances
    <3>2. publisher.at = "mark" => publisher.event \in outbox
      BY InHand
    <3> QED
      BY <1>1, <2>1, <2>2, <3>1, <3>2 DEF Waiting
  <2>3. CASE q # r
    <3>1. payment[q].status = Expected[v]
      BY <1>7, <2>3 DEF Advances
    <3>2. Waiting(Order(q, v)) \/ Ahead(Order(q, v), v)
      BY <3>1 DEF RelayInvariant, OrdersAhead
    <3>3. CASE Waiting(Order(q, v))
      BY <1>1, <2>1, <3>3 DEF Waiting
    <3>4. CASE Ahead(Order(q, v), v)
      <4>1. PICK i \in DOMAIN topic : i > Handled(v) /\ topic[i] = Order(q, v)
        BY <3>4 DEF Ahead
      <4>2. i \in Int /\ Handled(v) \in Nat
        BY Places DEF RelayInvariant, RelayTypeOK
      <4>3. topic[i][1] = q
        BY <4>1 DEF Order
      <4>4. i > Handled(v)'
        <5>1. CASE Handled(v)' = Handled(v)
          BY <4>1, <5>1
        <5>2. CASE Handled(v)' = Handled(v) + 1 /\ topic[Handled(v) + 1][1] = r
          <6>1. i # Handled(v) + 1
            BY <2>3, <4>3, <5>2
          <6> QED
            BY <4>1, <4>2, <5>2, <6>1
        <5> QED
          BY <1>5, <5>1, <5>2
      <4> QED
        BY <2>1, <4>1, <4>4 DEF Ahead
    <3> QED
      BY <3>2, <3>3, <3>4
  <2> QED
    BY <2>2, <2>3
<1>8. OrdersAhead'
  BY <1>7 DEF OrdersAhead, Expected
<1> QED
  BY <1>3, <1>4, <1>6, <1>8 DEF RelayKept

\* POST /payments, an operator's POST, and a worker's call.
LEMMA OperationStep ==
  ASSUME RelayInvariant,
         \/ \E r \in Requests : Submit(r)
         \/ \E r \in Manual : Operate(r)
         \/ \E w \in Workers : Handle(w) \/ HandleLosesAnswer(w)
  PROVE  RelayKept'
<1>1. ASSUME NEW r \in Requests, Submit(r) PROVE RelayKept'
  <2>1. Advances(r) /\ EventsToCome'
    BY <1>1, OperationAdvances DEF Submit, RelayInvariant
  <2> QED
    BY <1>1, <2>1, OperationKeeps DEF Submit
<1>2. ASSUME NEW r \in Manual, Operate(r) PROVE RelayKept'
  <2>1. r \in Requests
    BY ManualAssumption
  <2>2. Advances(r) /\ EventsToCome'
    BY <1>2, <2>1, OperationAdvances DEF Operate, RelayInvariant
  <2> QED
    BY <1>2, <2>1, <2>2, OperationKeeps DEF Operate
<1>3. ASSUME NEW w \in Workers, Handle(w) \/ HandleLosesAnswer(w) PROVE RelayKept'
  <2>1. PICK r \in Requests : r = Record(w)[1]
    BY <1>3 DEF Handle, HandleLosesAnswer, Call
  <2>2. Handler(w, r) /\ stage[w] = "handling" /\ topic[fetched[w]][1] = r
        /\ Recorded(Record(w)) /\ UNCHANGED <<publisher, topic, fetched, committed>>
        /\ (Fault \/ UNCHANGED faults)
        /\ (UNCHANGED stage \/ stage' = [stage EXCEPT ![w] = "committing"])
    BY <1>3, <2>1 DEF Handle, HandleLosesAnswer, Call, Goto, Record
  <2>3. Advances(r) /\ EventsToCome'
    BY <2>2, OperationAdvances DEF Handler, RelayInvariant
  <2> QED
    BY <2>2, <2>3, OperationKeeps
<1> QED
  BY <1>1, <1>2, <1>3

-----------------------------------------------------------------------------
(* The order of a payment's events                                          *)

\* The place of an event in its payment's story.
Rank(event) == CASE event[2] = "payment.validated" -> 1
                 [] event[2] = "payment.cleared"   -> 2
                 [] event[2] = "payment.accepted"  -> 3

\* Of a payment that no operator touches, e may come before f.
MayPrecede(e, f) == e[1] = f[1] /\ e[1] \notin Manual => Rank(e) <= Rank(f)

\* Nothing in the queue may have to come before event.
MayGoFirst(event) == \A j \in DOMAIN queue : MayPrecede(event, queue[j])

\* The topic is in order, and so is what is still to come to it: the queue, and what the
\* publisher is about to send though others may have joined the queue before it.
InOrder ==
  /\ \A i, j \in DOMAIN queue : i < j => MayPrecede(queue[i], queue[j])
  /\ publisher.at = "send" => MayGoFirst(publisher.event)
  /\ \A i \in Old + 1..Len(topic) : MayGoFirst(topic[i])
  /\ \A i, j \in Old + 1..Len(topic) : i < j => MayPrecede(topic[i], topic[j])

\* The service has sent the event.
HasSent(event) == \E i \in Old + 1..Len(topic) : topic[i] = event

\* No event is lost, so a worker that finds the order in hand no longer in the queue (or
\* an old record that looks like it) is acting on one that has been sent.
NoneLost ==
  /\ Old <= Len(topic)
  /\ \A event \in outbox : event \in Range(queue) \/ HasSent(event)
  /\ publisher.at = "mark" => HasSent(publisher.event)
  /\ \A r \in Requests, w \in Workers : payment[r].status = Expected[w] => Order(r, w) \in outbox

StoryInvariant == RelayInvariant /\ InOrder /\ NoneLost

\* A payment's events are told apart by their places.
LEMMA Ranks ==
  /\ \A r : /\ Rank(<<r, "payment.validated">>) = 1
            /\ Rank(<<r, "payment.cleared">>) = 2
            /\ Rank(<<r, "payment.accepted">>) = 3
  /\ \A e, f \in Requests \X EventType :
       /\ Rank(e) \in Int
       /\ e[1] = f[1] /\ Rank(e) = Rank(f) => e = f
<1>1. \A r : /\ Rank(<<r, "payment.validated">>) = 1
             /\ Rank(<<r, "payment.cleared">>) = 2
             /\ Rank(<<r, "payment.accepted">>) = 3
  BY DEF Rank
<1>2. \A e \in Requests \X EventType :
        \/ e = <<e[1], "payment.validated">>
        \/ e = <<e[1], "payment.cleared">>
        \/ e = <<e[1], "payment.accepted">>
  BY DEF EventType
<1> HIDE DEF Rank
<1>3. ASSUME NEW e \in Requests \X EventType, NEW f \in Requests \X EventType
      PROVE  /\ Rank(e) \in Int
             /\ e[1] = f[1] /\ Rank(e) = Rank(f) => e = f
  <2>1. \/ Rank(e) = 1 /\ e = <<e[1], "payment.validated">>
        \/ Rank(e) = 2 /\ e = <<e[1], "payment.cleared">>
        \/ Rank(e) = 3 /\ e = <<e[1], "payment.accepted">>
    BY <1>1, <1>2
  <2>2. \/ Rank(f) = 1 /\ f = <<f[1], "payment.validated">>
        \/ Rank(f) = 2 /\ f = <<f[1], "payment.cleared">>
        \/ Rank(f) = 3 /\ f = <<f[1], "payment.accepted">>
    BY <1>1, <1>2
  <2> QED
    BY <2>1, <2>2
<1> QED
  BY <1>1, <1>3

\* The order for the worker that a payment waits for is the latest of its events.
LEMMA LatestOrder ==
  ASSUME NEW r \in Requests, NEW w \in Workers, NEW events \in SUBSET (Requests \X EventType),
         w = "clearing" => /\ <<r, "payment.cleared">> \notin events
                           /\ <<r, "payment.accepted">> \notin events,
         w = "receiver" => <<r, "payment.accepted">> \notin events
  PROVE  \A e \in events : e[1] = r => Rank(e) <= Rank(Order(r, w))
<1>1. \A e \in events : e[1] = r => \/ e = <<r, "payment.validated">>
                                    \/ e = <<r, "payment.cleared">>
                                    \/ e = <<r, "payment.accepted">>
  BY DEF EventType
<1>2. /\ w = "clearing" => Rank(Order(r, w)) = 1
      /\ w = "receiver" => Rank(Order(r, w)) = 2
      /\ w = "settlement" => Rank(Order(r, w)) = 3
  BY Ranks, WorkerTables DEF Order
<1>3. SUFFICES ASSUME NEW e \in events, e[1] = r
               PROVE  Rank(e) <= Rank(Order(r, w))
  OBVIOUS
<1>4. w \in {"clearing", "receiver", "settlement"}
  BY DEF Workers
<1>5. \/ e = <<r, "payment.validated">> /\ Rank(e) = 1
      \/ e = <<r, "payment.cleared">> /\ Rank(e) = 2
      \/ e = <<r, "payment.accepted">> /\ Rank(e) = 3
  BY <1>1, <1>3, Ranks
<1>6. CASE w = "clearing"
  BY <1>2, <1>3, <1>5, <1>6
<1>7. CASE w = "receiver"
  BY <1>2, <1>3, <1>5, <1>7
<1>8. CASE w = "settlement"
  BY <1>2, <1>5, <1>8
<1> QED
  BY <1>4, <1>6, <1>7, <1>8

\* An insertion keeps the order of what was there.
LEMMA InsertedOrder ==
  ASSUME NEW S, NEW s \in Seq(S), NEW e \in S, NEW i \in 1..Len(s) + 1
  PROVE  LET t == InsertAt(s, i, e) IN
         \A j, k \in DOMAIN t : j < k =>
           \/ \E a, b \in DOMAIN s : a < b /\ t[j] = s[a] /\ t[k] = s[b]
           \/ \E b \in DOMAIN s : i <= b /\ t[j] = e /\ t[k] = s[b]
           \/ \E a \in DOMAIN s : a < i /\ t[j] = s[a] /\ t[k] = e
<1> DEFINE t == InsertAt(s, i, e)
<1>0. /\ InsertAt(s, i, e) \in Seq(S) /\ Len(InsertAt(s, i, e)) = Len(s) + 1
      /\ \A j \in 1..Len(s) + 1 :
           InsertAt(s, i, e)[j] = IF j < i THEN s[j] ELSE IF j = i THEN e ELSE s[j - 1]
  BY Inserted
<1>1. /\ t \in Seq(S) /\ Len(t) = Len(s) + 1
      /\ \A j \in 1..Len(s) + 1 : t[j] = IF j < i THEN s[j] ELSE IF j = i THEN e ELSE s[j - 1]
  BY <1>0
<1> HIDE DEF t
<1>2. DOMAIN t = 1..Len(s) + 1 /\ DOMAIN s = 1..Len(s) /\ Len(s) \in Nat
  BY <1>1
<1> SUFFICES ASSUME NEW j \in DOMAIN t, NEW k \in DOMAIN t, j < k
             PROVE  \/ \E a, b \in DOMAIN s : a < b /\ t[j] = s[a] /\ t[k] = s[b]
                    \/ \E b \in DOMAIN s : i <= b /\ t[j] = e /\ t[k] = s[b]
                    \/ \E a \in DOMAIN s : a < i /\ t[j] = s[a] /\ t[k] = e
  BY DEF t
<1>3. CASE k < i
  BY <1>1, <1>2, <1>3
<1>4. CASE k = i
  BY <1>1, <1>2, <1>4
<1>5. CASE j < i /\ i < k
  <2>1. j \in DOMAIN s /\ t[j] = s[j] /\ k - 1 \in DOMAIN s /\ t[k] = s[k - 1] /\ j < k - 1
    BY <1>1, <1>2, <1>5
  <2> QED
    BY <2>1
<1>6. CASE j = i
  <2>1. t[j] = e /\ k - 1 \in DOMAIN s /\ t[k] = s[k - 1] /\ i <= k - 1
    BY <1>1, <1>2, <1>6
  <2> QED
    BY <2>1
<1>7. CASE i < j
  <2>1. /\ j - 1 \in DOMAIN s /\ t[j] = s[j - 1]
        /\ k - 1 \in DOMAIN s /\ t[k] = s[k - 1] /\ j - 1 < k - 1
    BY <1>1, <1>2, <1>7
  <2> QED
    BY <2>1
<1> QED
  BY <1>2, <1>3, <1>4, <1>5, <1>6, <1>7

\* So does a removal.
LEMMA RemovedOrder ==
  ASSUME NEW S, NEW s \in Seq(S), NEW i \in 1..Len(s), NEW t, t = RemoveAt(s, i)
  PROVE  \A j, k \in DOMAIN t : j < k =>
           \E a, b \in DOMAIN s : a < b /\ t[j] = s[a] /\ t[k] = s[b]
<1>1. /\ t \in Seq(S) /\ Len(t) = Len(s) - 1
      /\ \A j \in 1..Len(s) - 1 : t[j] = IF j < i THEN s[j] ELSE s[j + 1]
  <2>1. /\ RemoveAt(s, i) \in Seq(S) /\ Len(RemoveAt(s, i)) = Len(s) - 1
        /\ \A j \in 1..Len(s) - 1 : RemoveAt(s, i)[j] = IF j < i THEN s[j] ELSE s[j + 1]
    BY Removed
  <2> QED
    BY <2>1, Zenon
<1>2. DOMAIN t = 1..Len(s) - 1 /\ DOMAIN s = 1..Len(s) /\ Len(s) \in Nat
  BY <1>1
<1> SUFFICES ASSUME NEW j \in DOMAIN t, NEW k \in DOMAIN t, j < k
             PROVE  \E a, b \in DOMAIN s : a < b /\ t[j] = s[a] /\ t[k] = s[b]
  OBVIOUS
<1>3. CASE k < i
  BY <1>1, <1>2, <1>3
<1>4. CASE j < i /\ i <= k
  <2>1. j \in DOMAIN s /\ t[j] = s[j] /\ k + 1 \in DOMAIN s /\ t[k] = s[k + 1] /\ j < k + 1
    BY <1>1, <1>2, <1>4
  <2> QED
    BY <2>1
<1>5. CASE i <= j
  <2>1. /\ j + 1 \in DOMAIN s /\ t[j] = s[j + 1]
        /\ k + 1 \in DOMAIN s /\ t[k] = s[k + 1] /\ j + 1 < k + 1
    BY <1>1, <1>2, <1>5
  <2> QED
    BY <2>1
<1> QED
  BY <1>2, <1>3, <1>4, <1>5

\* What the relay has on its way is in the outbox.
LEMMA OnTheWay ==
  ASSUME RelayInvariant
  PROVE  /\ queue \in Seq(outbox) /\ DOMAIN queue = 1..Len(queue) /\ Len(queue) \in Nat
         /\ \A j \in DOMAIN queue : queue[j] \in outbox /\ queue[j] \in Range(queue)
         /\ \A event \in Range(queue) : \E j \in DOMAIN queue : queue[j] = event
         /\ topic \in Seq(outbox \cup Range(OldTopic)) /\ Len(topic) \in Nat /\ Old \in Nat
         /\ \A i \in Old + 1..Len(topic) : topic[i] \in outbox
<1>1. queue \in Seq(outbox) /\ topic \in Seq(outbox \cup Range(OldTopic)) /\ Old \in Nat
  BY OldTopicAssumption DEF RelayInvariant, RelayTypeOK, Old
<1>2. \A i \in Old + 1..Len(topic) : topic[i] \in outbox
  BY DEF RelayInvariant, Sent
<1> QED
  BY <1>1, <1>2 DEF Range

\* The publisher sends and marks: the topic gets at most the event that it sends, and the
\* queue loses at most an event that has been sent.
LEMMA PublisherInOrder ==
  ASSUME StoryInvariant, ReadEvent \/ SendEvent \/ SendFails \/ MarkEvent \/ MarkFails
  PROVE  InOrder' /\ NoneLost'
<1> USE DEF StoryInvariant
<1>1. /\ DOMAIN queue = 1..Len(queue) /\ Len(queue) \in Nat
      /\ \A j \in DOMAIN queue : queue[j] \in outbox /\ queue[j] \in Range(queue)
      /\ \A event \in Range(queue) : \E j \in DOMAIN queue : queue[j] = event
      /\ topic \in Seq(outbox \cup Range(OldTopic)) /\ Len(topic) \in Nat /\ Old \in Nat
  BY OnTheWay
<1>2. Idle.at = "read" /\ UNCHANGED <<payment, outbox>>
  BY DEF Idle, ReadEvent, SendEvent, SendFails, MarkEvent, MarkFails, vars
<1>3. \A e, f : MayPrecede(e, f)' = MayPrecede(e, f)
  BY DEF MayPrecede
<1>4. \A r, w : Order(r, w)' = Order(r, w)
  BY DEF Order
<1>5. ASSUME queue' = queue, topic' = topic,
             \/ publisher'.at = "read"
             \/ publisher'.at = "send" /\ publisher'.event = Head(queue) /\ queue # << >>
      PROVE  InOrder' /\ NoneLost'
  <2>1. publisher'.at = "send" => \A j \in DOMAIN queue : MayPrecede(publisher'.event, queue[j])
    <3> SUFFICES ASSUME publisher'.at = "send", NEW j \in DOMAIN queue
                 PROVE  MayPrecede(queue[1], queue[j])
      BY <1>5
    <3>1. CASE j = 1
      <4>1. queue[j] \in Requests \X EventType
        BY <1>1 DEF RelayInvariant, TypeOK
      <4> QED
        BY <3>1, <4>1, Ranks DEF MayPrecede
    <3>2. CASE j # 1
      BY <1>1, <3>2 DEF InOrder
    <3> QED
      BY <3>1, <3>2
  <2>2. InOrder'
    BY <1>5, <2>1 DEF InOrder, MayGoFirst, Old
  <2>3. NoneLost'
    BY <1>2, <1>4, <1>5 DEF NoneLost, HasSent, Old, Expected
  <2> QED
    BY <2>2, <2>3
<1>6. ASSUME queue' = queue, publisher.at = "send", topic' = Append(topic, publisher.event),
             \/ publisher'.at = "read"
             \/ publisher'.at = "mark" /\ publisher'.event = publisher.event
      PROVE  InOrder' /\ NoneLost'
  <2> DEFINE n == Len(topic)
  <2>1. /\ Len(topic') = n + 1 /\ topic'[n + 1] = publisher.event
        /\ \A i \in 1..n : topic'[i] = topic[i]
    BY <1>1, <1>6
  <2>2. \A i \in Old + 1..n + 1 : i = n + 1 \/ (i \in Old + 1..n /\ i \in 1..n)
    BY <1>1
  <2>3. n >= Old
    BY DEF NoneLost
  <2>4. publisher.event \in Range(queue)
    BY <1>6, InHand
  <2>5. ASSUME NEW i \in Old + 1..n + 1
        PROVE  \A j \in DOMAIN queue : MayPrecede(topic'[i], queue[j])
    BY <1>6, <2>1, <2>2 DEF InOrder, MayGoFirst
  <2>6. ASSUME NEW i \in Old + 1..n + 1, NEW j \in Old + 1..n + 1, i < j
        PROVE  MayPrecede(topic'[i], topic'[j])
    <3>1. i \in Old + 1..n /\ topic'[i] = topic[i]
      BY <1>1, <2>1, <2>2, <2>6
    <3>2. CASE j = n + 1
      BY <1>1, <2>1, <2>4, <3>1, <3>2 DEF InOrder, MayGoFirst
    <3>3. CASE j # n + 1
      BY <2>1, <2>2, <2>6, <3>1, <3>3 DEF InOrder
    <3> QED
      BY <3>2, <3>3
  <2>7. InOrder'
    BY <1>6, <2>1, <2>5, <2>6 DEF InOrder, MayGoFirst, Old
  <2>8. ASSUME NEW event, HasSent(event) PROVE HasSent(event)'
    <3>1. PICK i \in Old + 1..n : topic[i] = event
      BY <2>8 DEF HasSent
    <3>2. i \in Old + 1..n + 1 /\ topic'[i] = event
      BY <1>1, <2>1, <3>1
    <3> QED
      BY <2>1, <3>2 DEF HasSent, Old
  <2>9. \E i \in Old + 1..Len(topic') : topic'[i] = publisher.event
    <3>1. n + 1 \in Old + 1..n + 1
      BY <1>1, <2>3
    <3> QED
      BY <2>1, <3>1
  <2>10. publisher'.at = "mark" => HasSent(publisher.event)'
    <3>1. publisher'.at = "mark" => \E i \in Old + 1..Len(topic') : topic'[i] = publisher'.event
      BY <1>6, <2>9
    <3> QED
      BY <3>1 DEF HasSent, Old
  <2>11. Old' <= Len(topic')
    BY <1>1, <2>1, <2>3 DEF Old
  <2>12. \A event \in outbox : event \in Range(queue') \/ HasSent(event)'
    BY <1>6, <2>8 DEF NoneLost
  <2>13. \A r \in Requests, w \in Workers :
           payment'[r].status = Expected[w] => Order(r, w) \in outbox'
    BY <1>2 DEF NoneLost
  <2>14. NoneLost'
    BY <1>2, <2>10, <2>11, <2>12, <2>13 DEF NoneLost, Expected, Order, Wanted
  <2> QED
    BY <2>7, <2>14
<1>7. ASSUME MarkEvent PROVE InOrder' /\ NoneLost'
  <2> DEFINE p == Position(publisher.event)
  <2>1. /\ publisher.at = "mark" /\ queue' = RemoveAt(queue, p)
        /\ UNCHANGED topic /\ publisher'.at = "read"
    BY <1>2, <1>7 DEF MarkEvent
  <2>2. p \in 1..Len(queue) /\ queue[p] = publisher.event
    <3>1. publisher.event \in Range(queue)
      BY <2>1, InHand
    <3>2. \E j \in DOMAIN queue : queue[j] = publisher.event
      BY <1>1, <3>1
    <3> QED
      BY <1>1, <3>1, <3>2 DEF Position
  <2> HIDE DEF p
  <2>3. /\ Range(queue) \ {publisher.event} \subseteq Range(queue')
        /\ \A j, k \in DOMAIN queue' : j < k =>
             \E a, b \in DOMAIN queue : a < b /\ queue'[j] = queue[a] /\ queue'[k] = queue[b]
        /\ \A j \in DOMAIN queue' : queue'[j] \in Range(queue')
        /\ Range(queue') \subseteq Range(queue)
    <3>1. queue \in Seq(outbox)
      BY OnTheWay
    <3>2. \A j \in DOMAIN queue' : queue'[j] \in Range(queue')
      BY DEF Range
    <3> QED
      BY <2>1, <2>2, <3>1, <3>2, RemovedOrder, RemovedRange
  <2>4. InOrder'
    <3>1. \A i \in Old + 1..Len(topic), j \in DOMAIN queue' : MayPrecede(topic[i], queue'[j])
      <4>1. \A j \in DOMAIN queue' : \E k \in DOMAIN queue : queue'[j] = queue[k]
        BY <1>1, <2>3
      <4> QED
        BY <4>1 DEF InOrder, MayGoFirst
    <3>2. \A j, k \in DOMAIN queue' : j < k => MayPrecede(queue'[j], queue'[k])
      BY <2>3 DEF InOrder
    <3> QED
      BY <2>1, <3>1, <3>2 DEF InOrder, MayGoFirst, Old
  <2>5. \A event : HasSent(event)' <=> HasSent(event)
    BY <2>1 DEF HasSent, Old
  <2>6. HasSent(publisher.event)
    BY <2>1 DEF NoneLost
  <2>7. NoneLost'
    BY <1>2, <1>4, <2>1, <2>3, <2>5, <2>6 DEF NoneLost, Expected
  <2> QED
    BY <2>4, <2>7
<1>8. CASE ReadEvent
  BY <1>5, <1>8 DEF ReadEvent
<1>9. CASE SendEvent
  <2>1. publisher'.at = "mark" /\ publisher'.event = publisher.event
    BY <1>9, InHand DEF SendEvent
  <2> QED
    BY <1>6, <1>9, <2>1 DEF SendEvent
<1>10. CASE SendFails
  BY <1>2, <1>5, <1>6, <1>10 DEF SendFails
<1>11. CASE MarkFails
  BY <1>2, <1>5, <1>11 DEF MarkFails
<1> QED
  BY <1>7, <1>8, <1>9, <1>10, <1>11

\* Queue and topic stay, and what the publisher had in hand may be lost.
LEMMA PlacesInOrder ==
  ASSUME StoryInvariant, UNCHANGED <<payment, outbox, queue, topic>>,
         publisher' = publisher \/ publisher' = Idle
  PROVE  InOrder' /\ NoneLost'
<1>1. publisher'.at \in {"send", "mark"} => publisher' = publisher
  BY DEF Idle
<1>2. InOrder'
  BY <1>1 DEF StoryInvariant, InOrder, MayGoFirst, Old
<1>3. \A event : HasSent(event)' <=> HasSent(event)
  BY DEF HasSent, Old
<1>4. publisher'.at = "mark" => \E i \in Old + 1..Len(topic) : topic[i] = publisher'.event
  BY <1>1 DEF StoryInvariant, NoneLost, HasSent
<1>5. (publisher.at = "mark" => HasSent(publisher.event))'
  BY <1>4 DEF HasSent, Old
<1>6. NoneLost'
  BY <1>3, <1>5 DEF StoryInvariant, NoneLost, Expected, Order, Wanted, Old
<1> QED
  BY <1>2, <1>6

\* Who records an event of a payment that no operator touches: a POST, or a worker with the
\* order to act in hand.
Prompted(r, cause) ==
  \/ r \in Manual
  \/ payment[r].status = "none"
  \/ \E w \in Workers : payment[r].status = Expected[w] /\ cause = Order(r, w)

\* The new event of an operation comes after all others of its payment: those are behind it
\* in the queue or already sent, for if the order to act is not in the queue it has been
\* sent, and so have all that must come before.
LEMMA NewEventIsLast ==
  ASSUME StoryInvariant, NEW r \in Requests, Advances(r), EventsToCome', TypeOK',
         NEW cause, Prompted(r, cause), NEW event \in outbox', event \notin outbox,
         NEW i \in Position(cause)..Len(queue)
  PROVE  /\ \A e \in outbox : MayPrecede(e, event)
         /\ \A j \in DOMAIN queue : j > i => MayPrecede(event, queue[j])
         /\ i \in 0..Len(queue)
<1> USE DEF StoryInvariant
<1>1. /\ DOMAIN queue = 1..Len(queue) /\ Len(queue) \in Nat
      /\ \A j \in DOMAIN queue : queue[j] \in outbox /\ queue[j] \in Range(queue)
      /\ \A e \in Range(queue) : \E j \in DOMAIN queue : queue[j] = e
      /\ \A k \in Old + 1..Len(topic) : topic[k] \in outbox
  BY OnTheWay
<1>2. /\ TypeOK /\ outbox \subseteq Requests \X EventType /\ outbox' \subseteq Requests \X EventType
      /\ IsInjective(queue)
  BY DEF RelayInvariant, RelayTypeOK, TypeOK
<1>3. PICK w \in Workers : /\ payment'[r].status = Expected[w]
                           /\ outbox' = outbox \cup {event} /\ event = Order(r, w)
  BY DEF Advances
<1>4. ASSUME NEW e \in outbox PROVE MayPrecede(e, event)
  <2>1. /\ w = "clearing" => /\ <<r, "payment.cleared">> \notin outbox'
                             /\ <<r, "payment.accepted">> \notin outbox'
        /\ w = "receiver" => <<r, "payment.accepted">> \notin outbox'
    BY <1>3, WorkerTables DEF EventsToCome
  <2>2. e[1] = r => Rank(e) <= Rank(event)
    BY <1>2, <1>3, <2>1, LatestOrder
  <2> QED
    BY <1>3, <2>2 DEF MayPrecede, Order
<1>5. Position(cause) \in 0..Len(queue)
      /\ (cause \in Range(queue) => /\ Position(cause) \in DOMAIN queue
                                    /\ queue[Position(cause)] = cause)
  <2>1. CASE cause \in Range(queue)
    <3>1. \E j \in DOMAIN queue : queue[j] = cause
      BY <1>1, <2>1
    <3> QED
      BY <1>1, <2>1, <3>1 DEF Position
  <2>2. CASE cause \notin Range(queue)
    BY <1>1, <2>2 DEF Position
  <2> QED
    BY <2>1, <2>2
<1>6. ASSUME NEW j \in DOMAIN queue, j > i PROVE MayPrecede(event, queue[j])
  <2>1. CASE r \in Manual
    BY <1>3, <2>1 DEF MayPrecede, Order
  <2>2. CASE payment[r].status = "none"
    <3>1. queue[j] \in Requests \X EventType
      BY <1>1, <1>2
    <3>2. PICK q \in Requests, type \in EventType : queue[j] = <<q, type>>
      BY <3>1
    <3>3. q # r
      BY <1>1, <2>2, <3>2 DEF RelayInvariant, EventsToCome
    <3> QED
      BY <1>3, <3>2, <3>3 DEF MayPrecede, Order
  <2>3. ASSUME NEW u \in Workers, payment[r].status = Expected[u], cause = Order(r, u),
               r \notin Manual
        PROVE  MayPrecede(event, queue[j])
    <3> SUFFICES ASSUME queue[j][1] = r PROVE FALSE
      BY <1>3 DEF MayPrecede, Order
    <3>1. /\ u = "clearing" => /\ <<r, "payment.cleared">> \notin outbox
                               /\ <<r, "payment.accepted">> \notin outbox
          /\ u = "receiver" => <<r, "payment.accepted">> \notin outbox
      BY <2>3, WorkerTables DEF RelayInvariant, EventsToCome
    <3>2. Rank(queue[j]) <= Rank(cause)
      BY <1>1, <1>2, <2>3, <3>1, LatestOrder
    <3>3. cause \in outbox /\ cause[1] = r
      BY <2>3 DEF NoneLost, Order
    <3>4. ASSUME MayPrecede(cause, queue[j]) PROVE queue[j] = cause
      BY <1>1, <1>2, <2>3, <3>2, <3>3, <3>4, Ranks DEF MayPrecede
    <3>5. CASE cause \in Range(queue)
      <4> DEFINE p == Position(cause)
      <4>1. p \in DOMAIN queue /\ queue[p] = cause /\ p < j
        BY <1>1, <1>5, <1>6, <3>5
      <4>2. MayPrecede(cause, queue[j])
        BY <4>1 DEF InOrder
      <4> HIDE DEF p
      <4> QED
        BY <1>2, <3>4, <4>1, <4>2 DEF IsInjective
    <3>6. CASE cause \notin Range(queue)
      <4>1. PICK k \in Old + 1..Len(topic) : topic[k] = cause
        BY <3>3, <3>6 DEF NoneLost, HasSent
      <4>2. MayPrecede(cause, queue[j])
        BY <4>1 DEF InOrder, MayGoFirst
      <4> QED
        BY <1>1, <3>4, <3>6, <4>2
    <3> QED
      BY <3>5, <3>6
  <2> QED
    BY <2>1, <2>2, <2>3 DEF Prompted
<1>7. i \in 0..Len(queue)
  BY <1>1, <1>5
<1> QED
  BY <1>4, <1>6, <1>7

\* An operation keeps the order.
LEMMA OperationInOrder ==
  ASSUME StoryInvariant, NEW r \in Requests, Advances(r), EventsToCome', TypeOK',
         NEW cause, Recorded(cause), Prompted(r, cause), UNCHANGED <<publisher, topic>>
  PROVE  InOrder' /\ NoneLost'
<1> USE DEF StoryInvariant
<1>1. /\ queue \in Seq(outbox) /\ DOMAIN queue = 1..Len(queue) /\ Len(queue) \in Nat
      /\ \A j \in DOMAIN queue : queue[j] \in outbox
      /\ \A k \in Old + 1..Len(topic) : topic[k] \in outbox
  BY OnTheWay
<1>2. /\ \A event : HasSent(event)' <=> HasSent(event)
      /\ \A w : Order(r, w)' = Order(r, w)
  BY DEF HasSent, Old, Order, Wanted
<1>3. /\ outbox \subseteq outbox'
      /\ Range(queue') = Range(queue) \cup (outbox' \ outbox)
  BY RecordedQueue DEF RelayInvariant, RelayTypeOK
<1>4. NoneLost'
  <2>1. \A event \in outbox' : event \in Range(queue') \/ HasSent(event)'
    BY <1>2, <1>3 DEF NoneLost
  <2>2. publisher'.at = "mark" => \E i \in Old + 1..Len(topic) : topic[i] = publisher'.event
    BY DEF NoneLost, HasSent
  <2>3. (publisher.at = "mark" => HasSent(publisher.event))'
    BY <2>2 DEF HasSent, Old
  <2>4. ASSUME NEW q \in Requests, NEW w \in Workers, payment'[q].status = Expected[w]
        PROVE  Order(q, w) \in outbox'
    <3>1. CASE q = r
      BY <2>4, <3>1 DEF Advances
    <3>2. CASE q # r
      BY <1>3, <2>4, <3>2 DEF Advances, NoneLost
    <3> QED
      BY <3>1, <3>2
  <2> QED
    BY <2>1, <2>3, <2>4 DEF NoneLost, Expected, Order, Wanted, Old
<1>5. ASSUME outbox' = outbox PROVE InOrder'
  BY <1>5 DEF Recorded, InOrder, MayGoFirst, Old
<1>6. CASE outbox' # outbox
  <2>1. PICK event \in outbox' \ outbox, i \in Position(cause)..Len(queue) :
          queue' = InsertAt(queue, i + 1, event)
    BY <1>6 DEF Recorded
  <2>2. /\ \A e \in outbox : MayPrecede(e, event)
        /\ \A j \in DOMAIN queue : j > i => MayPrecede(event, queue[j])
        /\ i \in 0..Len(queue)
    BY <2>1, NewEventIsLast
  <2>3. queue \in Seq(outbox') /\ i + 1 \in 1..Len(queue) + 1
    BY <1>1, <1>3, <2>2
  <2>4. \A j, k \in DOMAIN queue' : j < k =>
          \/ \E a, b \in DOMAIN queue : a < b /\ queue'[j] = queue[a] /\ queue'[k] = queue[b]
          \/ \E b \in DOMAIN queue : i + 1 <= b /\ queue'[j] = event /\ queue'[k] = queue[b]
          \/ \E a \in DOMAIN queue : a < i + 1 /\ queue'[j] = queue[a] /\ queue'[k] = event
    BY <2>1, <2>3, InsertedOrder
  <2>5. \A j, k \in DOMAIN queue' : j < k => MayPrecede(queue'[j], queue'[k])
    <3>1. \A b \in DOMAIN queue : i + 1 <= b => MayPrecede(event, queue[b])
      BY <1>1, <2>2
    <3> QED
      BY <1>1, <2>2, <2>4, <3>1 DEF InOrder
  <2>6. ASSUME NEW e \in outbox, MayGoFirst(e)
        PROVE  \A j \in DOMAIN queue' : MayPrecede(e, queue'[j])
    <3> SUFFICES ASSUME NEW j \in DOMAIN queue' PROVE MayPrecede(e, queue'[j])
      OBVIOUS
    <3>1. queue'[j] \in Range(queue) \cup {event}
      <4>1. Range(queue') = Range(queue) \cup {event}
        BY <2>1, <2>3, InsertedRange
      <4>2. queue'[j] \in Range(queue')
        BY DEF Range
      <4> QED
        BY <4>1, <4>2
    <3> QED
      BY <2>2, <2>6, <3>1 DEF MayGoFirst, Range
  <2>7. publisher.at = "send" => publisher.event \in outbox
    BY InHand
  <2>8. InOrder'
    BY <1>1, <2>5, <2>6, <2>7 DEF InOrder, MayGoFirst, Old
  <2> QED
    BY <1>4, <2>8
<1> QED
  BY <1>4, <1>5, <1>6

-----------------------------------------------------------------------------
(* The theorems                                                             *)

\* To the rail, every step of the relay is an operation or nothing.
LEMMA RelayStepsAreRailSteps == [RelayNext]_allVars => [Next]_vars
<1> SUFFICES ASSUME [RelayNext]_allVars PROVE [Next]_vars
  OBVIOUS
<1>1. ASSUME NEW r \in Requests, Submit(r) PROVE Next
  BY <1>1 DEF Submit, Next, SubmitPayment, StoreRequest
<1>2. ASSUME NEW r \in Manual, Operate(r) PROVE Next
  BY <1>2, ManualAssumption DEF Operate, Next
<1>3. ASSUME NEW w \in Workers, Handle(w) \/ HandleLosesAnswer(w) PROVE Next
  BY <1>3 DEF Handle, HandleLosesAnswer, Call, Handler, Next
<1>4. ASSUME NEW a \in Suspendable, Suspend(a) \/ Resume(a) PROVE Next
  BY <1>4 DEF Suspend, Resume, Next
<1>5. ASSUME NEW w \in Workers,
             Poll(w) \/ Skip(w) \/ Duplicate(w) \/ CommitOffset(w) \/ CommitFails(w)
      PROVE  UNCHANGED vars
  BY <1>5 DEF Poll, Skip, Duplicate, CommitOffset, CommitFails
<1>6. ReadEvent \/ SendEvent \/ SendFails \/ MarkEvent \/ MarkFails \/ Crash => UNCHANGED vars
  BY DEF ReadEvent, SendEvent, SendFails, MarkEvent, MarkFails, Crash
<1>7. UNCHANGED allVars => UNCHANGED vars
  BY DEF allVars
<1> QED
  BY <1>1, <1>2, <1>3, <1>4, <1>5, <1>6, <1>7 DEF RelayNext

\* At the start there is no payment, no event and no order to wait for.
LEMMA RelayInitKept == RelayInit => RelayInvariant
<1> SUFFICES ASSUME RelayInit PROVE RelayInvariant
  OBVIOUS
<1>1. TypeOK
  BY TypeInit DEF RelayInit
<1>2. /\ \A r \in Requests : payment[r].status = "none"
      /\ outbox = {}
  BY DEF RelayInit, Init, NoRow
<1>3. EventsToCome
  BY <1>2 DEF EventsToCome
<1>4. Positions
  BY DEF RelayInit, Positions
<1>5. OldTopic \in Seq(Range(OldTopic)) /\ Old \in Nat
  BY OldTopicAssumption DEF Old
<1>6. queue \in Seq(outbox) /\ IsInjective(queue)
  BY DEF RelayInit, IsInjective
<1>7. topic \in Seq(outbox \cup Range(OldTopic)) /\ Len(topic) = Old
  BY <1>5 DEF RelayInit, Old
<1>8. RelayTypeOK
  BY <1>5, <1>6, <1>7, MaxFaultsAssumption DEF RelayInit, RelayTypeOK
<1>9. Sent
  BY <1>5, <1>7 DEF Sent
<1>10. OrdersAhead
  BY <1>2, WorkerTables DEF OrdersAhead, Workers
<1> QED
  BY <1>1, <1>3, <1>4, <1>8, <1>9, <1>10 DEF RelayInvariant

\* Every step keeps the invariant.
LEMMA RelayStepKept == RelayInvariant /\ [RelayNext]_allVars => RelayInvariant'
<1> SUFFICES ASSUME RelayInvariant, [RelayNext]_allVars PROVE RelayInvariant'
  OBVIOUS
<1>1. TypeOK'
  BY RelayStepsAreRailSteps, TypeStep DEF RelayInvariant
<1>2. ASSUME \E a \in Suspendable : Suspend(a) \/ Resume(a) PROVE RelayKept'
  <2>1. UNCHANGED <<payment, outbox, relayVars>> /\ (Fault \/ UNCHANGED faults)
    BY <1>2 DEF Suspend, Resume, SetAccountStatus
  <2> QED
    BY <2>1, QuietStep
<1>3. ASSUME UNCHANGED allVars PROVE RelayKept'
  <2>1. UNCHANGED <<payment, outbox, relayVars>> /\ UNCHANGED faults
    BY <1>3 DEF allVars, vars
  <2> QED
    BY <2>1, QuietStep
<1>4. ASSUME \E w \in Workers :
               Poll(w) \/ Skip(w) \/ Duplicate(w) \/ CommitOffset(w) \/ CommitFails(w)
      PROVE  RelayKept'
  BY <1>4, WorkerStep
<1>5. ASSUME ReadEvent \/ SendEvent \/ SendFails \/ MarkEvent \/ MarkFails PROVE RelayKept'
  BY <1>5, PublisherStep
<1>6. ASSUME Crash PROVE RelayKept'
  BY <1>6, CrashStep
<1>7. RelayKept'
  BY <1>2, <1>3, <1>4, <1>5, <1>6, OperationStep DEF RelayNext
<1> QED
  BY <1>1, <1>7 DEF RelayKept, RelayInvariant

\* Before the first POST there is nothing to tell.
LEMMA StoryStart == RelayInit => StoryInvariant
<1> SUFFICES ASSUME RelayInit PROVE StoryInvariant
  OBVIOUS
<1>1. RelayInvariant
  BY RelayInitKept
<1>2. /\ \A r \in Requests : payment[r].status = "none"
      /\ outbox = {} /\ queue = << >> /\ publisher = Idle /\ Len(topic) = Old
      /\ Old \in Nat
  <2>1. NoRow.status = "none"
    BY DEF NoRow
  <2>2. Old \in Nat
    BY OldTopicAssumption DEF Old
  <2> QED
    BY <2>1, <2>2 DEF RelayInit, Init, Old
<1>3. Idle.at = "read"
  BY DEF Idle
<1>4. InOrder
  BY <1>2, <1>3 DEF InOrder, MayGoFirst
<1>5. NoneLost
  BY <1>2, <1>3, WorkerTables DEF NoneLost, Workers
<1> QED
  BY <1>1, <1>4, <1>5 DEF StoryInvariant

\* Every step keeps the order.
LEMMA StoryStep == StoryInvariant /\ [RelayNext]_allVars => StoryInvariant'
<1> SUFFICES ASSUME StoryInvariant, [RelayNext]_allVars PROVE InOrder' /\ NoneLost'
  BY RelayStepKept DEF StoryInvariant
<1>1. RelayInvariant /\ TypeOK /\ EventsToCome /\ TypeOK' /\ EventsToCome'
  BY RelayStepKept DEF StoryInvariant, RelayInvariant
<1>2. ASSUME NEW r \in Requests, Submit(r) PROVE InOrder' /\ NoneLost'
  <2>1. Advances(r)
    BY <1>1, <1>2, OperationAdvances DEF Submit
  <2>2. payment[r] = NoRow /\ NoRow.status = "none"
    BY <1>2 DEF Submit, StorePayment, UETRTaken, Stored, NoRow
  <2> QED
    BY <1>1, <1>2, <2>1, <2>2, OperationInOrder DEF Submit, Prompted
<1>3. ASSUME NEW r \in Manual, Operate(r) PROVE InOrder' /\ NoneLost'
  <2>1. r \in Requests
    BY ManualAssumption
  <2>2. Advances(r)
    BY <1>1, <1>3, <2>1, OperationAdvances DEF Operate
  <2> QED
    BY <1>1, <1>3, <2>1, <2>2, OperationInOrder DEF Operate, Prompted
<1>4. ASSUME NEW w \in Workers, Handle(w) \/ HandleLosesAnswer(w) PROVE InOrder' /\ NoneLost'
  <2>1. PICK r \in Requests : r = Record(w)[1]
    BY <1>4 DEF Handle, HandleLosesAnswer, Call
  <2>2. /\ Handler(w, r) /\ Recorded(Record(w)) /\ Record(w)[2] = Wanted[w]
        /\ stage[w] = "handling" /\ UNCHANGED <<publisher, topic>>
    BY <1>4, <2>1 DEF Handle, HandleLosesAnswer, Call
  <2>3. Advances(r)
    BY <1>1, <2>2, OperationAdvances DEF Handler
  <2>4. payment[r].status = Expected[w]
    BY <1>1, <2>2, WorkerTables, ClearEffect DEF Handler, AcceptPayment, SettlePayment
  <2>5. Record(w) = Order(r, w)
    <3>1. fetched[w] \in 1..Len(topic)
      BY <1>1, <2>2 DEF RelayInvariant, RelayTypeOK, Positions
    <3>2. Record(w) \in outbox \cup Range(OldTopic)
      BY <1>1, <3>1 DEF RelayInvariant, RelayTypeOK, Record
    <3>3. Record(w) = <<Record(w)[1], Record(w)[2]>>
      <4>1. \A e \in Requests \X EventType : e = <<e[1], e[2]>>
        OBVIOUS
      <4> QED
        BY <1>1, <3>2, <4>1, OldTopicAssumption DEF TypeOK
    <3> QED
      BY <2>1, <2>2, <3>3 DEF Order
  <2> QED
    BY <1>1, <2>2, <2>3, <2>4, <2>5, OperationInOrder DEF Prompted
<1>5. ASSUME ReadEvent \/ SendEvent \/ SendFails \/ MarkEvent \/ MarkFails
      PROVE  InOrder' /\ NoneLost'
  BY <1>5, PublisherInOrder
<1>6. ASSUME NEW w \in Workers,
             Poll(w) \/ Skip(w) \/ Duplicate(w) \/ CommitOffset(w) \/ CommitFails(w)
      PROVE  InOrder' /\ NoneLost'
  <2>1. UNCHANGED <<payment, outbox, queue, topic>> /\ publisher' = publisher
    BY <1>6 DEF Poll, Skip, Duplicate, CommitOffset, CommitFails, vars
  <2> QED
    BY <2>1, PlacesInOrder
<1>7. ASSUME Crash PROVE InOrder' /\ NoneLost'
  BY <1>7, PlacesInOrder DEF Crash, vars
<1>8. ASSUME NEW a \in Suspendable, Suspend(a) \/ Resume(a) PROVE InOrder' /\ NoneLost'
  <2>1. UNCHANGED <<payment, outbox, queue, topic>> /\ publisher' = publisher
    BY <1>8 DEF Suspend, Resume, SetAccountStatus, relayVars
  <2> QED
    BY <2>1, PlacesInOrder
<1>9. ASSUME UNCHANGED allVars PROVE InOrder' /\ NoneLost'
  BY <1>9, PlacesInOrder DEF allVars, vars, relayVars
<1> QED
  BY <1>2, <1>3, <1>4, <1>5, <1>6, <1>7, <1>8, <1>9 DEF RelayNext

\* The inductive invariant holds in every reachable state.
THEOREM RelayInvariantHolds == RelaySpec => []RelayInvariant
BY RelayInitKept, RelayStepKept, PTL DEF RelaySpec

\* The relay's runs are the rail's: what is proved of Spec is true of them.
THEOREM RelayImplementsRail == RelaySpec => Spec
<1>1. RelayInit => Init
  BY DEF RelayInit
<1> QED
  BY <1>1, RelayStepsAreRailSteps, PTL DEF RelaySpec, Spec

\* Positions, stages, queue and what is in hand always fit together.
THEOREM RelayTypeCorrect == RelaySpec => []RelayTypeOK
<1>1. RelayInvariant => RelayTypeOK
  BY DEF RelayInvariant
<1> QED
  BY <1>1, RelayInvariantHolds, PTL

\* Whatever crashes, is lost or is retried, the event that moves a payment on is still to
\* come to the worker that waits for it.
THEOREM NoPaymentIsStranded == RelaySpec => []NoStrandedPayment
BY NothingStranded, RelayInvariantHolds, PTL

\* No record that the service sent announces a state that its payment has not reached.
THEOREM NoEventIsEarly == RelaySpec => []NeverEarly
BY NothingEarly, RelayInvariantHolds, RelayImplementsRail, OutboxTellsTheStates, PTL

\* Between crashes, retries and lost answers, the records that the service sends tell of a
\* payment that no operator touches in the order in which it moved on.
THEOREM TheStoryIsInOrder == RelaySpec => []StoryInOrder
<1>1. RelaySpec => []StoryInvariant
  BY StoryStart, StoryStep, PTL DEF RelaySpec
<1>2. StoryInvariant => StoryInOrder
  BY DEF StoryInvariant, InOrder, StoryInOrder, MayPrecede, Rank
<1> QED
  BY <1>1, <1>2, PTL
=============================================================================
