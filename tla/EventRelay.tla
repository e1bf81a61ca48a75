----------------------------- MODULE EventRelay -----------------------------
(***************************************************************************)
(* How events drive payments: the outbox publisher copies outbox_events to   *)
(* the Kafka topic payment-events, and three workers, each with a consumer  *)
(* group of its own, read the topic and call clearPayment, respondToPayment *)
(* and settlePayment.  All of them, and the HTTP handlers, run in one       *)
(* process, which has no orderly shutdown: it only ever crashes.            *)
(*                                                                          *)
(* The topic has one partition, so it is one sequence.  A call that fails    *)
(* and is rolled back, and an empty poll, change nothing and are stuttering *)
(* steps; a failure that leaves something behind is an action, and all such *)
(* actions together happen at most MaxFaults times.                         *)
(***************************************************************************)
EXTENDS PaymentRail, SequencesExt

CONSTANTS
  Manual,       \* the payments that operators also clear, answer and settle by HTTP
  OldTopic,     \* the records in the topic before the service ran for the first time
  MaxFaults     \* a bound on crashes, lost answers and suspended accounts

ASSUME ManualAssumption == Manual \subseteq Requests
\* A record is what a worker decodes it to: a payment's id and an event's type.
ASSUME OldTopicAssumption ==
  /\ OldTopic \in Seq(Range(OldTopic))
  /\ \A record \in Range(OldTopic) : record = <<record[1], record[2]>>
ASSUME MaxFaultsAssumption == MaxFaults \in Nat

VARIABLES
  queue,        \* the events with published_at NULL, in the order of their created_at
  publisher,    \* [at, event]: where runOutboxPublisher is in its loop, and with which event
  topic,        \* the records of the topic, in the order of their offsets
  fetched,      \* fetched[w]: how many records worker w's client has polled
  committed,    \* committed[w]: how many records w's group has committed, kept by Kafka
  stage,        \* stage[w] \in {"polling", "handling", "committing"}
  faults        \* how many faults have happened

relayVars == <<queue, publisher, topic, fetched, committed, stage>>
allVars == <<vars, relayVars, faults>>

Workers == {"clearing", "receiver", "settlement"}

\* The event type a worker handles, and the status its handler wants.
Wanted == [clearing   |-> "payment.validated",
           receiver   |-> "payment.cleared",
           settlement |-> "payment.accepted"]
Expected == [clearing   |-> "validated",
             receiver   |-> "awaiting_response",
             settlement |-> "accepted"]

NoEvent == << >>
Idle == [at |-> "read", event |-> NoEvent]

Fault == faults < MaxFaults /\ faults' = faults + 1

RelayInit ==
  /\ Init
  /\ queue = << >>
  /\ publisher = Idle
  /\ topic = OldTopic
  /\ fetched = [w \in Workers |-> 0]      \* ConsumeStartOffset AtStart
  /\ committed = [w \in Workers |-> 0]
  /\ stage = [w \in Workers |-> "polling"]
  /\ faults = 0

-----------------------------------------------------------------------------
(* New events                                                               *)

Position(event) == IF event \in Range(queue) THEN CHOOSE i \in DOMAIN queue : queue[i] = event
                                             ELSE 0

\* An order of the queue that forgets what caused an event.
Bug_Recorded(cause) ==
  IF outbox' = outbox THEN UNCHANGED queue
  ELSE \E event \in outbox' \ outbox : queue' = <<event>> \o queue

\* The event of a committing transaction joins the queue.  created_at is now(), when
\* the transaction began: any time after its caller learned of the event cause, so
\* events of transactions that committed earlier may have begun, and sort, later.
Recorded(cause) ==
  IF outbox' = outbox THEN UNCHANGED queue
  ELSE \E event \in outbox' \ outbox, i \in Position(cause)..Len(queue) :
         queue' = InsertAt(queue, i + 1, event)

\* POST /payments.  What the client hears is PaymentRail's business.
Submit(r) ==
  /\ StorePayment(r) /\ Answer(r, Verdict(r))
  /\ Recorded(NoEvent)
  /\ UNCHANGED <<publisher, topic, fetched, committed, stage, faults>>

\* POST /payments/clear, /respond and /settle, by someone who was told the payment's id.
Operate(r) ==
  /\ \/ ClearPayment(r)
     \/ AcceptPayment(r)
     \/ \E text \in Reasons : RejectPayment(r, text)
     \/ SettlePayment(r)
  /\ Recorded(<<r, "payment.validated">>)
  /\ UNCHANGED <<publisher, topic, fetched, committed, stage, faults>>

-----------------------------------------------------------------------------
(* The publisher: runOutboxPublisher                                        *)

\* getNextUnpublishedOutboxEvent.
ReadEvent ==
  /\ publisher.at = "read" /\ queue # << >>
  /\ publisher' = [at |-> "send", event |-> Head(queue)]
  /\ UNCHANGED <<vars, queue, topic, fetched, committed, stage, faults>>

\* publishOutboxEvent: ProduceSync returns once the topic has the record.
SendEvent ==
  /\ publisher.at = "send"
  /\ topic' = Append(topic, publisher.event)
  /\ publisher' = [publisher EXCEPT !.at = "mark"]
  /\ UNCHANGED <<vars, queue, fetched, committed, stage, faults>>

\* ProduceSync fails, with or without the record in the topic: the event is read again.
SendFails ==
  /\ Fault
  /\ publisher.at = "send"
  /\ topic' \in {topic, Append(topic, publisher.event)}
  /\ publisher' = Idle
  /\ UNCHANGED <<vars, queue, fetched, committed, stage>>

\* markOutboxEventPublished.
MarkEvent ==
  /\ publisher.at = "mark"
  /\ queue' = RemoveAt(queue, Position(publisher.event))
  /\ publisher' = Idle
  /\ UNCHANGED <<vars, topic, fetched, committed, stage, faults>>

\* The UPDATE fails and the event stays unpublished.
MarkFails ==
  /\ Fault
  /\ publisher.at = "mark"
  /\ publisher' = Idle
  /\ UNCHANGED <<vars, queue, topic, fetched, committed, stage>>

-----------------------------------------------------------------------------
(* A worker: runClearingConsumer, runReceiverConsumer, runSettlementConsumer *)

Record(w) == topic[fetched[w]]

Goto(w, place) == stage' = [stage EXCEPT ![w] = place]

\* A client that commits what it polls before it is handled, as autocommit may.
Bug_Poll(w) ==
  /\ stage[w] = "polling" /\ fetched[w] < Len(topic)
  /\ fetched' = [fetched EXCEPT ![w] = @ + 1]
  /\ committed' = [committed EXCEPT ![w] = fetched[w] + 1]
  /\ Goto(w, "handling")
  /\ UNCHANGED <<vars, queue, publisher, topic, faults>>

\* PollRecords(ctx, 1) returns the next record.
Poll(w) ==
  /\ stage[w] = "polling" /\ fetched[w] < Len(topic)
  /\ fetched' = [fetched EXCEPT ![w] = @ + 1]
  /\ Goto(w, "handling")
  /\ UNCHANGED <<vars, queue, publisher, topic, committed, faults>>

\* A worker that leaves a record of another type to somebody else, and gets it again.
Bug_Skip(w) ==
  /\ stage[w] = "handling" /\ Record(w)[2] # Wanted[w]
  /\ fetched' = [fetched EXCEPT ![w] = @ - 1]
  /\ Goto(w, "polling")
  /\ UNCHANGED <<vars, queue, publisher, topic, committed, faults>>

\* A record that is malformed or of another type is committed and skipped.
Skip(w) ==
  /\ stage[w] = "handling" /\ Record(w)[2] # Wanted[w]
  /\ Goto(w, "committing")
  /\ UNCHANGED <<vars, queue, publisher, topic, fetched, committed, faults>>

Handler(w, r) ==
  \/ w = "clearing"   /\ ClearPayment(r)
  \/ w = "receiver"   /\ AcceptPayment(r)
  \/ w = "settlement" /\ SettlePayment(r)

\* The handler's transaction, called for the record in hand; an id without a payment
\* is ErrPaymentNotFound, which is retried for ever.
Call(w) ==
  /\ stage[w] = "handling" /\ Record(w)[2] = Wanted[w]
  /\ Record(w)[1] \in Requests
  /\ Handler(w, Record(w)[1])
  /\ Recorded(Record(w))
  /\ UNCHANGED <<publisher, topic, fetched, committed>>

Handle(w) == Call(w) /\ Goto(w, "committing") /\ UNCHANGED faults

\* A handler that records its event outside the transaction, which is then rolled back.
Bug_HandleLosesAnswer(w) ==
  /\ Fault
  /\ w = "clearing" /\ stage[w] = "handling" /\ Record(w)[2] = Wanted[w]
  /\ outbox' = outbox \cup {<<Record(w)[1], "payment.cleared">>}
  /\ Recorded(Record(w))
  /\ UNCHANGED <<payment, balance, reserved, active, ledger, reply>>
  /\ UNCHANGED <<publisher, topic, fetched, committed, stage>>

\* The transaction committed and the answer was lost: the worker tries again.
HandleLosesAnswer(w) == Fault /\ Call(w) /\ UNCHANGED stage

\* A worker that retries a duplicate like any other failure.
Bug_Duplicate(w) ==
  /\ stage[w] = "handling" /\ Record(w)[2] = Wanted[w]
  /\ UNCHANGED allVars

\* ErrPaymentNotValidated, -AwaitingResponse, -Accepted: the record is a duplicate.
Duplicate(w) ==
  /\ stage[w] = "handling" /\ Record(w)[2] = Wanted[w]
  /\ Record(w)[1] \in Stored
  /\ payment[Record(w)[1]].status # Expected[w]
  /\ Goto(w, "committing")
  /\ UNCHANGED <<vars, queue, publisher, topic, fetched, committed, faults>>

\* CommitRecords.
CommitOffset(w) ==
  /\ stage[w] = "committing"
  /\ committed' = [committed EXCEPT ![w] = fetched[w]]
  /\ Goto(w, "polling")
  /\ UNCHANGED <<vars, queue, publisher, topic, fetched, faults>>

\* CommitRecords fails, which is only logged.
CommitFails(w) ==
  /\ Fault
  /\ stage[w] = "committing"
  /\ Goto(w, "polling")
  /\ UNCHANGED <<vars, queue, publisher, topic, fetched, committed>>

-----------------------------------------------------------------------------
\* A restart that reads the topic from its start whatever the group has committed.
Bug_Crash ==
  /\ Fault
  /\ publisher' = Idle
  /\ fetched' = [w \in Workers |-> 0]
  /\ stage' = [w \in Workers |-> "polling"]
  /\ UNCHANGED <<vars, queue, topic, committed>>

\* The process dies and is started again: what was in memory is lost, open
\* transactions are rolled back, and each group resumes where it committed.
Crash ==
  /\ Fault
  /\ publisher' = Idle
  /\ fetched' = committed
  /\ stage' = [w \in Workers |-> "polling"]
  /\ UNCHANGED <<vars, queue, topic, committed>>

\* Someone suspends an account, or brings it back.
Suspend(a) == Fault /\ active[a] /\ SetAccountStatus(a) /\ UNCHANGED relayVars
Resume(a) == ~active[a] /\ SetAccountStatus(a) /\ UNCHANGED <<relayVars, faults>>

RelayNext ==
  \/ \E r \in Requests : Submit(r)
  \/ \E r \in Manual : Operate(r)
  \/ ReadEvent \/ SendEvent \/ SendFails \/ MarkEvent \/ MarkFails
  \/ \E w \in Workers :
       \/ Poll(w) \/ Skip(w)
       \/ Handle(w) \/ HandleLosesAnswer(w) \/ Duplicate(w)
       \/ CommitOffset(w) \/ CommitFails(w)
  \/ Crash
  \/ \E a \in Suspendable : Suspend(a) \/ Resume(a)

\* The publisher and the workers never give up: every error is retried, after a second
\* at most.  A suspended account is brought back some day.  Nobody has to POST.
Fairness ==
  /\ WF_allVars(ReadEvent) /\ WF_allVars(SendEvent) /\ WF_allVars(MarkEvent)
  /\ \A w \in Workers :
       /\ WF_allVars(Poll(w)) /\ WF_allVars(Skip(w)) /\ WF_allVars(CommitOffset(w))
       /\ WF_allVars(Handle(w)) /\ WF_allVars(Duplicate(w))
  /\ \A a \in Suspendable : WF_allVars(Resume(a))

RelaySpec == RelayInit /\ [][RelayNext]_allVars

FairRelaySpec == RelaySpec /\ Fairness

-----------------------------------------------------------------------------
(* Properties                                                               *)

Old == Len(OldTopic)

\* Positions, stages and what is in hand fit together.
RelayTypeOK ==
  /\ queue \in Seq(outbox) /\ IsInjective(queue)
  /\ publisher \in [at : {"send", "mark"}, event : Range(queue)] \cup {Idle}
  /\ topic \in Seq(outbox \cup Range(OldTopic))
  /\ \A w \in Workers :
       /\ committed[w] \in 0..fetched[w]
       /\ fetched[w] \in 0..Len(topic)
       /\ stage[w] \in {"polling", "handling", "committing"}
       /\ stage[w] # "polling" => committed[w] < fetched[w]
  /\ faults \in 0..MaxFaults

\* No payment is stranded: whatever crashed, was lost or was retried, a payment that is
\* not at its end has the event that moves it on still to come, in the outbox or in the
\* topic beyond what the worker for it has committed.
NoStrandedPayment ==
  \A r \in Requests, w \in Workers :
    payment[r].status = Expected[w] =>
      \/ <<r, Wanted[w]>> \in Range(queue)
      \/ \E i \in committed[w] + 1..Len(topic) : topic[i] = <<r, Wanted[w]>>

\* No event is early: a payment a record of the topic tells of has reached the state
\* that the record announces, so a worker that finds it in another state is right to
\* take the record for a duplicate and never drops the only order to act.
NeverEarly ==
  \A i \in Old + 1..Len(topic), w \in Workers :
    topic[i][2] = Wanted[w] => Reached(topic[i][1], Expected[w])

\* Without operators in between, the topic tells each payment's story in order, every
\* event once or again but never after a later one.
StoryInOrder ==
  LET rank(e) == CASE e[2] = "payment.validated" -> 1
                   [] e[2] = "payment.cleared"   -> 2
                   [] e[2] = "payment.accepted"  -> 3
  IN \A i, j \in Old + 1..Len(topic) :
       i < j /\ topic[i][1] = topic[j][1] /\ topic[i][1] \notin Manual
         => rank(topic[i]) <= rank(topic[j])

\* clearing_consumer.go:30, "ignore the old demo messages already sitting in Kafka and
\* begin with new messages": the worker never has an old record to act on.
OldMessagesIgnored ==
  ~(/\ stage["clearing"] = "handling" /\ fetched["clearing"] <= Old
    /\ Record("clearing")[2] = Wanted["clearing"])

\* Every validated payment comes to its end.
EveryPaymentEnds ==
  \A r \in Requests : payment[r].status = "validated" ~> payment[r].status \in Terminal

\* The backlog drains: when the posting has stopped, every event gets published and
\* every worker gets through the whole topic, duplicates included.  (What it has
\* committed may stay behind: after a failed CommitRecords only the next one catches up.)
BacklogDrains ==
  <>[](queue = << >> /\ \A w \in Workers : fetched[w] = Len(topic) /\ stage[w] = "polling")
=============================================================================
