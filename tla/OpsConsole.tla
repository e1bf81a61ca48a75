----------------------------- MODULE OpsConsole -----------------------------
(***************************************************************************)
(* The operations console (web/index.html) over the moving rail: a page that *)
(* posts a payment or looks one up, polls it until it has ended and then     *)
(* asks for its transition log, its reconciliation and its ledger, each in a *)
(* request of its own that the service reads the database for.               *)
(*                                                                          *)
(* Event handlers run as tasks that overlap at every await: a click on a row *)
(* of the list starts a lookup although the button for it is disabled, and   *)
(* what a failed Promise.all leaves in flight still writes its panel.  Any    *)
(* request may fail: it is lost, its handler answers 500, or it is answered  *)
(* 429, which the token bucket that all clients share may do at any time.    *)
(*                                                                          *)
(* Left out: what the cards of the two accounts show, which is one row each   *)
(* as it was read, and the list of recent payments, whose errors end there.  *)
(***************************************************************************)
EXTENDS Reconciliation

CONSTANT MaxAttempts    \* maxAttempts of pollPaymentStatus (60)

VARIABLES
  task,     \* task[c]: the handler that runs as client c of the service, and its requests
  page      \* what the page shows

consoleVars == <<reconVars, task, page>>

\* at: the await the task is at; status: the payment's status in its last answer;
\* loads: which of loadTransitionHistory and loadReconciliation have not returned.  A task
\* that was abandoned by its handler is "idle" and lasts while it has loads in flight.
NoTask == [kind |-> "none", payment |-> "", at |-> "idle", status |-> "",
           attempts |-> 0, loads |-> {}]

Busy(c) == task[c] # NoTask

\* A panel shows a value for a payment, or a text that is about none.
Blank == [payment |-> "", value |-> ""]

Shows(r, value) == [payment |-> r, value |-> value]

\* asked: the payment of the task that started last; mixed: it was not alone on the page.
NoPage == [asked |-> "", mixed |-> FALSE, error |-> FALSE,
           status |-> Blank, log |-> Blank, reconciliation |-> Blank,
           ledger |-> Blank, entries |-> << >>]

ConsoleInit == ReconInit /\ task = [c \in Clients |-> NoTask] /\ page = NoPage

-----------------------------------------------------------------------------
(* Beginning                                                                *)

\* A submit that leaves the panels to be overwritten by its answers.
Bug_Begin(c, kind, r) ==
  /\ ~Busy(c)
  /\ task' = [task EXCEPT ![c] = [NoTask EXCEPT !.kind = kind, !.payment = r,
                !.at = IF kind = "submit" THEN "posting" ELSE "looking"]]
  /\ page' = [page EXCEPT !.asked = r, !.mixed = \E d \in Clients : Busy(d), !.error = FALSE]
  /\ UNCHANGED reconVars

\* Any submit clears both errors and all panels (resetInspectionPanels).
Begin(c, kind, r) ==
  /\ ~Busy(c)
  /\ task' = [task EXCEPT ![c] = [NoTask EXCEPT !.kind = kind, !.payment = r,
                !.at = IF kind = "submit" THEN "posting" ELSE "looking"]]
  /\ page' = [NoPage EXCEPT !.asked = r, !.mixed = \E d \in Clients : Busy(d)]
  /\ UNCHANGED reconVars

\* The lookup form, by its button or by a click on a row of the list.
Lookup(c, r) == Begin(c, "lookup", r)

\* The payment form, whose button is disabled while it works.  The UETR is a new one.
SubmitForm(c, r) ==
  /\ r \notin Stored
  /\ \A d \in Clients : task[d].kind # "submit"
  /\ Begin(c, "submit", r)

-----------------------------------------------------------------------------
(* The requests of a task, as the service serves them                       *)

\* The task without one of its loads; an abandoned task is over with the last of them.
Returned(c, load) ==
  LET t == [task[c] EXCEPT !.loads = @ \ {load}]
  IN task' = [task EXCEPT ![c] = IF t.at = "idle" /\ t.loads = {} THEN NoTask ELSE t]

Answered(c, status) == task' = [task EXCEPT ![c].at = "answered", ![c].status = status]

\* POST /payments stores the payment and answers with it.
PostForm(c) ==
  LET r == task[c].payment IN
  /\ task[c].at = "posting"
  /\ StorePayment(r) /\ Answer(r, Verdict(r))
  /\ Answered(c, payment'[r].status)
  /\ UNCHANGED <<report, page>>

\* A poll whose attempts nobody counts.
Bug_Ask(c) ==
  LET r == task[c].payment IN
  /\ r \in Stored
  /\ task[c].at \in {"looking", "polling"} /\ Answered(c, payment[r].status)
  /\ UNCHANGED <<reconVars, page>>

\* GET /uetr/<uetr>, the first of a lookup or one of pollPaymentStatus.
Ask(c) ==
  LET r == task[c].payment IN
  /\ r \in Stored
  /\ \/ task[c].at = "looking" /\ Answered(c, payment[r].status)
     \/ /\ task[c].at = "polling" /\ task[c].attempts < MaxAttempts
        /\ task' = [task EXCEPT ![c].at = "answered", ![c].status = payment[r].status,
                                ![c].attempts = @ + 1]
  /\ UNCHANGED <<reconVars, page>>

\* loadTransitionHistory; the panel's value is the state the last row leads to.
LoadLog(c) ==
  LET r == task[c].payment
      log == payment[r].log IN
  /\ "log" \in task[c].loads
  /\ Returned(c, "log")
  /\ page' = [page EXCEPT !.log = Shows(r, log[Len(log)].to_state)]
  /\ UNCHANGED reconVars

\* The two reads of GET /reconciliation/<payment>, which go on though nobody waits.
Reconcile(c) ==
  /\ "reconciliation" \in task[c].loads
  /\ \/ report[c] = NoReport /\ ReadPayment(c, task[c].payment)
     \/ ReadLedger(c)
  /\ UNCHANGED <<task, page>>

\* GET /ledger: the transaction's row, without which it is 404, and then its entries.
LoadLedger(c) ==
  LET r == task[c].payment IN
  /\ \/ /\ task[c].at = "ledger" /\ ledger[r] # NoLedger
        /\ task' = [task EXCEPT ![c].at = "entries"]
        /\ UNCHANGED page
     \/ /\ task[c].at = "entries"
        /\ page' = [page EXCEPT !.ledger = Shows(r, "entries"), !.entries = ledger[r].entries]
        /\ task' = [task EXCEPT ![c] = NoTask]
  /\ UNCHANGED reconVars

-----------------------------------------------------------------------------
(* What the page does with the answers                                      *)

Loads == {"log", "reconciliation"}

\* A poll that stops at the end of the payment without another look at it.
Bug_ShowStatus(c) ==
  LET t == task[c]
      look == t.kind = "lookup" /\ t.attempts = 0
  IN /\ t.at = "answered"
     /\ page' = [page EXCEPT !.status = Shows(t.payment, t.status)]
     /\ IF look
        THEN task' = [task EXCEPT ![c].loads = Loads,
               ![c].at = IF t.status \in Terminal THEN "inspecting" ELSE "first look"]
        ELSE task' = [task EXCEPT ![c] = IF t.status \in Terminal THEN NoTask
                                         ELSE [t EXCEPT !.at = "polling"]]
     /\ UNCHANGED reconVars

\* showPaymentStatus; then, at the payment's end, loadPaymentInspection; the first time
\* of a lookup the same panels but the ledger's; otherwise the next poll.
ShowStatus(c) ==
  LET t == task[c]
      next == CASE t.status \in Terminal                 -> "inspecting"
                [] t.status \notin Terminal
                   /\ t.kind = "lookup" /\ t.attempts = 0 -> "first look"
                [] OTHER                                  -> "polling"
      shown == [page EXCEPT !.status = Shows(t.payment, t.status)]
  IN /\ t.at = "answered"
     /\ task' = [task EXCEPT ![c].at = next,
                             ![c].loads = IF next = "polling" THEN {} ELSE Loads]
     /\ page' = IF next = "polling" THEN shown ELSE [shown EXCEPT !.reconciliation = Blank]
     /\ UNCHANGED reconVars

\* The answer of reconciliation, or the error that its panel shows for a refused request.
ShowReconciliation(c) ==
  /\ "reconciliation" \in task[c].loads
  /\ \E answer \in {report[c].answer, "error"} \ {"none", "reading"} :
       page' = [page EXCEPT !.reconciliation = Shows(task[c].payment, answer)]
  /\ Returned(c, "reconciliation")
  /\ report' = [report EXCEPT ![c] = NoReport]
  /\ UNCHANGED vars

\* A first look that takes a payment without a ledger for one that will never have any.
Bug_Loaded(c) ==
  LET t == task[c] IN
  /\ t.at \in {"first look", "inspecting"} /\ t.loads = {}
  /\ \/ /\ t.status # "settled"
        /\ page' = [page EXCEPT !.ledger = Shows(t.payment, "no entries")]
        /\ task' = [task EXCEPT ![c] = IF t.at = "inspecting" THEN NoTask
                                       ELSE [t EXCEPT !.at = "polling"]]
     \/ /\ t.status = "settled"
        /\ task' = [task EXCEPT ![c].at = "ledger"]
        /\ UNCHANGED page
  /\ UNCHANGED reconVars

\* Promise.all has all its loads, those of the accounts included.
Loaded(c) ==
  LET t == task[c] IN
  /\ t.at \in {"first look", "inspecting"} /\ t.loads = {}
  /\ \/ /\ t.at = "first look"
        /\ page' = [page EXCEPT !.ledger = Shows(t.payment, "not yet")]
        /\ task' = [task EXCEPT ![c].at = "polling"]
     \/ /\ t.at = "inspecting" /\ t.status = "settled"
        /\ task' = [task EXCEPT ![c].at = "ledger"]
        /\ UNCHANGED page
     \/ /\ t.at = "inspecting" /\ t.status # "settled"
        /\ page' = [page EXCEPT !.ledger = Shows(t.payment, "no entries")]
        /\ task' = [task EXCEPT ![c] = NoTask]
  /\ UNCHANGED reconVars

\* A handler's catch: a lookup blanks the panels, a submit leaves them.  The loads that
\* are left in flight go on.
Catch(c, left) ==
  /\ task' = [task EXCEPT ![c] = IF left = {} THEN NoTask
                                 ELSE [NoTask EXCEPT !.payment = task[c].payment, !.loads = left]]
  /\ page' = IF task[c].kind = "submit" THEN [page EXCEPT !.error = TRUE]
             ELSE [NoPage EXCEPT !.asked = page.asked, !.mixed = page.mixed, !.error = TRUE]

\* A load of Promise.all throws: the request of an account or of reconciliation is lost, or
\* the log's is lost or refused.  The first that does ends the handler; nobody hears of
\* another one.
FailLoad(c) ==
  LET t == task[c] IN
  \/ t.at \in {"first look", "inspecting"} /\ Catch(c, t.loads) /\ UNCHANGED report
  \/ \E load \in t.loads :
       /\ \/ t.at # "idle" /\ Catch(c, t.loads \ {load})
          \/ t.at = "idle" /\ Returned(c, load) /\ UNCHANGED page
       /\ report' = IF load = "reconciliation" THEN [report EXCEPT ![c] = NoReport] ELSE report

\* A request that its handler awaits alone fails, or was pollPaymentStatus's last attempt.
FailAwaited(c) ==
  /\ task[c].at \in {"looking", "polling", "ledger", "entries"}
  /\ Catch(c, {})
  /\ UNCHANGED report

\* A request fails: a POST with or without an effect.
Fail(c) ==
  \/ (FailLoad(c) \/ FailAwaited(c)) /\ UNCHANGED vars
  \/ /\ task[c].at = "posting" /\ Catch(c, {}) /\ UNCHANGED report
     /\ SubmitPayment(task[c].payment) \/ UNCHANGED vars

\* Anything that brings the task on c further.
Step(c) ==
  \/ PostForm(c) \/ Ask(c) \/ LoadLog(c) \/ Reconcile(c) \/ LoadLedger(c)
  \/ ShowStatus(c) \/ ShowReconciliation(c) \/ Loaded(c) \/ Fail(c)

ConsoleNext ==
  \/ Next /\ UNCHANGED <<report, task, page>>
  \/ \E c \in Clients :
       \/ \E r \in Requests : Lookup(c, r) \/ SubmitForm(c, r)
       \/ Step(c)

\* Every request is answered or fails.  The rail may stand still, and nobody has to click.
ConsoleSpec ==
  /\ ConsoleInit /\ [][ConsoleNext]_consoleVars
  /\ \A c \in Clients : WF_consoleVars(Step(c))

-----------------------------------------------------------------------------
(* Properties                                                               *)

\* What the page says of a payment is true, though handlers overlap, requests fail and
\* every panel is from another moment: a payment shown in a state has been in it, entries
\* are shown of a settled payment only and balance, "no entries" only of one that will
\* never have any, and reconciliation neither fails nor passes before the end.
PanelsTrue ==
  LET true(panel, P(_, _)) == panel.payment # "" => P(panel.payment, panel.value)
      over(r) == payment[r].status \in Terminal
  IN /\ true(page.status, Reached)
     /\ true(page.log, Reached)
     /\ true(page.reconciliation, LAMBDA r, answer :
               /\ answer # "fail"
               /\ answer = "pass" => over(r))
     /\ true(page.ledger, LAMBDA r, text :
               /\ text = "entries" => /\ payment[r].status = "settled"
                                      /\ page.entries = ledger[r].entries
                                      /\ Len(page.entries) = 2
               /\ text = "no entries" => over(r) /\ ledger[r] = NoLedger)

\* A handler that had the page to itself and ended without an error leaves panels that
\* agree with each other and with the rail for good: the payment asked for, its final
\* status, the log that leads to it, its ledger exactly if it settled, and a
\* reconciliation that passes if it could be had.
InspectionAgrees ==
  LET r == page.asked
      status == payment[r].status
      done == r # "" /\ ~page.mixed /\ ~page.error /\ \A c \in Clients : ~Busy(c)
  IN done =>
       /\ status \in Terminal
       /\ page.status = Shows(r, status) /\ page.log = Shows(r, status)
       /\ page.reconciliation \in {Shows(r, "pass"), Shows(r, "error")}
       /\ page.ledger = Shows(r, IF status = "settled" THEN "entries" ELSE "no entries")

\* A handler that began with nothing of another one in flight never has a panel that names
\* another payment, whatever failed before it, and whatever is in flight after it failed.
NoForeignPanel ==
  ~page.mixed => \A panel \in {page.status, page.log, page.reconciliation, page.ledger} :
                   panel.payment \in {"", page.asked}

\* Every handler ends and gives its button back: polling gives up, and no failed request
\* leaves another one waited for.
EveryTaskEnds == \A c \in Clients : Busy(c) ~> ~Busy(c)
=============================================================================
