----------------------------- MODULE InvoiceTasks -----------------------------
(***************************************************************************)
(* Invoices: GET /sales-orders/{id}/invoice hands generate_invoice_pdf to  *)
(* Celery and answers 202 with a task id; the client polls /tasks/{id}/.   *)
(* The invoices of one sale; sales share nothing but queue and workers.    *)
(*                                                                         *)
(* Celery acknowledges late: a message is dropped when its run is over, so *)
(* a run cut short by the death of the whole worker is delivered again,    *)
(* also after its result was stored.  A retry is a second message, out     *)
(* before the first is acknowledged.  Messages carry no order: retries     *)
(* wait for their countdown, redeliveries for the visibility timeout.      *)
(***************************************************************************)
EXTENDS Integers, Bags

CONSTANTS
  Tasks,       \* the task ids of the accepted requests
  Workers,     \* processes of the Celery worker
  RequestIds,
  RequestId,   \* X-Request-ID of the request behind each task
  MaxRetries,  \* max_retries
  MaxInvoices, \* bound on the completions of the sale
  MaxFaults,   \* bound on what goes wrong
  None

(* What the result backend may have stored.                                *)
Answer == {"PENDING", "STARTED", "RETRY", "SUCCESS", "FAILURE"}

ASSUME InvoiceAssumption ==
  /\ RequestId \in [Tasks -> RequestIds]
  /\ MaxRetries \in Nat /\ MaxInvoices \in Nat /\ MaxFaults \in Nat
  /\ None \notin RequestIds \cup Tasks \cup Answer

VARIABLES
  invoice, \* SalesOrder.invoice_number, 0 while the sale is not completed
  issued,  \* how many numbers it has had
  file,    \* the PDF of each number
  writer,  \* the task that opened the file last
  queue,   \* the messages that wait, a bag
  result,  \* what GET /tasks/{id}/ answers; None before the 202
  worker,  \* each process: where its run is, of what message, on what file
  bound,   \* the request id its log lines carry
  faults,  \* how much has gone wrong
  raised,  \* passing errors of each task
  killed,  \* tasks a process of which was killed, acknowledged and all
  withdrawn \* tasks whose sale has lost its invoice since they were accepted

saleVars  == <<invoice, issued>>
fileVars  == <<file, writer>>
ghostVars == <<faults, raised, killed, withdrawn>>
vars == <<saleVars, fileVars, queue, result, worker, bound, ghostVars>>

Numbers == 1..MaxInvoices
Message == [task : Tasks, retries : 0..MaxRetries, header : RequestIds \cup {None}]
Worker  == [at : {"idle", "read", "open", "write", "written", "raised", "over"},
            msg : Message \cup {None}, number : 0..MaxInvoices]

Idle == [at |-> "idle", msg |-> None, number |-> 0]

Init ==
  /\ invoice = 0 /\ issued = 0
  /\ file = [n \in Numbers |-> "absent"]
  /\ writer = [n \in Numbers |-> None]
  /\ queue = EmptyBag
  /\ result = [t \in Tasks |-> None]
  /\ worker = [w \in Workers |-> Idle]
  /\ bound = [w \in Workers |-> None]
  /\ faults = 0 /\ raised = [t \in Tasks |-> 0] /\ killed = {} /\ withdrawn = {}

-----------------------------------------------------------------------------
(* The web side.                                                           *)

Complete ==
  /\ invoice = 0 /\ issued < MaxInvoices
  /\ invoice' = issued + 1 /\ issued' = issued + 1
  /\ UNCHANGED <<fileVars, queue, result, worker, bound, ghostVars>>

(* An update that overlapped the completion saves its stale row, or the    *)
(* sale is deleted.                                                        *)
Withdraw ==
  /\ invoice # 0
  /\ invoice' = 0
  /\ withdrawn' = withdrawn \cup {t \in Tasks : result[t] # None}
  /\ UNCHANGED <<issued, fileVars, queue, result, worker, bound, faults, raised, killed>>

Send(m) == queue' = queue (+) SetToBag({m})

(* An operator named ...Fault is the one after it with a slip in it, such  *)
(* as a later change might bring; nothing uses it.                         *)

(* No 404 for a sale that is not completed.                                *)
InvoiceFault(t) ==
  /\ result[t] = None
  /\ Send([task |-> t, retries |-> 0, header |-> RequestId[t]])
  /\ result' = [result EXCEPT ![t] = "PENDING"]
  /\ UNCHANGED <<saleVars, fileVars, worker, bound, ghostVars>>

(* The 404, or the dispatch from on_commit and the 202.                    *)
Invoice(t) ==
  /\ result[t] = None
  /\ invoice # 0
  /\ Send([task |-> t, retries |-> 0, header |-> RequestId[t]])
  /\ result' = [result EXCEPT ![t] = "PENDING"]
  /\ UNCHANGED <<saleVars, fileVars, worker, bound, ghostVars>>

-----------------------------------------------------------------------------
(* A run of the task.                                                      *)

TaskOf(w) == worker[w].msg.task

(* The result backend ignores what comes after a SUCCESS.                  *)
Store(t, state) ==
  result' = [result EXCEPT ![t] = IF @ = "SUCCESS" THEN @ ELSE state]

Goto(w, at) == worker' = [worker EXCEPT ![w].at = at]

(* The id of the task that ran before is still bound.                      *)
BindFault(w, m) == UNCHANGED bound

(* task_prerun: the id in the headers, or that of the task itself.         *)
Bind(w, m) ==
  bound' = [bound EXCEPT ![w] = IF m.header = None THEN m.task ELSE m.header]

Take(w, m) ==
  /\ worker[w].at = "idle"
  /\ queue' = queue (-) SetToBag({m})
  /\ worker' = [worker EXCEPT ![w] = [at |-> "read", msg |-> m, number |-> 0]]
  /\ Store(m.task, "STARTED")
  /\ Bind(w, m)
  /\ UNCHANGED <<saleVars, fileVars, ghostVars>>

ReadSale(w) ==
  /\ worker[w].at = "read"
  /\ invoice # 0
  /\ worker' = [worker EXCEPT ![w].at = "open", ![w].number = invoice]
  /\ UNCHANGED <<saleVars, fileVars, queue, result, bound, ghostVars>>

(* DoesNotExist, or the ValueError.                                        *)
NoInvoice(w) ==
  /\ worker[w].at = "read"
  /\ invoice = 0
  /\ Goto(w, "raised")
  /\ UNCHANGED <<saleVars, fileVars, queue, result, bound, ghostVars>>

(* canvas.save opens the file, which empties it, ...                       *)
Open(w) ==
  /\ worker[w].at = "open"
  /\ file' = [file EXCEPT ![worker[w].number] = "torn"]
  /\ writer' = [writer EXCEPT ![worker[w].number] = TaskOf(w)]
  /\ Goto(w, "write")
  /\ UNCHANGED <<saleVars, queue, result, bound, ghostVars>>

(* ... then composes the pages and writes them.                            *)
Write(w) ==
  /\ worker[w].at = "write"
  /\ file' = [file EXCEPT ![worker[w].number] = "whole"]
  /\ Goto(w, "written")
  /\ UNCHANGED <<saleVars, writer, queue, result, bound, ghostVars>>

Succeed(w) ==
  /\ worker[w].at = "written"
  /\ Store(TaskOf(w), "SUCCESS")
  /\ Goto(w, "over")
  /\ UNCHANGED <<saleVars, fileVars, queue, bound, ghostVars>>

(* max_retries is not looked at.                                           *)
RetryFault(w) ==
  LET m == worker[w].msg IN
  /\ worker[w].at = "raised"
  /\ Send([m EXCEPT !.retries = @ + 1])
  /\ Store(m.task, "RETRY")
  /\ Goto(w, "over")
  /\ UNCHANGED <<saleVars, fileVars, bound, ghostVars>>

(* autoretry_for: the same id, arguments and headers, one retry more.      *)
Retry(w) ==
  LET m == worker[w].msg IN
  /\ worker[w].at = "raised"
  /\ m.retries < MaxRetries
  /\ Send([m EXCEPT !.retries = @ + 1])
  /\ Store(m.task, "RETRY")
  /\ Goto(w, "over")
  /\ UNCHANGED <<saleVars, fileVars, bound, ghostVars>>

GiveUp(w) ==
  /\ worker[w].at = "raised"
  /\ worker[w].msg.retries = MaxRetries
  /\ Store(TaskOf(w), "FAILURE")
  /\ Goto(w, "over")
  /\ UNCHANGED <<saleVars, fileVars, queue, bound, ghostVars>>

Acknowledge(w) ==
  /\ worker[w].at = "over"
  /\ worker' = [worker EXCEPT ![w] = Idle]
  /\ UNCHANGED <<saleVars, fileVars, queue, result, bound, ghostVars>>

Run(w) == \/ \E m \in DOMAIN queue : Take(w, m)
          \/ ReadSale(w) \/ NoInvoice(w) \/ Open(w) \/ Write(w)
          \/ Succeed(w) \/ Retry(w) \/ GiveUp(w) \/ Acknowledge(w)

-----------------------------------------------------------------------------
(* What goes wrong.                                                        *)

Running(w) == worker[w].at \in {"read", "open", "write", "written", "raised"}

Fault == faults < MaxFaults /\ faults' = faults + 1

(* PostgreSQL does not answer, the disk is full, ...                       *)
Raise(w) ==
  /\ Fault
  /\ worker[w].at \in {"read", "open", "write"}
  /\ Goto(w, "raised")
  /\ raised' = [raised EXCEPT ![TaskOf(w)] = @ + 1]
  /\ UNCHANGED <<saleVars, fileVars, queue, result, bound, killed, withdrawn>>

(* The message was acknowledged when it was taken.                         *)
RedeliverFault(w) ==
  /\ Fault
  /\ Running(w) \/ worker[w].at = "over"
  /\ worker' = [worker EXCEPT ![w] = Idle]
  /\ bound' = [bound EXCEPT ![w] = None]
  /\ UNCHANGED <<saleVars, fileVars, queue, result, raised, killed, withdrawn>>

(* The whole worker dies; the broker delivers its message again.           *)
Redeliver(w) ==
  /\ Fault
  /\ Running(w) \/ worker[w].at = "over"
  /\ Send(worker[w].msg)
  /\ worker' = [worker EXCEPT ![w] = Idle]
  /\ bound' = [bound EXCEPT ![w] = None]
  /\ UNCHANGED <<saleVars, fileVars, result, raised, killed, withdrawn>>

(* A child dies: its parent stores WorkerLostError and acknowledges.       *)
LoseChild(w) ==
  /\ Fault
  /\ Running(w)
  /\ Store(TaskOf(w), "FAILURE")
  /\ killed' = killed \cup {TaskOf(w)}
  /\ worker' = [worker EXCEPT ![w] = Idle]
  /\ bound' = [bound EXCEPT ![w] = None]
  /\ UNCHANGED <<saleVars, fileVars, queue, raised, withdrawn>>

GoWrong(w) == Raise(w) \/ Redeliver(w) \/ LoseChild(w)

Next == \/ Complete \/ Withdraw
        \/ \E t \in Tasks : Invoice(t)
        \/ \E w \in Workers : Run(w) \/ GoWrong(w)

Spec == Init /\ [][Next]_vars

(* The workers go on with their runs and take what waits.                  *)
FairSpec == Spec /\ \A w \in Workers : WF_vars(Run(w))

-----------------------------------------------------------------------------
TypeOK ==
  /\ invoice \in 0..MaxInvoices /\ issued \in 0..MaxInvoices
  /\ file \in [Numbers -> {"absent", "torn", "whole"}]
  /\ writer \in [Numbers -> Tasks \cup {None}]
  /\ IsABag(queue) /\ DOMAIN queue \subseteq Message
  /\ result \in [Tasks -> Answer \cup {None}]
  /\ worker \in [Workers -> Worker]
  /\ bound \in [Workers -> RequestIds \cup Tasks \cup {None}]
  /\ faults \in 0..MaxFaults
  /\ raised \in [Tasks -> Nat]
  /\ killed \subseteq Tasks /\ withdrawn \subseteq Tasks

(* Why a task may come to nothing: its sale lost the invoice after the 202, *)
(* a process was killed under it, or it failed once more often than it is  *)
(* retried.                                                                *)
Excused(t) == t \in withdrawn \/ t \in killed \/ raised[t] > MaxRetries

(* A client that got its 202 is told FAILURE only for such a reason.       *)
FailureExplained == \A t \in Tasks : result[t] = "FAILURE" => Excused(t)

(* An invoice that cannot be read, because a run has emptied its file and  *)
(* not filled it, is being taken care of: the task that opened it runs, or *)
(* will again, unless it has such a reason.                                *)
TornTended ==
  \A n \in Numbers : file[n] = "torn" =>
    \/ Excused(writer[n])
    \/ \E m \in DOMAIN queue : m.task = writer[n]
    \/ \E w \in Workers : Running(w) /\ TaskOf(w) = writer[n]

(* One id from web to queue to worker: what a process logs during a run    *)
(* carries the id of the request behind it, after retries and redelivery   *)
(* as well, whatever it ran before.                                        *)
Traced == \A w \in Workers : Running(w) => bound[w] = RequestId[TaskOf(w)]

(* Every accepted request is answered in the end, and for good.            *)
Answered == <>[](\A t \in Tasks : result[t] \in {None, "SUCCESS", "FAILURE"})
=============================================================================
