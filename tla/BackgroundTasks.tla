---------------------------- MODULE BackgroundTasks ----------------------------
(***************************************************************************)
(* The periodic Celery tasks (apps/inventory/tasks.py) beside the trade    *)
(* that moves the stock: the sweep for low stock and the reconciliation of *)
(* stock and ledger, every query a step of its own.  Beat puts their       *)
(* messages in the broker's queue; a worker process acknowledges one only  *)
(* after its task has ended, so a death in between may redeliver it.       *)
(*                                                                         *)
(* Trade and its notices are one step here; StockMutations has the         *)
(* statements.                                                             *)
(***************************************************************************)
EXTENDS Integers, Sequences, FiniteSets

CONSTANTS
  Products,
  Staff,       \* the active admins and managers
  Workers,     \* processes of the Celery worker
  MaxStock,    \* bound on a product's stock
  MaxQueued,   \* bound on the waiting messages of one task
  MaxRetries,  \* max_retries
  MaxFaults,   \* bound on exceptions and deaths
  MaxPatches,  \* bound on stock levels written without a ledger row
  None

ASSUME TasksAssumption ==
  /\ Staff # {} /\ IsFiniteSet(Workers)
  /\ {MaxStock, MaxQueued, MaxRetries, MaxFaults, MaxPatches} \subseteq Nat
  /\ None \notin Products

VARIABLES
  stock, ledger,      \* current_stock; the signed sum of the product's ledger rows
  threshold, active,
  unread,             \* how many notifications of each kind are not marked read
  queue,              \* the broker's messages
  worker,             \* what each process is at, and what it holds
  faults, patches

vars == <<stock, ledger, threshold, active, unread, queue, worker, faults, patches>>

product == <<stock, ledger, threshold, active, patches>>

Tasks   == {"sweep_low_stock", "reconcile_ledger"}
Message == [task : Tasks, retries : 0..MaxRetries]

\* What an alert of the sweep is about.
Matter  == [type : {"out_of_stock", "low_stock"}, reference : Products]
Mismatch == [type |-> "reconciliation_mismatch", reference |-> None]

\* by tells the sweep's own alerts from those of the stock endpoints.
Notification ==
  [user : Staff, matter : Matter \cup {Mismatch}, by : {"handler", "sweep", "reconcile"}]

Unread == {n \in Notification : unread[n] > 0}

\* The sweep's alerts are counted; for the others 1 stands for one or more.
Told(n) == IF n.by = "sweep" THEN unread[n] + 1 ELSE 1

\* One notification for each of the staff, of each matter.
NotifyStaff(matters, by) ==
  unread' = [n \in Notification |-> IF n.matter \in matters /\ n.by = by THEN Told(n) ELSE unread[n]]

Worker == [at      : {"off", "idle", "list_out", "list_low", "look_up", "alert",
                      "sum", "compare", "report", "finish"},
           message : Message \cup {None},
           todo    : SUBSET Matter,
           matter  : Matter \cup {None},
           totals  : [Products -> Int],
           wrong   : SUBSET Products]

Idle == [at |-> "idle", message |-> None, todo |-> {}, matter |-> None,
         totals |-> [p \in Products |-> 0], wrong |-> {}]

\* A process the worker was not started with: as many run as there are CPUs.
Off == [Idle EXCEPT !.at = "off"]

Started == {w \in Workers : worker[w].at # "off"}

Init ==
  /\ stock = [p \in Products |-> 0] /\ ledger = stock
  /\ threshold = [p \in Products |-> 0] /\ active = Products
  /\ unread = [n \in Notification |-> 0] /\ queue = <<>>
  /\ \E started \in SUBSET Workers \ {{}} :
       worker = [w \in Workers |-> IF w \in started THEN Idle ELSE Off]
  /\ faults = 0 /\ patches = 0

-----------------------------------------------------------------------------
(* The web side.                                                           *)

\* What check_and_notify_stock finds at this level.
StockMatter(p, level) ==
  {m \in Matter : /\ m.reference = p
                  /\ \/ m.type = "out_of_stock" /\ level <= 0
                     \/ m.type = "low_stock" /\ level > 0 /\ level <= threshold[p]}

Move(p, units) ==
  /\ stock[p] + units \in 0..MaxStock
  /\ stock'  = [stock EXCEPT ![p] = @ + units]
  /\ ledger' = [ledger EXCEPT ![p] = @ + units]
  /\ UNCHANGED <<threshold, active, queue, worker, faults, patches>>

\* A receipt, a sale or a write-off commits.
Trade(p, units) ==
  /\ Move(p, units)
  /\ NotifyStaff(StockMatter(p, stock[p] + units), "handler")

\* An approved return puts units back and looks at no threshold.
Approve(p) == Move(p, 1) /\ UNCHANGED unread

SetThreshold(p, level) ==
  /\ p \in active /\ threshold[p] # level
  /\ threshold' = [threshold EXCEPT ![p] = level]
  /\ UNCHANGED <<stock, ledger, active, unread, queue, worker, faults, patches>>

\* A product's PATCH writes current_stock, with no ledger row.
PatchStock(p, level) ==
  /\ p \in active /\ patches < MaxPatches /\ stock[p] # level
  /\ stock' = [stock EXCEPT ![p] = level]
  /\ patches' = patches + 1
  /\ UNCHANGED <<ledger, threshold, active, unread, queue, worker, faults>>

Deactivate(p) ==
  /\ p \in active
  /\ active' = active \ {p}
  /\ UNCHANGED <<stock, ledger, threshold, unread, queue, worker, faults, patches>>

mark_read(n) ==
  /\ n \in Unread
  /\ unread' = [unread EXCEPT ![n] = @ - 1]
  /\ UNCHANGED <<product, queue, worker, faults>>

-----------------------------------------------------------------------------
(* Delivery.                                                               *)

Waiting(task) == Len(SelectSeq(queue, LAMBDA m : m.task = task))

Beat(task) ==
  /\ Waiting(task) < MaxQueued
  /\ queue' = Append(queue, [task |-> task, retries |-> 0])
  /\ UNCHANGED <<product, unread, worker, faults>>

Take(w) ==
  /\ worker[w].at = "idle" /\ queue # <<>>
  /\ worker' = [worker EXCEPT ![w] =
       [Idle EXCEPT !.message = Head(queue),
                    !.at = IF Head(queue).task = "sweep_low_stock" THEN "list_out" ELSE "sum"]]
  /\ queue' = Tail(queue)
  /\ UNCHANGED <<product, unread, faults>>

\* The process goes on, with these fields.
Goto(w, fields) ==
  /\ worker' = [worker EXCEPT ![w] = fields]
  /\ UNCHANGED <<product, queue, faults>>

\* The task has returned: acknowledged only now (CELERY_TASK_ACKS_LATE).
Finish(w) ==
  /\ worker[w].at = "finish"
  /\ Goto(w, Idle)
  /\ UNCHANGED unread

Fault(w) ==
  /\ worker[w].at \notin {"off", "idle"} /\ faults < MaxFaults
  /\ faults' = faults + 1
  /\ worker' = [worker EXCEPT ![w] = Idle]
  /\ UNCHANGED <<product, unread>>

\* (An operator named ...Fault is the one after it with a slip in it, such as a
\* later change might bring; nothing uses it.)  The retries are not counted up to
\* their limit.
RaiseFault(w) ==
  /\ Fault(w)
  /\ queue' = Append(queue, [worker[w].message EXCEPT !.retries = @ + 1])

\* autoretry_for: a new message counts one retry more, until none is left.
Raise(w) ==
  /\ Fault(w)
  /\ queue' = IF worker[w].message.retries < MaxRetries
              THEN Append(queue, [worker[w].message EXCEPT !.retries = @ + 1])
              ELSE queue

\* The worker dies with the message unacknowledged: the broker delivers it again.
Redeliver(w) == Fault(w) /\ queue' = Append(queue, worker[w].message)

\* A child process dies alone: Celery acknowledges what it was running.
LoseChild(w) == Fault(w) /\ UNCHANGED queue

-----------------------------------------------------------------------------
(* sweep_low_stock.                                                        *)

ListOut(w) ==
  /\ worker[w].at = "list_out"
  /\ Goto(w, [worker[w] EXCEPT !.at = "list_low",
         !.todo = {m \in Matter : /\ m.type = "out_of_stock" /\ m.reference \in active
                                  /\ stock[m.reference] <= 0}])
  /\ UNCHANGED unread

\* Below the threshold only.
ListLowFault(w) ==
  /\ worker[w].at = "list_low"
  /\ Goto(w, [worker[w] EXCEPT !.at = "look_up",
         !.todo = @ \cup {m \in Matter : /\ m.type = "low_stock" /\ m.reference \in active
                                         /\ stock[m.reference] > 0
                                         /\ stock[m.reference] < threshold[m.reference]}])
  /\ UNCHANGED unread

ListLow(w) ==
  /\ worker[w].at = "list_low"
  /\ Goto(w, [worker[w] EXCEPT !.at = "look_up",
         !.todo = @ \cup {m \in Matter : /\ m.type = "low_stock" /\ m.reference \in active
                                         /\ stock[m.reference] > 0
                                         /\ stock[m.reference] <= threshold[m.reference]}])
  /\ UNCHANGED unread

\* already_flagged, whoever's notification it is and whoever made it.
Flagged(matter) == \E n \in Unread : n.matter = matter

\* No notification stops the next alert.
LookUpFault(w, m) ==
  /\ worker[w].at = "look_up" /\ m \in worker[w].todo
  /\ Goto(w, [worker[w] EXCEPT !.todo = @ \ {m}, !.at = "alert", !.matter = m])
  /\ UNCHANGED unread

LookUp(w, m) ==
  /\ worker[w].at = "look_up" /\ m \in worker[w].todo
  /\ Goto(w, IF Flagged(m)
             THEN [worker[w] EXCEPT !.todo = @ \ {m}]
             ELSE [worker[w] EXCEPT !.todo = @ \ {m}, !.at = "alert", !.matter = m])
  /\ UNCHANGED unread

Alert(w) ==
  /\ worker[w].at = "alert"
  /\ NotifyStaff({worker[w].matter}, "sweep")
  /\ Goto(w, [worker[w] EXCEPT !.at = "look_up", !.matter = None])

SweepDone(w) ==
  /\ worker[w].at = "look_up" /\ worker[w].todo = {}
  /\ Goto(w, [worker[w] EXCEPT !.at = "finish"])
  /\ UNCHANGED unread

-----------------------------------------------------------------------------
(* reconcile_ledger.                                                       *)

SumLedger(w) ==
  /\ worker[w].at = "sum"
  /\ Goto(w, [worker[w] EXCEPT !.at = "compare", !.totals = ledger])
  /\ UNCHANGED unread

\* Only stock that is too low.
CompareFault(w) ==
  /\ worker[w].at = "compare"
  /\ LET wrong == {p \in Products : stock[p] < worker[w].totals[p]} IN
       Goto(w, [worker[w] EXCEPT !.at = IF wrong = {} THEN "finish" ELSE "report",
                                 !.wrong = wrong, !.totals = Idle.totals])
  /\ UNCHANGED unread

\* A second query, of the products; what was summed may be behind it.
Compare(w) ==
  /\ worker[w].at = "compare"
  /\ LET wrong == {p \in Products : stock[p] # worker[w].totals[p]} IN
       Goto(w, [worker[w] EXCEPT !.at = IF wrong = {} THEN "finish" ELSE "report",
                                 !.wrong = wrong, !.totals = Idle.totals])
  /\ UNCHANGED unread

Report(w) ==
  /\ worker[w].at = "report"
  /\ NotifyStaff({Mismatch}, "reconcile")
  /\ Goto(w, [worker[w] EXCEPT !.at = "finish", !.wrong = {}])

-----------------------------------------------------------------------------
Run(w) ==
  \/ Take(w) \/ Finish(w)
  \/ ListOut(w) \/ ListLow(w) \/ (\E m \in Matter : LookUp(w, m)) \/ Alert(w) \/ SweepDone(w)
  \/ SumLedger(w) \/ Compare(w) \/ Report(w)

Next ==
  \/ \E p \in Products, units \in {-1, 1} : Trade(p, units)
  \/ \E p \in Products : Approve(p) \/ Deactivate(p)
  \/ \E p \in Products, level \in 0..MaxStock : SetThreshold(p, level) \/ PatchStock(p, level)
  \/ \E n \in Notification : mark_read(n)
  \/ \E task \in Tasks : Beat(task)
  \/ \E w \in Workers : Run(w) \/ Raise(w) \/ Redeliver(w) \/ LoseChild(w)

Spec == Init /\ [][Next]_vars

(***************************************************************************)
(* The worker's processes go on with what they run, and Beat keeps its     *)
(* schedule; the shop, its staff and the faults owe nothing.               *)
(***************************************************************************)
FairSpec ==
  /\ Spec
  /\ \A task \in Tasks : WF_vars(Beat(task))
  /\ \A w \in Workers : WF_vars(Run(w))

-----------------------------------------------------------------------------
(* Type invariant: retries stay within max_retries (tasks.py:21), so that  *)
(* a task that always raises is given up.                                  *)
TypeOK ==
  /\ stock \in [Products -> 0..MaxStock] /\ ledger \in [Products -> Int]
  /\ threshold \in [Products -> 0..MaxStock] /\ active \subseteq Products
  /\ unread \in [Notification -> Nat]
  /\ queue \in Seq(Message)
  /\ worker \in [Workers -> Worker]
  /\ faults \in 0..MaxFaults /\ patches \in 0..MaxPatches

(***************************************************************************)
(* The sweep skips what somebody has an unread alert of, but looks for it  *)
(* in one query and inserts in another.  So tasks.py:6-7 ("a redelivered   *)
(* run creates nothing new") holds of a worker with one process only: with *)
(* several, which docker-compose.yml:65 starts, each may repeat the alert  *)
(* once, and none more often, whatever is raised, redelivered or read.     *)
(***************************************************************************)
SweepRepeatsBounded ==
  \A n \in Notification : n.by = "sweep" => unread[n] <= Cardinality(Started)

(***************************************************************************)
(* A product in want, however it came there, is not left so forever        *)
(* without an unread alert that says so (tasks.py:80-83).                  *)
(***************************************************************************)
InWant(p, m) == p \in active /\ m \in StockMatter(p, stock[p])

LowStockAlerted ==
  \A p \in Products, m \in Matter : []<>(~ InWant(p, m) \/ Flagged(m))

(***************************************************************************)
(* If trade comes to rest, a product whose stock is not its ledger's sum   *)
(* has a report (tasks.py:109-114).  Beside trade a run may miss it: a     *)
(* commit between the two queries can hide the difference.                 *)
(***************************************************************************)
AtRest == <>[][UNCHANGED <<stock, ledger>>]_<<stock, ledger>>

MismatchReported ==
  AtRest => \A p \in Products : []<>(stock[p] = ledger[p] \/ Flagged(Mismatch))

(***************************************************************************)
(* While nobody has written a stock level past the ledger, nobody is told  *)
(* that somebody has (tasks.py:112-114: "a mismatch is itself the signal   *)
(* that something upstream is already wrong").                             *)
(***************************************************************************)
NoFalseAlarm == patches = 0 => ~ Flagged(Mismatch)
=============================================================================
