------------------------- MODULE BackgroundTasksProofs -------------------------
(***************************************************************************)
(* Types of BackgroundTasks, and how often the sweep may repeat an alert.  *)
(***************************************************************************)
EXTENDS BackgroundTasks, FiniteSetTheorems, TLAPS

-----------------------------------------------------------------------------
(* A message taken off the queue, or put on it, leaves a queue of messages. *)
LEMMA QueueTypes ==
  ASSUME NEW q \in Seq(Message), NEW m \in Message
  PROVE  /\ Append(q, m) \in Seq(Message)
         /\ q # <<>> => Head(q) \in Message /\ Tail(q) \in Seq(Message)
  BY SMT

(* Telling the staff adds one notification at most to those of a kind, and *)
(* leaves the sweep's alone unless it is the sweep that tells.             *)
LEMMA NotifyType ==
  ASSUME unread \in [Notification -> Nat], NEW matters, NEW by, NotifyStaff(matters, by)
  PROVE  /\ unread' \in [Notification -> Nat]
         /\ \A n \in Notification :
              n.by = "sweep" =>
                unread'[n] = IF n.matter \in matters /\ by = "sweep" THEN unread[n] + 1 ELSE unread[n]
<1>1. \A n \in Notification : Told(n) \in Nat
  BY SMT DEF Told
<1>2. \A n \in Notification :
        unread'[n] = IF n.matter \in matters /\ n.by = by THEN Told(n) ELSE unread[n]
  BY DEF NotifyStaff
<1> QED
  BY <1>1, <1>2 DEF NotifyStaff, Told

(* A retry is a message still, while one is left.                          *)
LEMMA RetryType ==
  ASSUME NEW m \in Message, m.retries < MaxRetries
  PROVE  [m EXCEPT !.retries = @ + 1] \in Message
  BY TasksAssumption, SMT DEF Message

LEMMA IdleType == Idle \in Worker /\ Off \in Worker
  BY SMT DEF Idle, Off, Worker

(* The field updates of the tasks' steps.                                  *)
LEMMA WorkerTypes ==
  ASSUME NEW r \in Worker,
         NEW at \in {"off", "idle", "list_out", "list_low", "look_up", "alert",
                     "sum", "compare", "report", "finish"}
  PROVE  /\ [r EXCEPT !.at = at] \in Worker
         /\ \A message \in Message : [r EXCEPT !.message = message, !.at = at] \in Worker
         /\ \A todo \in SUBSET Matter :
              /\ [r EXCEPT !.todo = todo] \in Worker
              /\ [r EXCEPT !.at = at, !.todo = todo] \in Worker
              /\ \A m \in Matter \cup {None} :
                   [r EXCEPT !.todo = todo, !.at = at, !.matter = m] \in Worker
         /\ \A m \in Matter \cup {None} : [r EXCEPT !.at = at, !.matter = m] \in Worker
         /\ \A totals \in [Products -> Int] :
              /\ [r EXCEPT !.at = at, !.totals = totals] \in Worker
              /\ \A wrong \in SUBSET Products :
                   [r EXCEPT !.at = at, !.wrong = wrong, !.totals = totals] \in Worker
         /\ \A wrong \in SUBSET Products : [r EXCEPT !.at = at, !.wrong = wrong] \in Worker
  BY ZenonT(60) DEF Worker

LEMMA WorkerFields ==
  ASSUME NEW r \in Worker, NEW at
  PROVE  /\ [r EXCEPT !.at = at].at = at
         /\ [r EXCEPT !.at = at].message = r.message
         /\ \A todo : /\ [r EXCEPT !.at = at, !.todo = todo].at = at
                      /\ [r EXCEPT !.at = at, !.todo = todo].message = r.message
         /\ \A m : /\ [r EXCEPT !.at = at, !.matter = m].at = at
                   /\ [r EXCEPT !.at = at, !.matter = m].message = r.message
         /\ \A totals : /\ [r EXCEPT !.at = at, !.totals = totals].at = at
                        /\ [r EXCEPT !.at = at, !.totals = totals].message = r.message
                        /\ \A wrong :
                             /\ [r EXCEPT !.at = at, !.wrong = wrong, !.totals = totals].at = at
                             /\ [r EXCEPT !.at = at, !.wrong = wrong, !.totals = totals].message
                                  = r.message
         /\ \A wrong : /\ [r EXCEPT !.at = at, !.wrong = wrong].at = at
                       /\ [r EXCEPT !.at = at, !.wrong = wrong].message = r.message
  BY ZenonT(60) DEF Worker

(* What a process is about to tell is an alert; one that runs has a message. *)
Telling == \A w \in Workers : worker[w].at = "alert" => worker[w].matter \in Matter

Busy ==
  \A w \in Workers : worker[w].at \notin {"off", "idle"} => worker[w].message \in Message

(* No step leaves the types (tasks.py:21 for the retries).                 *)
LEMMA TypeStep == TypeOK /\ Telling /\ Busy /\ [Next]_vars => TypeOK'
<1> SUFFICES ASSUME TypeOK, Telling, Busy, [Next]_vars PROVE TypeOK'
  OBVIOUS
<1> USE DEF TypeOK
<1>b. /\ MaxStock \in Nat /\ MaxQueued \in Nat /\ MaxRetries \in Nat
      /\ MaxFaults \in Nat /\ MaxPatches \in Nat
  BY TasksAssumption
<1>0. CASE UNCHANGED vars
  BY <1>0 DEF vars
<1>1. ASSUME NEW p \in Products, NEW units \in {-1, 1}, Trade(p, units) PROVE TypeOK'
  <2>2. unread' \in [Notification -> Nat]
    BY <1>1, NotifyType DEF Trade
  <2> QED
    BY <1>1, <1>b, <2>2, SMT DEF Trade, Move
<1>2. ASSUME NEW p \in Products, Approve(p) PROVE TypeOK'
  BY <1>2, <1>b, SMT DEF Approve, Move
<1>3. ASSUME NEW p \in Products, Deactivate(p) PROVE TypeOK'
  BY <1>3 DEF Deactivate
<1>4. ASSUME NEW p \in Products, NEW level \in 0..MaxStock, SetThreshold(p, level) PROVE TypeOK'
  BY <1>4 DEF SetThreshold
<1>5. ASSUME NEW p \in Products, NEW level \in 0..MaxStock, PatchStock(p, level) PROVE TypeOK'
  BY <1>5, <1>b, SMT DEF PatchStock
<1>6. ASSUME NEW n \in Notification, mark_read(n) PROVE TypeOK'
  BY <1>6, SMT DEF mark_read, product, Unread
<1>7. ASSUME NEW task \in Tasks, Beat(task) PROVE TypeOK'
  <2>1. [task |-> task, retries |-> 0] \in Message
    BY <1>b, SMT DEF Message
  <2>2. queue' \in Seq(Message)
    BY <1>7, <2>1, QueueTypes DEF Beat
  <2> QED
    BY <1>7, <2>2 DEF Beat, product
<1>8. ASSUME NEW w \in Workers, Run(w) PROVE TypeOK'
  <2> DEFINE r == worker[w]
  <2>0. r \in Worker /\ r.todo \in SUBSET Matter
    BY SMT DEF Worker
  <2> HIDE DEF r
  <2> SUFFICES /\ worker' \in [Workers -> Worker]
               /\ queue' \in Seq(Message)
               /\ unread' \in [Notification -> Nat]
               /\ UNCHANGED <<product, faults>>
    BY DEF product
  <2>1. CASE Take(w)
    <3>1. Head(queue) \in Message /\ Tail(queue) \in Seq(Message)
      BY <2>1, QueueTypes, SMT DEF Take
    <3>2. [Idle EXCEPT !.message = Head(queue),
                       !.at = IF Head(queue).task = "sweep_low_stock" THEN "list_out" ELSE "sum"]
            \in Worker
      BY <3>1, IdleType, WorkerTypes
    <3> QED
      BY <2>1, <3>1, <3>2 DEF Take
  <2>2. CASE Finish(w)
    BY <2>2, IdleType DEF Finish, Goto
  <2>3. CASE ListOut(w)
    BY <2>0, <2>3, WorkerTypes DEF ListOut, Goto, r
  <2>4. CASE ListLow(w)
    BY <2>0, <2>4, WorkerTypes DEF ListLow, Goto, r
  <2>5. ASSUME NEW m \in Matter, LookUp(w, m)
        PROVE  /\ worker' \in [Workers -> Worker]
               /\ queue' \in Seq(Message)
               /\ unread' \in [Notification -> Nat]
               /\ UNCHANGED <<product, faults>>
    BY <2>0, <2>5, WorkerTypes DEF LookUp, Goto, r
  <2>6. CASE Alert(w)
    <3>1. unread' \in [Notification -> Nat]
      BY <2>6, NotifyType DEF Alert
    <3> QED
      BY <2>0, <2>6, <3>1, WorkerTypes DEF Alert, Goto, r
  <2>7. CASE SweepDone(w)
    BY <2>0, <2>7, WorkerTypes DEF SweepDone, Goto, r
  <2>8. CASE SumLedger(w)
    BY <2>0, <2>8, WorkerTypes DEF SumLedger, Goto, r
  <2>9. CASE Compare(w)
    <3>1. PICK at, wrong :
            /\ at \in {"finish", "report"} /\ wrong \in SUBSET Products
            /\ worker' = [worker EXCEPT ![w] =
                 [worker[w] EXCEPT !.at = at, !.wrong = wrong, !.totals = Idle.totals]]
      BY <2>9, Zenon DEF Compare, Goto
    <3>2. Idle.totals \in [Products -> Int]
      BY SMT DEF Idle
    <3>3. [r EXCEPT !.at = at, !.wrong = wrong, !.totals = Idle.totals] \in Worker
      BY <2>0, <3>1, <3>2, WorkerTypes
    <3>4. worker' \in [Workers -> Worker]
      BY <3>1, <3>3 DEF r
    <3> QED
      BY <2>9, <3>4 DEF Compare, Goto
  <2>10. CASE Report(w)
    BY <2>0, <2>10, NotifyType, WorkerTypes DEF Report, Goto, r
  <2> QED
    BY <1>8, <2>1, <2>2, <2>3, <2>4, <2>5, <2>6, <2>7, <2>8, <2>9, <2>10 DEF Run
<1>9. ASSUME NEW w \in Workers, Raise(w) \/ Redeliver(w) \/ LoseChild(w) PROVE TypeOK'
  <2>1. worker[w].message \in Message
    BY <1>9 DEF Raise, Redeliver, LoseChild, Fault, Busy
  <2>2. queue' \in Seq(Message)
    BY <1>9, <2>1, QueueTypes, RetryType DEF Raise, Redeliver, LoseChild
  <2>3. worker' \in [Workers -> Worker]
    BY <1>9, IdleType DEF Raise, Redeliver, LoseChild, Fault
  <2>4. faults' \in 0..MaxFaults
    BY <1>9, <1>b, SMT DEF Raise, Redeliver, LoseChild, Fault
  <2> QED
    BY <1>9, <2>2, <2>3, <2>4 DEF Raise, Redeliver, LoseChild, Fault, product
<1> QED
  BY <1>0, <1>1, <1>2, <1>3, <1>4, <1>5, <1>6, <1>7, <1>8, <1>9 DEF Next

(* Nothing but a process' own task changes what it holds.                  *)
LEMMA OutsideStep ==
  ASSUME TypeOK, [Next]_vars, \A w \in Workers : ~ Run(w)
  PROVE  \A w \in Workers : worker'[w] \in {worker[w], Idle}
<1>1. CASE \E w \in Workers : Raise(w) \/ Redeliver(w) \/ LoseChild(w)
  BY <1>1 DEF Raise, Redeliver, LoseChild, Fault, TypeOK
<1>2. CASE UNCHANGED worker
  BY <1>2
<1> QED
  BY <1>1, <1>2 DEF Next, vars, Trade, Approve, Move, Deactivate, SetThreshold, PatchStock, mark_read, Beat

(* Where a task goes without a new message or an alert to make.            *)
LEMMA Progress ==
  ASSUME TypeOK, NEW w \in Workers,
         ListOut(w) \/ ListLow(w) \/ Alert(w) \/ SweepDone(w) \/ SumLedger(w) \/ Compare(w) \/ Report(w)
  PROVE  /\ worker[w].at \notin {"off", "idle"}
         /\ worker'[w].at \notin {"off", "idle", "alert"}
         /\ worker'[w].message = worker[w].message
<1> DEFINE r == worker[w]
<1>r. r \in Worker /\ worker \in [Workers -> Worker]
  BY DEF TypeOK
<1>f. ASSUME NEW q, worker' = [worker EXCEPT ![w] = q] PROVE worker'[w] = q
  BY <1>r, <1>f
<1>1. CASE ListOut(w)
  <2>1. PICK todo : /\ worker[w].at \notin {"off", "idle"}
                    /\ worker' = [worker EXCEPT ![w] = [worker[w] EXCEPT !.at = "list_low", !.todo = todo]]
    BY <1>1, Zenon DEF ListOut, Goto
  <2> QED
    BY <2>1, <1>r, <1>f, WorkerFields
<1>2. CASE ListLow(w)
  <2>1. PICK todo : /\ worker[w].at \notin {"off", "idle"}
                    /\ worker' = [worker EXCEPT ![w] = [worker[w] EXCEPT !.at = "look_up", !.todo = todo]]
    BY <1>2, Zenon DEF ListLow, Goto
  <2> QED
    BY <2>1, <1>r, <1>f, WorkerFields
<1>3. CASE Alert(w)
  BY <1>3, <1>r, <1>f, WorkerFields DEF Alert, Goto
<1>4. CASE SweepDone(w)
  BY <1>4, <1>r, <1>f, WorkerFields DEF SweepDone, Goto
<1>5. CASE SumLedger(w)
  BY <1>5, <1>r, <1>f, WorkerFields DEF SumLedger, Goto
<1>6. CASE Compare(w)
  <2>1. PICK at, wrong, totals :
          /\ at \in {"finish", "report"} /\ worker[w].at \notin {"off", "idle"}
          /\ worker' = [worker EXCEPT ![w] =
               [worker[w] EXCEPT !.at = at, !.wrong = wrong, !.totals = totals]]
    BY <1>6, Zenon DEF Compare, Goto
  <2> QED
    BY <2>1, <1>r, <1>f, WorkerFields
<1>7. CASE Report(w)
  BY <1>7, <1>r, <1>f, WorkerFields DEF Report, Goto
<1> QED
  BY <1>1, <1>2, <1>3, <1>4, <1>5, <1>6, <1>7

LEMMA HoldingStep == TypeOK /\ Telling /\ Busy /\ [Next]_vars => Telling' /\ Busy'
<1> SUFFICES ASSUME TypeOK, Telling, Busy, [Next]_vars, NEW v \in Workers
             PROVE  /\ worker'[v].at = "alert" => worker'[v].matter \in Matter
                    /\ worker'[v].at \notin {"off", "idle"} => worker'[v].message \in Message
  BY DEF Telling, Busy
<1>i. Idle.at = "idle"
  BY DEF Idle
<1>t. worker \in [Workers -> Worker] /\ queue \in Seq(Message)
  BY DEF TypeOK
<1>1. CASE \A w \in Workers : ~ Run(w)
  BY <1>1, <1>i, OutsideStep DEF Telling, Busy
<1>2. ASSUME NEW w \in Workers, Run(w), v # w PROVE worker'[v] = worker[v]
  BY <1>2, <1>t DEF Run, Take, Finish, ListOut, ListLow, LookUp, Alert, SweepDone,
     SumLedger, Compare, Report, Goto
<1>3. ASSUME Run(v)
      PROVE  /\ worker'[v].at = "alert" => worker'[v].matter \in Matter
             /\ worker'[v].at \notin {"off", "idle"} => worker'[v].message \in Message
  <2> DEFINE r == worker[v]
  <2>r. r \in Worker /\ (r.at \notin {"off", "idle"} => r.message \in Message)
    BY <1>t DEF Busy
  <2>1. CASE Take(v)
    <3>1. Head(queue) \in Message
      BY <1>t, <2>1, QueueTypes DEF Take
    <3>2. /\ worker'[v].at \in {"list_out", "sum"}
          /\ worker'[v].message = Head(queue)
      BY <1>t, <2>1, SMT DEF Take, Idle
    <3> QED
      BY <3>1, <3>2
  <2>2. CASE Finish(v)
    BY <1>t, <1>i, <2>2 DEF Finish, Goto
  <2>3. CASE \/ ListOut(v) \/ ListLow(v) \/ Alert(v) \/ SweepDone(v)
             \/ SumLedger(v) \/ Compare(v) \/ Report(v)
    BY <2>3, <2>r, Progress
  <2>4. ASSUME NEW m \in Matter, LookUp(v, m)
        PROVE  /\ worker'[v].at = "alert" => worker'[v].matter \in Matter
               /\ worker'[v].at \notin {"off", "idle"} => worker'[v].message \in Message
    <3>1. /\ worker'[v].at = "alert" => worker'[v].matter = m
          /\ worker'[v].message = r.message /\ r.at \notin {"off", "idle"}
      BY <1>t, <2>4, <2>r, SMT DEF LookUp, Goto, Worker
    <3> QED
      BY <3>1, <2>r
  <2> QED
    BY <1>3, <2>1, <2>2, <2>3, <2>4 DEF Run
<1> QED
  BY <1>1, <1>2, <1>3 DEF Telling, Busy

(***************************************************************************)
(* The types hold, retries within max_retries included (tasks.py:21).      *)
(***************************************************************************)
THEOREM TypeCorrect == Spec => [](TypeOK /\ Telling /\ Busy)
<1>1. Init => TypeOK /\ Telling /\ Busy
  <2> SUFFICES ASSUME Init PROVE TypeOK /\ Telling /\ Busy
    OBVIOUS
  <2>1. \A w \in Workers : worker[w].at \in {"off", "idle"}
    BY SMT DEF Init, Idle, Off
  <2>2. MaxStock \in Nat /\ MaxFaults \in Nat /\ MaxPatches \in Nat
    BY TasksAssumption
  <2>3. queue \in Seq(Message)
    BY SMT DEF Init
  <2>4. worker \in [Workers -> Worker]
    BY IdleType DEF Init
  <2>5. /\ stock \in [Products -> 0..MaxStock] /\ ledger \in [Products -> Int]
        /\ threshold \in [Products -> 0..MaxStock]
        /\ faults \in 0..MaxFaults /\ patches \in 0..MaxPatches
    BY <2>2, SMT DEF Init
  <2> QED
    BY <2>1, <2>3, <2>4, <2>5 DEF Init, TypeOK, Telling, Busy
<1>2. TypeOK /\ Telling /\ Busy /\ [Next]_vars => (TypeOK /\ Telling /\ Busy)'
  BY TypeStep, HoldingStep
<1> QED
  BY <1>1, <1>2, PTL DEF Spec

-----------------------------------------------------------------------------
(* The processes about to insert an alert of this.                         *)
Alerting(m) == {w \in Workers : worker[w].at = "alert" /\ worker[w].matter = m}

(* Each of them may still add one alert to those unread.                   *)
RepeatsInv ==
  \A n \in Notification :
    n.by = "sweep" => unread[n] + Cardinality(Alerting(n.matter)) <= Cardinality(Started)

(* A process comes to an alert by a look-up alone, and leaves it when it   *)
(* has inserted; it is neither started nor shut down.                      *)
LEMMA AlertingStep ==
  ASSUME TypeOK, [Next]_vars, NEW v \in Workers
  PROVE  /\ worker'[v].at = "off" <=> worker[v].at = "off"
         /\ Alert(v) => worker'[v].at # "alert"
         /\ worker'[v].at = "alert" =>
              \/ worker'[v] = worker[v]
              \/ \E m \in Matter : LookUp(v, m) /\ ~ Flagged(m) /\ worker'[v].matter = m
<1>i. Idle.at = "idle"
  BY DEF Idle
<1>t. worker \in [Workers -> Worker]
  BY DEF TypeOK
<1>1. CASE \E w \in Workers : Raise(w) \/ Redeliver(w) \/ LoseChild(w)
  BY <1>1, <1>i, <1>t DEF Raise, Redeliver, LoseChild, Fault, Alert, Goto
<1>2. CASE UNCHANGED worker /\ ~ Alert(v)
  BY <1>2
<1>3. ASSUME NEW w \in Workers, Run(w), v # w PROVE worker'[v] = worker[v] /\ ~ Alert(v)
  <2>1. worker'[v] = worker[v]
    BY <1>3, <1>t DEF Run, Take, Finish, ListOut, ListLow, LookUp, Alert, SweepDone,
       SumLedger, Compare, Report, Goto
  <2>2. Alert(v) => worker'[v].at \notin {"off", "idle", "alert"} /\ worker[v].at = "alert"
    BY Progress DEF Alert
  <2> QED
    BY <2>1, <2>2
<1>4. CASE Run(v)
  <2>1. CASE Take(v)
    <3>1. worker'[v].at \in {"list_out", "sum"} /\ worker[v].at = "idle"
      BY <1>t, <2>1, SMT DEF Take, Idle
    <3> QED
      BY <3>1
  <2>2. CASE Finish(v)
    BY <1>t, <1>i, <2>2 DEF Finish, Goto
  <2>3. CASE \/ ListOut(v) \/ ListLow(v) \/ Alert(v) \/ SweepDone(v)
             \/ SumLedger(v) \/ Compare(v) \/ Report(v)
    BY <2>3, Progress
  <2>4. ASSUME NEW m \in Matter, LookUp(v, m)
        PROVE  /\ worker'[v].at \in {"look_up", "alert"} /\ worker[v].at = "look_up"
               /\ worker'[v].at = "alert" => ~ Flagged(m) /\ worker'[v].matter = m
    BY <1>t, <2>4, SMT DEF LookUp, Goto, Worker
  <2>5. ~ Alert(v) \/ worker'[v].at # "alert"
    BY Progress
  <2> QED
    BY <1>4, <2>1, <2>2, <2>3, <2>4, <2>5 DEF Run
<1>5. CASE \A w \in Workers : ~ Run(w)
  <2>1. ~ Alert(v)
    BY <1>5 DEF Run
  <2>2. worker'[v] \in {worker[v], Idle} /\ (worker'[v] = worker[v] \/ worker[v].at # "off")
    <3>1. CASE \E w \in Workers : Raise(w) \/ Redeliver(w) \/ LoseChild(w)
      BY <3>1, <1>t DEF Raise, Redeliver, LoseChild, Fault
    <3>2. CASE UNCHANGED worker
      BY <3>2
    <3> QED
      BY <1>5, <3>1, <3>2 DEF Next, vars, Trade, Approve, Move, Deactivate, SetThreshold,
         PatchStock, mark_read, Beat
  <2> QED
    BY <1>i, <2>1, <2>2
<1> QED
  BY <1>3, <1>4, <1>5

(* The sweep's unread alerts grow by an alert's insertion only.            *)
LEMMA UnreadStep ==
  ASSUME TypeOK, [Next]_vars, NEW n \in Notification, n.by = "sweep"
  PROVE  /\ unread[n] \in Nat /\ unread'[n] \in Nat
         /\ \/ unread'[n] <= unread[n]
            \/ \E w \in Workers : /\ Alert(w) /\ worker[w].matter = n.matter
                                  /\ unread'[n] = unread[n] + 1
<1>t. unread \in [Notification -> Nat]
  BY DEF TypeOK
<1>1. ASSUME NEW p \in Products, NEW units \in {-1, 1}, Trade(p, units) PROVE unread'[n] = unread[n]
  BY <1>1, <1>t, NotifyType DEF Trade
<1>2. ASSUME NEW k \in Notification, mark_read(k) PROVE unread'[n] \in Nat /\ unread'[n] <= unread[n]
  BY <1>2, <1>t, SMT DEF mark_read, Unread
<1>3. ASSUME NEW w \in Workers, Run(w)
      PROVE  \/ unread'[n] = unread[n]
             \/ Alert(w) /\ worker[w].matter = n.matter /\ unread'[n] = unread[n] + 1
  <2>1. CASE Alert(w)
    BY <2>1, <1>t, NotifyType DEF Alert
  <2>2. CASE Report(w)
    BY <2>2, <1>t, NotifyType DEF Report
  <2> QED
    BY <1>3, <2>1, <2>2 DEF Run, Take, Finish, ListOut, ListLow, LookUp, SweepDone, SumLedger, Compare
<1>4. CASE UNCHANGED unread
  BY <1>4, <1>t
<1>5. unread[n] \in Nat
  BY <1>t
<1>6. \/ \E p \in Products, units \in {-1, 1} : Trade(p, units)
      \/ \E k \in Notification : mark_read(k)
      \/ \E w \in Workers : Run(w)
      \/ UNCHANGED unread
  BY DEF Next, vars, Approve, Deactivate, SetThreshold, PatchStock,
     Beat, Raise, Redeliver, LoseChild, Fault
<1> QED
  BY <1>1, <1>2, <1>3, <1>4, <1>5, <1>6, SMT

LEMMA RepeatsStep == TypeOK /\ RepeatsInv /\ [Next]_vars => RepeatsInv'
<1> SUFFICES ASSUME TypeOK, RepeatsInv, [Next]_vars, NEW n \in Notification, n.by = "sweep"
             PROVE  unread'[n] + Cardinality(Alerting(n.matter)') <= Cardinality(Started')
  BY DEF RepeatsInv
<1> DEFINE A == Alerting(n.matter)
           B == Alerting(n.matter)'
<1>1. Started' = Started
  BY AlertingStep DEF Started
<1>2. /\ IsFiniteSet(A) /\ IsFiniteSet(B) /\ IsFiniteSet(Started)
      /\ Cardinality(A) \in Nat /\ Cardinality(B) \in Nat /\ Cardinality(Started) \in Nat
  <2>1. A \subseteq Workers /\ B \subseteq Workers /\ Started \subseteq Workers
    BY DEF Alerting, Started
  <2> QED
    BY <2>1, TasksAssumption, FS_Subset, FS_CardinalityType
<1>3. unread[n] + Cardinality(A) <= Cardinality(Started)
  BY DEF RepeatsInv
<1>4. CASE B \subseteq A
  <2>1. Cardinality(B) <= Cardinality(A)
    BY <1>2, <1>4, FS_Subset
  <2>2. CASE unread'[n] <= unread[n]
    BY <1>1, <1>2, <1>3, <2>1, <2>2, UnreadStep, SMT
  <2>3. ASSUME NEW w \in Workers, Alert(w), worker[w].matter = n.matter,
               unread'[n] = unread[n] + 1
        PROVE  unread'[n] + Cardinality(B) <= Cardinality(Started')
    <3>1. w \in A /\ w \notin B
      BY <2>3, AlertingStep DEF Alert, Alerting
    <3>2. Cardinality(A \ {w}) = Cardinality(A) - 1 /\ IsFiniteSet(A \ {w})
      BY <1>2, <3>1, FS_RemoveElement
    <3>3. Cardinality(B) <= Cardinality(A \ {w})
      BY <1>4, <3>1, <3>2, FS_Subset
    <3> QED
      BY <1>1, <1>2, <1>3, <2>3, <3>2, <3>3, UnreadStep, SMT
  <2> QED
    BY <2>2, <2>3, UnreadStep
<1>5. CASE ~ (B \subseteq A)
  <2>1. PICK w \in Workers : w \in B /\ w \notin A
    BY <1>5 DEF Alerting
  <2>2. PICK m \in Matter : LookUp(w, m) /\ ~ Flagged(m) /\ m = n.matter
    BY <2>1, AlertingStep DEF Alerting
  <2>3. unread'[n] = 0
    BY <2>2, UnreadStep, SMT DEF LookUp, Flagged, Unread
  <2>4. B \subseteq Started'
    BY AlertingStep DEF Alerting, Started
  <2>5. Cardinality(B) <= Cardinality(Started)
    BY <1>1, <1>2, <2>4, FS_Subset
  <2> QED
    BY <1>1, <1>2, <2>3, <2>5, SMT
<1> QED
  BY <1>4, <1>5

(***************************************************************************)
(* Nobody has more unread alerts of one matter from the sweep than the     *)
(* worker has processes, whatever is raised, redelivered, sold or read     *)
(* in between (tasks.py:96-101): one, if it has one.                       *)
(***************************************************************************)
THEOREM SweepRepeatsTheorem == Spec => []SweepRepeatsBounded
<1>1. Init => RepeatsInv
  <2> SUFFICES ASSUME Init, NEW n \in Notification
               PROVE  unread[n] + Cardinality(Alerting(n.matter)) <= Cardinality(Started)
    BY DEF RepeatsInv
  <2>1. Alerting(n.matter) = {} /\ unread[n] = 0
    BY SMT DEF Init, Alerting, Idle, Off
  <2>2. Cardinality(Started) \in Nat
    <3>1. Started \subseteq Workers
      BY DEF Started
    <3> QED
      BY <3>1, TasksAssumption, FS_Subset, FS_CardinalityType
  <2> QED
    BY <2>1, <2>2, FS_EmptySet, SMT
<1>2. TypeOK /\ RepeatsInv => SweepRepeatsBounded
  <2> SUFFICES ASSUME TypeOK, RepeatsInv, NEW n \in Notification, n.by = "sweep"
               PROVE  unread[n] <= Cardinality(Started)
    BY DEF SweepRepeatsBounded
  <2>1. Alerting(n.matter) \subseteq Workers /\ Started \subseteq Workers
    BY DEF Alerting, Started
  <2>2. Cardinality(Alerting(n.matter)) \in Nat /\ Cardinality(Started) \in Nat
    BY <2>1, TasksAssumption, FS_Subset, FS_CardinalityType
  <2>3. unread[n] \in Nat /\ unread[n] + Cardinality(Alerting(n.matter)) <= Cardinality(Started)
    BY DEF TypeOK, RepeatsInv
  <2> QED
    BY <2>2, <2>3, SMT
<1> QED
  BY <1>1, <1>2, TypeCorrect, RepeatsStep, PTL DEF Spec
=============================================================================
