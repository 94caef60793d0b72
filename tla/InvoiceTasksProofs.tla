-------------------------- MODULE InvoiceTasksProofs --------------------------
(***************************************************************************)
(* Types of InvoiceTasks, and what a client, a reader of the file and a    *)
(* reader of the log can rely on, whatever is retried or redelivered.      *)
(***************************************************************************)
EXTENDS InvoiceTasks, TLAPS

Lost(t) == t \in withdrawn \/ t \in killed

(* A message is of an accepted request; each retry it counts was owed to a *)
(* passing error, or the task is lost.                                     *)
Follows(m) ==
  /\ m.header = RequestId[m.task]
  /\ result[m.task] # None
  /\ Lost(m.task) \/ raised[m.task] >= m.retries

Messages == \A m \in DOMAIN queue : Follows(m)

RunOK(w) ==
  worker[w].at # "idle" =>
    /\ worker[w].msg \in Message /\ Follows(worker[w].msg)
    /\ Running(w) => bound[w] = RequestId[TaskOf(w)]
    /\ worker[w].at = "raised" => Lost(TaskOf(w)) \/ raised[TaskOf(w)] > worker[w].msg.retries

Runs == \A w \in Workers : RunOK(w)

(* While its sale has not lost the invoice, a task works on the one it has. *)
Current ==
  /\ \A t \in Tasks : result[t] # None => invoice # 0 \/ t \in withdrawn
  /\ \A w \in Workers : worker[w].at \in {"open", "write", "written"} =>
       /\ worker[w].number \in Numbers
       /\ Lost(TaskOf(w)) \/ worker[w].number = invoice

(* A run that has still to write the file, or a message that will make one. *)
Carried(t) ==
  \/ \E m \in DOMAIN queue : m.task = t
  \/ \E w \in Workers : worker[w].at \in {"read", "open", "write", "raised"} /\ TaskOf(w) = t

Torn ==
  \A n \in Numbers : file[n] = "torn" =>
    /\ writer[n] \in Tasks /\ result[writer[n]] # None
    /\ Excused(writer[n]) \/ (n = invoice /\ Carried(writer[n]))

Inv == TypeOK /\ Messages /\ Runs /\ Current /\ FailureExplained /\ Torn

-----------------------------------------------------------------------------
(* Queue, messages and runs.                                               *)

LEMMA SendBag ==
  ASSUME IsABag(queue), NEW m, queue' = queue (+) SetToBag({m})
  PROVE  /\ IsABag(queue')
         /\ \A x \in DOMAIN queue' : x \in DOMAIN queue \/ x = m
         /\ DOMAIN queue \subseteq DOMAIN queue' /\ m \in DOMAIN queue'
  BY SMT DEF IsABag, SetToBag, (+)

LEMMA TakeBag ==
  ASSUME IsABag(queue), NEW m, queue' = queue (-) SetToBag({m})
  PROVE  /\ IsABag(queue')
         /\ DOMAIN queue' \subseteq DOMAIN queue
         /\ DOMAIN queue \subseteq DOMAIN queue' \cup {m}
  BY SMT DEF IsABag, SetToBag, (-)

LEMMA RetryMessage ==
  ASSUME NEW m \in Message, m.retries < MaxRetries
  PROVE  LET r == [m EXCEPT !.retries = @ + 1] IN
           r \in Message /\ r.task = m.task /\ r.header = m.header /\ r.retries = m.retries + 1
  BY InvoiceAssumption, SMT DEF Message

LEMMA IdleRun ==
  Idle \in Worker /\ Idle.at = "idle" /\ Idle.msg = None /\ Idle.number = 0
  BY InvoiceAssumption, SMT DEF Idle, Worker

LEMMA GotoStep ==
  ASSUME worker \in [Workers -> Worker], NEW w \in Workers,
         NEW at \in {"idle", "read", "open", "write", "written", "raised", "over"}, Goto(w, at)
  PROVE  /\ worker' \in [Workers -> Worker]
         /\ worker'[w].at = at
         /\ worker'[w].msg = worker[w].msg /\ worker'[w].number = worker[w].number
         /\ \A v \in Workers : v # w => worker'[v] = worker[v]
<1>1. [worker[w] EXCEPT !.at = at] \in Worker
  BY ZenonT(60) DEF Worker
<1>2. /\ [worker[w] EXCEPT !.at = at].at = at
      /\ [worker[w] EXCEPT !.at = at].msg = worker[w].msg
      /\ [worker[w] EXCEPT !.at = at].number = worker[w].number
  BY ZenonT(60) DEF Worker
<1>3. worker' = [worker EXCEPT ![w] = [worker[w] EXCEPT !.at = at]]
  BY DEF Goto
<1> QED
  BY <1>1, <1>2, <1>3

LEMMA StoreStep ==
  ASSUME result \in [Tasks -> Answer \cup {None}], NEW t \in Tasks, NEW state \in Answer, Store(t, state)
  PROVE  /\ result' \in [Tasks -> Answer \cup {None}]
         /\ \A u \in Tasks : /\ result[u] # None => result'[u] # None
                             /\ result'[u] = None => result[u] = None
                             /\ result'[u] \in {result[u], state}
                             /\ u # t => result'[u] = result[u]
  BY InvoiceAssumption, SMT DEF Store

LEMMA ResetStep ==
  ASSUME worker \in [Workers -> Worker], NEW w \in Workers, worker' = [worker EXCEPT ![w] = Idle]
  PROVE  /\ worker' \in [Workers -> Worker] /\ worker'[w].at = "idle"
         /\ \A v \in Workers : v # w => worker'[v] = worker[v]
  BY IdleRun

(* What a run that has a message has.                                      *)
LEMMA HasMessage ==
  ASSUME TypeOK, Runs, NEW w \in Workers, worker[w].at # "idle"
  PROVE  /\ worker[w].msg \in Message /\ TaskOf(w) \in Tasks
         /\ worker[w].msg.retries \in 0..MaxRetries
         /\ worker[w].msg.header \in RequestIds \cup {None}
         /\ Follows(worker[w].msg)
<1>1. worker[w].msg \in Message /\ Follows(worker[w].msg)
  BY DEF Runs, RunOK
<1> QED
  BY <1>1, SMT DEF Message, TaskOf

-----------------------------------------------------------------------------
(* Types.                                                                  *)

WebStep == Complete \/ Withdraw \/ \E t \in Tasks : Invoice(t)

LEMMA WebTypes ==
  ASSUME TypeOK, WebStep PROVE TypeOK'
<1> USE DEF TypeOK
<1>1. CASE Complete
  BY <1>1, InvoiceAssumption, SMT DEF Complete, fileVars, ghostVars
<1>2. CASE Withdraw
  BY <1>2, InvoiceAssumption, SMT DEF Withdraw, fileVars
<1>3. ASSUME NEW t \in Tasks, Invoice(t) PROVE TypeOK'
  <2>1. [task |-> t, retries |-> 0, header |-> RequestId[t]] \in Message
    BY InvoiceAssumption, SMT DEF Message
  <2>2. IsABag(queue') /\ DOMAIN queue' \subseteq Message
    <3>1. Send([task |-> t, retries |-> 0, header |-> RequestId[t]])
      BY <1>3 DEF Invoice
    <3> QED
      BY <2>1, <3>1, SendBag DEF Send
  <2>3. result' \in [Tasks -> Answer \cup {None}]
    BY <1>3 DEF Invoice, Answer
  <2> QED
    BY <1>3, <2>2, <2>3 DEF Invoice, saleVars, fileVars, ghostVars
<1> QED
  BY <1>1, <1>2, <1>3 DEF WebStep

LEMMA RunTypes ==
  ASSUME TypeOK, Runs, NEW w \in Workers, Run(w) PROVE TypeOK'
<1>t. /\ worker \in [Workers -> Worker] /\ result \in [Tasks -> Answer \cup {None}]
      /\ IsABag(queue) /\ DOMAIN queue \subseteq Message
      /\ bound \in [Workers -> RequestIds \cup Tasks \cup {None}]
  BY DEF TypeOK
<1>1. ASSUME NEW m \in DOMAIN queue, Take(w, m) PROVE TypeOK'
  <2>1. m \in Message /\ m.task \in Tasks /\ m.header \in RequestIds \cup {None}
    BY <1>t, SMT DEF Message
  <2>2. [at |-> "read", msg |-> m, number |-> 0] \in Worker
    BY <2>1, InvoiceAssumption, SMT DEF Worker
  <2>3. worker' \in [Workers -> Worker]
    BY <1>t, <1>1, <2>2 DEF Take
  <2>4. IsABag(queue') /\ DOMAIN queue' \subseteq Message
    BY <1>t, <1>1, TakeBag DEF Take
  <2>5. result' \in [Tasks -> Answer \cup {None}]
    BY <1>t, <1>1, <2>1, StoreStep DEF Take, Answer
  <2>6. bound' \in [Workers -> RequestIds \cup Tasks \cup {None}]
    BY <1>t, <1>1, <2>1 DEF Take, Bind
  <2> QED
    BY <1>1, <2>3, <2>4, <2>5, <2>6 DEF Take, TypeOK, saleVars, fileVars, ghostVars
<1>2. CASE ReadSale(w)
  <2>1. [worker[w] EXCEPT !.at = "open", !.number = invoice] \in Worker
    BY <1>t, ZenonT(60) DEF Worker, TypeOK
  <2>2. worker' \in [Workers -> Worker]
    BY <1>t, <1>2, <2>1 DEF ReadSale
  <2> QED
    BY <1>2, <2>2 DEF ReadSale, TypeOK, saleVars, fileVars, ghostVars
<1>3. CASE NoInvoice(w)
  <2>1. worker' \in [Workers -> Worker]
    BY <1>t, <1>3, GotoStep DEF NoInvoice
  <2> QED
    BY <1>3, <2>1 DEF NoInvoice, TypeOK, saleVars, fileVars, ghostVars
<1>4. CASE Open(w)
  <2>1. worker' \in [Workers -> Worker] /\ TaskOf(w) \in Tasks
    BY <1>t, <1>4, GotoStep, HasMessage DEF Open
  <2> QED
    BY <1>4, <2>1 DEF Open, TypeOK, saleVars, ghostVars
<1>5. CASE Write(w)
  <2>1. worker' \in [Workers -> Worker]
    BY <1>t, <1>5, GotoStep DEF Write
  <2> QED
    BY <1>5, <2>1 DEF Write, TypeOK, saleVars, ghostVars
<1>6. CASE Succeed(w)
  <2>1. worker' \in [Workers -> Worker] /\ TaskOf(w) \in Tasks
    BY <1>t, <1>6, GotoStep, HasMessage DEF Succeed
  <2>2. result' \in [Tasks -> Answer \cup {None}]
    BY <1>t, <1>6, <2>1, StoreStep DEF Succeed, Answer
  <2> QED
    BY <1>6, <2>1, <2>2 DEF Succeed, TypeOK, saleVars, fileVars, ghostVars
<1>7. CASE Retry(w)
  <2> DEFINE m == worker[w].msg
  <2>0. worker[w].at = "raised" /\ Goto(w, "over") /\ m.retries < MaxRetries
        /\ Send([m EXCEPT !.retries = @ + 1]) /\ Store(m.task, "RETRY")
        /\ UNCHANGED <<saleVars, fileVars, bound, ghostVars>>
    BY <1>7 DEF Retry
  <2>1. worker' \in [Workers -> Worker] /\ m \in Message /\ m.task \in Tasks
    BY <1>t, <2>0, GotoStep, HasMessage DEF TaskOf
  <2>2. result' \in [Tasks -> Answer \cup {None}]
    BY <1>t, <2>0, <2>1, StoreStep DEF Answer
  <2>3. IsABag(queue') /\ DOMAIN queue' \subseteq Message
    <3> DEFINE r == [m EXCEPT !.retries = @ + 1]
    <3>1. r \in Message
      BY <2>0, <2>1, RetryMessage
    <3>2. queue' = queue (+) SetToBag({r})
      BY <2>0 DEF Send
    <3> HIDE DEF r
    <3> QED
      BY <1>t, <3>1, <3>2, SendBag
  <2> QED
    BY <2>0, <2>1, <2>2, <2>3 DEF TypeOK, saleVars, fileVars, ghostVars
<1>8. CASE GiveUp(w)
  <2>1. worker' \in [Workers -> Worker] /\ TaskOf(w) \in Tasks
    BY <1>t, <1>8, GotoStep, HasMessage DEF GiveUp
  <2>2. result' \in [Tasks -> Answer \cup {None}]
    BY <1>t, <1>8, <2>1, StoreStep DEF GiveUp, Answer
  <2> QED
    BY <1>8, <2>1, <2>2 DEF GiveUp, TypeOK, saleVars, fileVars, ghostVars
<1>9. CASE Acknowledge(w)
  <2>1. worker' \in [Workers -> Worker]
    BY <1>t, <1>9, ResetStep DEF Acknowledge
  <2> QED
    BY <1>9, <2>1 DEF Acknowledge, TypeOK, saleVars, fileVars, ghostVars
<1> QED
  BY <1>1, <1>2, <1>3, <1>4, <1>5, <1>6, <1>7, <1>8, <1>9 DEF Run

LEMMA GoWrongTypes ==
  ASSUME TypeOK, Runs, NEW w \in Workers, GoWrong(w) PROVE TypeOK'
<1>t. /\ worker \in [Workers -> Worker] /\ result \in [Tasks -> Answer \cup {None}]
      /\ IsABag(queue) /\ DOMAIN queue \subseteq Message
      /\ raised \in [Tasks -> Nat]
  BY DEF TypeOK
<1>m. worker[w].at # "idle" /\ worker[w].msg \in Message /\ TaskOf(w) \in Tasks
  BY HasMessage DEF GoWrong, Raise, Redeliver, LoseChild, Running
<1>f. ASSUME Fault PROVE faults' \in 0..MaxFaults
  BY <1>f, InvoiceAssumption, SMT DEF Fault, TypeOK
<1>1. CASE Raise(w)
  <2>1. worker' \in [Workers -> Worker] /\ faults' \in 0..MaxFaults
    BY <1>t, <1>f, <1>1, GotoStep DEF Raise
  <2>2. raised' \in [Tasks -> Nat]
    BY <1>t, <1>m, <1>1, SMT DEF Raise
  <2> QED
    BY <1>1, <2>1, <2>2 DEF Raise, TypeOK, saleVars, fileVars
<1>2. CASE Redeliver(w)
  <2>1. worker' \in [Workers -> Worker] /\ faults' \in 0..MaxFaults
    BY <1>t, <1>f, <1>2, ResetStep DEF Redeliver
  <2>2. IsABag(queue') /\ DOMAIN queue' \subseteq Message
    BY <1>t, <1>m, <1>2, SendBag DEF Redeliver, Send
  <2> QED
    BY <1>2, <2>1, <2>2 DEF Redeliver, TypeOK, saleVars, fileVars
<1>3. CASE LoseChild(w)
  <2>1. worker' \in [Workers -> Worker] /\ faults' \in 0..MaxFaults
    BY <1>t, <1>f, <1>3, ResetStep DEF LoseChild
  <2>2. result' \in [Tasks -> Answer \cup {None}]
    BY <1>t, <1>m, <1>3, StoreStep DEF LoseChild, Answer
  <2> QED
    BY <1>m, <1>3, <2>1, <2>2 DEF LoseChild, TypeOK, saleVars, fileVars
<1> QED
  BY <1>1, <1>2, <1>3 DEF GoWrong

LEMMA NextSplit ==
  ASSUME [Next]_vars
  PROVE  UNCHANGED vars \/ WebStep \/ \E w \in Workers : Run(w) \/ GoWrong(w)
  BY DEF Next, WebStep

LEMMA TypeStep == TypeOK /\ Runs /\ [Next]_vars => TypeOK'
<1>1. TypeOK /\ UNCHANGED vars => TypeOK'
  BY DEF TypeOK, vars, saleVars, fileVars, ghostVars
<1> QED
  BY <1>1, NextSplit, WebTypes, RunTypes, GoWrongTypes

-----------------------------------------------------------------------------
(* What no step takes back.                                                *)

(* The steps of a process leave the sale alone, and every other process.   *)
LEMMA ProcessStep ==
  ASSUME TypeOK, Messages, Runs, NEW w \in Workers, Run(w) \/ GoWrong(w)
  PROVE  /\ UNCHANGED <<invoice, issued, withdrawn>> /\ killed \subseteq killed'
         /\ \A v \in Workers : v # w => worker'[v] = worker[v] /\ bound'[v] = bound[v]
         /\ \A t \in Tasks : (result'[t] # None <=> result[t] # None) /\ raised'[t] >= raised[t]
<1>t. /\ worker \in [Workers -> Worker] /\ result \in [Tasks -> Answer \cup {None}]
      /\ bound \in [Workers -> RequestIds \cup Tasks \cup {None}]
      /\ raised \in [Tasks -> Nat]
  BY DEF TypeOK
<1>r. \A t \in Tasks : raised[t] >= raised[t]
  BY <1>t, SMT
<1>s. ASSUME NEW t \in Tasks, NEW state \in Answer, result[t] # None, Store(t, state)
      PROVE  \A u \in Tasks : result'[u] # None <=> result[u] # None
  BY <1>t, <1>s, StoreStep
<1>m. ASSUME worker[w].at # "idle" PROVE TaskOf(w) \in Tasks /\ result[TaskOf(w)] # None
  BY <1>m, HasMessage DEF Follows, TaskOf
<1> DEFINE Others == \A v \in Workers : v # w => worker'[v] = worker[v] /\ bound'[v] = bound[v]
           Asked == \A t \in Tasks : result'[t] # None <=> result[t] # None
<1>g. ASSUME NEW at \in {"idle", "read", "open", "write", "written", "raised", "over"}, Goto(w, at),
             bound' = bound
      PROVE  Others
  BY <1>t, <1>g, GotoStep
<1>1. ASSUME NEW m \in DOMAIN queue, Take(w, m)
      PROVE  Others /\ Asked /\ UNCHANGED <<saleVars, ghostVars>>
  <2>1. m.task \in Tasks /\ result[m.task] # None
    BY SMT DEF TypeOK, Message, Messages, Follows
  <2>2. Store(m.task, "STARTED")
    BY <1>1 DEF Take
  <2>3. Asked
    BY <1>s, <2>1, <2>2 DEF Answer
  <2> QED
    BY <1>t, <1>1, <2>3 DEF Take, Bind
<1>2. CASE ReadSale(w) \/ NoInvoice(w) \/ Open(w) \/ Write(w) \/ Acknowledge(w)
  <2>1. Others
    BY <1>t, <1>2, <1>g DEF ReadSale, NoInvoice, Open, Write, Acknowledge
  <2>2. UNCHANGED <<result, saleVars, ghostVars>>
    BY <1>2 DEF ReadSale, NoInvoice, Open, Write, Acknowledge
  <2> QED
    BY <1>r, <2>1, <2>2 DEF saleVars, ghostVars
<1>3. CASE Succeed(w)
  <2>1. Goto(w, "over") /\ Store(TaskOf(w), "SUCCESS") /\ worker[w].at # "idle"
        /\ UNCHANGED <<bound, saleVars, ghostVars>>
    BY <1>3 DEF Succeed
  <2>2. Others /\ Asked
    BY <1>g, <1>s, <1>m, <2>1 DEF Answer
  <2> QED
    BY <1>r, <2>1, <2>2 DEF saleVars, ghostVars
<1>4. CASE Retry(w)
  <2>1. Goto(w, "over") /\ Store(TaskOf(w), "RETRY") /\ worker[w].at # "idle"
        /\ UNCHANGED <<bound, saleVars, ghostVars>>
    BY <1>4 DEF Retry, TaskOf
  <2>2. Others /\ Asked
    BY <1>g, <1>s, <1>m, <2>1 DEF Answer
  <2> QED
    BY <1>r, <2>1, <2>2 DEF saleVars, ghostVars
<1>5. CASE GiveUp(w)
  <2>1. Goto(w, "over") /\ Store(TaskOf(w), "FAILURE") /\ worker[w].at # "idle"
        /\ UNCHANGED <<bound, saleVars, ghostVars>>
    BY <1>5 DEF GiveUp
  <2>2. Others /\ Asked
    BY <1>g, <1>s, <1>m, <2>1 DEF Answer
  <2> QED
    BY <1>r, <2>1, <2>2 DEF saleVars, ghostVars
<1>6. CASE Raise(w)
  <2>1. Goto(w, "raised") /\ UNCHANGED <<bound, result, saleVars, withdrawn, killed>>
        /\ raised' = [raised EXCEPT ![TaskOf(w)] = @ + 1]
    BY <1>6 DEF Raise
  <2>2. \A t \in Tasks : raised'[t] >= raised[t]
    BY <1>t, <2>1, SMT
  <2> QED
    BY <1>g, <2>1, <2>2 DEF saleVars
<1>7. CASE Redeliver(w)
  <2>1. Others
    BY <1>t, <1>7 DEF Redeliver
  <2> QED
    BY <1>r, <1>7, <2>1 DEF Redeliver, saleVars
<1>8. CASE LoseChild(w)
  <2>1. Store(TaskOf(w), "FAILURE") /\ worker[w].at # "idle"
    BY <1>8 DEF LoseChild, Running
  <2>2. Asked
    BY <1>s, <1>m, <2>1 DEF Answer
  <2>3. Others
    BY <1>t, <1>8 DEF LoseChild
  <2> QED
    BY <1>r, <1>8, <2>2, <2>3 DEF LoseChild, saleVars
<1> QED
  BY <1>1, <1>2, <1>3, <1>4, <1>5, <1>6, <1>7, <1>8, <1>r DEF Run, GoWrong, saleVars, ghostVars

LEMMA Kept ==
  ASSUME TypeOK, Messages, Runs, [Next]_vars
  PROVE  /\ withdrawn \subseteq withdrawn' /\ killed \subseteq killed'
         /\ \A t \in Tasks : (result[t] # None => result'[t] # None) /\ raised'[t] >= raised[t]
<1>r. \A t \in Tasks : raised[t] >= raised[t]
  BY SMT DEF TypeOK
<1>1. CASE UNCHANGED vars
  BY <1>1, <1>r DEF vars, ghostVars
<1>2. CASE WebStep
  <2>1. CASE Complete \/ Withdraw
    BY <1>r, <2>1 DEF Complete, Withdraw, ghostVars
  <2>2. CASE \E t \in Tasks : Invoice(t)
    BY <1>r, <2>2, InvoiceAssumption DEF Invoice, ghostVars, TypeOK, Answer
  <2> QED
    BY <1>2, <2>1, <2>2 DEF WebStep
<1> QED
  BY <1>1, <1>2, NextSplit, ProcessStep

LEMMA FollowsOn ==
  ASSUME TypeOK, TypeOK', Messages, Runs, [Next]_vars, NEW m \in Message, Follows(m)
  PROVE  Follows(m)'
<1>1. m.task \in Tasks /\ m.retries \in Nat
  BY InvoiceAssumption, SMT DEF Message
<1>2. raised'[m.task] \in Nat /\ raised[m.task] \in Nat
  BY <1>1 DEF TypeOK
<1>3. raised[m.task] >= m.retries => raised'[m.task] >= m.retries
  BY <1>1, <1>2, Kept, SMT
<1> QED
  BY <1>1, <1>3, Kept DEF Follows, Lost

LEMMA ExcusedOn ==
  ASSUME TypeOK, TypeOK', Messages, Runs, [Next]_vars, NEW t \in Tasks
  PROVE  (Excused(t) => Excused(t)') /\ (Lost(t) => Lost(t)')
<1>1. raised'[t] \in Nat /\ raised[t] \in Nat /\ MaxRetries \in Nat
  BY InvoiceAssumption DEF TypeOK
<1>2. raised[t] > MaxRetries => raised'[t] > MaxRetries
  BY <1>1, Kept, SMT
<1> QED
  BY <1>2, Kept DEF Excused, Lost

-----------------------------------------------------------------------------
(* Messages and runs.                                                      *)

(* A retry, out of a run that an error has ended.                          *)
LEMMA RetryFollows ==
  ASSUME TypeOK, TypeOK', Messages, Runs, [Next]_vars, NEW w \in Workers, Retry(w)
  PROVE  \E x \in Message : /\ queue' = queue (+) SetToBag({x})
                             /\ x.task = TaskOf(w) /\ Follows(x)'
<1> DEFINE m == worker[w].msg
           r == [m EXCEPT !.retries = @ + 1]
<1>1. worker[w].at = "raised" /\ m.retries < MaxRetries /\ TaskOf(w) = m.task
      /\ UNCHANGED <<raised, killed, withdrawn>>
  BY DEF Retry, TaskOf, ghostVars
<1>2. m \in Message /\ m.task \in Tasks /\ m.retries \in 0..MaxRetries /\ Follows(m)
  BY <1>1, HasMessage DEF TaskOf
<1>3. r \in Message /\ r.task = m.task /\ r.header = m.header /\ r.retries = m.retries + 1
  BY <1>1, <1>2, RetryMessage
<1>4. Lost(m.task) \/ raised[m.task] > m.retries
  BY <1>1 DEF Runs, RunOK, TaskOf
<1> HIDE DEF m, r
<1>5. raised[m.task] \in Nat /\ m.retries \in Nat
  BY <1>2, InvoiceAssumption, SMT DEF TypeOK
<1>6. raised[m.task] > m.retries => raised[m.task] >= r.retries
  BY <1>3, <1>5, SMT
<1>7. result'[m.task] # None /\ m.header = RequestId[m.task]
  BY <1>2, Kept DEF Follows
<1>8. r.header = RequestId[r.task] /\ result'[r.task] # None
      /\ ((r.task \in withdrawn' \/ r.task \in killed') \/ raised'[r.task] >= r.retries)
  BY <1>1, <1>3, <1>4, <1>6, <1>7 DEF Lost
<1>9. queue' = queue (+) SetToBag({r})
  BY DEF Retry, Send, r, m
<1>10. \A x \in Message : x = r => x.task = TaskOf(w) /\ Follows(x)'
  BY <1>1, <1>3, <1>8 DEF Follows, Lost
<1> QED
  BY <1>3, <1>9, <1>10

LEMMA MessagesStep ==
  ASSUME TypeOK, TypeOK', Messages, Runs, [Next]_vars PROVE Messages'
<1>t. IsABag(queue) /\ DOMAIN queue \subseteq Message
  BY DEF TypeOK
<1>o. ASSUME NEW m \in DOMAIN queue PROVE Follows(m)'
  BY <1>t, FollowsOn DEF Messages
<1>1. CASE UNCHANGED queue
  BY <1>1, <1>o DEF Messages
<1>2. ASSUME NEW t \in Tasks, Invoice(t) PROVE Messages'
  <2> DEFINE m == [task |-> t, retries |-> 0, header |-> RequestId[t]]
  <2>1. queue' = queue (+) SetToBag({m}) /\ result' = [result EXCEPT ![t] = "PENDING"]
    BY <1>2 DEF Invoice, Send
  <2>2. raised'[t] >= 0 /\ result'[t] # None
    BY <2>1, InvoiceAssumption, SMT DEF TypeOK, Answer
  <2>3. Follows(m)'
    BY <2>2 DEF Follows
  <2> HIDE DEF m
  <2> QED
    BY <1>t, <1>o, <2>1, <2>3, SendBag DEF Messages
<1>3. ASSUME NEW w \in Workers, NEW m \in DOMAIN queue, Take(w, m) PROVE Messages'
  BY <1>t, <1>o, <1>3, TakeBag DEF Take, Messages
<1>4. ASSUME NEW w \in Workers, Retry(w) PROVE Messages'
  <2>1. PICK r \in Message : queue' = queue (+) SetToBag({r}) /\ Follows(r)'
    BY <1>4, RetryFollows
  <2> QED
    BY <1>t, <1>o, <2>1, SendBag DEF Messages
<1>5. ASSUME NEW w \in Workers, Redeliver(w) PROVE Messages'
  <2> DEFINE m == worker[w].msg
  <2>1. queue' = queue (+) SetToBag({m})
    BY <1>5 DEF Redeliver, Send
  <2>2. m \in Message /\ Follows(m)
    BY <1>5, HasMessage DEF Redeliver, Running
  <2>3. \A x \in Message : Follows(x) => Follows(x)'
    BY FollowsOn
  <2>4. \A x \in DOMAIN queue' : x \in Message /\ Follows(x)
    BY <1>t, <2>1, <2>2, SendBag DEF Messages
  <2> QED
    BY <2>3, <2>4 DEF Messages
<1> QED
  BY <1>1, <1>2, <1>3, <1>4, <1>5, NextSplit DEF WebStep, Complete, Withdraw, Run, ReadSale,
     NoInvoice, Open, Write, Succeed, GiveUp, Acknowledge, GoWrong, Raise, LoseChild, vars

(* A run that goes on, with its message and its log binding.               *)
LEMMA RunOn ==
  ASSUME TypeOK, TypeOK', Messages, Runs, [Next]_vars, NEW w \in Workers,
         worker'[w].msg = worker[w].msg, bound'[w] = bound[w],
         worker[w].at # "idle", Running(w)' => Running(w),
         worker'[w].at = "raised" =>
           \/ worker[w].at = "raised" \/ Lost(TaskOf(w))
           \/ raised'[TaskOf(w)] > worker[w].msg.retries
  PROVE  RunOK(w)'
<1> DEFINE m == worker[w].msg
<1>1. m \in Message /\ Follows(m) /\ TaskOf(w) = m.task
      /\ m.task \in Tasks /\ m.retries \in 0..MaxRetries
  BY HasMessage DEF TaskOf
<1>2. (Running(w) => bound[w] = RequestId[m.task])
      /\ (worker[w].at = "raised" => Lost(m.task) \/ raised[m.task] > m.retries)
  BY DEF Runs, RunOK, TaskOf
<1>3. m.header = RequestId[m.task] /\ result'[m.task] # None
      /\ (m.task \in withdrawn' \/ m.task \in killed' \/ raised'[m.task] >= m.retries)
  <2>1. \A x \in Message : Follows(x) => Follows(x)'
    BY FollowsOn
  <2> QED
    BY <1>1, <2>1 DEF Follows, Lost
<1>4. Lost(m.task) => m.task \in withdrawn' \/ m.task \in killed'
  BY Kept DEF Lost
<1>5. raised[m.task] > m.retries => raised'[m.task] > m.retries
  <2>1. raised[m.task] \in Nat /\ raised'[m.task] \in Nat /\ m.retries \in Nat
    BY <1>1, InvoiceAssumption, SMT DEF TypeOK
  <2>2. raised'[m.task] >= raised[m.task]
    BY <1>1, Kept
  <2> QED
    BY <2>1, <2>2, SMT
<1> HIDE DEF m
<1>6. worker'[w].msg = m
  BY DEF m
<1>7. worker'[w].at = "raised" =>
        m.task \in withdrawn' \/ m.task \in killed' \/ raised'[m.task] > m.retries
  BY <1>1, <1>2, <1>4, <1>5 DEF m
<1> QED
  BY <1>1, <1>2, <1>3, <1>6, <1>7 DEF RunOK, Follows, Lost, TaskOf

LEMMA RunsStep ==
  ASSUME TypeOK, TypeOK', Messages, Runs, Current, [Next]_vars PROVE Runs'
<1>t. worker \in [Workers -> Worker] /\ DOMAIN queue \subseteq Message
      /\ bound \in [Workers -> RequestIds \cup Tasks \cup {None}]
  BY DEF TypeOK
<1>s. ASSUME NEW v \in Workers, worker'[v] = worker[v], bound'[v] = bound[v] PROVE RunOK(v)'
  <2>1. CASE worker[v].at = "idle"
    BY <1>s, <2>1 DEF RunOK
  <2>2. CASE worker[v].at # "idle"
    BY <1>s, <2>2, RunOn DEF Running
  <2> QED
    BY <2>1, <2>2
<1>i. ASSUME NEW v \in Workers, worker'[v].at = "idle" PROVE RunOK(v)'
  BY <1>i DEF RunOK
<1>1. CASE UNCHANGED <<worker, bound>>
  BY <1>1, <1>s DEF Runs
<1>2. ASSUME NEW w \in Workers, Run(w) \/ GoWrong(w) PROVE RunOK(w)'
  <2>1. ASSUME NEW m \in DOMAIN queue, Take(w, m) PROVE RunOK(w)'
    <3>1. m \in Message /\ m.task \in Tasks /\ Follows(m)
      BY <1>t, SMT DEF Message, Messages
    <3>2. worker'[w].at = "read" /\ worker'[w].msg = m
      BY <1>t, <2>1, SMT DEF Take
    <3>3. bound'[w] = RequestId[m.task]
      BY <1>t, <2>1, <3>1, InvoiceAssumption DEF Take, Bind, Follows
    <3>4. \A x \in Message : Follows(x) => Follows(x)'
      BY FollowsOn
    <3> QED
      BY <3>1, <3>2, <3>3, <3>4 DEF RunOK, Follows, Lost, TaskOf
  <2>2. CASE ReadSale(w)
    <3>1. worker'[w].msg = worker[w].msg /\ worker'[w].at = "open"
      BY <1>t, <2>2, SMT DEF ReadSale, Worker
    <3> QED
      BY <2>2, <3>1, RunOn DEF ReadSale, Running
  <2>3. CASE NoInvoice(w)
    <3>1. worker'[w].msg = worker[w].msg /\ worker[w].at = "read" /\ invoice = 0 /\ bound' = bound
      BY <1>t, <2>3, GotoStep DEF NoInvoice
    <3>2. TaskOf(w) \in Tasks /\ result[TaskOf(w)] # None
      BY <3>1, HasMessage DEF Follows, TaskOf
    <3>3. Lost(TaskOf(w))
      BY <3>1, <3>2 DEF Current, Lost
    <3> QED
      BY <3>1, <3>3, RunOn DEF Running
  <2>4. CASE Open(w) \/ Write(w) \/ Succeed(w) \/ Retry(w) \/ GiveUp(w)
    <3>1. PICK at \in {"write", "written", "over"} : Goto(w, at)
      BY <2>4, Zenon DEF Open, Write, Succeed, Retry, GiveUp
    <3>2. worker'[w].msg = worker[w].msg /\ worker'[w].at = at
      BY <1>t, <3>1, GotoStep
    <3>3. bound' = bound /\ Running(w)
      BY <2>4 DEF Open, Write, Succeed, Retry, GiveUp, Running
    <3>4. worker[w].at # "idle"
      BY <3>3 DEF Running
    <3> QED
      BY <3>2, <3>3, <3>4, RunOn
  <2>5. CASE Acknowledge(w) \/ Redeliver(w) \/ LoseChild(w)
    BY <1>t, <1>i, <2>5, ResetStep DEF Acknowledge, Redeliver, LoseChild
  <2>6. CASE Raise(w)
    <3>1. worker'[w].msg = worker[w].msg /\ Running(w) /\ worker[w].at # "idle" /\ bound' = bound
      BY <1>t, <2>6, GotoStep DEF Raise, Running
    <3>2. /\ TaskOf(w) \in Tasks /\ worker[w].msg.retries \in 0..MaxRetries
          /\ Lost(TaskOf(w)) \/ raised[TaskOf(w)] >= worker[w].msg.retries
      BY <3>1, HasMessage DEF Follows, TaskOf
    <3>3. raised'[TaskOf(w)] = raised[TaskOf(w)] + 1 /\ raised[TaskOf(w)] \in Nat
      BY <2>6, <3>2 DEF Raise, TypeOK
    <3>4. Lost(TaskOf(w)) \/ raised'[TaskOf(w)] > worker[w].msg.retries
      BY <3>2, <3>3, InvoiceAssumption, SMT
    <3> QED
      BY <3>1, <3>4, RunOn
  <2> QED
    BY <1>2, <2>1, <2>2, <2>3, <2>4, <2>5, <2>6 DEF Run, GoWrong
<1>3. ASSUME NEW w \in Workers, Run(w) \/ GoWrong(w) PROVE Runs'
  BY <1>2, <1>3, <1>s, ProcessStep DEF Runs
<1> QED
  BY <1>1, <1>3, NextSplit DEF WebStep, Complete, Withdraw, Invoice, vars

-----------------------------------------------------------------------------
(* The sale, the results and the file.                                     *)

LEMMA CurrentStep ==
  ASSUME TypeOK, TypeOK', Messages, Runs, Current, [Next]_vars PROVE Current'
<1>t. worker \in [Workers -> Worker] /\ invoice \in 0..MaxInvoices
  BY DEF TypeOK
<1>l. \A t \in Tasks : Lost(t) => t \in withdrawn' \/ t \in killed'
  BY Kept DEF Lost
<1>k. ASSUME NEW w \in Workers, worker[w].at \in {"open", "write", "written"}
      PROVE  TaskOf(w) \in Tasks /\ result[TaskOf(w)] # None
  BY <1>k, HasMessage DEF TaskOf, Follows
<1>1. CASE UNCHANGED vars
  BY <1>1 DEF vars, saleVars, ghostVars, Current, Lost, TaskOf
<1>2. CASE Complete
  <2>1. invoice = 0 /\ invoice' # 0 /\ UNCHANGED <<result, worker, withdrawn, killed>>
    BY <1>2, SMT DEF Complete, ghostVars, TypeOK
  <2>2. 0 \notin Numbers
    BY SMT DEF Numbers
  <2> QED
    BY <2>1, <2>2 DEF Current, Lost, TaskOf
<1>3. CASE Withdraw
  <2>1. withdrawn' = withdrawn \cup {t \in Tasks : result[t] # None} /\ UNCHANGED <<result, worker>>
    BY <1>3 DEF Withdraw
  <2> QED
    BY <1>k, <2>1 DEF Current, Lost, TaskOf
<1>4. ASSUME NEW t \in Tasks, Invoice(t) PROVE Current'
  <2>1. invoice # 0 /\ UNCHANGED <<invoice, worker, withdrawn, killed>>
    BY <1>4 DEF Invoice, saleVars, ghostVars
  <2> QED
    BY <2>1 DEF Current, Lost, TaskOf
<1>5. ASSUME NEW w \in Workers, Run(w) \/ GoWrong(w) PROVE Current'
  <2>0. /\ UNCHANGED <<invoice, withdrawn>> /\ killed \subseteq killed'
        /\ \A v \in Workers : v # w => worker'[v] = worker[v]
        /\ \A t \in Tasks : result'[t] # None => result[t] # None
    BY <1>5, ProcessStep
  <2> DEFINE OK(v) == worker'[v].at \in {"open", "write", "written"} =>
                        /\ worker'[v].number \in Numbers
                        /\ \/ worker'[v].msg.task \in withdrawn' \/ worker'[v].msg.task \in killed'
                           \/ worker'[v].number = invoice'
  <2>1. ASSUME NEW v \in Workers, worker'[v].msg = worker[v].msg, worker'[v].number = worker[v].number,
               worker'[v].at \in {"open", "write", "written"} =>
                 worker[v].at \in {"open", "write", "written"}
        PROVE  OK(v)
    BY <2>0, <2>1 DEF Current, Lost, TaskOf
  <2>2. \A v \in Workers : v # w => OK(v)
    BY <2>0, <2>1
  <2>3. ASSUME NEW m \in DOMAIN queue, Take(w, m) PROVE OK(w)
    <3>1. worker'[w].at = "read"
      BY <1>t, <2>3, SMT DEF Take
    <3> QED
      BY <3>1
  <2>4. ASSUME ReadSale(w) PROVE OK(w)
    <3>1. worker'[w].number = invoice /\ invoice \in Numbers
      BY <1>t, <2>4, SMT DEF ReadSale, Worker, Numbers
    <3>2. invoice' = invoice
      BY <2>0
    <3> QED
      BY <3>1, <3>2
  <2>5. ASSUME \/ NoInvoice(w) \/ Open(w) \/ Write(w) \/ Succeed(w)
               \/ Retry(w) \/ GiveUp(w) \/ Raise(w)
        PROVE  OK(w)
    <3>1. PICK at \in {"raised", "write", "written", "over"} :
            Goto(w, at) /\ (at \in {"write", "written"} => worker[w].at \in {"open", "write"})
      BY <2>5, Zenon DEF NoInvoice, Open, Write, Succeed, Retry, GiveUp, Raise
    <3>2. worker'[w].msg = worker[w].msg /\ worker'[w].at = at /\ worker'[w].number = worker[w].number
      BY <1>t, <3>1, GotoStep
    <3>3. worker'[w].at \in {"open", "write", "written"} => worker[w].at \in {"open", "write", "written"}
      BY <3>1, <3>2
    <3> QED
      BY <2>1, <3>2, <3>3
  <2>6. ASSUME Acknowledge(w) \/ Redeliver(w) \/ LoseChild(w) PROVE OK(w)
    <3>1. worker'[w].at = "idle"
      BY <1>t, <2>6, ResetStep DEF Acknowledge, Redeliver, LoseChild
    <3> QED
      BY <3>1
  <2> HIDE DEF OK
  <2>7. \A v \in Workers : OK(v)
    BY <1>5, <2>2, <2>3, <2>4, <2>5, <2>6 DEF Run, GoWrong
  <2> QED
    BY <2>0, <2>7 DEF Current, Lost, TaskOf, OK
<1> QED
  BY <1>1, <1>2, <1>3, <1>4, <1>5, NextSplit DEF WebStep

LEMMA FailureStep ==
  ASSUME TypeOK, TypeOK', Messages, Runs, FailureExplained, [Next]_vars
  PROVE  FailureExplained'
<1>o. \A t \in Tasks : Excused(t) => Excused(t)'
  BY ExcusedOn
<1>t. result \in [Tasks -> Answer \cup {None}]
  BY DEF TypeOK
<1> SUFFICES ASSUME NEW t \in Tasks, result'[t] = "FAILURE", result[t] # "FAILURE"
             PROVE  Excused(t)'
  BY <1>o DEF FailureExplained
<1>1. ~ UNCHANGED result
  OBVIOUS
<1>2. ASSUME NEW w \in Workers, Run(w) \/ GoWrong(w) PROVE Excused(t)'
  <2>s. ASSUME NEW u \in Tasks, NEW state \in Answer, Store(u, state)
        PROVE  t = u /\ state = "FAILURE"
    BY <1>t, <2>s, StoreStep
  <2>m. worker[w].at # "idle" => TaskOf(w) \in Tasks
    BY HasMessage
  <2>1. \A m \in DOMAIN queue : ~ Take(w, m)
    <3> SUFFICES ASSUME NEW m \in DOMAIN queue, Take(w, m) PROVE FALSE
      OBVIOUS
    <3>1. m.task \in Tasks
      BY SMT DEF TypeOK, Message
    <3> QED
      BY <2>s, <3>1 DEF Take, Answer
  <2>2. ~ Succeed(w) /\ ~ Retry(w)
    BY <2>s, <2>m DEF Succeed, Retry, TaskOf, Answer
  <2>3. CASE GiveUp(w)
    <3>1. t = TaskOf(w)
      BY <2>s, <2>m, <2>3 DEF GiveUp, Answer
    <3>2. Excused(t)
      BY <2>3, <3>1 DEF GiveUp, Runs, RunOK, Lost, Excused
    <3> QED
      BY <1>o, <3>2
  <2>4. CASE LoseChild(w)
    <3>1. worker[w].at # "idle"
      BY <2>4 DEF LoseChild, Running
    <3>2. t = TaskOf(w)
      BY <2>s, <2>m, <2>4, <3>1 DEF LoseChild, Answer
    <3>3. t \in killed'
      BY <2>4, <3>2 DEF LoseChild
    <3> QED
      BY <3>3 DEF Excused
  <2> QED
    BY <1>1, <1>2, <2>1, <2>2, <2>3, <2>4 DEF Run, GoWrong, ReadSale, NoInvoice, Open, Write,
       Acknowledge, Raise, Redeliver
<1>3. ~ WebStep
  <2>1. \A u \in Tasks : ~ Invoice(u)
    BY <1>t DEF Invoice
  <2> QED
    BY <1>1, <2>1 DEF WebStep, Complete, Withdraw
<1> QED
  BY <1>1, <1>2, <1>3, NextSplit DEF vars

(* A task is carried on, through retries and redelivery, until the file is *)
(* written or there is a reason.                                           *)
LEMMA CarriedOn ==
  ASSUME TypeOK, TypeOK', Messages, Runs, [Next]_vars, NEW t \in Tasks, Carried(t),
         NEW w \in Workers, Run(w) \/ GoWrong(w), Write(w) => TaskOf(w) # t
  PROVE  Excused(t)' \/ Carried(t)'
<1>t. /\ worker \in [Workers -> Worker] /\ worker' \in [Workers -> Worker]
      /\ IsABag(queue) /\ DOMAIN queue \subseteq Message
  BY DEF TypeOK
<1>o. \A v \in Workers : v # w => worker'[v] = worker[v]
  BY ProcessStep
<1>q. ASSUME NEW m, m.task = t, m \in DOMAIN queue' PROVE Carried(t)'
  BY <1>q DEF Carried
<1>r. ASSUME NEW v \in Workers, worker'[v].at \in {"read", "open", "write", "raised"},
             worker'[v].msg.task = t
      PROVE  Carried(t)'
  BY <1>r DEF Carried, TaskOf
<1>1. ASSUME NEW m \in DOMAIN queue, m.task = t PROVE Carried(t)'
  <2>1. ASSUME NEW x \in DOMAIN queue, Take(w, x) PROVE Carried(t)'
    <3>1. worker'[w].at = "read" /\ worker'[w].msg = x
      BY <1>t, <2>1, SMT DEF Take
    <3>2. CASE x = m
      BY <1>1, <1>r, <3>1, <3>2
    <3>3. CASE x # m
      BY <1>1, <1>t, <1>q, <2>1, <3>3, TakeBag DEF Take
    <3> QED
      BY <3>2, <3>3
  <2>2. CASE Retry(w)
    <3>1. m \in DOMAIN queue'
      BY <1>t, <2>2, RetryFollows, SendBag
    <3> QED
      BY <1>1, <1>q, <3>1
  <2>3. CASE Redeliver(w)
    <3>1. queue' = queue (+) SetToBag({worker[w].msg})
      BY <2>3 DEF Redeliver, Send
    <3>2. m \in DOMAIN queue'
      BY <1>t, <3>1, SendBag
    <3> QED
      BY <1>1, <1>q, <3>2
  <2>4. CASE UNCHANGED queue
    BY <1>1, <1>q, <2>4
  <2> QED
    BY <2>1, <2>2, <2>3, <2>4 DEF Run, GoWrong, ReadSale, NoInvoice, Open, Write, Succeed,
       GiveUp, Acknowledge, Raise, LoseChild
<1>2. ASSUME worker[w].at \in {"read", "open", "write", "raised"}, TaskOf(w) = t
      PROVE  Excused(t)' \/ Carried(t)'
  <2>1. \A m \in DOMAIN queue : ~ Take(w, m)
    BY <1>2 DEF Take
  <2>2. CASE ReadSale(w)
    <3>1. worker'[w].at = "open" /\ worker'[w].msg = worker[w].msg
      BY <1>t, <2>2, SMT DEF ReadSale, Worker
    <3> QED
      BY <1>2, <1>r, <3>1 DEF TaskOf
  <2>3. CASE NoInvoice(w) \/ Raise(w) \/ Open(w)
    <3>1. PICK at \in {"raised", "write"} : Goto(w, at)
      BY <2>3 DEF NoInvoice, Raise, Open
    <3>2. worker'[w].at = at /\ worker'[w].msg = worker[w].msg
      BY <1>t, <3>1, GotoStep
    <3> QED
      BY <1>2, <1>r, <3>2 DEF TaskOf
  <2>4. CASE Retry(w)
    <3>1. PICK x \in Message : queue' = queue (+) SetToBag({x}) /\ x.task = t
      BY <1>2, <2>4, RetryFollows
    <3> QED
      BY <1>t, <1>q, <3>1, SendBag
  <2>5. CASE GiveUp(w)
    <3>1. Excused(t)
      BY <1>2, <2>5 DEF GiveUp, Runs, RunOK, Lost, Excused
    <3> QED
      BY <3>1, ExcusedOn
  <2>6. CASE Redeliver(w)
    <3>1. queue' = queue (+) SetToBag({worker[w].msg}) /\ worker[w].msg.task = t
      BY <1>2, <2>6 DEF Redeliver, Send, TaskOf
    <3>2. worker[w].msg \in DOMAIN queue'
      BY <1>t, <3>1, SendBag
    <3>3. \E m \in DOMAIN queue' : m.task = t
      BY <3>1, <3>2
    <3> QED
      BY <3>3 DEF Carried
  <2>7. CASE LoseChild(w)
    BY <1>2, <2>7 DEF LoseChild, Excused
  <2> QED
    BY <1>2, <2>1, <2>2, <2>3, <2>4, <2>5, <2>6, <2>7
    DEF Run, GoWrong, Write, Succeed, Acknowledge
<1>3. ASSUME NEW v \in Workers, v # w, worker[v].at \in {"read", "open", "write", "raised"},
             TaskOf(v) = t
      PROVE  Carried(t)'
  BY <1>o, <1>r, <1>3 DEF TaskOf
<1> QED
  BY <1>1, <1>2, <1>3 DEF Carried

LEMMA TornStep ==
  ASSUME TypeOK, TypeOK', Messages, Runs, Current, Torn, [Next]_vars
  PROVE  Torn'
<1>t. /\ file \in [Numbers -> {"absent", "torn", "whole"}]
      /\ writer \in [Numbers -> Tasks \cup {None}] /\ worker \in [Workers -> Worker]
  BY DEF TypeOK
<1> SUFFICES ASSUME NEW n \in Numbers, file'[n] = "torn"
             PROVE  \E t \in Tasks : /\ writer'[n] = t /\ result'[t] # None
                                     /\ Excused(t)' \/ (n = invoice' /\ Carried(t)')
  BY DEF Torn, Excused, Carried, TaskOf
<1>n. n # 0
  BY SMT DEF Numbers
<1>1. ASSUME file[n] = "torn", writer'[n] = writer[n],
             \/ UNCHANGED vars \/ WebStep
             \/ \E w \in Workers :
                  (Run(w) \/ GoWrong(w)) /\ (Write(w) => worker[w].number # n)
      PROVE  \E t \in Tasks : /\ writer'[n] = t /\ result'[t] # None
                              /\ Excused(t)' \/ (n = invoice' /\ Carried(t)')
  <2>1. PICK t \in Tasks : /\ writer[n] = t /\ result[t] # None
                           /\ Excused(t) \/ (n = invoice /\ Carried(t))
    BY <1>1 DEF Torn
  <2>2. CASE Excused(t)
    BY <1>1, <2>1, <2>2, Kept, ExcusedOn
  <2>3. CASE ~ Excused(t)
    <3> SUFFICES Excused(t)' \/ (n = invoice' /\ Carried(t)')
      BY <1>1, <2>1, Kept
    <3>0. n = invoice /\ Carried(t)
      BY <2>1, <2>3
    <3>1. CASE UNCHANGED vars
      BY <3>0, <3>1 DEF vars, saleVars, Carried, TaskOf
    <3>2. CASE Complete
      BY <1>n, <3>0, <3>2 DEF Complete
    <3>3. CASE Withdraw
      BY <2>1, <3>3 DEF Withdraw, Excused
    <3>4. ASSUME NEW u \in Tasks, Invoice(u) PROVE n = invoice' /\ Carried(t)'
      <4> DEFINE m == [task |-> u, retries |-> 0, header |-> RequestId[u]]
      <4>1. queue' = queue (+) SetToBag({m}) /\ UNCHANGED <<invoice, worker>>
        BY <3>4 DEF Invoice, Send, saleVars
      <4> HIDE DEF m
      <4>2. DOMAIN queue \subseteq DOMAIN queue'
        BY <4>1, SendBag DEF TypeOK
      <4> QED
        BY <3>0, <4>1, <4>2 DEF Carried, TaskOf
    <3>5. ASSUME NEW w \in Workers, Run(w) \/ GoWrong(w), Write(w) => worker[w].number # n
          PROVE  Excused(t)' \/ (n = invoice' /\ Carried(t)')
      <4>1. Write(w) => TaskOf(w) # t
        BY <2>3, <3>0, <3>5 DEF Write, Current, Lost, Excused
      <4>2. invoice' = invoice
        BY <3>5, ProcessStep
      <4> QED
        BY <3>0, <3>5, <4>1, <4>2, CarriedOn
    <3> QED
      BY <1>1, <3>1, <3>2, <3>3, <3>4, <3>5 DEF WebStep
  <2> QED
    BY <2>2, <2>3
<1>2. ASSUME NEW w \in Workers, Open(w)
      PROVE  \E t \in Tasks : /\ writer'[n] = t /\ result'[t] # None
                              /\ Excused(t)' \/ (n = invoice' /\ Carried(t)')
  <2>0. Run(w) /\ ~ Write(w)
    BY <1>2 DEF Run, Open, Write
  <2>1. CASE n # worker[w].number
    <3>1. file[n] = "torn" /\ writer'[n] = writer[n]
      BY <1>2, <2>1 DEF Open
    <3> QED
      BY <1>1, <2>0, <3>1
  <2>2. CASE n = worker[w].number
    <3>1. worker[w].at = "open" /\ Goto(w, "write") /\ UNCHANGED <<invoice, killed, withdrawn>>
      BY <1>2 DEF Open, saleVars, ghostVars
    <3>2. writer'[n] = TaskOf(w) /\ TaskOf(w) \in Tasks /\ result'[TaskOf(w)] # None
      <4>1. TaskOf(w) \in Tasks /\ result[TaskOf(w)] # None
        BY <3>1, HasMessage DEF TaskOf, Follows
      <4>2. writer' = [writer EXCEPT ![worker[w].number] = TaskOf(w)]
        BY <1>2 DEF Open
      <4> QED
        BY <1>t, <2>2, <4>1, <4>2, Kept
    <3>3. Lost(TaskOf(w)) \/ n = invoice
      BY <2>2, <3>1 DEF Current
    <3>4. worker'[w].at = "write" /\ worker'[w].msg = worker[w].msg
      BY <1>t, <3>1, GotoStep
    <3>5. PICK t \in Tasks : t = TaskOf(w)
      BY <3>2
    <3>6. Carried(t)'
      BY <3>4, <3>5 DEF Carried, TaskOf
    <3>7. Excused(t)' \/ n = invoice'
      BY <3>1, <3>3, <3>5 DEF Lost, Excused
    <3> QED
      BY <3>2, <3>5, <3>6, <3>7
  <2> QED
    BY <2>1, <2>2
<1>3. ASSUME NEW w \in Workers, Write(w)
      PROVE  file[n] = "torn" /\ writer'[n] = writer[n] /\ worker[w].number # n
  BY <1>t, <1>3 DEF Write
<1>4. ASSUME NEW w \in Workers, Run(w) \/ GoWrong(w), ~ Open(w), ~ Write(w)
      PROVE  UNCHANGED <<file, writer>>
  BY <1>4 DEF Run, GoWrong, Take, ReadSale, NoInvoice, Succeed, Retry, GiveUp, Acknowledge,
     Raise, Redeliver, LoseChild, fileVars
<1>5. CASE UNCHANGED vars \/ WebStep
  <2>1. UNCHANGED <<file, writer>>
    BY <1>5 DEF WebStep, Complete, Withdraw, Invoice, vars, fileVars
  <2> QED
    BY <1>1, <1>5, <2>1
<1>6. ASSUME NEW w \in Workers, Run(w) \/ GoWrong(w)
      PROVE  \E t \in Tasks : /\ writer'[n] = t /\ result'[t] # None
                              /\ Excused(t)' \/ (n = invoice' /\ Carried(t)')
  <2>1. CASE Open(w)
    BY <1>2, <2>1
  <2>2. CASE Write(w)
    BY <1>1, <1>3, <1>6, <2>2
  <2>3. CASE ~ Open(w) /\ ~ Write(w)
    BY <1>1, <1>4, <1>6, <2>3
  <2> QED
    BY <2>1, <2>2, <2>3
<1> QED
  BY <1>5, <1>6, NextSplit

-----------------------------------------------------------------------------
LEMMA InvInit == Init => Inv
<1> SUFFICES ASSUME Init PROVE Inv
  OBVIOUS
<1>1. IsABag(queue) /\ DOMAIN queue = {}
  BY SMT DEF Init, EmptyBag, SetToBag, IsABag
<1>2. TypeOK
  <2>1. 0 \in 0..MaxInvoices /\ 0 \in 0..MaxFaults /\ 0 \in Nat
    BY InvoiceAssumption, SMT
  <2> QED
    BY <1>1, <2>1, IdleRun DEF Init, TypeOK
<1>3. Messages /\ Runs /\ Current /\ Torn
  BY <1>1, IdleRun DEF Init, Messages, Runs, RunOK, Current, Torn
<1>4. FailureExplained
  BY InvoiceAssumption DEF Init, FailureExplained, Answer
<1> QED
  BY <1>2, <1>3, <1>4 DEF Inv

LEMMA Invariance == Spec => []Inv
<1>1. Inv /\ [Next]_vars => Inv'
  <2> SUFFICES ASSUME Inv, [Next]_vars PROVE Inv'
    OBVIOUS
  <2>1. TypeOK'
    BY TypeStep DEF Inv
  <2> QED
    BY <2>1, MessagesStep, RunsStep, CurrentStep, FailureStep, TornStep DEF Inv
<1> QED
  BY <1>1, InvInit, PTL DEF Spec

(***************************************************************************)
(* The types hold, retries within max_retries included (tasks.py:21-24).   *)
(***************************************************************************)
THEOREM TypeCorrect == Spec => []TypeOK
<1>1. Inv => TypeOK
  BY DEF Inv
<1> QED
  BY <1>1, Invariance, PTL

(***************************************************************************)
(* A client that got its 202 is told FAILURE only if the sale lost its     *)
(* invoice, a process was killed or errors outnumbered the retries         *)
(* (tasks.py:21-34).                                                       *)
(***************************************************************************)
THEOREM FailureTheorem == Spec => []FailureExplained
<1>1. Inv => FailureExplained
  BY DEF Inv
<1> QED
  BY <1>1, Invariance, PTL

(***************************************************************************)
(* A half-written invoice is in some run's or message's care               *)
(* (tasks.py:36-73, base.py:148), or one of the same reasons is at hand.   *)
(***************************************************************************)
THEOREM TornTheorem == Spec => []TornTended
<1>1. Inv => TornTended
  BY DEF Inv, Torn, Carried, Running, TornTended
<1> QED
  BY <1>1, Invariance, PTL

(***************************************************************************)
(* The log lines of a run carry the id of the request behind it            *)
(* (celery_signals.py:18-31).                                              *)
(***************************************************************************)
THEOREM TracedTheorem == Spec => []Traced
<1>1. Inv => Traced
  BY DEF Inv, Runs, RunOK, Running, Traced
<1> QED
  BY <1>1, Invariance, PTL
=============================================================================
