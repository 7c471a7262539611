-------------------------- MODULE WorkerBroker_proofs --------------------------
(***************************************************************************)
(* What the store of Worker families keeps through every history of calls, *)
(* for any Cores, conversations, accounts and limits: the store invariant, *)
(* that what is over stays over, that updates reach their Core once, and   *)
(* that no limit costs a Core what it counts on.                           *)
(*                                                                         *)
(* The invariant speaks of the two maps that operations build before they  *)
(* are published, so that what compact_family_history does to any of them  *)
(* is one lemma.                                                           *)
(***************************************************************************)
EXTENDS WorkerBroker, FiniteSetTheorems, TLAPS

-----------------------------------------------------------------------------
(* Workers and their tasks.                                                *)

\* What the fields of one record say of each other.
RecordOK(r) ==
  /\ r.state = "Absent" <=> r = NoWorker
  /\ r.core = None <=> r = NoWorker
  /\ r.token <=> r.state = "Provisioning" /\ r.chat = None
  /\ r.state \in {"Idle", "Waking", "Running"} => r.chat # None
  /\ r.state \in {"Provisioning", "Waking", "Running"} <=> r.current # None
  /\ r.guard # None => r.state = "Running" /\ r.guard.task = r.current

\* The task a worker is on is its own, and open.
OnItsTask(ws, ts, w) ==
  ws[w].current # None =>
    LET task == ts[ws[w].current] IN
    /\ task.worker = w
    /\ task.state \in {"Pending", "Running"}
    /\ ws[w].state = "Running" <=> task.state = "Running"

\* A task is some worker's, and one that is open is the one it is on.
HasItsWorker(ws, ts, t) ==
  LET task == ts[t] IN
  /\ task.state = "Absent" <=> task = NoTask
  /\ task.worker = None <=> task = NoTask
  /\ task.worker # None => ws[task.worker].core # None
  /\ task.state \in {"Pending", "Running"} => ws[task.worker].current = t

Life(ws, ts) ==
  /\ ws \in [Worker -> WorkerRecord]
  /\ ts \in [Task -> TaskRecord]
  /\ \A w \in Worker : RecordOK(ws[w]) /\ OnItsTask(ws, ts, w)
  /\ \A t \in Task : HasItsWorker(ws, ts, t)

Counters == [worker : Nat, task : Nat, message : Nat, report : Nat, guard : Nat, plan : Nat]

\* What was not handed out yet is blank.
Fresh(ws, ts, m) ==
  /\ m \in Counters
  /\ \A w \in Worker : w > m.worker => ws[w] = NoWorker
  /\ \A t \in Task : t > m.task => ts[t] = NoTask

Binding(ws) ==
  \A v, w \in Worker :
    ws[v].chat # None =>
      /\ ws[v].chat # ws[v].core
      /\ v # w => ws[w].chat # ws[v].chat
      /\ ws[w].chat # None /\ ws[w].core = ws[v].core =>
           Cardinality({SubjectOf[ws[v].chat], SubjectOf[ws[w].chat]} \ {None}) <= 1

-----------------------------------------------------------------------------
(* Receipts and what was delivered.                                        *)

Created(rs) == {r \in rs : r.kind \in {"spawn", "reuse"}}

Receipted(ws, ts, rs) ==
  \A t \in Task : ts[t].state # "Absent" =>
    \E r \in Created(rs) : r.id = t /\ r.core = ws[ts[t].worker].core

OneReceipt(rs) == \A r, q \in Created(rs) : r.id = q.id => r = q

Delivered(bs, t) == \E b \in DOMAIN bs : t \in bs[b].tasks

\* Only a task that was handed out can have been delivered.
HandedOut(bs, m) == \A t \in Task : Delivered(bs, t) => t <= m.task

\* A receipt whose task is gone names one that was delivered.
NotForgotten(ts, rs, bs) ==
  \A r \in Created(rs) : r.id \in Task /\ (ts[r.id].state # "Absent" \/ Delivered(bs, r.id))

CollectedIsDelivered(ts, bs) == \A t \in Task : ts[t].collected => Delivered(bs, t)

\* Which call a worker that is launching came from, for the rollbacks.
CameFrom(ws, ts, rs) ==
  \A w \in Worker :
    /\ ws[w].state = "Provisioning" => \A t \in Task : ts[t].worker = w => t = ws[w].current
    /\ \A r \in Created(rs) : r.id = ws[w].current =>
         /\ ws[w].state = "Provisioning" => r.kind = "spawn"
         /\ ws[w].state = "Waking" => r.kind = "reuse"

Receipts(ws, ts, rs, bs) ==
  /\ rs \subseteq Receipt
  /\ Receipted(ws, ts, rs)
  /\ OneReceipt(rs)
  /\ NotForgotten(ts, rs, bs)
  /\ CollectedIsDelivered(ts, bs)
  /\ CameFrom(ws, ts, rs)

-----------------------------------------------------------------------------
(* The limits that validate checks.                                        *)

ReportsOf(rp, c) == {r \in rp : r.core = c}
KindOf(rs, k, c) == {r \in rs : r.kind = k /\ r.core = c}

StoreFits(fs, ws, rp, rs) ==
  /\ fs \subseteq Core /\ IsFiniteSet(fs) /\ Cardinality(fs) <= MaxFamilies
  /\ rp \subseteq ReportRecord /\ IsFiniteSet(rp) /\ IsFiniteSet(rs)
  /\ \A w \in Worker :
       /\ ws[w].core # None => ws[w].core \in fs
       /\ Cardinality(ws[w].inbox) <= MaxInbox
  /\ \A r \in rp : ws[r.worker].core = r.core /\ ws[r.worker].state # "Provisioning"
  /\ \A c \in Core : Cardinality(ReportsOf(rp, c)) <= MaxQueued

\* What compaction sees to, for one family at a time.
FamilyFits(ws, ts, rs, c) ==
  /\ \A w \in WorkersOf(ws, c) : Cardinality(TasksOf(ts, w)) <= MaxTasks
  /\ \A k \in Kind : Cardinality(KindOf(rs, k, c)) <= ReceiptLimit(k)

WithinLimits(fs, ws, ts, rp, rs) ==
  /\ StoreFits(fs, ws, rp, rs)
  /\ \A c \in Core : FamilyFits(ws, ts, rs, c)

BatchRecord == [core : Core, reports : SUBSET Report, tasks : SUBSET Task]

StoreInv ==
  /\ Life(workers, tasks)
  /\ Fresh(workers, tasks, made)
  /\ Binding(workers)
  /\ Receipts(workers, tasks, receipts, batches)
  /\ HandedOut(batches, made)
  /\ WithinLimits(families, workers, tasks, reports, receipts)
  /\ fences \subseteq Session /\ DOMAIN plan = Core /\ batches \in Seq(BatchRecord)

-----------------------------------------------------------------------------
(* Lemmas about Life.                                                      *)

LEMMA NoneIsNobody == None \notin Worker /\ None \notin Task
<1>1. None \notin Nat
  BY ConstantsOK DEF ConstantsOK
<1>2. \A m \in Nat : 1 .. m \subseteq Nat
  OBVIOUS
<1>3. NumWorkers \in Nat /\ NumTasks \in Nat
  BY ConstantsOK DEF ConstantsOK
<1> QED
  BY <1>1, <1>2, <1>3 DEF Worker, Task

LEMMA Blank ==
  /\ NoWorker \in WorkerRecord /\ NoTask \in TaskRecord
  /\ RecordOK(NoWorker)
  /\ NoWorker.core = None /\ NoWorker.chat = None /\ NoWorker.current = None
  /\ NoWorker.state = "Absent" /\ NoWorker.inbox = {} /\ NoWorker.guard = None
  /\ NoTask.worker = None /\ NoTask.state = "Absent" /\ ~NoTask.collected
  /\ NoTask.outcome = "none"
BY DEF NoWorker, NoTask, WorkerRecord, TaskRecord, RecordOK, LaunchState

LEMMA PendingIsTask ==
  ASSUME NEW w \in Worker
  PROVE  /\ PendingTask(w) \in TaskRecord
         /\ PendingTask(w).worker = w /\ PendingTask(w).state = "Pending"
         /\ ~PendingTask(w).collected /\ PendingTask(w).outcome = "none"
BY DEF PendingTask, NoTask, TaskRecord, TaskState

\* Only the record of w changes, and neither its state nor its task.
LEMMA OneRecord ==
  ASSUME NEW ws, NEW ts, Life(ws, ts), NEW w \in Worker, NEW rec \in WorkerRecord,
         RecordOK(rec), rec.core = ws[w].core, rec.state = ws[w].state,
         rec.current = ws[w].current
  PROVE  Life([ws EXCEPT ![w] = rec], ts)
BY DEF Life, OnItsTask, HasItsWorker

\* The record of w and its current task change.
LEMMA RecordAndTask ==
  ASSUME NEW ws, NEW ts, Life(ws, ts), NEW w \in Worker, ws[w].current # None,
         NEW rec \in WorkerRecord, NEW task \in TaskRecord,
         RecordOK(rec), rec.core = ws[w].core, task.worker = w,
         \/ /\ rec.current = ws[w].current /\ task.state \in {"Pending", "Running"}
            /\ rec.state = "Running" <=> task.state = "Running"
         \/ rec.current = None /\ task.state \in {"Completed", "Failed"}
  PROVE  Life([ws EXCEPT ![w] = rec], [ts EXCEPT ![ws[w].current] = task])
<1> DEFINE t == ws[w].current
<1>1. t \in Task
  BY DEF Life, WorkerRecord
<1>2. \A v \in Worker : v # w => ws[v].current # t
  BY DEF Life, OnItsTask
<1>3. task # NoTask
  BY Blank
<1>4. ws[w].core # None
  BY Blank DEF Life, RecordOK
<1>5. None \notin Worker /\ None \notin Task
  BY NoneIsNobody
<1> DEFINE ws2 == [ws EXCEPT ![w] = rec]
           ts2 == [ts EXCEPT ![t] = task]
<1>6. ASSUME NEW v \in Worker PROVE RecordOK(ws2[v]) /\ OnItsTask(ws2, ts2, v)
  <2>1. CASE v = w
    <3>1. ws2[v] = rec /\ ts2[t] = task
      BY <1>1, <2>1 DEF Life
    <3> QED
      BY <3>1, <2>1, <1>5 DEF OnItsTask
  <2>2. CASE v # w
    <3>1. ws2[v] = ws[v]
      BY <2>2 DEF Life
    <3>2. ws[v].current # None => ts2[ws[v].current] = ts[ws[v].current]
      BY <1>2, <2>2 DEF Life, WorkerRecord
    <3> QED
      BY <3>1, <3>2 DEF Life, OnItsTask
  <2> QED
    BY <2>1, <2>2
<1>7. ASSUME NEW u \in Task PROVE HasItsWorker(ws2, ts2, u)
  <2>1. CASE u = t
    BY <1>1, <1>3, <1>4, <1>5, <2>1, Blank DEF Life, OnItsTask, HasItsWorker
  <2>2. CASE u # t
    BY <1>1, <1>5, <2>2 DEF Life, OnItsTask, HasItsWorker, TaskRecord
  <2> QED
    BY <2>1, <2>2
<1> QED
  BY <1>1, <1>6, <1>7 DEF Life

\* A worker that was on no task is given a new one.
LEMMA NewTask ==
  ASSUME NEW ws, NEW ts, Life(ws, ts), NEW w \in Worker, ws[w].current = None,
         NEW t \in Task, ts[t] = NoTask,
         NEW rec \in WorkerRecord, RecordOK(rec), rec.current = t,
         rec.core # None, rec.state # "Running"
  PROVE  Life([ws EXCEPT ![w] = rec], [ts EXCEPT ![t] = PendingTask(w)])
<1>1. None \notin Worker /\ None \notin Task
  BY NoneIsNobody
<1>2. \A v \in Worker : ws[v].current # t
  BY <1>1, Blank DEF Life, OnItsTask
<1>3. PendingTask(w) # NoTask
  BY PendingIsTask, Blank
<1> DEFINE ws2 == [ws EXCEPT ![w] = rec]
           ts2 == [ts EXCEPT ![t] = PendingTask(w)]
<1>4. ASSUME NEW v \in Worker PROVE RecordOK(ws2[v]) /\ OnItsTask(ws2, ts2, v)
  BY <1>2, PendingIsTask DEF Life, OnItsTask, WorkerRecord
<1>5. ASSUME NEW u \in Task PROVE HasItsWorker(ws2, ts2, u)
  <2>1. CASE u = t
    BY <1>1, <1>3, <2>1, PendingIsTask, Blank DEF Life, HasItsWorker
  <2>2. CASE u # t
    BY <1>1, <2>2 DEF Life, HasItsWorker, TaskRecord
  <2> QED
    BY <2>1, <2>2
<1> QED
  BY <1>4, <1>5, PendingIsTask DEF Life

\* A worker that was on no task leaves the pool.
LEMMA RecordAlone ==
  ASSUME NEW ws, NEW ts, Life(ws, ts), NEW w \in Worker, ws[w].current = None,
         NEW rec \in WorkerRecord, RecordOK(rec), rec.current = None,
         rec.core = ws[w].core
  PROVE  Life([ws EXCEPT ![w] = rec], ts)
<1>1. None \notin Worker /\ None \notin Task
  BY NoneIsNobody
<1> DEFINE ws2 == [ws EXCEPT ![w] = rec]
<1>2. ASSUME NEW v \in Worker PROVE RecordOK(ws2[v]) /\ OnItsTask(ws2, ts, v)
  BY DEF Life, OnItsTask
<1>3. ASSUME NEW u \in Task PROVE HasItsWorker(ws2, ts, u)
  BY <1>1 DEF Life, HasItsWorker, TaskRecord
<1> QED
  BY <1>2, <1>3 DEF Life

\* Tasks nobody is on may go.
LEMMA TasksGo ==
  ASSUME NEW ws, NEW ts, Life(ws, ts), NEW ts2 \in [Task -> TaskRecord],
         \A t \in Task : \/ ts2[t] = ts[t]
                         \/ ts2[t] = NoTask /\ \A w \in Worker : ws[w].current # t
  PROVE  Life(ws, ts2)
<1>1. None \notin Worker /\ None \notin Task
  BY NoneIsNobody
<1>2. ASSUME NEW v \in Worker PROVE RecordOK(ws[v]) /\ OnItsTask(ws, ts2, v)
  BY <1>1 DEF Life, OnItsTask, WorkerRecord
<1>3. ASSUME NEW u \in Task PROVE HasItsWorker(ws, ts2, u)
  BY Blank, <1>1 DEF Life, HasItsWorker
<1> QED
  BY <1>2, <1>3 DEF Life

\* What compact_family_history drops was delivered, and nobody is on it.
LEMMA Trim ==
  ASSUME NEW ws, NEW ts, Life(ws, ts), NEW c \in Core
  PROVE  /\ Life(ws, TrimmedTasks(ws, ts, c))
         /\ \A t \in Task :
              \/ TrimmedTasks(ws, ts, c)[t] = ts[t]
              \/ /\ TrimmedTasks(ws, ts, c)[t] = NoTask
                 /\ ts[t].collected
                 /\ ts[t].worker \in WorkersOf(ws, c)
<1>1. ASSUME NEW t \in Task, TrimmedTasks(ws, ts, c)[t] # ts[t]
      PROVE  /\ TrimmedTasks(ws, ts, c)[t] = NoTask
             /\ \E w \in WorkersOf(ws, c) : t \in Trimmable(ws, ts, w)
  BY <1>1 DEF TrimmedTasks
<1>2. ASSUME NEW t \in Task, NEW w \in Worker, t \in Trimmable(ws, ts, w)
      PROVE  /\ ts[t].collected /\ ts[t].worker = w
             /\ \A v \in Worker : ws[v].current # t
  <2>1. ts[t].collected /\ ts[t].worker = w /\ t # ws[w].current
    BY <1>2 DEF Trimmable, TasksOf
  <2>2. t # None
    BY NoneIsNobody
  <2> QED
    BY <2>1, <2>2 DEF Life, OnItsTask
<1>3. TrimmedTasks(ws, ts, c) \in [Task -> TaskRecord]
  BY Blank DEF TrimmedTasks, Life
<1>4. \A t \in Task :
        \/ TrimmedTasks(ws, ts, c)[t] = ts[t]
        \/ /\ TrimmedTasks(ws, ts, c)[t] = NoTask
           /\ ts[t].collected
           /\ ts[t].worker \in WorkersOf(ws, c)
           /\ \A v \in Worker : ws[v].current # t
  BY <1>1, <1>2 DEF WorkersOf
<1> QED
  BY <1>3, <1>4, TasksGo

\* A settled task may be marked as told.
LEMMA TellTask ==
  ASSUME NEW ws, NEW ts, Life(ws, ts), NEW ts2 \in [Task -> TaskRecord],
         \A t \in Task : /\ ts2[t].worker = ts[t].worker
                         /\ ts2[t].state = ts[t].state
                         /\ ts[t] = NoTask => ts2[t] = NoTask
  PROVE  Life(ws, ts2)
<1>1. None \notin Worker /\ None \notin Task
  BY NoneIsNobody
<1>2. \A t \in Task : /\ ts2[t].worker = ts[t].worker /\ ts2[t].state = ts[t].state
                      /\ ts2[t] = NoTask <=> ts[t] = NoTask
  BY Blank DEF Life, HasItsWorker
<1>3. ASSUME NEW v \in Worker PROVE RecordOK(ws[v]) /\ OnItsTask(ws, ts2, v)
  BY <1>1, <1>2 DEF Life, OnItsTask, WorkerRecord
<1>4. ASSUME NEW u \in Task PROVE HasItsWorker(ws, ts2, u)
  BY <1>1, <1>2 DEF Life, HasItsWorker
<1> QED
  BY <1>3, <1>4 DEF Life

\* Whole families may go, with their tasks.
LEMMA FamiliesGo ==
  ASSUME Life(workers, tasks), NEW C
  PROVE  /\ Life(WorkersWithout(C), TasksWithout(C))
         /\ \A w \in Worker :
              WorkersWithout(C)[w] = IF workers[w].core \in C THEN NoWorker ELSE workers[w]
         /\ \A t \in Task :
              /\ TasksWithout(C)[t] = tasks[t] \/ TasksWithout(C)[t] = NoTask
              /\ tasks[t].worker # None =>
                   TasksWithout(C)[t] = IF workers[tasks[t].worker].core \in C
                                        THEN NoTask ELSE tasks[t]
<1> DEFINE ws2 == WorkersWithout(C)
           ts2 == TasksWithout(C)
<1>1. None \notin Worker /\ None \notin Task
  BY NoneIsNobody
<1>2. /\ ws2 \in [Worker -> WorkerRecord]
      /\ \A w \in Worker : ws2[w] = IF workers[w].core \in C THEN NoWorker ELSE workers[w]
  BY Blank DEF Life, WorkersWithout
<1>3. /\ ts2 \in [Task -> TaskRecord]
      /\ \A t \in Task : ts2[t] = tasks[t] \/ ts2[t] = NoTask
      /\ \A t \in Task : ts2[t] = NoTask \/ tasks[t].worker \notin Worker
                                         \/ workers[tasks[t].worker].core \notin C
      /\ \A t \in Task : ts2[t] = tasks[t] \/ \E w \in Worker : workers[w].core \in C /\ tasks[t].worker = w
  BY Blank DEF Life, TasksWithout
<1>4. \A t \in Task : tasks[t].worker \in Worker \cup {None}
  BY DEF Life, TaskRecord
<1>5. \A t \in Task : tasks[t].worker # None =>
        ts2[t] = IF workers[tasks[t].worker].core \in C THEN NoTask ELSE tasks[t]
  BY <1>3, <1>4
<1>6. ASSUME NEW v \in Worker PROVE RecordOK(ws2[v]) /\ OnItsTask(ws2, ts2, v)
  <2>1. CASE workers[v].core \in C
    BY <1>2, <2>1, Blank DEF OnItsTask
  <2>2. CASE workers[v].core \notin C
    <3>1. workers[v].current # None => workers[v].current \in Task
      BY DEF Life, WorkerRecord
    <3> QED
      BY <1>1, <1>2, <1>5, <2>2, <3>1 DEF Life, OnItsTask
  <2> QED
    BY <2>1, <2>2
<1>7. ASSUME NEW u \in Task PROVE HasItsWorker(ws2, ts2, u)
  <2>1. CASE ts2[u] = NoTask
    BY <2>1, Blank DEF HasItsWorker
  <2>2. CASE ts2[u] # NoTask
    <3>1. ts2[u] = tasks[u] /\ HasItsWorker(workers, tasks, u)
      BY <1>3, <2>2 DEF Life
    <3>2. tasks[u].worker \in Worker /\ workers[tasks[u].worker].core \notin C
      BY <1>3, <1>4, <2>2, <3>1 DEF HasItsWorker
    <3> QED
      BY <1>2, <3>1, <3>2 DEF HasItsWorker
  <2> QED
    BY <2>1, <2>2
<1> QED
  BY <1>2, <1>3, <1>5, <1>6, <1>7 DEF Life

\* A worker on its first task goes with it.
LEMMA SpawnForgotten ==
  ASSUME NEW ws, NEW ts, Life(ws, ts), NEW w \in Worker,
         \A t \in Task : ts[t].worker = w => t = ws[w].current
  PROVE  Life([ws EXCEPT ![w] = NoWorker],
              [t \in Task |-> IF ts[t].worker = w THEN NoTask ELSE ts[t]])
<1> DEFINE ws2 == [ws EXCEPT ![w] = NoWorker]
           ts2 == [t \in Task |-> IF ts[t].worker = w THEN NoTask ELSE ts[t]]
<1>1. None \notin Worker /\ None \notin Task
  BY NoneIsNobody
<1>2. ws2 \in [Worker -> WorkerRecord] /\ ts2 \in [Task -> TaskRecord]
  BY Blank DEF Life
<1>3. ASSUME NEW v \in Worker PROVE RecordOK(ws2[v]) /\ OnItsTask(ws2, ts2, v)
  BY <1>1, Blank DEF Life, OnItsTask, WorkerRecord
<1>4. ASSUME NEW u \in Task PROVE HasItsWorker(ws2, ts2, u)
  BY <1>1, Blank DEF Life, HasItsWorker, TaskRecord
<1> QED
  BY <1>2, <1>3, <1>4 DEF Life

\* A worker goes back to idle and the task it was to start goes.
LEMMA ReuseForgotten ==
  ASSUME NEW ws, NEW ts, Life(ws, ts), NEW w \in Worker, ws[w].current # None,
         NEW rec \in WorkerRecord, RecordOK(rec), rec.core = ws[w].core,
         rec.current = None
  PROVE  Life([ws EXCEPT ![w] = rec], [ts EXCEPT ![ws[w].current] = NoTask])
<1> DEFINE u == ws[w].current
           ws2 == [ws EXCEPT ![w] = rec]
           ts2 == [ts EXCEPT ![u] = NoTask]
<1>1. None \notin Worker /\ None \notin Task
  BY NoneIsNobody
<1>2. u \in Task /\ \A v \in Worker : v # w => ws[v].current # u
  BY DEF Life, WorkerRecord, OnItsTask
<1>3. ws2 \in [Worker -> WorkerRecord] /\ ts2 \in [Task -> TaskRecord]
  BY Blank DEF Life
<1>4. ASSUME NEW v \in Worker PROVE RecordOK(ws2[v]) /\ OnItsTask(ws2, ts2, v)
  <2>1. CASE v = w
    BY <2>1, <1>1 DEF Life, OnItsTask
  <2>2. CASE v # w
    <3>1. ws2[v] = ws[v]
      BY <2>2 DEF Life
    <3>2. ws[v].current # None => ts2[ws[v].current] = ts[ws[v].current]
      BY <1>2, <2>2 DEF Life, WorkerRecord
    <3> QED
      BY <3>1, <3>2 DEF Life, OnItsTask
  <2> QED
    BY <2>1, <2>2
<1>5. ASSUME NEW v \in Task PROVE HasItsWorker(ws2, ts2, v)
  <2>1. CASE v = u
    BY <1>2, <2>1, Blank DEF Life, HasItsWorker
  <2>2. CASE v # u
    BY <1>1, <1>2, <2>2 DEF Life, HasItsWorker, TaskRecord
  <2> QED
    BY <2>1, <2>2
<1> QED
  BY <1>3, <1>4, <1>5 DEF Life

-----------------------------------------------------------------------------
(* Compaction.                                                             *)

LEMMA FewerTasks ==
  ASSUME NEW ts, NEW ts2, NEW w, \A t \in Task : ts2[t].worker = w => ts[t].worker = w
  PROVE  Cardinality(TasksOf(ts2, w)) <= Cardinality(TasksOf(ts, w))
<1>1. IsFiniteSet(Task)
  BY ConstantsOK, FS_Interval DEF ConstantsOK, Task
<1>2. TasksOf(ts, w) \subseteq Task /\ TasksOf(ts2, w) \subseteq TasksOf(ts, w)
  BY DEF TasksOf
<1> QED
  BY <1>1, <1>2, FS_Subset

\* Only receipts of family c go, and none whose task is still there.
LEMMA ReceiptsCompacted ==
  ASSUME NEW c \in Core, NEW ws, NEW ts, NEW rp, NEW rs, rs \subseteq Receipt,
         Compacted(c, ws, ts, rp, rs)
  PROVE  /\ receipts' \subseteq rs
         /\ \A r \in rs : r.core # c => r \in receipts'
         /\ \A r \in Created(rs) :
              r.id \in FamilyTasks(ws, TrimmedTasks(ws, ts, c), c) => r \in receipts'
         /\ \A k \in Kind : Cardinality(KindOf(receipts', k, c)) <= ReceiptLimit(k)
<1> DEFINE kept == TrimmedTasks(ws, ts, c)
           Mine(k) == {r \in rs : r.kind = k /\ r.core = c}
           PrunedKind(k) == Pruned(Mine(k), Protected(k, ws, kept, rp, c), ReceiptLimit(k))
<1>1. /\ receipts' = {r \in rs : r.core # c} \cup UNION {PrunedKind(k) : k \in Kind}
      /\ \A k \in Kind : Cardinality(PrunedKind(k)) <= ReceiptLimit(k)
  BY DEF Compacted
<1>2. ASSUME NEW k \in Kind
      PROVE  /\ PrunedKind(k) \subseteq Mine(k)
             /\ \A r \in Mine(k) : r.id \in Protected(k, ws, kept, rp, c) => r \in PrunedKind(k)
  BY DEF Pruned, Oldest
<1>3. ASSUME NEW k \in Kind PROVE KindOf(receipts', k, c) = PrunedKind(k)
  <2> HIDE DEF PrunedKind
  <2>1. \A r \in PrunedKind(k) : r \in receipts' /\ r.kind = k /\ r.core = c
    BY <1>1, <1>2
  <2>2. \A r \in receipts' : r.kind = k /\ r.core = c => r \in PrunedKind(k)
    BY <1>1, <1>2
  <2> QED
    BY <2>1, <2>2 DEF KindOf
<1>4. \A r \in Created(rs) : r.id \in FamilyTasks(ws, kept, c) => r \in receipts'
  <2> SUFFICES ASSUME NEW r \in Created(rs), r.id \in FamilyTasks(ws, kept, c), r.core = c
               PROVE  r \in receipts'
    BY <1>1 DEF Created
  <2>1. r.kind \in {"spawn", "reuse"} /\ r.kind \in Kind /\ r \in Mine(r.kind)
    BY DEF Created, Kind
  <2>2. r.id \in Protected(r.kind, ws, kept, rp, c)
    BY <2>1 DEF Protected
  <2> HIDE DEF PrunedKind, Mine
  <2> QED
    BY <1>1, <1>2, <2>1, <2>2
<1>5. receipts' \subseteq rs
  <2> HIDE DEF PrunedKind
  <2> QED
    BY <1>1, <1>2
<1> QED
  BY <1>1, <1>3, <1>4, <1>5

LEMMA LimitsCompacted ==
  ASSUME NEW c \in Core, NEW ws, NEW ts, NEW rp, NEW rs, NEW fs,
         Life(ws, ts), rs \subseteq Receipt, StoreFits(fs, ws, rp, rs),
         \A d \in Core \ {c} : FamilyFits(ws, ts, rs, d),
         Compacted(c, ws, ts, rp, rs)
  PROVE  WithinLimits(fs, workers', tasks', reports', receipts')
<1> DEFINE kept == TrimmedTasks(ws, ts, c)
<1>1. /\ workers' = ws /\ tasks' = kept /\ reports' = rp
      /\ \A w \in WorkersOf(ws, c) : Cardinality(TasksOf(kept, w)) <= MaxTasks
  BY DEF Compacted
<1>2. /\ receipts' \subseteq rs
      /\ \A k \in Kind : Cardinality(KindOf(receipts', k, c)) <= ReceiptLimit(k)
  BY ReceiptsCompacted
<1>3. IsFiniteSet(receipts')
  BY <1>2, FS_Subset DEF StoreFits
<1>4. StoreFits(fs, workers', reports', receipts')
  BY <1>1, <1>3 DEF StoreFits
<1>5. FamilyFits(workers', tasks', receipts', c)
  BY <1>1, <1>2 DEF FamilyFits
<1>6. ASSUME NEW d \in Core \ {c} PROVE FamilyFits(workers', tasks', receipts', d)
  <2>1. ASSUME NEW w \in WorkersOf(ws, d) PROVE Cardinality(TasksOf(kept, w)) <= MaxTasks
    <3>1. \A t \in Task : kept[t].worker = w => ts[t].worker = w
      BY Trim, Blank, NoneIsNobody DEF WorkersOf
    <3>2. Cardinality(TasksOf(kept, w)) <= Cardinality(TasksOf(ts, w))
      BY <3>1, FewerTasks
    <3>3. Cardinality(TasksOf(ts, w)) <= MaxTasks
      BY DEF FamilyFits
    <3>4. IsFiniteSet(TasksOf(ts, w)) /\ IsFiniteSet(TasksOf(kept, w))
      <4>1. TasksOf(ts, w) \subseteq Task /\ TasksOf(kept, w) \subseteq Task
        BY DEF TasksOf
      <4>2. IsFiniteSet(Task)
        BY ConstantsOK, FS_Interval DEF ConstantsOK, Task
      <4> QED
        BY <4>1, <4>2, FS_Subset
    <3>5. Cardinality(TasksOf(ts, w)) \in Nat /\ Cardinality(TasksOf(kept, w)) \in Nat
      BY <3>4, FS_CardinalityType
    <3>6. MaxTasks \in Nat
      BY ConstantsOK DEF ConstantsOK
    <3> QED
      BY <3>2, <3>3, <3>5, <3>6
  <2>2. ASSUME NEW k \in Kind PROVE Cardinality(KindOf(receipts', k, d)) <= ReceiptLimit(k)
    <3>1. KindOf(receipts', k, d) = KindOf(rs, k, d)
      BY ReceiptsCompacted DEF KindOf
    <3> QED
      BY <3>1 DEF FamilyFits
  <2> QED
    BY <1>1, <2>1, <2>2 DEF FamilyFits, WorkersOf
<1> QED
  BY <1>4, <1>5, <1>6 DEF WithinLimits

\* Compaction keeps what the candidate it is run on has.
LEMMA Compaction ==
  ASSUME NEW c \in Core, NEW ws, NEW ts, NEW rp, NEW rs, NEW bs,
         Life(ws, ts), Receipts(ws, ts, rs, bs),
         Compacted(c, ws, ts, rp, rs)
  PROVE  /\ workers' = ws
         /\ Life(workers', tasks')
         /\ \A t \in Task : tasks'[t] = ts[t] \/ (tasks'[t] = NoTask /\ ts[t].collected)
         /\ Receipts(workers', tasks', receipts', bs)
<1> DEFINE kept == TrimmedTasks(ws, ts, c)
<1>1. workers' = ws /\ tasks' = kept
  BY DEF Compacted
<1>2. /\ receipts' \subseteq rs
      /\ \A r \in rs : r.core # c => r \in receipts'
      /\ \A r \in Created(rs) : r.id \in FamilyTasks(ws, kept, c) => r \in receipts'
  BY ReceiptsCompacted DEF Receipts
<1>3. Created(receipts') \subseteq Created(rs)
  BY <1>2 DEF Created
<1>4. /\ Life(ws, kept)
      /\ \A t \in Task : kept[t] = ts[t] \/ (kept[t] = NoTask /\ ts[t].collected)
  BY Trim
<1>5. Receipted(ws, kept, receipts')
  <2> SUFFICES ASSUME NEW t \in Task, kept[t].state # "Absent"
               PROVE  \E r \in Created(receipts') : r.id = t /\ r.core = ws[kept[t].worker].core
    BY DEF Receipted
  <2>1. kept[t] = ts[t] /\ kept[t] # NoTask
    BY <1>4, Blank
  <2>2. PICK r \in Created(rs) : r.id = t /\ r.core = ws[kept[t].worker].core
    BY <2>1 DEF Receipts, Receipted
  <2>3. kept[t].worker \in Worker
    BY <1>4, <2>1 DEF Life, TaskRecord, HasItsWorker
  <2>4. ASSUME r.core = c PROVE t \in FamilyTasks(ws, kept, c)
    <3>1. kept[t].worker \in WorkersOf(ws, c) /\ t \in TasksOf(kept, kept[t].worker)
      BY <2>2, <2>3, <2>4 DEF WorkersOf, TasksOf
    <3> HIDE DEF kept
    <3> QED
      BY <3>1 DEF FamilyTasks
  <2>5. r \in Created(receipts')
    BY <1>2, <2>2, <2>4 DEF Created
  <2> QED
    BY <2>2, <2>5
<1>6. OneReceipt(receipts')
  BY <1>3 DEF Receipts, OneReceipt
<1>7. NotForgotten(kept, receipts', bs)
  BY <1>3, <1>4 DEF Receipts, NotForgotten, CollectedIsDelivered
<1>8. CollectedIsDelivered(kept, bs)
  BY <1>4, Blank DEF Receipts, CollectedIsDelivered
<1>9. CameFrom(ws, kept, receipts')
  <2>1. \A w \in Worker, t \in Task : kept[t].worker = w => ts[t].worker = w
    BY <1>4, Blank, NoneIsNobody
  <2> QED
    BY <1>3, <2>1 DEF Receipts, CameFrom
<1> QED
  BY <1>1, <1>2, <1>4, <1>5, <1>6, <1>7, <1>8, <1>9 DEF Receipts

-----------------------------------------------------------------------------
(* What most operations leave alone.                                       *)

LEMMA StillFresh ==
  ASSUME NEW ws, NEW ts, NEW m, Fresh(ws, ts, m), NEW ws2, NEW ts2, NEW m2 \in Counters,
         m2.worker = m.worker, m2.task = m.task,
         \A w \in Worker : ws[w] = NoWorker => ws2[w] = NoWorker,
         \A t \in Task : ts[t] = NoTask => ts2[t] = NoTask
  PROVE  Fresh(ws2, ts2, m2)
BY DEF Fresh, Counters

LEMMA StillBound ==
  ASSUME NEW ws, Binding(ws), NEW ws2,
         \A w \in Worker : \/ ws2[w].chat = None
                           \/ ws2[w].chat = ws[w].chat /\ ws2[w].core = ws[w].core
  PROVE  Binding(ws2)
<1> SUFFICES ASSUME NEW v \in Worker, NEW w \in Worker, ws2[v].chat # None
             PROVE  /\ ws2[v].chat # ws2[v].core
                    /\ v # w => ws2[w].chat # ws2[v].chat
                    /\ ws2[w].chat # None /\ ws2[w].core = ws2[v].core =>
                         Cardinality({SubjectOf[ws2[v].chat], SubjectOf[ws2[w].chat]} \ {None}) <= 1
  BY DEF Binding
<1>1. ws2[v].chat = ws[v].chat /\ ws2[v].core = ws[v].core
  OBVIOUS
<1>2. CASE ws2[w].chat = None
  BY <1>1, <1>2 DEF Binding
<1>3. CASE ws2[w].chat = ws[w].chat /\ ws2[w].core = ws[w].core
  BY <1>1, <1>3 DEF Binding
<1> QED
  BY <1>2, <1>3

LEMMA ReceiptsStay ==
  ASSUME NEW ws, NEW ts, NEW rs, NEW bs, Receipts(ws, ts, rs, bs), Life(ws, ts),
         NEW ws2, NEW ts2,
         \A t \in Task : /\ ts2[t].worker = ts[t].worker
                         /\ ts2[t].collected = ts[t].collected
                         /\ ts2[t].state = "Absent" <=> ts[t].state = "Absent",
         \A w \in Worker : /\ ws2[w].core = ws[w].core
                           /\ ws2[w].state \in {"Provisioning", "Waking"} =>
                                ws2[w].state = ws[w].state /\ ws2[w].current = ws[w].current
  PROVE  Receipts(ws2, ts2, rs, bs)
<1>1. \A t \in Task : ts[t].state # "Absent" => ts[t].worker \in Worker
  BY DEF Life, TaskRecord, HasItsWorker
<1>2. Receipted(ws2, ts2, rs)
  BY <1>1 DEF Receipts, Receipted
<1>3. NotForgotten(ts2, rs, bs)
  BY DEF Receipts, NotForgotten
<1>4. CollectedIsDelivered(ts2, bs)
  BY DEF Receipts, CollectedIsDelivered
<1>5. CameFrom(ws2, ts2, rs)
  BY DEF Receipts, CameFrom
<1> QED
  BY <1>2, <1>3, <1>4, <1>5 DEF Receipts

LEMMA LimitsStay ==
  ASSUME NEW fs, NEW ws, NEW ts, NEW rp, NEW rs, WithinLimits(fs, ws, ts, rp, rs),
         NEW ws2, NEW ts2,
         \A t \in Task : ts2[t].worker = ts[t].worker,
         \A w \in Worker : /\ ws2[w].core = ws[w].core
                           /\ Cardinality(ws2[w].inbox) <= MaxInbox
                           /\ ws2[w].state = "Provisioning" => ws[w].state = "Provisioning"
  PROVE  WithinLimits(fs, ws2, ts2, rp, rs)
<1>1. \A w : TasksOf(ts2, w) = TasksOf(ts, w)
  BY DEF TasksOf
<1>2. \A c : WorkersOf(ws2, c) = WorkersOf(ws, c)
  BY DEF WorkersOf
<1>3. StoreFits(fs, ws2, rp, rs)
  BY DEF WithinLimits, StoreFits, ReportRecord
<1> QED
  BY <1>1, <1>2, <1>3 DEF WithinLimits, FamilyFits

\* Nothing is created and no receipt, report or batch changes.
LEMMA StoreStays ==
  ASSUME StoreInv, Life(workers', tasks'), Binding(workers'),
         made' \in Counters, made'.worker = made.worker, made'.task = made.task,
         fences' \subseteq Session, DOMAIN plan' = Core,
         UNCHANGED <<families, reports, receipts, batches>>,
         \A t \in Task : /\ tasks'[t].worker = tasks[t].worker
                         /\ tasks'[t].collected = tasks[t].collected
                         /\ tasks'[t].state = "Absent" <=> tasks[t].state = "Absent",
         \A w \in Worker : /\ workers'[w].core = workers[w].core
                           /\ workers'[w].inbox \subseteq workers[w].inbox
                           /\ workers'[w].state \in {"Provisioning", "Waking"} =>
                                /\ workers'[w].state = workers[w].state
                                /\ workers'[w].current = workers[w].current
  PROVE  StoreInv'
<1>1. Receipts(workers', tasks', receipts', batches')
  BY ReceiptsStay DEF StoreInv
<1>2. WithinLimits(families', workers', tasks', reports', receipts')
  <2>1. ASSUME NEW w \in Worker PROVE Cardinality(workers'[w].inbox) <= MaxInbox
    <3>1. workers[w].inbox \subseteq Message
      BY DEF StoreInv, Life, WorkerRecord
    <3>2. IsFiniteSet(workers[w].inbox)
      <4>1. IsFiniteSet(Message)
        <5>1. NumMessages \in Nat
          BY ConstantsOK DEF ConstantsOK
        <5> QED
          BY <5>1, FS_Interval DEF Message
      <4> QED
        BY <3>1, <4>1, FS_Subset
    <3>3. /\ Cardinality(workers'[w].inbox) <= Cardinality(workers[w].inbox)
          /\ Cardinality(workers'[w].inbox) \in Nat /\ Cardinality(workers[w].inbox) \in Nat
      BY <3>2, FS_Subset, FS_CardinalityType
    <3>4. Cardinality(workers[w].inbox) <= MaxInbox /\ MaxInbox \in Nat
      BY ConstantsOK DEF StoreInv, WithinLimits, StoreFits, ConstantsOK
    <3> QED
      BY <3>3, <3>4
  <2> QED
    BY <2>1, LimitsStay DEF StoreInv
<1>3. \A w \in Worker : workers[w] = NoWorker => workers'[w] = NoWorker
  BY DEF StoreInv, Life, RecordOK
<1>4. \A t \in Task : tasks[t] = NoTask => tasks'[t] = NoTask
  BY DEF StoreInv, Life, HasItsWorker
<1>5. Fresh(workers', tasks', made')
  BY <1>3, <1>4, StillFresh DEF StoreInv
<1>6. HandedOut(batches', made')
  BY DEF StoreInv, HandedOut
<1> QED
  BY <1>1, <1>2, <1>5, <1>6 DEF StoreInv

LEMMA BindingMoves ==
  ASSUME StoreInv, NEW w \in Worker, NEW rec, rec.chat = workers[w].chat,
         rec.core = workers[w].core
  PROVE  Binding([workers EXCEPT ![w] = rec])
<1> DEFINE ws2 == [workers EXCEPT ![w] = rec]
<1>1. \A v \in Worker : ws2[v].chat = workers[v].chat /\ ws2[v].core = workers[v].core
  BY DEF StoreInv, Life
<1>2. Binding(workers)
  BY DEF StoreInv
<1> HIDE DEF ws2
<1>3. Binding(ws2)
  BY <1>1, <1>2, StillBound
<1> QED
  BY <1>3 DEF ws2

\* One record changes, and if it is on a task it stays on it.
LEMMA WorkerMoves ==
  ASSUME StoreInv, NEW w \in Worker, NEW rec \in WorkerRecord, RecordOK(rec),
         workers' = [workers EXCEPT ![w] = rec],
         rec.core = workers[w].core, rec.inbox \subseteq workers[w].inbox,
         rec.chat = workers[w].chat,
         \/ rec.state = workers[w].state /\ rec.current = workers[w].current
         \/ rec.current = None /\ workers[w].current = None,
         made' \in Counters, made'.worker = made.worker, made'.task = made.task,
         UNCHANGED <<families, tasks, reports, receipts, fences, plan, batches>>
  PROVE  StoreInv'
<1>1. Life(workers', tasks')
  <2>1. CASE rec.state = workers[w].state /\ rec.current = workers[w].current
    BY <2>1, OneRecord DEF StoreInv
  <2>2. CASE rec.current = None /\ workers[w].current = None
    BY <2>2, RecordAlone DEF StoreInv
  <2> QED
    BY <2>1, <2>2
<1>2. \A v \in Worker : workers'[v] = IF v = w THEN rec ELSE workers[v]
  BY DEF StoreInv, Life
<1>3. Binding(workers')
  BY BindingMoves
<1>4. rec.state \in {"Provisioning", "Waking"} =>
        rec.state = workers[w].state /\ rec.current = workers[w].current
  BY DEF RecordOK
<1>5. fences' \subseteq Session /\ DOMAIN plan' = Core
  BY DEF StoreInv
<1> QED
  BY <1>1, <1>2, <1>3, <1>4, <1>5, StoreStays

\* One record and the task it is on change.
LEMMA WorkerAndTaskMove ==
  ASSUME StoreInv, NEW w \in Worker, workers[w].current # None,
         NEW rec \in WorkerRecord, NEW task \in TaskRecord, RecordOK(rec),
         SetWorkerAndTask(w, rec, task),
         rec.core = workers[w].core, rec.inbox \subseteq workers[w].inbox,
         Binding([workers EXCEPT ![w] = rec]),
         task.worker = w, task.collected = tasks[workers[w].current].collected,
         \/ /\ rec.current = workers[w].current /\ task.state \in {"Pending", "Running"}
            /\ rec.state = "Running" <=> task.state = "Running"
            /\ rec.state \in {"Provisioning", "Waking"} => rec.state = workers[w].state
         \/ rec.current = None /\ task.state \in {"Completed", "Failed"}
  PROVE  StoreInv'
<1>1. /\ workers' = [workers EXCEPT ![w] = rec]
      /\ tasks' = [tasks EXCEPT ![workers[w].current] = task]
      /\ UNCHANGED <<families, reports, receipts, fences, plan, made, batches>>
  BY DEF SetWorkerAndTask
<1>2. Life(workers', tasks')
  BY <1>1, RecordAndTask DEF StoreInv
<1>3. /\ workers[w].current \in Task /\ tasks[workers[w].current].worker = w
      /\ tasks[workers[w].current].state # "Absent" /\ task.state # "Absent"
  BY DEF StoreInv, Life, WorkerRecord, OnItsTask
<1>4. \A t \in Task : tasks'[t] = IF t = workers[w].current THEN task ELSE tasks[t]
  BY <1>1, <1>3 DEF StoreInv, Life
<1>5. \A v \in Worker : workers'[v] = IF v = w THEN rec ELSE workers[v]
  BY <1>1 DEF StoreInv, Life
<1>6. rec.state \in {"Provisioning", "Waking"} =>
        rec.state = workers[w].state /\ rec.current = workers[w].current
  BY DEF RecordOK
<1>7. /\ made' \in Counters /\ made'.worker = made.worker /\ made'.task = made.task
      /\ fences' \subseteq Session /\ DOMAIN plan' = Core
  BY <1>1 DEF StoreInv, Fresh
<1>8. \A t \in Task : /\ tasks'[t].worker = tasks[t].worker
                      /\ tasks'[t].collected = tasks[t].collected
                      /\ tasks'[t].state = "Absent" <=> tasks[t].state = "Absent"
  BY <1>3, <1>4
<1> QED
  BY <1>1, <1>2, <1>5, <1>6, <1>7, <1>8, StoreStays

-----------------------------------------------------------------------------
(* The launch of a worker, and its conversation's work.                    *)

USE DEF SetWorker

\* What a step on worker w knows of it.
LEMMA KnownWorker ==
  ASSUME StoreInv, NEW w \in Worker
  PROVE  /\ workers[w] \in WorkerRecord /\ RecordOK(workers[w])
         /\ OnItsTask(workers, tasks, w)
         /\ workers[w].current # None =>
              /\ tasks[workers[w].current] \in TaskRecord
              /\ tasks[workers[w].current].worker = w
         /\ made \in Counters
         /\ NoWorker.state = "Absent"
BY Blank DEF StoreInv, Life, Fresh, OnItsTask, WorkerRecord

\* A change of what the invariant does not speak of.
LEMMA StillRecordOK ==
  ASSUME NEW old, RecordOK(old), old.state # "Absent", NEW rec,
         rec.core = old.core, rec.chat = old.chat, rec.state = old.state,
         rec.current = old.current, rec.guard = old.guard, rec.token = old.token
  PROVE  RecordOK(rec)
BY Blank DEF RecordOK

LEMMA LinkKeeps ==
  ASSUME StoreInv, NEW w \in Worker, NEW m \in Command, LinkLaunchCommand(w, m)
  PROVE  StoreInv'
<1> DEFINE url == workers[w].url /\ workers[w].state # "Provisioning"
           rec == [workers[w] EXCEPT !.command = m, !.launch = "Queued", !.url = url]
<1>1. workers[w] \in WorkerRecord /\ RecordOK(workers[w]) /\ made \in Counters
  BY KnownWorker
<1>2. url \in BOOLEAN
  BY <1>1 DEF WorkerRecord
<1>3. workers' = [workers EXCEPT ![w] = rec]
  BY DEF LinkLaunchCommand
<1> HIDE DEF url
<1>4. rec \in WorkerRecord
  BY <1>1, <1>2 DEF WorkerRecord, LaunchState
<1>5. /\ rec.core = workers[w].core /\ rec.inbox = workers[w].inbox
      /\ rec.chat = workers[w].chat /\ rec.state = workers[w].state
      /\ rec.current = workers[w].current /\ rec.guard = workers[w].guard
      /\ rec.token = workers[w].token /\ rec.launch = "Queued"
  BY <1>1 DEF WorkerRecord
<1>6. workers[w].state # "Absent"
  BY <1>1, Blank DEF RecordOK, LinkLaunchCommand
<1> HIDE DEF rec
<1>7. RecordOK(rec)
  BY <1>1, <1>5, <1>6, StillRecordOK
<1> QED
  BY <1>1, <1>3, <1>4, <1>5, <1>7, WorkerMoves DEF LinkLaunchCommand

LEMMA MirrorKeeps ==
  ASSUME StoreInv, NEW w \in Worker, NEW m \in Mirrored,
         UpdateLaunchByCommand(w, m[1], m[2])
  PROVE  StoreInv'
<1> DEFINE url == workers[w].url \/ m[2]
           wait == CASE m[1] = "WaitingClaim" /\ workers[w].chat = None ->
                          IF workers[w].wait = "No" THEN "Waiting" ELSE workers[w].wait
                     [] m[1] \in {"Paused", "Failed"} -> "No"
                     [] OTHER -> workers[w].wait
           rec == [workers[w] EXCEPT !.launch = m[1], !.url = url, !.wait = wait]
<1>1. workers[w] \in WorkerRecord /\ RecordOK(workers[w]) /\ made \in Counters
  BY KnownWorker
<1>2. m[1] \in LaunchState /\ m[2] \in BOOLEAN
  <2>1. m \in Mirrorable
    BY ConstantsOK DEF ConstantsOK
  <2>2. CASE m \in {"Queued", "Preparing", "SendStarted", "Reconciling"} \X {FALSE}
    BY <2>2 DEF LaunchState
  <2>3. CASE m \in {"Paused", "Failed"} \X BOOLEAN
    BY <2>3 DEF LaunchState
  <2>4. CASE m = <<"WaitingClaim", TRUE>>
    BY <2>4 DEF LaunchState
  <2> QED
    BY <2>1, <2>2, <2>3, <2>4 DEF Mirrorable
<1>3. url \in BOOLEAN /\ wait \in {"No", "Waiting", "Overdue"}
  BY <1>1, <1>2 DEF WorkerRecord
<1>4. workers' = [workers EXCEPT ![w] = rec]
  BY DEF UpdateLaunchByCommand
<1> HIDE DEF url, wait
<1>5. rec \in WorkerRecord
  BY <1>1, <1>2, <1>3 DEF WorkerRecord
<1>6. /\ rec.core = workers[w].core /\ rec.inbox = workers[w].inbox
      /\ rec.chat = workers[w].chat /\ rec.state = workers[w].state
      /\ rec.current = workers[w].current /\ rec.guard = workers[w].guard
      /\ rec.token = workers[w].token
  BY <1>1 DEF WorkerRecord
<1>7. workers[w].state # "Absent"
  <2>1. workers[w].command # None
    BY DEF UpdateLaunchByCommand
  <2> QED
    BY <1>1, <2>1 DEF RecordOK, NoWorker
<1> HIDE DEF rec
<1>8. RecordOK(rec)
  BY <1>1, <1>6, <1>7, StillRecordOK
<1> QED
  BY <1>1, <1>4, <1>5, <1>6, <1>8, WorkerMoves DEF UpdateLaunchByCommand

LEMMA GraceKeeps ==
  ASSUME StoreInv, NEW w \in Worker, GraceEnds(w)
  PROVE  StoreInv'
<1> DEFINE rec == [workers[w] EXCEPT !.wait = "Overdue"]
<1>1. workers[w] \in WorkerRecord /\ RecordOK(workers[w]) /\ made \in Counters
  BY KnownWorker
<1>2. workers' = [workers EXCEPT ![w] = rec]
  BY DEF GraceEnds
<1>3. rec \in WorkerRecord
  BY <1>1 DEF WorkerRecord
<1>4. /\ rec.core = workers[w].core /\ rec.inbox = workers[w].inbox
      /\ rec.chat = workers[w].chat /\ rec.state = workers[w].state
      /\ rec.current = workers[w].current /\ rec.guard = workers[w].guard
      /\ rec.token = workers[w].token
  BY <1>1 DEF WorkerRecord
<1>5. workers[w].state # "Absent"
  BY <1>1 DEF RecordOK, NoWorker, GraceEnds
<1> HIDE DEF rec
<1>6. RecordOK(rec)
  BY <1>1, <1>4, <1>5, StillRecordOK
<1> QED
  BY <1>1, <1>2, <1>3, <1>4, <1>6, WorkerMoves DEF GraceEnds

LEMMA AcknowledgeKeeps ==
  ASSUME StoreInv, NEW w \in Worker, NEW m \in Message, AcknowledgeMessage(w, m)
  PROVE  StoreInv'
<1> DEFINE rec == [workers[w] EXCEPT !.inbox = @ \ {m}]
<1>1. workers[w] \in WorkerRecord /\ RecordOK(workers[w]) /\ made \in Counters
  BY KnownWorker
<1>2. workers' = [workers EXCEPT ![w] = rec]
  BY DEF AcknowledgeMessage
<1>3. rec \in WorkerRecord
  BY <1>1 DEF WorkerRecord
<1>4. /\ rec.core = workers[w].core /\ rec.inbox \subseteq workers[w].inbox
      /\ rec.chat = workers[w].chat /\ rec.state = workers[w].state
      /\ rec.current = workers[w].current /\ rec.guard = workers[w].guard
      /\ rec.token = workers[w].token
  BY <1>1 DEF WorkerRecord
<1>5. workers[w].state # "Absent"
  BY <1>1 DEF RecordOK, NoWorker, AcknowledgeMessage
<1> HIDE DEF rec
<1>6. RecordOK(rec)
  BY <1>1, <1>4, <1>5, StillRecordOK
<1> QED
  BY <1>1, <1>2, <1>3, <1>4, <1>6, WorkerMoves DEF AcknowledgeMessage

LEMMA RetireIdleKeeps ==
  ASSUME StoreInv, NEW w \in Worker, RetireIdle(w)
  PROVE  StoreInv'
<1> DEFINE rec == Gone(workers[w])
<1>1. workers[w] \in WorkerRecord /\ RecordOK(workers[w]) /\ made \in Counters
  BY KnownWorker
<1>2. workers' = [workers EXCEPT ![w] = rec]
  BY DEF RetireIdle
<1>3. rec \in WorkerRecord
  BY <1>1 DEF WorkerRecord, Gone, WorkerState
<1>4. /\ rec.core = workers[w].core /\ rec.inbox = workers[w].inbox
      /\ rec.chat = workers[w].chat /\ rec.state = "Retired"
      /\ rec.current = None /\ rec.guard = workers[w].guard /\ rec.token = FALSE
  BY <1>1 DEF WorkerRecord, Gone
<1> HIDE DEF rec
<1>5. RecordOK(rec)
  BY <1>1, <1>4, Blank DEF RecordOK, RetireIdle
<1> QED
  BY <1>1, <1>2, <1>3, <1>4, <1>5, WorkerMoves DEF RetireIdle

LEMMA GuardKeeps ==
  ASSUME StoreInv, NEW w \in Worker, BeginRecoveryGuard(w)
  PROVE  StoreInv'
<1> DEFINE guard == [task |-> workers[w].current, id |-> made.guard + 1, aged |-> FALSE]
           rec == [workers[w] EXCEPT !.guard = guard]
<1>1. /\ workers[w] \in WorkerRecord /\ RecordOK(workers[w]) /\ made \in Counters
      /\ workers[w].state = "Running" /\ workers[w].current # None
      /\ made.guard < NumGuards
  BY KnownWorker DEF BeginRecoveryGuard
<1>2. workers' = [workers EXCEPT ![w] = rec] /\ made' = [made EXCEPT !.guard = @ + 1]
  BY DEF BeginRecoveryGuard
<1>3. guard \in Guard /\ guard.task = workers[w].current
  BY <1>1, ConstantsOK DEF WorkerRecord, Guard, Counters, ConstantsOK
<1> HIDE DEF guard
<1>4. rec \in WorkerRecord
  BY <1>1, <1>3 DEF WorkerRecord
<1>5. /\ rec.core = workers[w].core /\ rec.inbox = workers[w].inbox
      /\ rec.chat = workers[w].chat /\ rec.state = workers[w].state
      /\ rec.current = workers[w].current /\ rec.guard = guard
      /\ rec.token = workers[w].token
  BY <1>1 DEF WorkerRecord
<1> HIDE DEF rec
<1>6. RecordOK(rec)
  BY <1>1, <1>3, <1>5, Blank DEF RecordOK
<1>7. made' \in Counters /\ made'.worker = made.worker /\ made'.task = made.task
  BY <1>1, <1>2 DEF Counters
<1> QED
  BY <1>1, <1>2, <1>4, <1>5, <1>6, <1>7, WorkerMoves DEF BeginRecoveryGuard

LEMMA ClearGuardKeeps ==
  ASSUME StoreInv, NEW w \in Worker, NEW g, ClearRecoveryGuard(w, g)
  PROVE  StoreInv'
<1> DEFINE rec == [workers[w] EXCEPT !.guard = None]
<1>1. workers[w] \in WorkerRecord /\ RecordOK(workers[w]) /\ made \in Counters
  BY KnownWorker
<1>2. workers' = [workers EXCEPT ![w] = rec]
  BY DEF ClearRecoveryGuard
<1>3. rec \in WorkerRecord
  BY <1>1 DEF WorkerRecord
<1>4. /\ rec.core = workers[w].core /\ rec.inbox = workers[w].inbox
      /\ rec.chat = workers[w].chat /\ rec.state = workers[w].state
      /\ rec.current = workers[w].current /\ rec.guard = None
      /\ rec.token = workers[w].token
  BY <1>1 DEF WorkerRecord
<1>5. workers[w].state # "Absent"
  BY <1>1, Blank DEF RecordOK, ClearRecoveryGuard
<1> HIDE DEF rec
<1>6. RecordOK(rec)
  BY <1>1, <1>4, <1>5, Blank DEF RecordOK
<1> QED
  BY <1>1, <1>2, <1>3, <1>4, <1>6, WorkerMoves DEF ClearRecoveryGuard

LEMMA GuardAgesKeeps ==
  ASSUME StoreInv, NEW w \in Worker, GuardAges(w)
  PROVE  StoreInv'
<1> DEFINE guard == [workers[w].guard EXCEPT !.aged = TRUE]
           rec == [workers[w] EXCEPT !.guard = guard]
<1>1. workers[w] \in WorkerRecord /\ RecordOK(workers[w]) /\ made \in Counters
  BY KnownWorker
<1>2. workers' = [workers EXCEPT ![w] = rec]
  BY DEF GuardAges
<1>3. guard \in Guard /\ guard.task = workers[w].guard.task
  BY <1>1 DEF WorkerRecord, Guard, GuardAges
<1> HIDE DEF guard
<1>4. rec \in WorkerRecord
  BY <1>1, <1>3 DEF WorkerRecord
<1>5. /\ rec.core = workers[w].core /\ rec.inbox = workers[w].inbox
      /\ rec.chat = workers[w].chat /\ rec.state = workers[w].state
      /\ rec.current = workers[w].current /\ rec.guard = guard
      /\ rec.token = workers[w].token
  BY <1>1 DEF WorkerRecord
<1>6. workers[w].state # "Absent"
  BY <1>1, Blank DEF RecordOK, GuardAges
<1> HIDE DEF rec
<1>7. RecordOK(rec)
  BY <1>1, <1>3, <1>5, <1>6, Blank DEF RecordOK, GuardAges
<1> QED
  BY <1>1, <1>2, <1>4, <1>5, <1>7, WorkerMoves DEF GuardAges

LEMMA RetirePendingKeeps ==
  ASSUME StoreInv, NEW w \in Worker, RetirePending(w)
  PROVE  StoreInv'
<1> DEFINE rec == Gone(workers[w])
           old == tasks[workers[w].current]
           task == [old EXCEPT !.state = "Failed"]
<1>1. /\ workers[w] \in WorkerRecord /\ RecordOK(workers[w])
      /\ workers[w].current # None /\ old \in TaskRecord /\ old.worker = w
      /\ workers[w].state \in {"Provisioning", "Waking"}
  BY KnownWorker DEF RetirePending, HasPending
<1>2. SetWorkerAndTask(w, rec, task)
  BY DEF RetirePending
<1>3. /\ task \in TaskRecord /\ task.worker = w /\ task.state = "Failed"
      /\ task.collected = old.collected
  BY <1>1 DEF TaskRecord, TaskState
<1>4. rec \in WorkerRecord
  BY <1>1 DEF WorkerRecord, Gone, WorkerState
<1>5. /\ rec.core = workers[w].core /\ rec.inbox = workers[w].inbox
      /\ rec.chat = workers[w].chat /\ rec.state = "Retired"
      /\ rec.current = None /\ rec.guard = workers[w].guard /\ rec.token = FALSE
  BY <1>1 DEF WorkerRecord, Gone
<1> HIDE DEF rec, task
<1>6. RecordOK(rec)
  BY <1>1, <1>5, Blank DEF RecordOK
<1>7. Binding([workers EXCEPT ![w] = rec])
  BY <1>5, BindingMoves
<1> QED
  BY <1>1, <1>2, <1>3, <1>4, <1>5, <1>6, <1>7, WorkerAndTaskMove

LEMMA SettleKeeps ==
  ASSUME StoreInv, NEW w \in Worker, SettlePreSendFailure(w)
  PROVE  StoreInv'
<1> DEFINE fresh == workers[w].state = "Provisioning" /\ workers[w].chat = None
           rec == IF fresh THEN GaveUp(workers[w])
                  ELSE [Reidled(workers[w]) EXCEPT !.wait = "No"]
           old == tasks[workers[w].current]
           task == FailedTask(old)
<1>1. /\ workers[w] \in WorkerRecord /\ RecordOK(workers[w])
      /\ workers[w].current # None /\ old \in TaskRecord /\ old.worker = w
  BY KnownWorker DEF SettlePreSendFailure, HasPending
<1>2. /\ SetWorkerAndTask(w, rec, task)
      /\ fresh \/ (workers[w].state = "Waking" /\ workers[w].chat # None)
  BY DEF SettlePreSendFailure
<1>3. /\ task \in TaskRecord /\ task.worker = w /\ task.state = "Failed"
      /\ task.collected = old.collected
  BY <1>1 DEF TaskRecord, TaskState, FailedTask
<1>4. rec \in WorkerRecord
  BY <1>1 DEF WorkerRecord, Gone, GaveUp, Reidled, WorkerState, LaunchState
<1>5. /\ rec.core = workers[w].core /\ rec.inbox = workers[w].inbox
      /\ rec.chat = workers[w].chat /\ rec.state = IF fresh THEN "Retired" ELSE "Idle"
      /\ rec.current = None /\ rec.guard = workers[w].guard
      /\ rec.token = IF fresh THEN FALSE ELSE workers[w].token
  BY <1>1 DEF WorkerRecord, Gone, GaveUp, Reidled
<1> HIDE DEF rec, task
<1>6. RecordOK(rec)
  BY <1>1, <1>2, <1>5, Blank DEF RecordOK
<1>7. Binding([workers EXCEPT ![w] = rec])
  BY <1>5, BindingMoves
<1> QED
  BY <1>1, <1>2, <1>3, <1>4, <1>5, <1>6, <1>7, WorkerAndTaskMove

LEMMA CancelKeeps ==
  ASSUME StoreInv, NEW w \in Worker, CancelUnclaimedAfterSend(w)
  PROVE  StoreInv'
<1> DEFINE rec == GaveUp(workers[w])
           old == tasks[workers[w].current]
           task == FailedTask(old)
<1>1. /\ workers[w] \in WorkerRecord /\ RecordOK(workers[w])
      /\ workers[w].current # None /\ old \in TaskRecord /\ old.worker = w
      /\ workers[w].state = "Provisioning"
  BY KnownWorker DEF CancelUnclaimedAfterSend, HasPending
<1>2. SetWorkerAndTask(w, rec, task)
  BY DEF CancelUnclaimedAfterSend
<1>3. /\ task \in TaskRecord /\ task.worker = w /\ task.state = "Failed"
      /\ task.collected = old.collected
  BY <1>1 DEF TaskRecord, TaskState, FailedTask
<1>4. rec \in WorkerRecord
  BY <1>1 DEF WorkerRecord, Gone, GaveUp, WorkerState, LaunchState
<1>5. /\ rec.core = workers[w].core /\ rec.inbox = workers[w].inbox
      /\ rec.chat = workers[w].chat /\ rec.state = "Retired"
      /\ rec.current = None /\ rec.guard = workers[w].guard /\ rec.token = FALSE
  BY <1>1 DEF WorkerRecord, Gone, GaveUp
<1> HIDE DEF rec, task
<1>6. RecordOK(rec)
  BY <1>1, <1>2, <1>5, Blank DEF RecordOK
<1>7. Binding([workers EXCEPT ![w] = rec])
  BY <1>5, BindingMoves
<1> QED
  BY <1>1, <1>2, <1>3, <1>4, <1>5, <1>6, <1>7, WorkerAndTaskMove

LEMMA StartKeeps ==
  ASSUME StoreInv, NEW w \in Worker, StartTask(w)
  PROVE  StoreInv'
<1> DEFINE rec == [workers[w] EXCEPT !.state = "Running", !.launch = "Claimed"]
           old == tasks[workers[w].current]
           task == [old EXCEPT !.state = "Running"]
<1>1. /\ workers[w] \in WorkerRecord /\ RecordOK(workers[w])
      /\ workers[w].current # None /\ old \in TaskRecord /\ old.worker = w
      /\ workers[w].chat # None
  BY KnownWorker DEF StartTask, HasPending
<1>2. SetWorkerAndTask(w, rec, task)
  BY DEF StartTask
<1>3. /\ task \in TaskRecord /\ task.worker = w /\ task.state = "Running"
      /\ task.collected = old.collected
  BY <1>1 DEF TaskRecord, TaskState
<1>4. rec \in WorkerRecord
  BY <1>1 DEF WorkerRecord, WorkerState, LaunchState
<1>5. /\ rec.core = workers[w].core /\ rec.inbox = workers[w].inbox
      /\ rec.chat = workers[w].chat /\ rec.state = "Running"
      /\ rec.current = workers[w].current /\ rec.guard = workers[w].guard
      /\ rec.token = workers[w].token
  BY <1>1 DEF WorkerRecord
<1> HIDE DEF rec, task
<1>6. RecordOK(rec)
  BY <1>1, <1>5, Blank DEF RecordOK
<1>7. Binding([workers EXCEPT ![w] = rec])
  BY <1>5, BindingMoves
<1> QED
  BY <1>1, <1>2, <1>3, <1>4, <1>5, <1>6, <1>7, WorkerAndTaskMove

LEMMA FinishKeeps ==
  ASSUME StoreInv, NEW w \in Worker, FinishTask(w)
  PROVE  StoreInv'
<1> DEFINE guard == IF workers[w].guard # None /\ workers[w].guard.task = workers[w].current
                    THEN None ELSE workers[w].guard
           rec == [workers[w] EXCEPT !.current = None, !.state = "Idle", !.guard = guard]
           old == tasks[workers[w].current]
           task == [old EXCEPT !.state = "Completed", !.outcome = "result"]
<1>1. /\ workers[w] \in WorkerRecord /\ RecordOK(workers[w])
      /\ workers[w].current # None /\ old \in TaskRecord /\ old.worker = w
      /\ workers[w].chat # None /\ workers[w].state = "Running"
  BY KnownWorker DEF FinishTask, AtWork
<1>2. SetWorkerAndTask(w, rec, task)
  BY DEF FinishTask
<1>3. /\ task \in TaskRecord /\ task.worker = w /\ task.state = "Completed"
      /\ task.collected = old.collected
  BY <1>1 DEF TaskRecord, TaskState
<1>4. guard = None
  BY <1>1 DEF RecordOK
<1> HIDE DEF guard
<1>5. rec \in WorkerRecord
  BY <1>1, <1>4 DEF WorkerRecord, WorkerState
<1>6. /\ rec.core = workers[w].core /\ rec.inbox = workers[w].inbox
      /\ rec.chat = workers[w].chat /\ rec.state = "Idle"
      /\ rec.current = None /\ rec.guard = None
      /\ rec.token = workers[w].token
  BY <1>1, <1>4 DEF WorkerRecord
<1> HIDE DEF rec, task
<1>7. RecordOK(rec)
  BY <1>1, <1>6, Blank DEF RecordOK
<1>8. Binding([workers EXCEPT ![w] = rec])
  BY <1>6, BindingMoves
<1> QED
  BY <1>1, <1>2, <1>3, <1>5, <1>6, <1>7, <1>8, WorkerAndTaskMove

LEMMA AtMostOneAccount ==
  ASSUME NEW x, NEW y, x = None \/ y = None \/ x = y
  PROVE  Cardinality({x, y} \ {None}) <= 1
<1>1. {x, y} \ {None} \in {{}, {x}, {y}}
  OBVIOUS
<1>2. Cardinality({}) = 0 /\ Cardinality({x}) = 1 /\ Cardinality({y}) = 1
  BY FS_EmptySet, FS_Singleton
<1> QED
  BY <1>1, <1>2

LEMMA ClaimBinds ==
  ASSUME StoreInv, NEW w \in Worker, NEW h \in Chat, h # workers[w].core,
         Unbound(h, w), SameAccount(w, h), NEW rec, rec.chat = h,
         rec.core = workers[w].core
  PROVE  Binding([workers EXCEPT ![w] = rec])
<1> DEFINE ws2 == [workers EXCEPT ![w] = rec]
           Account(v) == SubjectOf[ws2[v].chat]
<1>1. \A v \in Worker :
        /\ ws2[v].core = workers[v].core
        /\ ws2[v].chat = IF v = w THEN h ELSE workers[v].chat
  BY DEF StoreInv, Life
<1>2. Binding(workers)
  BY DEF StoreInv
<1> HIDE DEF ws2
<1>3. ASSUME NEW v \in Worker, v # w, ws2[v].chat # None, ws2[v].core = ws2[w].core
      PROVE  Account(v) = None \/ Account(v) = Account(w)
  <2>1. v \in WorkersOf(workers, workers[w].core) \ {w}
    BY <1>1, <1>3 DEF WorkersOf
  <2>2. SubjectOf[workers[v].chat] = None \/ SubjectOf[workers[v].chat] \in FamilySubjects(w)
    BY <1>1, <1>3, <2>1 DEF FamilySubjects
  <2>3. FamilySubjects(w) \subseteq {SubjectOf[h]}
    BY DEF SameAccount
  <2> QED
    BY <1>1, <1>3, <2>2, <2>3
<1>4. ASSUME NEW v \in Worker, NEW u \in Worker, ws2[v].chat # None
      PROVE  /\ ws2[v].chat # ws2[v].core
             /\ v # u => ws2[u].chat # ws2[v].chat
             /\ ws2[u].chat # None /\ ws2[u].core = ws2[v].core =>
                  Cardinality({Account(v), Account(u)} \ {None}) <= 1
  <2>1. ws2[v].chat # ws2[v].core
    BY <1>1, <1>2, <1>4 DEF Binding
  <2>2. v # u => ws2[u].chat # ws2[v].chat
    BY <1>1, <1>2, <1>4 DEF Binding, Unbound
  <2>3. ASSUME ws2[u].chat # None, ws2[u].core = ws2[v].core
        PROVE  Cardinality({Account(v), Account(u)} \ {None}) <= 1
    <3>1. CASE v = w \/ u = w
      <4>1. Account(v) = None \/ Account(u) = None \/ Account(v) = Account(u)
        BY <1>3, <1>4, <2>3, <3>1
      <4> QED
        BY <4>1, AtMostOneAccount
    <3>2. CASE v # w /\ u # w
      BY <1>1, <1>2, <1>4, <2>3, <3>2 DEF Binding
    <3> QED
      BY <3>1, <3>2
  <2> QED
    BY <2>1, <2>2, <2>3
<1>5. Binding(ws2)
  BY <1>4 DEF Binding
<1> QED
  BY <1>5 DEF ws2

LEMMA ClaimKeeps ==
  ASSUME StoreInv, NEW w \in Worker, NEW h \in Chat, ClaimWorkerAttested(w, h)
  PROVE  StoreInv'
<1> DEFINE rec == [workers[w] EXCEPT !.chat = h, !.token = FALSE, !.wait = "No",
                     !.state = "Provisioning", !.launch = "Claimed"]
           old == tasks[workers[w].current]
           task == [old EXCEPT !.state = "Pending"]
<1>1. /\ workers[w] \in WorkerRecord /\ RecordOK(workers[w])
      /\ workers[w].current # None /\ old \in TaskRecord /\ old.worker = w
      /\ workers[w].token
  BY KnownWorker DEF ClaimWorkerAttested
<1>2. SetWorkerAndTask(w, rec, task)
  BY DEF ClaimWorkerAttested
<1>3. /\ task \in TaskRecord /\ task.worker = w /\ task.state = "Pending"
      /\ task.collected = old.collected
  BY <1>1 DEF TaskRecord, TaskState
<1>4. rec \in WorkerRecord
  BY <1>1 DEF WorkerRecord, WorkerState, LaunchState
<1>5. /\ rec.core = workers[w].core /\ rec.inbox = workers[w].inbox
      /\ rec.chat = h /\ rec.state = "Provisioning"
      /\ rec.current = workers[w].current /\ rec.guard = workers[w].guard
      /\ rec.token = FALSE
  BY <1>1 DEF WorkerRecord
<1> HIDE DEF rec, task
<1>6. workers[w].state = "Provisioning" /\ h # None
  BY <1>1, ConstantsOK DEF RecordOK, ConstantsOK
<1>7. RecordOK(rec)
  BY <1>1, <1>5, <1>6, Blank DEF RecordOK
<1>8. Binding([workers EXCEPT ![w] = rec])
  BY <1>5, ClaimBinds DEF ClaimWorkerAttested
<1> QED
  BY <1>1, <1>2, <1>3, <1>4, <1>5, <1>6, <1>7, <1>8, WorkerAndTaskMove

LEMMA ExpireKeeps ==
  ASSUME StoreInv, NEW C, ExpireWaitingClaims(C)
  PROVE  StoreInv'
<1> DEFINE late == {w \in Worker : /\ AwaitsClaim(w) /\ workers[w].core \in C
                                   /\ workers[w].wait = "Overdue"}
           On(t) == \E w \in late : t = workers[w].current
<1>1. /\ workers' = [w \in Worker |-> IF w \in late THEN GaveUp(workers[w]) ELSE workers[w]]
      /\ tasks' = [t \in Task |-> IF tasks[t].state = "Pending" /\ On(t)
                                  THEN FailedTask(tasks[t]) ELSE tasks[t]]
      /\ UNCHANGED <<families, reports, receipts, fences, plan, made, batches>>
  BY DEF ExpireWaitingClaims
<1>2. None \notin Worker /\ None \notin Task
  BY NoneIsNobody
<1>3. ASSUME NEW w \in late
      PROVE  /\ w \in Worker /\ workers[w].state = "Provisioning" /\ workers[w].chat = None
             /\ workers[w].current \in Task
             /\ tasks[workers[w].current].worker = w
             /\ tasks[workers[w].current].state = "Pending"
  <2>1. w \in Worker /\ workers[w].state = "Provisioning" /\ workers[w].chat = None
    BY DEF AwaitsClaim
  <2> HIDE DEF late
  <2>2. workers[w] \in WorkerRecord /\ RecordOK(workers[w]) /\ OnItsTask(workers, tasks, w)
    BY <2>1, KnownWorker
  <2>3. workers[w].current # None
    BY <2>1, <2>2 DEF RecordOK
  <2>4. workers[w].current \in Task
    BY <2>2, <2>3 DEF WorkerRecord
  <2> QED
    BY <2>1, <2>2, <2>3, <2>4 DEF OnItsTask
<1>4. late \subseteq Worker
  OBVIOUS
<1> HIDE DEF late
<1>5. ASSUME NEW w \in Worker
      PROVE  /\ workers'[w] \in WorkerRecord /\ RecordOK(workers'[w])
             /\ workers'[w].core = workers[w].core /\ workers'[w].chat = workers[w].chat
             /\ workers'[w].inbox = workers[w].inbox
             /\ w \notin late => workers'[w] = workers[w]
             /\ w \in late => workers'[w].state = "Retired" /\ workers'[w].current = None
  <2>1. workers[w] \in WorkerRecord /\ RecordOK(workers[w])
    BY KnownWorker
  <2>2. CASE w \notin late
    BY <1>1, <2>1, <2>2
  <2>3. CASE w \in late
    <3>1. workers'[w] = GaveUp(workers[w])
      BY <1>1, <2>3
    <3>2. /\ workers'[w] \in WorkerRecord
          /\ workers'[w].core = workers[w].core /\ workers'[w].inbox = workers[w].inbox
          /\ workers'[w].chat = workers[w].chat /\ workers'[w].state = "Retired"
          /\ workers'[w].current = None /\ workers'[w].guard = workers[w].guard
          /\ workers'[w].token = FALSE
      BY <2>1, <3>1 DEF WorkerRecord, Gone, GaveUp, WorkerState, LaunchState
    <3>3. RecordOK(workers'[w])
      BY <1>3, <2>1, <2>3, <3>2, Blank DEF RecordOK
    <3> QED
      BY <2>3, <3>2, <3>3
  <2> QED
    BY <2>2, <2>3
<1>6. ASSUME NEW t \in Task
      PROVE  /\ tasks'[t] \in TaskRecord
             /\ tasks'[t].worker = tasks[t].worker /\ tasks'[t].collected = tasks[t].collected
             /\ tasks'[t].state = "Absent" <=> tasks[t].state = "Absent"
             /\ ~On(t) => tasks'[t] = tasks[t]
             /\ On(t) => tasks'[t].state = "Failed"
  <2>1. tasks[t] \in TaskRecord
    BY DEF StoreInv, Life
  <2>2. On(t) => tasks[t].state = "Pending"
    BY <1>3
  <2> HIDE DEF On
  <2> QED
    BY <1>1, <2>1, <2>2 DEF TaskRecord, TaskState, FailedTask
<1>7. ASSUME NEW v \in Worker PROVE OnItsTask(workers', tasks', v)
  <2>1. CASE v \in late
    BY <1>5, <2>1 DEF OnItsTask
  <2>2. CASE v \notin late
    <3>1. workers'[v] = workers[v] /\ OnItsTask(workers, tasks, v) /\ workers[v] \in WorkerRecord
      BY <1>5, <2>2, KnownWorker
    <3>2. workers[v].current # None => ~On(workers[v].current) /\ workers[v].current \in Task
      BY <1>3, <2>2, <3>1 DEF OnItsTask, WorkerRecord
    <3> HIDE DEF On
    <3> QED
      BY <1>6, <3>1, <3>2 DEF OnItsTask
  <2> QED
    BY <2>1, <2>2
<1>8. ASSUME NEW t \in Task PROVE HasItsWorker(workers', tasks', t)
  <2>1. HasItsWorker(workers, tasks, t) /\ tasks[t] \in TaskRecord
    BY DEF StoreInv, Life
  <2>2. tasks'[t] = NoTask <=> tasks[t] = NoTask
    BY <1>6, <2>1, Blank DEF HasItsWorker
  <2>3. tasks'[t].worker # None => workers'[tasks'[t].worker].core # None
    BY <1>5, <1>6, <2>1 DEF HasItsWorker, TaskRecord
  <2>4. ASSUME tasks'[t].state \in {"Pending", "Running"}
        PROVE  workers'[tasks'[t].worker].current = t
    <3>1. ~On(t) /\ tasks'[t] = tasks[t]
      BY <1>6, <2>4
    <3>2. tasks[t].worker \in Worker /\ workers[tasks[t].worker].current = t
      BY <2>1, <2>4, <3>1, Blank DEF HasItsWorker, TaskRecord
    <3>3. tasks[t].worker \notin late
      BY <3>1, <3>2
    <3> QED
      BY <1>5, <3>1, <3>2, <3>3
  <2> HIDE DEF On
  <2> QED
    BY <1>6, <2>1, <2>2, <2>3, <2>4 DEF HasItsWorker
<1>9. Life(workers', tasks')
  BY <1>1, <1>5, <1>6, <1>7, <1>8 DEF Life
<1>10. Binding(workers')
  BY <1>5, StillBound DEF StoreInv
<1>11. \A w \in Worker : workers'[w].state \in {"Provisioning", "Waking"} =>
         workers'[w].state = workers[w].state /\ workers'[w].current = workers[w].current
  BY <1>5
<1>12. /\ made' \in Counters /\ made'.worker = made.worker /\ made'.task = made.task
       /\ fences' \subseteq Session /\ DOMAIN plan' = Core
  BY <1>1 DEF StoreInv, Fresh
<1> QED
  BY <1>1, <1>5, <1>6, <1>9, <1>10, <1>11, <1>12, StoreStays

-----------------------------------------------------------------------------
(* Families that go.                                                       *)

LEMMA NoMore ==
  ASSUME NEW S, NEW T, IsFiniteSet(T), S \subseteq T, NEW n \in Nat, Cardinality(T) <= n
  PROVE  Cardinality(S) <= n /\ IsFiniteSet(S)
<1>1. Cardinality(S) <= Cardinality(T) /\ IsFiniteSet(S)
  BY FS_Subset
<1>2. Cardinality(S) \in Nat /\ Cardinality(T) \in Nat
  BY <1>1, FS_CardinalityType
<1> QED
  BY <1>1, <1>2

LEMMA EmptyFits ==
  ASSUME NEW S, S = {}, NEW n \in Nat
  PROVE  IsFiniteSet(S) /\ Cardinality(S) <= n
<1>1. Cardinality(S) = 0 /\ IsFiniteSet(S)
  BY FS_EmptySet
<1> QED
  BY <1>1

LEMMA OneMore ==
  ASSUME NEW S, IsFiniteSet(S), NEW x, NEW n \in Nat, Cardinality(S) < n
  PROVE  IsFiniteSet(S \cup {x}) /\ Cardinality(S \cup {x}) <= n
<1>1. /\ IsFiniteSet(S \cup {x})
      /\ x \in S => S \cup {x} = S
      /\ x \notin S => Cardinality(S \cup {x}) = Cardinality(S) + 1
  BY FS_AddElement
<1>2. Cardinality(S) \in Nat
  BY FS_CardinalityType
<1> QED
  BY <1>1, <1>2

LEMMA IdsAreFinite == IsFiniteSet(Task) /\ IsFiniteSet(Message) /\ IsFiniteSet(Report)
<1>1. IsFiniteSet(Task)
  BY ConstantsOK, FS_Interval DEF ConstantsOK, Task
<1>2. IsFiniteSet(Message)
  BY ConstantsOK, FS_Interval DEF ConstantsOK, Message
<1>3. IsFiniteSet(Report)
  BY ConstantsOK, FS_Interval DEF ConstantsOK, Report
<1> QED
  BY <1>1, <1>2, <1>3

LEMMA LimitsAreNaturals ==
  /\ {MaxFamilies, MaxTasks, MaxInbox, MaxQueued} \subseteq Nat
  /\ \A k : ReceiptLimit(k) \in Nat
BY ConstantsOK DEF ConstantsOK, ReceiptLimit

LEMMA ReceiptsWithout ==
  ASSUME StoreInv, NEW C
  PROVE  Receipts(WorkersWithout(C), TasksWithout(C), Others(receipts, C), batches)
<1> DEFINE ws2 == WorkersWithout(C)
           ts2 == TasksWithout(C)
           rs2 == Others(receipts, C)
<1>1. /\ \A w \in Worker : ws2[w] = IF workers[w].core \in C THEN NoWorker ELSE workers[w]
      /\ \A t \in Task : /\ ts2[t] = tasks[t] \/ ts2[t] = NoTask
                         /\ tasks[t].worker # None =>
                              ts2[t] = IF workers[tasks[t].worker].core \in C
                                       THEN NoTask ELSE tasks[t]
  BY FamiliesGo DEF StoreInv
<1>2. \A t \in Task : /\ tasks[t] \in TaskRecord
                      /\ tasks[t].state # "Absent" => tasks[t].worker \in Worker
                      /\ tasks[t].worker # None <=> tasks[t].state # "Absent"
  BY DEF StoreInv, Life, HasItsWorker, TaskRecord
<1>3. /\ Receipted(workers, tasks, receipts) /\ OneReceipt(receipts)
      /\ NotForgotten(tasks, receipts, batches) /\ CollectedIsDelivered(tasks, batches)
      /\ CameFrom(workers, tasks, receipts) /\ receipts \subseteq Receipt
  BY DEF StoreInv, Receipts
<1>4. Created(rs2) = {r \in Created(receipts) : r.core \notin C}
  BY DEF Created, Others
<1> HIDE DEF ws2, ts2, rs2
<1>5. Receipted(ws2, ts2, rs2)
  <2> SUFFICES ASSUME NEW t \in Task, ts2[t].state # "Absent"
               PROVE  \E r \in Created(rs2) : r.id = t /\ r.core = ws2[ts2[t].worker].core
    BY DEF Receipted
  <2>1. ts2[t] = tasks[t] /\ tasks[t].worker \in Worker
    BY <1>1, <1>2, Blank
  <2>2. workers[tasks[t].worker].core \notin C
    BY <1>1, <1>2, <2>1, Blank
  <2>3. PICK r \in Created(receipts) : r.id = t /\ r.core = workers[tasks[t].worker].core
    BY <1>3, <2>1 DEF Receipted
  <2> QED
    BY <1>1, <1>4, <2>1, <2>2, <2>3
<1>6. OneReceipt(rs2)
  BY <1>3, <1>4 DEF OneReceipt
<1>7. NotForgotten(ts2, rs2, batches)
  <2> SUFFICES ASSUME NEW r \in Created(rs2)
               PROVE  r.id \in Task /\ (ts2[r.id].state # "Absent" \/ Delivered(batches, r.id))
    BY DEF NotForgotten
  <2>1. r \in Created(receipts) /\ r.core \notin C
    BY <1>4
  <2>2. r.id \in Task /\ (tasks[r.id].state # "Absent" \/ Delivered(batches, r.id))
    BY <1>3, <2>1 DEF NotForgotten
  <2>3. ASSUME tasks[r.id].state # "Absent" PROVE ts2[r.id].state # "Absent"
    <3>1. PICK q \in Created(receipts) : q.id = r.id /\ q.core = workers[tasks[r.id].worker].core
      BY <1>3, <2>2, <2>3 DEF Receipted
    <3>2. q = r
      BY <1>3, <2>1, <3>1 DEF OneReceipt
    <3> QED
      BY <1>1, <1>2, <2>1, <2>2, <2>3, <3>1, <3>2
  <2> QED
    BY <2>2, <2>3
<1>8. CollectedIsDelivered(ts2, batches)
  BY <1>1, <1>3, Blank DEF CollectedIsDelivered
<1>9. CameFrom(ws2, ts2, rs2)
  <2> SUFFICES ASSUME NEW w \in Worker, ws2[w].state \in {"Provisioning", "Waking"}
               PROVE  /\ ws2[w].state = "Provisioning" =>
                           \A t \in Task : ts2[t].worker = w => t = ws2[w].current
                      /\ \A r \in Created(rs2) : r.id = ws2[w].current =>
                           /\ ws2[w].state = "Provisioning" => r.kind = "spawn"
                           /\ ws2[w].state = "Waking" => r.kind = "reuse"
    BY DEF CameFrom
  <2>1. ws2[w] = workers[w]
    BY <1>1, Blank
  <2>2. \A t \in Task : ts2[t].worker = w => tasks[t].worker = w
    BY <1>1, Blank, NoneIsNobody
  <2> QED
    BY <1>3, <1>4, <2>1, <2>2 DEF CameFrom
<1>10. rs2 \subseteq Receipt
  BY <1>3 DEF rs2, Others
<1>11. Receipts(ws2, ts2, rs2, batches)
  BY <1>5, <1>6, <1>7, <1>8, <1>9, <1>10 DEF Receipts
<1> QED
  BY <1>11 DEF ws2, ts2, rs2

LEMMA LimitsWithout ==
  ASSUME StoreInv, NEW C
  PROVE  WithinLimits(families \ C, WorkersWithout(C), TasksWithout(C),
                      Others(reports, C), Others(receipts, C))
<1> DEFINE ws2 == WorkersWithout(C)
           ts2 == TasksWithout(C)
           rs2 == Others(receipts, C)
           rp2 == Others(reports, C)
           fs2 == families \ C
<1>1. /\ \A w \in Worker : ws2[w] = IF workers[w].core \in C THEN NoWorker ELSE workers[w]
      /\ \A t \in Task : ts2[t] = tasks[t] \/ ts2[t] = NoTask
  BY FamiliesGo DEF StoreInv
<1>2. StoreFits(families, workers, reports, receipts)
  BY DEF StoreInv, WithinLimits
<1>3. \A c \in Core : FamilyFits(workers, tasks, receipts, c)
  BY DEF StoreInv, WithinLimits
<1>4. rs2 \subseteq receipts /\ rp2 = {r \in reports : r.core \notin C}
  BY DEF Others
<1>5. fs2 \subseteq Core /\ IsFiniteSet(fs2) /\ Cardinality(fs2) <= MaxFamilies
  BY <1>2, NoMore, LimitsAreNaturals DEF StoreFits
<1> HIDE DEF ws2, ts2, rs2, rp2, fs2
<1>6. rp2 \subseteq ReportRecord /\ IsFiniteSet(rp2) /\ IsFiniteSet(rs2)
  BY <1>2, <1>4, FS_Subset DEF StoreFits
<1>7. ASSUME NEW w \in Worker
      PROVE  /\ ws2[w].core # None => ws2[w].core \in fs2
             /\ Cardinality(ws2[w].inbox) <= MaxInbox
  <2>1. CASE workers[w].core \in C
    <3>1. Cardinality(NoWorker.inbox) = 0
      BY Blank, FS_EmptySet
    <3> QED
      BY <1>1, <2>1, <3>1, Blank, LimitsAreNaturals
  <2>2. CASE workers[w].core \notin C
    BY <1>1, <1>2, <2>2 DEF StoreFits, fs2
  <2> QED
    BY <2>1, <2>2
<1>8. \A r \in rp2 : ws2[r.worker].core = r.core /\ ws2[r.worker].state # "Provisioning"
  BY <1>1, <1>2, <1>4 DEF StoreFits, ReportRecord
<1>9. ASSUME NEW c \in Core PROVE Cardinality(ReportsOf(rp2, c)) <= MaxQueued
  <2>1. ReportsOf(rp2, c) \subseteq ReportsOf(reports, c) /\ ReportsOf(reports, c) \subseteq reports
    BY <1>4 DEF ReportsOf
  <2>2. IsFiniteSet(ReportsOf(reports, c)) /\ Cardinality(ReportsOf(reports, c)) <= MaxQueued
    BY <1>2, <2>1, FS_Subset DEF StoreFits
  <2> QED
    BY <2>1, <2>2, NoMore, LimitsAreNaturals
<1>10. ASSUME NEW c \in Core PROVE FamilyFits(ws2, ts2, rs2, c)
  <2>1. ASSUME NEW w \in WorkersOf(ws2, c) PROVE Cardinality(TasksOf(ts2, w)) <= MaxTasks
    <3>1. w \in WorkersOf(workers, c)
      BY <1>1, Blank, ConstantsOK DEF WorkersOf, ConstantsOK
    <3>2. \A t \in Task : ts2[t].worker = w => tasks[t].worker = w
      BY <1>1, <3>1, Blank, NoneIsNobody DEF WorkersOf
    <3>3. TasksOf(ts2, w) \subseteq TasksOf(tasks, w) /\ TasksOf(tasks, w) \subseteq Task
      BY <3>2 DEF TasksOf
    <3>4. IsFiniteSet(Task)
      BY ConstantsOK, FS_Interval DEF ConstantsOK, Task
    <3>5. IsFiniteSet(TasksOf(tasks, w)) /\ Cardinality(TasksOf(tasks, w)) <= MaxTasks
      BY <1>3, <3>1, <3>3, <3>4, FS_Subset DEF FamilyFits
    <3> QED
      BY <3>3, <3>5, NoMore, LimitsAreNaturals
  <2>2. ASSUME NEW k \in Kind PROVE Cardinality(KindOf(rs2, k, c)) <= ReceiptLimit(k)
    <3>1. KindOf(rs2, k, c) \subseteq KindOf(receipts, k, c) /\ KindOf(receipts, k, c) \subseteq receipts
      BY <1>4 DEF KindOf
    <3>2. /\ IsFiniteSet(KindOf(receipts, k, c))
          /\ Cardinality(KindOf(receipts, k, c)) <= ReceiptLimit(k)
      BY <1>2, <1>3, <3>1, FS_Subset DEF StoreFits, FamilyFits
    <3> QED
      BY <3>1, <3>2, NoMore, LimitsAreNaturals
  <2> QED
    BY <2>1, <2>2 DEF FamilyFits
<1>11. WithinLimits(fs2, ws2, ts2, rp2, rs2)
  BY <1>5, <1>6, <1>7, <1>8, <1>9, <1>10 DEF WithinLimits, StoreFits
<1> QED
  BY <1>11 DEF ws2, ts2, rs2, rp2, fs2

\* What the store is without the families in C fits together again.
LEMMA StoreWithout ==
  ASSUME StoreInv, NEW C
  PROVE  /\ Life(WorkersWithout(C), TasksWithout(C))
         /\ Fresh(WorkersWithout(C), TasksWithout(C), made)
         /\ Binding(WorkersWithout(C))
         /\ Receipts(WorkersWithout(C), TasksWithout(C), Others(receipts, C), batches)
         /\ WithinLimits(families \ C, WorkersWithout(C), TasksWithout(C),
                         Others(reports, C), Others(receipts, C))
<1>1. /\ Life(WorkersWithout(C), TasksWithout(C))
      /\ \A w \in Worker :
           WorkersWithout(C)[w] = IF workers[w].core \in C THEN NoWorker ELSE workers[w]
      /\ \A t \in Task : TasksWithout(C)[t] = tasks[t] \/ TasksWithout(C)[t] = NoTask
  BY FamiliesGo DEF StoreInv
<1>2. Fresh(WorkersWithout(C), TasksWithout(C), made)
  BY <1>1, StillFresh DEF StoreInv, Fresh
<1>3. Binding(WorkersWithout(C))
  <2>1. \A w \in Worker :
          \/ WorkersWithout(C)[w].chat = None
          \/ /\ WorkersWithout(C)[w].chat = workers[w].chat
             /\ WorkersWithout(C)[w].core = workers[w].core
    BY <1>1, Blank
  <2> QED
    BY <2>1, StillBound DEF StoreInv
<1> QED
  BY <1>1, <1>2, <1>3, ReceiptsWithout, LimitsWithout

LEMMA RemoveKeeps ==
  ASSUME StoreInv, NEW C, RemoveFamilies(C), fences' \subseteq Session, DOMAIN plan' = Core
  PROVE  StoreInv'
BY StoreWithout DEF RemoveFamilies, StoreInv

LEMMA ClearKeeps ==
  ASSUME StoreInv, NEW C, ClearFamilies(C)
  PROVE  StoreInv'
<1>1. SessionsOf(C) \subseteq Session
  BY ConstantsOK DEF ConstantsOK, StoreInv, Life, WorkerRecord, SessionsOf
<1> QED
  BY <1>1, RemoveKeeps DEF ClearFamilies, StoreInv

LEMMA CleanupKeeps ==
  ASSUME StoreInv, CleanupInactiveFamilies
  PROVE  StoreInv'
<1>1. DOMAIN plan' = Core /\ fences' \subseteq Session
  BY DEF CleanupInactiveFamilies, StoreInv
<1> QED
  BY <1>1, RemoveKeeps DEF CleanupInactiveFamilies

LEMMA PurgeKeeps ==
  ASSUME StoreInv, PurgeWorkspace
  PROVE  StoreInv'
<1>1. DOMAIN plan' = Core /\ fences' \subseteq Session
  BY DEF PurgeWorkspace, StoreInv
<1> QED
  BY <1>1, RemoveKeeps DEF PurgeWorkspace

LEMMA FenceKeeps ==
  ASSUME StoreInv, NEW s, FenceLapses(s)
  PROVE  StoreInv'
BY DEF StoreInv, FenceLapses

LEMMA PreviewKeeps ==
  ASSUME StoreInv, PreviewCleanup
  PROVE  StoreInv'
<1>1. made' \in Counters /\ made'.worker = made.worker /\ made'.task = made.task
  BY DEF StoreInv, Fresh, PreviewCleanup, Counters
<1>2. UNCHANGED <<families, workers, tasks, reports, receipts, fences, batches>> /\ DOMAIN plan' = Core
  BY DEF PreviewCleanup
<1>3. Fresh(workers', tasks', made')
  BY <1>1, <1>2, StillFresh DEF StoreInv
<1>4. HandedOut(batches', made')
  BY <1>1, <1>2 DEF StoreInv, HandedOut
<1> QED
  BY <1>2, <1>3, <1>4 DEF StoreInv

-----------------------------------------------------------------------------
(* Calls that are undone.                                                  *)

\* Fewer tasks, fewer receipts, and at most w's record new.
LEMMA LimitsAfterForgetting ==
  ASSUME StoreInv, NEW w \in Worker, NEW rec, workers' = [workers EXCEPT ![w] = rec],
         \/ rec = NoWorker /\ workers[w].state = "Provisioning"
         \/ /\ rec.core = workers[w].core /\ rec.inbox = workers[w].inbox
            /\ rec.state # "Provisioning",
         \A t \in Task : tasks'[t] = tasks[t] \/ tasks'[t] = NoTask,
         receipts' \subseteq receipts, UNCHANGED <<families, reports>>
  PROVE  WithinLimits(families', workers', tasks', reports', receipts')
<1>1. StoreFits(families, workers, reports, receipts)
  BY DEF StoreInv, WithinLimits
<1>2. \A c \in Core : FamilyFits(workers, tasks, receipts, c)
  BY DEF StoreInv, WithinLimits
<1>3. \A v \in Worker : workers'[v] = IF v = w THEN rec ELSE workers[v]
  BY DEF StoreInv, Life
<1>4. ASSUME NEW v \in Worker
      PROVE  /\ workers'[v].core # None => /\ workers'[v].core = workers[v].core
                                           /\ workers'[v].core \in families
             /\ Cardinality(workers'[v].inbox) <= MaxInbox
  <2>1. Cardinality(NoWorker.inbox) = 0 /\ NoWorker.core = None
    BY Blank, FS_EmptySet
  <2> QED
    BY <1>1, <1>3, <2>1, LimitsAreNaturals DEF StoreFits
<1>5. ASSUME NEW r \in reports
      PROVE  workers'[r.worker].core = r.core /\ workers'[r.worker].state # "Provisioning"
  <2>1. /\ r.worker \in Worker /\ workers[r.worker].core = r.core
        /\ workers[r.worker].state # "Provisioning"
    BY <1>1 DEF StoreFits, ReportRecord
  <2> QED
    BY <1>3, <2>1
<1>6. IsFiniteSet(receipts')
  BY <1>1, FS_Subset DEF StoreFits
<1>7. StoreFits(families', workers', reports', receipts')
  BY <1>1, <1>4, <1>5, <1>6 DEF StoreFits
<1>8. ASSUME NEW c \in Core PROVE FamilyFits(workers', tasks', receipts', c)
  <2>1. ASSUME NEW v \in WorkersOf(workers', c) PROVE Cardinality(TasksOf(tasks', v)) <= MaxTasks
    <3>1. v \in WorkersOf(workers, c) /\ v \in Worker
      BY <1>4, ConstantsOK DEF WorkersOf, ConstantsOK
    <3>2. \A t \in Task : tasks'[t].worker = v => tasks[t].worker = v
      BY <3>1, Blank, NoneIsNobody
    <3>3. TasksOf(tasks', v) \subseteq TasksOf(tasks, v) /\ TasksOf(tasks, v) \subseteq Task
      BY <3>2 DEF TasksOf
    <3>4. IsFiniteSet(Task)
      BY ConstantsOK, FS_Interval DEF ConstantsOK, Task
    <3>5. IsFiniteSet(TasksOf(tasks, v)) /\ Cardinality(TasksOf(tasks, v)) <= MaxTasks
      BY <1>2, <3>1, <3>3, <3>4, FS_Subset DEF FamilyFits
    <3> QED
      BY <3>3, <3>5, NoMore, LimitsAreNaturals
  <2>2. ASSUME NEW k \in Kind PROVE Cardinality(KindOf(receipts', k, c)) <= ReceiptLimit(k)
    <3>1. KindOf(receipts', k, c) \subseteq KindOf(receipts, k, c) /\ KindOf(receipts, k, c) \subseteq receipts
      BY DEF KindOf
    <3>2. /\ IsFiniteSet(KindOf(receipts, k, c))
          /\ Cardinality(KindOf(receipts, k, c)) <= ReceiptLimit(k)
      BY <1>1, <1>2, <3>1, FS_Subset DEF StoreFits, FamilyFits
    <3> QED
      BY <3>1, <3>2, NoMore, LimitsAreNaturals
  <2> QED
    BY <2>1, <2>2 DEF FamilyFits
<1> QED
  BY <1>7, <1>8 DEF WithinLimits

\* The task that goes takes its receipt along, so a retry starts over.
LEMMA ReceiptsAfterForgetting ==
  ASSUME StoreInv, NEW w \in Worker, NEW rec, workers' = [workers EXCEPT ![w] = rec],
         workers[w].current # None,
         \A t \in Task : tasks'[t] = IF t = workers[w].current THEN NoTask ELSE tasks[t],
         NEW k, receipts' = WithoutReceipts(k, workers[w].current), UNCHANGED batches,
         \/ workers[w].state = "Provisioning" /\ k = "spawn"
         \/ workers[w].state = "Waking" /\ k = "reuse",
         rec.state \notin {"Provisioning", "Waking"},
         \/ rec.core = workers[w].core
         \/ \A t \in Task : tasks'[t].worker # w
  PROVE  Receipts(workers', tasks', receipts', batches')
<1> DEFINE u == workers[w].current
<1>1. u \in Task /\ tasks[u].worker = w /\ tasks[u].state # "Absent"
  BY DEF StoreInv, Life, WorkerRecord, OnItsTask
<1>2. \A v \in Worker : workers'[v] = IF v = w THEN rec ELSE workers[v]
  BY DEF StoreInv, Life
<1>3. /\ Receipted(workers, tasks, receipts) /\ OneReceipt(receipts)
      /\ NotForgotten(tasks, receipts, batches) /\ CollectedIsDelivered(tasks, batches)
      /\ CameFrom(workers, tasks, receipts) /\ receipts \subseteq Receipt
  BY DEF StoreInv, Receipts
<1>4. \A r \in Created(receipts) : r.id = u => r.kind = k
  BY <1>3 DEF CameFrom
<1>5. Created(receipts') = {r \in Created(receipts) : r.id # u}
  BY <1>4 DEF Created, WithoutReceipts
<1>6. \A t \in Task : tasks[t].state # "Absent" => tasks[t].worker \in Worker
  BY DEF StoreInv, Life, HasItsWorker, TaskRecord
<1> HIDE DEF u
<1>7. Receipted(workers', tasks', receipts')
  <2> SUFFICES ASSUME NEW t \in Task, tasks'[t].state # "Absent"
               PROVE  \E r \in Created(receipts') : /\ r.id = t
                                                    /\ r.core = workers'[tasks'[t].worker].core
    BY DEF Receipted
  <2>1. t # u /\ tasks'[t] = tasks[t] /\ tasks[t].worker \in Worker
    BY <1>6, Blank DEF u
  <2>2. workers'[tasks[t].worker].core = workers[tasks[t].worker].core
    BY <1>2, <2>1
  <2>3. PICK r \in Created(receipts) : r.id = t /\ r.core = workers[tasks[t].worker].core
    BY <1>3, <2>1 DEF Receipted
  <2> QED
    BY <1>5, <2>1, <2>2, <2>3
<1>8. OneReceipt(receipts')
  BY <1>3, <1>5 DEF OneReceipt
<1>9. NotForgotten(tasks', receipts', batches')
  BY <1>3, <1>5 DEF NotForgotten, u
<1>10. CollectedIsDelivered(tasks', batches')
  BY <1>3, Blank DEF CollectedIsDelivered
<1>11. CameFrom(workers', tasks', receipts')
  <2> SUFFICES ASSUME NEW v \in Worker, workers'[v].state \in {"Provisioning", "Waking"}
               PROVE  /\ workers'[v].state = "Provisioning" =>
                           \A t \in Task : tasks'[t].worker = v => t = workers'[v].current
                      /\ \A r \in Created(receipts') : r.id = workers'[v].current =>
                           /\ workers'[v].state = "Provisioning" => r.kind = "spawn"
                           /\ workers'[v].state = "Waking" => r.kind = "reuse"
    BY DEF CameFrom
  <2>1. workers'[v] = workers[v]
    BY <1>2
  <2>2. \A t \in Task : tasks'[t].worker = v => tasks[t].worker = v
    BY Blank, NoneIsNobody
  <2> QED
    BY <1>3, <1>5, <2>1, <2>2 DEF CameFrom
<1>12. receipts' \subseteq Receipt
  BY <1>3 DEF WithoutReceipts
<1> QED
  BY <1>7, <1>8, <1>9, <1>10, <1>11, <1>12 DEF Receipts

LEMMA ForgetSpawnKeeps ==
  ASSUME StoreInv, NEW w \in Worker, ForgetSpawn(w)
  PROVE  StoreInv'
<1> DEFINE u == workers[w].current
<1>1. /\ workers' = [workers EXCEPT ![w] = NoWorker]
      /\ tasks' = [t \in Task |-> IF tasks[t].worker = w THEN NoTask ELSE tasks[t]]
      /\ receipts' = WithoutReceipts("spawn", u)
      /\ UNCHANGED <<families, reports, fences, plan, made, batches>>
      /\ workers[w].state = "Provisioning" /\ u # None
  BY DEF ForgetSpawn, HasPending
<1>2. u \in Task /\ tasks[u].worker = w
  BY <1>1 DEF StoreInv, Life, WorkerRecord, OnItsTask
<1>3. \A t \in Task : tasks[t].worker = w => t = u
  BY <1>1 DEF StoreInv, Receipts, CameFrom
<1>4. Life(workers', tasks')
  BY <1>1, <1>3, SpawnForgotten DEF StoreInv
<1>5. /\ \A t \in Task : tasks'[t] = IF t = u THEN NoTask ELSE tasks[t]
      /\ \A t \in Task : tasks'[t].worker # w
  BY <1>1, <1>2, <1>3, Blank, NoneIsNobody
<1>6. Receipts(workers', tasks', receipts', batches')
  BY <1>1, <1>5, Blank, ReceiptsAfterForgetting
<1>7. receipts' \subseteq receipts
  BY <1>1 DEF WithoutReceipts
<1>8. WithinLimits(families', workers', tasks', reports', receipts')
  BY <1>1, <1>5, <1>7, LimitsAfterForgetting
<1>9. \A v \in Worker : workers'[v] = IF v = w THEN NoWorker ELSE workers[v]
  BY <1>1 DEF StoreInv, Life
<1>10. Fresh(workers', tasks', made')
  BY <1>1, <1>5, <1>9, StillFresh DEF StoreInv, Fresh
<1>11. Binding(workers')
  <2>1. \A v \in Worker : \/ workers'[v].chat = None
                          \/ workers'[v].chat = workers[v].chat /\ workers'[v].core = workers[v].core
    BY <1>9, Blank
  <2> QED
    BY <2>1, StillBound DEF StoreInv
<1> QED
  BY <1>1, <1>4, <1>6, <1>8, <1>10, <1>11 DEF StoreInv

LEMMA ForgetReuseKeeps ==
  ASSUME StoreInv, NEW w \in Worker, ForgetReuse(w)
  PROVE  StoreInv'
<1> DEFINE u == workers[w].current
           rec == Reidled(workers[w])
<1>1. /\ workers' = [workers EXCEPT ![w] = rec]
      /\ tasks' = [tasks EXCEPT ![u] = NoTask]
      /\ receipts' = WithoutReceipts("reuse", u)
      /\ UNCHANGED <<families, reports, fences, plan, made, batches>>
      /\ workers[w].state = "Waking" /\ u # None
  BY DEF ForgetReuse, HasPending
<1>2. workers[w] \in WorkerRecord /\ RecordOK(workers[w]) /\ u \in Task
  BY <1>1, KnownWorker DEF WorkerRecord
<1>3. rec \in WorkerRecord
  BY <1>2 DEF WorkerRecord, Reidled, WorkerState, LaunchState
<1>4. /\ rec.core = workers[w].core /\ rec.inbox = workers[w].inbox
      /\ rec.chat = workers[w].chat /\ rec.state = "Idle"
      /\ rec.current = None /\ rec.guard = workers[w].guard
      /\ rec.token = workers[w].token
  BY <1>2 DEF WorkerRecord, Reidled
<1> HIDE DEF rec
<1>5. RecordOK(rec)
  BY <1>1, <1>2, <1>4, Blank DEF RecordOK
<1>6. Life(workers', tasks')
  BY <1>1, <1>3, <1>4, <1>5, ReuseForgotten DEF StoreInv
<1>7. \A t \in Task : tasks'[t] = IF t = u THEN NoTask ELSE tasks[t]
  BY <1>1, <1>2 DEF StoreInv, Life
<1>8. Receipts(workers', tasks', receipts', batches')
  BY <1>1, <1>4, <1>7, ReceiptsAfterForgetting
<1>9. receipts' \subseteq receipts
  BY <1>1 DEF WithoutReceipts
<1>10. WithinLimits(families', workers', tasks', reports', receipts')
  BY <1>1, <1>4, <1>7, <1>9, LimitsAfterForgetting
<1>11. \A v \in Worker : workers'[v] = IF v = w THEN rec ELSE workers[v]
  BY <1>1 DEF StoreInv, Life
<1>12. Fresh(workers', tasks', made')
  <2>1. workers[w] # NoWorker
    BY <1>1, Blank
  <2> QED
    BY <1>1, <1>7, <1>11, <2>1, StillFresh DEF StoreInv, Fresh
<1>13. Binding(workers')
  BY <1>1, <1>4, BindingMoves
<1> QED
  BY <1>1, <1>6, <1>8, <1>10, <1>12, <1>13 DEF StoreInv

-----------------------------------------------------------------------------
(* Calls that record a receipt, and compact.                               *)

LEMMA CompactionKeeps ==
  ASSUME NEW c \in Core, NEW ws, NEW ts, NEW rp, NEW rs,
         Life(ws, ts), Binding(ws), Fresh(ws, ts, made'),
         Receipts(ws, ts, rs, batches'), HandedOut(batches', made'),
         StoreFits(families', ws, rp, rs),
         \A d \in Core \ {c} : FamilyFits(ws, ts, rs, d),
         Compacted(c, ws, ts, rp, rs),
         fences' \subseteq Session, DOMAIN plan' = Core, batches' \in Seq(BatchRecord)
  PROVE  StoreInv'
<1>1. /\ workers' = ws /\ Life(workers', tasks')
      /\ \A t \in Task : tasks'[t] = ts[t] \/ (tasks'[t] = NoTask /\ ts[t].collected)
      /\ Receipts(workers', tasks', receipts', batches')
  BY Compaction
<1>2. WithinLimits(families', workers', tasks', reports', receipts')
  BY LimitsCompacted DEF Receipts
<1>3. Fresh(workers', tasks', made')
  BY <1>1, StillFresh DEF Fresh
<1> QED
  BY <1>1, <1>2, <1>3 DEF StoreInv

\* A receipt that creates no task.
LEMMA OtherReceipt ==
  ASSUME NEW ws, NEW ts, NEW rs, NEW bs, Receipts(ws, ts, rs, bs),
         NEW k \in {"message", "report", "collect"}, NEW c \in Core, NEW op \in Op,
         NEW id \in Nat
  PROVE  Receipts(ws, ts, rs \cup {Record(k, c, op, id)}, bs)
<1> DEFINE rs2 == rs \cup {Record(k, c, op, id)}
<1>1. Created(rs2) = Created(rs)
  BY DEF Created, Record
<1>2. rs2 \subseteq Receipt
  BY DEF Receipts, Receipt, Record, Kind
<1> HIDE DEF rs2
<1>3. Receipts(ws, ts, rs2, bs)
  BY <1>1, <1>2 DEF Receipts, Receipted, OneReceipt, NotForgotten, CameFrom
<1> QED
  BY <1>3 DEF rs2

\* The receipts of other families are what they were.
LEMMA OtherFamilies ==
  ASSUME NEW ws, NEW ts, NEW rs, NEW c \in Core, NEW d \in Core \ {c}, NEW k, NEW op, NEW id,
         FamilyFits(ws, ts, rs, d)
  PROVE  FamilyFits(ws, ts, rs \cup {Record(k, c, op, id)}, d)
<1>1. \A j : KindOf(rs \cup {Record(k, c, op, id)}, j, d) = KindOf(rs, j, d)
  BY DEF KindOf, Record
<1> QED
  BY <1>1 DEF FamilyFits

LEMMA ReportKeeps ==
  ASSUME StoreInv, NEW w \in Worker, NEW op \in Op, ReportWorker(w, op)
  PROVE  StoreInv'
<1> DEFINE c == workers[w].core
           r == made.report + 1
           new == [id |-> r, core |-> c, worker |-> w]
           rp == reports \cup {new}
           rs == receipts \cup {Record("report", c, op, r)}
<1>1. /\ Compacted(c, workers, tasks, rp, rs)
      /\ made' = [made EXCEPT !.report = r] /\ made.report < NumReports
      /\ UNCHANGED <<families, fences, plan, batches>>
      /\ workers[w].state = "Running"
      /\ Cardinality({q \in reports : q.core = c}) < MaxQueued
  BY DEF ReportWorker, AtWork
<1>2. workers[w] \in WorkerRecord /\ RecordOK(workers[w]) /\ made \in Counters
  BY KnownWorker
<1>3. c \in Core
  BY <1>1, <1>2, Blank DEF WorkerRecord, RecordOK
<1>4. r \in Report /\ r \in Nat
  BY <1>1, <1>2, ConstantsOK DEF Counters, Report, ConstantsOK
<1>5. Receipts(workers, tasks, rs, batches')
  BY <1>1, <1>3, <1>4, OtherReceipt DEF StoreInv
<1>6. \A d \in Core \ {c} : FamilyFits(workers, tasks, rs, d)
  BY <1>3, OtherFamilies DEF StoreInv, WithinLimits
<1>7. StoreFits(families', workers, rp, rs)
  <2>1. StoreFits(families, workers, reports, receipts)
    BY DEF StoreInv, WithinLimits
  <2>2. IsFiniteSet(rp) /\ IsFiniteSet(rs)
    BY <2>1, FS_AddElement DEF StoreFits
  <2>3. new \in ReportRecord /\ workers[new.worker].core = new.core
        /\ workers[new.worker].state # "Provisioning"
    BY <1>1, <1>3, <1>4 DEF ReportRecord
  <2>4. ASSUME NEW d \in Core PROVE Cardinality(ReportsOf(rp, d)) <= MaxQueued
    <3>1. CASE d # c
      <4>1. ReportsOf(rp, d) = ReportsOf(reports, d)
        BY <3>1 DEF ReportsOf
      <4> QED
        BY <2>1, <4>1 DEF StoreFits
    <3>2. CASE d = c
      <4>1. ReportsOf(rp, d) = ReportsOf(reports, d) \cup {new}
        BY <3>2 DEF ReportsOf
      <4>2. ReportsOf(reports, d) \subseteq reports
        BY DEF ReportsOf
      <4>3. IsFiniteSet(ReportsOf(reports, d))
        BY <2>1, <4>2, FS_Subset DEF StoreFits
      <4>4. Cardinality(ReportsOf(reports, d)) < MaxQueued
        BY <1>1, <3>2 DEF ReportsOf
      <4> QED
        BY <4>1, <4>3, <4>4, OneMore, LimitsAreNaturals
    <3> QED
      BY <3>1, <3>2
  <2> HIDE DEF new
  <2> QED
    BY <1>1, <2>1, <2>2, <2>3, <2>4 DEF StoreFits
<1>8. made' \in Counters /\ made'.worker = made.worker /\ made'.task = made.task
  BY <1>1, <1>2, <1>4 DEF Counters
<1>9. Fresh(workers, tasks, made') /\ HandedOut(batches', made')
  BY <1>1, <1>8, StillFresh DEF StoreInv, HandedOut
<1> HIDE DEF c, rp, rs
<1> QED
  BY <1>1, <1>3, <1>5, <1>6, <1>7, <1>9, CompactionKeeps DEF StoreInv

LEMMA MessageKeeps ==
  ASSUME StoreInv, NEW w \in Worker, NEW op \in Op, MessageWorker(w, op)
  PROVE  StoreInv'
<1> DEFINE c == workers[w].core
           m == made.message + 1
           rec == [workers[w] EXCEPT !.inbox = @ \cup {m}]
           ws == [workers EXCEPT ![w] = rec]
           rs == receipts \cup {Record("message", c, op, m)}
<1>1. /\ Compacted(c, ws, tasks, reports, rs)
      /\ made' = [made EXCEPT !.message = m] /\ made.message < NumMessages
      /\ UNCHANGED <<families, fences, plan, batches>>
      /\ workers[w].state \in WorkerState
      /\ Cardinality(workers[w].inbox) < MaxInbox
  BY DEF MessageWorker
<1>2. workers[w] \in WorkerRecord /\ RecordOK(workers[w]) /\ made \in Counters
  BY KnownWorker
<1>3. c \in Core /\ workers[w].state # "Absent"
  BY <1>1, <1>2, Blank DEF WorkerRecord, RecordOK, WorkerState
<1>4. m \in Message /\ m \in Nat
  BY <1>1, <1>2, ConstantsOK DEF Counters, Message, ConstantsOK
<1>5. rec \in WorkerRecord
  BY <1>2, <1>4 DEF WorkerRecord
<1>6. /\ rec.core = workers[w].core /\ rec.inbox = workers[w].inbox \cup {m}
      /\ rec.chat = workers[w].chat /\ rec.state = workers[w].state
      /\ rec.current = workers[w].current /\ rec.guard = workers[w].guard
      /\ rec.token = workers[w].token
  BY <1>2 DEF WorkerRecord
<1> HIDE DEF rec
<1>7. RecordOK(rec)
  BY <1>2, <1>3, <1>6, StillRecordOK
<1>8. Life(ws, tasks)
  BY <1>5, <1>6, <1>7, OneRecord DEF StoreInv
<1>9. Binding(ws)
  BY <1>6, BindingMoves
<1>10. \A v \in Worker : ws[v] = IF v = w THEN rec ELSE workers[v]
  BY DEF StoreInv, Life
<1>11. Receipts(ws, tasks, receipts, batches')
  <2>1. \A v \in Worker : /\ ws[v].core = workers[v].core
                          /\ ws[v].state = workers[v].state
                          /\ ws[v].current = workers[v].current
    BY <1>6, <1>10
  <2> HIDE DEF ws
  <2> QED
    BY <1>1, <2>1, ReceiptsStay DEF StoreInv
<1>12. Receipts(ws, tasks, rs, batches')
  BY <1>3, <1>4, <1>11, OtherReceipt
<1>13. Cardinality(rec.inbox) <= MaxInbox
  <2>1. workers[w].inbox \subseteq Message
    BY <1>2 DEF WorkerRecord
  <2>2. IsFiniteSet(workers[w].inbox)
    BY <2>1, IdsAreFinite, FS_Subset
  <2> QED
    BY <1>1, <1>6, <2>2, OneMore, LimitsAreNaturals
<1>14. WithinLimits(families, ws, tasks, reports, receipts)
  <2>1. \A v \in Worker : /\ ws[v].core = workers[v].core
                          /\ Cardinality(ws[v].inbox) <= MaxInbox
                          /\ ws[v].state = "Provisioning" => workers[v].state = "Provisioning"
    BY <1>6, <1>10, <1>13 DEF StoreInv, WithinLimits, StoreFits
  <2> HIDE DEF ws
  <2> QED
    BY <2>1, LimitsStay DEF StoreInv
<1> HIDE DEF ws
<1>15. \A d \in Core \ {c} : FamilyFits(ws, tasks, rs, d)
  BY <1>3, <1>14, OtherFamilies DEF WithinLimits
<1>16. StoreFits(families', ws, reports, rs)
  <2>1. IsFiniteSet(rs)
    BY <1>14, FS_AddElement DEF WithinLimits, StoreFits
  <2> QED
    BY <1>1, <1>14, <2>1 DEF WithinLimits, StoreFits
<1>17. made' \in Counters /\ made'.worker = made.worker /\ made'.task = made.task
  BY <1>1, <1>2, <1>4 DEF Counters
<1>18. \A v \in Worker : workers[v] = NoWorker => ws[v] = NoWorker
  BY <1>3, <1>10, Blank
<1>19. Fresh(ws, tasks, made')
  BY <1>17, <1>18, StillFresh DEF StoreInv
<1>20. HandedOut(batches', made')
  BY <1>1, <1>17 DEF StoreInv, HandedOut
<1> HIDE DEF c, rs
<1> QED
  BY <1>1, <1>3, <1>8, <1>9, <1>12, <1>15, <1>16, <1>19, <1>20, CompactionKeeps DEF StoreInv

\* A batch delivers only what waited, and what it delivered stays delivered.
LEMMA BatchAppended ==
  ASSUME StoreInv, NEW c \in Core, NEW due \in SUBSET Report, NEW S \in SUBSET Task,
         batches' = Append(batches, [core |-> c, reports |-> due, tasks |-> S])
  PROVE  /\ batches' \in Seq(BatchRecord)
         /\ \A t : Delivered(batches', t) <=> (Delivered(batches, t) \/ t \in S)
<1> DEFINE new == [core |-> c, reports |-> due, tasks |-> S]
<1>1. batches \in Seq(BatchRecord) /\ new \in BatchRecord
  BY DEF StoreInv, BatchRecord
<1>2. /\ batches' \in Seq(BatchRecord) /\ Len(batches') = Len(batches) + 1
      /\ \A b \in 1 .. Len(batches) : batches'[b] = batches[b]
      /\ batches'[Len(batches) + 1] = new
      /\ DOMAIN batches = 1 .. Len(batches) /\ DOMAIN batches' = 1 .. Len(batches')
      /\ Len(batches) \in Nat
  BY <1>1
<1>3. new.tasks = S
  OBVIOUS
<1> HIDE DEF new
<1>4. ASSUME NEW t PROVE Delivered(batches', t) <=> (Delivered(batches, t) \/ t \in S)
  <2>1. ASSUME Delivered(batches', t) PROVE Delivered(batches, t) \/ t \in S
    <3>1. PICK b \in DOMAIN batches' : t \in batches'[b].tasks
      BY <2>1 DEF Delivered
    <3>2. b \in DOMAIN batches \/ b = Len(batches) + 1
      BY <1>2
    <3> QED
      BY <1>2, <1>3, <3>1, <3>2 DEF Delivered
  <2>2. ASSUME Delivered(batches, t) PROVE Delivered(batches', t)
    <3>1. PICK b \in DOMAIN batches : t \in batches[b].tasks
      BY <2>2 DEF Delivered
    <3>2. b \in DOMAIN batches' /\ batches'[b] = batches[b]
      BY <1>2
    <3> QED
      BY <3>1, <3>2 DEF Delivered
  <2>3. ASSUME t \in S PROVE Delivered(batches', t)
    <3>1. Len(batches) + 1 \in DOMAIN batches'
      BY <1>2
    <3> QED
      BY <1>2, <1>3, <2>3, <3>1 DEF Delivered
  <2> QED
    BY <2>1, <2>2, <2>3
<1> QED
  BY <1>2, <1>4

LEMMA CollectKeeps ==
  ASSUME StoreInv, NEW c \in Core, NEW op \in Op, CollectUpdates(c, op)
  PROVE  StoreInv'
<1>1. PICK outcomes \in DueOutcomes(c) :
        /\ Compacted(c, workers, Told(outcomes),
             {r \in reports : r.id \notin DueReports(c)},
             receipts \cup {Record("collect", c, op, Len(batches) + 1)})
        /\ batches' = Append(batches,
             [core |-> c, reports |-> DueReports(c), tasks |-> outcomes])
  BY DEF CollectUpdates
<1> DEFINE ts == Told(outcomes)
           rp == {r \in reports : r.id \notin DueReports(c)}
           rs == receipts \cup {Record("collect", c, op, Len(batches) + 1)}
<1>2. c \in families /\ UNCHANGED <<families, fences, plan, made>>
  BY DEF CollectUpdates
<1>3. \A t \in outcomes : t \in Task /\ tasks[t].outcome # "none"
  BY DEF DueOutcomes, FamilyTasks, TasksOf, Undelivered
<1>4. DueReports(c) \subseteq Report
  BY DEF DueReports, Oldest, StoreInv, WithinLimits, StoreFits, ReportRecord
<1>5. /\ batches' \in Seq(BatchRecord)
      /\ \A t : Delivered(batches', t) <=> (Delivered(batches, t) \/ t \in outcomes)
  BY <1>1, <1>3, <1>4, BatchAppended
<1>6. Len(batches) + 1 \in Nat
  BY DEF StoreInv
<1> HIDE DEF Told
<1>7. /\ DOMAIN ts = Task
      /\ \A t \in Task : ts[t] = IF t \in outcomes THEN [tasks[t] EXCEPT !.collected = TRUE]
                                 ELSE tasks[t]
  BY DEF Told
<1> HIDE DEF ts
<1>8. ASSUME NEW t \in Task
      PROVE  /\ ts[t] \in TaskRecord
             /\ tasks[t] = NoTask => ts[t] = NoTask
             /\ ts[t].worker = tasks[t].worker
             /\ ts[t].state = tasks[t].state
             /\ ts[t].collected => (tasks[t].collected \/ t \in outcomes)
  <2>1. tasks[t] \in TaskRecord
    BY DEF StoreInv, Life
  <2>2. CASE t \in outcomes
    <3>1. ts[t] = [tasks[t] EXCEPT !.collected = TRUE] /\ tasks[t] # NoTask
      BY <1>3, <1>7, <2>2, Blank
    <3> QED
      BY <2>1, <2>2, <3>1 DEF TaskRecord
  <2>3. CASE t \notin outcomes
    BY <1>7, <2>1, <2>3
  <2> QED
    BY <2>2, <2>3
<1>9. Life(workers, ts)
  <2>1. ts \in [Task -> TaskRecord]
    <3>1. ts = [t \in Task |-> ts[t]]
      BY <1>7 DEF ts, Told
    <3> QED
      BY <1>8, <3>1
  <2> QED
    BY <1>8, <2>1, TellTask DEF StoreInv
<1>10. Receipts(workers, ts, receipts, batches')
  <2>1. Receipts(workers, tasks, receipts, batches)
    BY DEF StoreInv
  <2>2. \A t \in Task : tasks[t].state # "Absent" => tasks[t].worker \in Worker
    BY DEF StoreInv, Life, TaskRecord, HasItsWorker
  <2>3. Receipted(workers, ts, receipts)
    BY <1>8, <2>1 DEF Receipts, Receipted
  <2>4. NotForgotten(ts, receipts, batches')
    BY <1>5, <1>8, <2>1 DEF Receipts, NotForgotten
  <2>5. CollectedIsDelivered(ts, batches')
    BY <1>5, <1>8, <2>1 DEF Receipts, CollectedIsDelivered
  <2>6. CameFrom(workers, ts, receipts)
    BY <1>8, <2>1 DEF Receipts, CameFrom
  <2> QED
    BY <2>1, <2>3, <2>4, <2>5, <2>6 DEF Receipts
<1>11. Receipts(workers, ts, rs, batches')
  BY <1>6, <1>10, OtherReceipt
<1>12. WithinLimits(families, workers, ts, reports, receipts)
  <2>1. \A w \in Worker : Cardinality(workers[w].inbox) <= MaxInbox
    BY DEF StoreInv, WithinLimits, StoreFits
  <2> QED
    BY <1>8, <2>1, LimitsStay DEF StoreInv
<1>13. \A d \in Core \ {c} : FamilyFits(workers, ts, rs, d)
  BY <1>12, OtherFamilies DEF WithinLimits
<1>14. StoreFits(families', workers, rp, rs)
  <2>1. StoreFits(families, workers, reports, receipts)
    BY <1>12 DEF WithinLimits
  <2>2. rp \subseteq reports /\ IsFiniteSet(rp) /\ IsFiniteSet(rs)
    BY <2>1, FS_Subset, FS_AddElement DEF StoreFits
  <2> HIDE DEF rp, rs
  <2>3. ASSUME NEW d \in Core PROVE Cardinality(ReportsOf(rp, d)) <= MaxQueued
    <3>1. ReportsOf(rp, d) \subseteq ReportsOf(reports, d) /\ ReportsOf(reports, d) \subseteq reports
      BY <2>2 DEF ReportsOf
    <3>2. IsFiniteSet(ReportsOf(reports, d)) /\ Cardinality(ReportsOf(reports, d)) <= MaxQueued
      BY <2>1, <3>1, FS_Subset DEF StoreFits
    <3> QED
      BY <3>1, <3>2, NoMore, LimitsAreNaturals
  <2> QED
    BY <1>2, <2>1, <2>2, <2>3 DEF StoreFits
<1>15. Fresh(workers, ts, made')
  <2>1. \A t \in Task : tasks[t] = NoTask => ts[t] = NoTask
    BY <1>3, <1>7, Blank
  <2> QED
    BY <1>2, <2>1, StillFresh DEF StoreInv, Fresh
<1>16. HandedOut(batches', made')
  <2>1. \A t \in outcomes : t <= made.task
    <3>1. \A t \in Task : t > made.task => tasks[t] = NoTask
      BY DEF StoreInv, Fresh
    <3>2. made.task \in Nat
      BY DEF StoreInv, Fresh, Counters
    <3> QED
      BY <1>3, <3>1, <3>2, Blank DEF Task
  <2> QED
    BY <1>2, <1>5, <2>1 DEF StoreInv, HandedOut
<1>17. Compacted(c, workers, ts, rp, rs)
  BY <1>1 DEF ts
<1> HIDE DEF rp, rs
<1> QED
  BY <1>2, <1>5, <1>9, <1>11, <1>13, <1>14, <1>15, <1>16, <1>17, CompactionKeeps DEF StoreInv

\* A new task comes with the receipt of the call that creates it.
LEMMA NewTaskReceipt ==
  ASSUME NEW ws, NEW ts, NEW rs, NEW bs, Life(ws, ts), Receipts(ws, ts, rs, bs),
         NEW w \in Worker, NEW t \in Task, ts[t] = NoTask, ~Delivered(bs, t),
         NEW rec, NEW c \in Core, NEW op \in Op, rec.core = c, rec.current = t, NEW k,
         \/ k = "spawn" /\ rec.state = "Provisioning" /\ ws[w] = NoWorker
         \/ k = "reuse" /\ rec.state = "Waking" /\ ws[w].core = c
  PROVE  Receipts([ws EXCEPT ![w] = rec], [ts EXCEPT ![t] = PendingTask(w)],
                  rs \cup {Record(k, c, op, t)}, bs)
<1> DEFINE ws2 == [ws EXCEPT ![w] = rec]
           ts2 == [ts EXCEPT ![t] = PendingTask(w)]
           new == Record(k, c, op, t)
           rs2 == rs \cup {new}
<1>1. /\ \A v \in Worker : ws2[v] = IF v = w THEN rec ELSE ws[v]
      /\ \A u \in Task : ts2[u] = IF u = t THEN PendingTask(w) ELSE ts[u]
  BY DEF Life
<1>2. /\ Receipted(ws, ts, rs) /\ OneReceipt(rs) /\ NotForgotten(ts, rs, bs)
      /\ CollectedIsDelivered(ts, bs) /\ CameFrom(ws, ts, rs) /\ rs \subseteq Receipt
  BY DEF Receipts
<1>3. /\ new.kind = k /\ new.core = c /\ new.id = t
      /\ new \in Receipt
  BY DEF Record, Receipt, Kind, Task
<1> HIDE DEF new
<1>4. Created(rs2) = Created(rs) \cup {new}
  BY <1>3 DEF Created
<1> HIDE DEF ws2, ts2, rs2
<1>5. \A r \in Created(rs) : r.id \in Task /\ r.id # t
  BY <1>2, Blank DEF NotForgotten
<1>6. \A u \in Task : ts[u].state # "Absent" =>
        /\ ts[u].worker \in Worker /\ ws[ts[u].worker].core # None
  BY DEF Life, TaskRecord, HasItsWorker
<1>7. Receipted(ws2, ts2, rs2)
  <2> SUFFICES ASSUME NEW u \in Task, ts2[u].state # "Absent"
               PROVE  \E r \in Created(rs2) : r.id = u /\ r.core = ws2[ts2[u].worker].core
    BY DEF Receipted
  <2>1. CASE u = t
    BY <1>1, <1>3, <1>4, <2>1, PendingIsTask
  <2>2. CASE u # t
    <3>1. ts2[u] = ts[u] /\ ts[u].worker \in Worker /\ ws[ts[u].worker].core # None
      BY <1>1, <1>6, <2>2
    <3>2. ws2[ts[u].worker].core = ws[ts[u].worker].core
      BY <1>1, <3>1, Blank
    <3>3. PICK r \in Created(rs) : r.id = u /\ r.core = ws[ts[u].worker].core
      BY <1>2, <3>1 DEF Receipted
    <3> QED
      BY <1>4, <3>1, <3>2, <3>3
  <2> QED
    BY <2>1, <2>2
<1>8. OneReceipt(rs2)
  BY <1>2, <1>3, <1>4, <1>5 DEF OneReceipt
<1>9. NotForgotten(ts2, rs2, bs)
  BY <1>1, <1>2, <1>3, <1>4, <1>5, PendingIsTask DEF NotForgotten
<1>10. CollectedIsDelivered(ts2, bs)
  BY <1>1, <1>2, PendingIsTask DEF CollectedIsDelivered
<1>11. CameFrom(ws2, ts2, rs2)
  <2> SUFFICES ASSUME NEW v \in Worker
               PROVE  /\ ws2[v].state = "Provisioning" =>
                           \A u \in Task : ts2[u].worker = v => u = ws2[v].current
                      /\ \A r \in Created(rs2) : r.id = ws2[v].current =>
                           /\ ws2[v].state = "Provisioning" => r.kind = "spawn"
                           /\ ws2[v].state = "Waking" => r.kind = "reuse"
    BY DEF CameFrom
  <2>1. CASE v = w
    <3>1. ws2[v] = rec
      BY <1>1, <2>1
    <3>2. \A r \in Created(rs2) : r.id = t => r.kind = k
      BY <1>3, <1>4, <1>5
    <3>3. ASSUME rec.state = "Provisioning", NEW u \in Task, ts2[u].worker = w
          PROVE  u = t
      <4>1. ws[w].core = None
        BY <3>3, Blank
      <4>2. ASSUME u # t PROVE FALSE
        <5>1. ts[u].worker = w
          BY <1>1, <3>3, <4>2
        <5>2. w # None
          BY NoneIsNobody
        <5> QED
          BY <4>1, <5>1, <5>2 DEF Life, HasItsWorker
      <4> QED
        BY <4>2
    <3> QED
      BY <2>1, <3>1, <3>2, <3>3
  <2>2. CASE v # w
    <3>1. ws2[v] = ws[v]
      BY <1>1, <2>2
    <3>2. \A u \in Task : ts2[u].worker = v => ts[u].worker = v
      BY <1>1, <2>2, PendingIsTask
    <3>3. ws[v].state \in {"Provisioning", "Waking"} => ws[v].current # t
      <4>1. RecordOK(ws[v]) /\ OnItsTask(ws, ts, v)
        BY DEF Life
      <4> QED
        BY <4>1, Blank DEF RecordOK, OnItsTask
    <3> QED
      BY <1>2, <1>3, <1>4, <3>1, <3>2, <3>3 DEF CameFrom
  <2> QED
    BY <2>1, <2>2
<1>12. rs2 \subseteq Receipt
  BY <1>2, <1>3 DEF rs2
<1>13. Receipts(ws2, ts2, rs2, bs)
  BY <1>7, <1>8, <1>9, <1>10, <1>11, <1>12 DEF Receipts
<1> QED
  BY <1>13 DEF ws2, ts2, rs2, new

\* The limits of the families other than c do not notice a new task of c.
LEMMA NewTaskLimits ==
  ASSUME NEW ws, NEW ts, NEW rs, Life(ws, ts), NEW w \in Worker, NEW t \in Task,
         NEW rec, NEW c \in Core, rec.core = c, ws[w].core \in {None, c},
         NEW k, NEW op, NEW d \in Core \ {c}, FamilyFits(ws, ts, rs, d)
  PROVE  FamilyFits([ws EXCEPT ![w] = rec], [ts EXCEPT ![t] = PendingTask(w)],
                    rs \cup {Record(k, c, op, t)}, d)
<1> DEFINE ws2 == [ws EXCEPT ![w] = rec]
           ts2 == [ts EXCEPT ![t] = PendingTask(w)]
<1>1. /\ \A v \in Worker : ws2[v] = IF v = w THEN rec ELSE ws[v]
      /\ \A u \in Task : ts2[u] = IF u = t THEN PendingTask(w) ELSE ts[u]
  BY DEF Life
<1> HIDE DEF ws2, ts2
<1>2. FamilyFits(ws2, ts2, rs, d)
  <2>1. ASSUME NEW v \in WorkersOf(ws2, d) PROVE Cardinality(TasksOf(ts2, v)) <= MaxTasks
    <3>1. v \in Worker /\ v # w /\ v \in WorkersOf(ws, d)
      BY <1>1 DEF WorkersOf
    <3>2. \A u \in Task : ts2[u].worker = v => ts[u].worker = v
      BY <1>1, <3>1, PendingIsTask
    <3>3. TasksOf(ts2, v) \subseteq TasksOf(ts, v) /\ TasksOf(ts, v) \subseteq Task
      BY <3>2 DEF TasksOf
    <3>4. IsFiniteSet(TasksOf(ts, v)) /\ Cardinality(TasksOf(ts, v)) <= MaxTasks
      BY <3>1, <3>3, IdsAreFinite, FS_Subset DEF FamilyFits
    <3> QED
      BY <3>3, <3>4, NoMore, LimitsAreNaturals
  <2> QED
    BY <2>1 DEF FamilyFits
<1>3. FamilyFits(ws2, ts2, rs \cup {Record(k, c, op, t)}, d)
  BY <1>2, OtherFamilies
<1> QED
  BY <1>3 DEF ws2, ts2

LEMMA ReuseKeeps ==
  ASSUME StoreInv, NEW w \in Worker, NEW op \in Op, ReuseWorker(w, op)
  PROVE  StoreInv'
<1> DEFINE c == workers[w].core
           t == made.task + 1
           rec == [workers[w] EXCEPT !.state = "Waking", !.launch = "Queued",
                     !.command = None, !.current = t, !.guard = None]
           ws == [workers EXCEPT ![w] = rec]
           ts == [tasks EXCEPT ![t] = PendingTask(w)]
           rs == receipts \cup {Record("reuse", c, op, t)}
<1>1. /\ Compacted(c, ws, ts, reports, rs)
      /\ made' = [made EXCEPT !.task = t] /\ made.task < NumTasks
      /\ UNCHANGED <<families, fences, plan, batches>>
      /\ workers[w].state = "Idle" /\ workers[w].chat # None /\ workers[w].current = None
  BY DEF ReuseWorker
<1>2. workers[w] \in WorkerRecord /\ RecordOK(workers[w]) /\ made \in Counters
  BY KnownWorker
<1>3. c \in Core
  BY <1>1, <1>2, Blank DEF WorkerRecord, RecordOK
<1>4. t \in Task /\ t \in Nat /\ t > made.task /\ t # None
  BY <1>1, <1>2, ConstantsOK DEF Counters, Task, ConstantsOK
<1>5. tasks[t] = NoTask /\ ~Delivered(batches, t)
  BY <1>2, <1>4 DEF StoreInv, Fresh, HandedOut, Counters
<1>6. rec \in WorkerRecord
  BY <1>2, <1>4 DEF WorkerRecord, WorkerState, LaunchState
<1>7. /\ rec.core = workers[w].core /\ rec.inbox = workers[w].inbox
      /\ rec.chat = workers[w].chat /\ rec.state = "Waking"
      /\ rec.current = t /\ rec.guard = None
      /\ rec.token = workers[w].token
  BY <1>2 DEF WorkerRecord
<1> HIDE DEF rec
<1>8. RecordOK(rec)
  BY <1>1, <1>2, <1>4, <1>7, Blank DEF RecordOK
<1>9. Life(ws, ts)
  BY <1>1, <1>3, <1>4, <1>5, <1>6, <1>7, <1>8, ConstantsOK, NewTask DEF StoreInv, ConstantsOK
<1>10. Binding(ws)
  BY <1>7, BindingMoves
<1>11. \A v \in Worker : ws[v] = IF v = w THEN rec ELSE workers[v]
  BY DEF StoreInv, Life
<1>12. Receipts(ws, ts, rs, batches')
  BY <1>1, <1>3, <1>4, <1>5, <1>7, NewTaskReceipt DEF StoreInv
<1>13. \A d \in Core \ {c} : FamilyFits(ws, ts, rs, d)
  BY <1>3, <1>4, <1>7, NewTaskLimits DEF StoreInv, WithinLimits
<1>14. \A u \in Task : ts[u] = IF u = t THEN PendingTask(w) ELSE tasks[u]
  BY DEF StoreInv, Life
<1> HIDE DEF ws, ts, c
<1>15. StoreFits(families', ws, reports, rs)
  <2>1. StoreFits(families, workers, reports, receipts)
    BY DEF StoreInv, WithinLimits
  <2>2. IsFiniteSet(rs)
    BY <2>1, FS_AddElement DEF StoreFits
  <2>3. \A v \in Worker : ws[v].core = workers[v].core /\ ws[v].inbox = workers[v].inbox
    BY <1>7, <1>11
  <2>4. \A r \in reports : ws[r.worker].core = r.core /\ ws[r.worker].state # "Provisioning"
    BY <1>7, <1>11, <2>1 DEF StoreFits, ReportRecord
  <2> QED
    BY <1>1, <2>1, <2>2, <2>3, <2>4 DEF StoreFits
<1>16. made' \in Counters /\ made'.worker = made.worker /\ made'.task = t
  BY <1>1, <1>2, <1>4 DEF Counters
<1>17. Fresh(ws, ts, made')
  <2>1. /\ \A v \in Worker : v > made.worker => workers[v] = NoWorker
        /\ \A u \in Task : u > made.task => tasks[u] = NoTask
    BY DEF StoreInv, Fresh
  <2>2. \A v \in Worker : v > made'.worker => ws[v] = NoWorker
    BY <1>1, <1>11, <1>16, <2>1, Blank
  <2>3. \A u \in Task : u > made'.task => ts[u] = NoTask
    BY <1>2, <1>14, <1>16, <2>1 DEF Counters, Task
  <2> QED
    BY <1>16, <2>2, <2>3 DEF Fresh
<1>18. HandedOut(batches', made')
  BY <1>1, <1>2, <1>16 DEF StoreInv, HandedOut, Counters, Task
<1> HIDE DEF rs
<1> QED
  BY <1>1, <1>3, <1>9, <1>10, <1>12, <1>13, <1>15, <1>17, <1>18, CompactionKeeps DEF StoreInv

\* There is room for the family of c once gone has gone.
LEMMA RoomMade ==
  ASSUME StoreInv, NEW c \in Core, NEW gone, MakesRoom(c, gone)
  PROVE  LET fs == (families \ gone) \cup {c}
         IN  fs \subseteq Core /\ IsFiniteSet(fs) /\ Cardinality(fs) <= MaxFamilies
<1>1. families \subseteq Core /\ IsFiniteSet(families) /\ Cardinality(families) <= MaxFamilies
  BY DEF StoreInv, WithinLimits, StoreFits
<1>2. Cardinality(families) \in Nat /\ MaxFamilies \in Nat
  BY <1>1, FS_CardinalityType, LimitsAreNaturals
<1>3. CASE c \in families /\ gone = {}
  <2>1. (families \ gone) \cup {c} = families
    BY <1>3
  <2> QED
    BY <1>1, <2>1
<1>4. CASE c \notin families /\ Cardinality(families) < MaxFamilies /\ gone = {}
  <2>1. (families \ gone) \cup {c} = families \cup {c}
    BY <1>4
  <2> QED
    BY <1>1, <1>2, <1>4, <2>1, OneMore
<1>5. CASE c \notin families /\ \E d \in families : gone = {d}
  <2>1. PICK d \in families : gone = {d}
    BY <1>5
  <2>2. IsFiniteSet(families \ {d}) /\ Cardinality(families \ {d}) = Cardinality(families) - 1
    BY <1>1, <2>1, FS_RemoveElement
  <2>3. Cardinality(families \ {d}) < MaxFamilies
    BY <1>1, <1>2, <2>2
  <2> QED
    BY <1>1, <1>2, <2>1, <2>2, <2>3, OneMore
<1> QED
  BY <1>3, <1>4, <1>5 DEF MakesRoom

LEMMA SpawnKeeps ==
  ASSUME StoreInv, NEW c \in Core, NEW op \in Op, SpawnWorker(c, op)
  PROVE  StoreInv'
<1> DEFINE w == made.worker + 1
           t == made.task + 1
           rec == [NoWorker EXCEPT !.core = c, !.state = "Provisioning",
                     !.launch = "Queued", !.token = TRUE, !.current = t]
<1>1. PICK gone \in {{}} \cup {{d} : d \in families} :
        /\ MakesRoom(c, gone)
        /\ families' = (families \ gone) \cup {c}
        /\ Compacted(c, [WorkersWithout(gone) EXCEPT ![w] = rec],
             [TasksWithout(gone) EXCEPT ![t] = PendingTask(w)],
             Others(reports, gone),
             Others(receipts, gone) \cup {Record("spawn", c, op, t)})
  BY DEF SpawnWorker
<1>2. /\ made' = [made EXCEPT !.worker = @ + 1, !.task = @ + 1]
      /\ made.worker < NumWorkers /\ made.task < NumTasks
      /\ UNCHANGED <<fences, plan, batches>>
  BY DEF SpawnWorker
<1> DEFINE ws0 == WorkersWithout(gone)
           ts0 == TasksWithout(gone)
           rs0 == Others(receipts, gone)
           rp == Others(reports, gone)
           ws == [ws0 EXCEPT ![w] = rec]
           ts == [ts0 EXCEPT ![t] = PendingTask(w)]
           rs == rs0 \cup {Record("spawn", c, op, t)}
<1>3. /\ Life(ws0, ts0) /\ Fresh(ws0, ts0, made) /\ Binding(ws0)
      /\ Receipts(ws0, ts0, rs0, batches)
      /\ WithinLimits(families \ gone, ws0, ts0, rp, rs0)
  BY StoreWithout
<1>4. Compacted(c, ws, ts, rp, rs)
  BY <1>1
<1>5. /\ families' \subseteq Core /\ IsFiniteSet(families') /\ Cardinality(families') <= MaxFamilies
      /\ families' = (families \ gone) \cup {c}
  BY <1>1, RoomMade
<1> HIDE DEF ws0, ts0, rs0, rp
<1>6. made \in Counters
  BY DEF StoreInv, Fresh
<1>7. w \in Worker /\ t \in Task /\ t \in Nat /\ t # None /\ w > made.worker /\ t > made.task
  BY <1>2, <1>6, ConstantsOK DEF Counters, Worker, Task, ConstantsOK
<1>8. ws0[w] = NoWorker /\ ts0[t] = NoTask /\ ~Delivered(batches, t)
  BY <1>3, <1>6, <1>7 DEF StoreInv, Fresh, HandedOut, Counters
<1>9. /\ rec.core = c /\ rec.inbox = {} /\ rec.chat = None /\ rec.state = "Provisioning"
      /\ rec.current = t /\ rec.guard = None /\ rec.token = TRUE
      /\ rec \in WorkerRecord
  BY <1>7 DEF NoWorker, WorkerRecord, WorkerState, LaunchState
<1>10. made' \in Counters /\ made'.worker = w /\ made'.task = t
  <2> HIDE DEF rec, w, t
  <2>1. made' = [made EXCEPT !.worker = w, !.task = t]
    BY <1>2 DEF w, t
  <2>2. w \in Nat /\ t \in Nat
    BY <1>6 DEF Counters, w, t
  <2> QED
    BY <1>6, <2>1, <2>2 DEF Counters
<1> HIDE DEF rec, w, t
<1>11. RecordOK(rec)
  BY <1>7, <1>9, Blank, ConstantsOK DEF RecordOK, ConstantsOK
<1>12. c # None
  BY ConstantsOK DEF ConstantsOK
<1>13. Life(ws, ts)
  BY <1>3, <1>7, <1>8, <1>9, <1>11, <1>12, Blank, NewTask
<1>14. Receipts(ws, ts, rs, batches')
  BY <1>2, <1>3, <1>7, <1>8, <1>9, NewTaskReceipt
<1>15. \A d \in Core \ {c} : FamilyFits(ws, ts, rs, d)
  BY <1>3, <1>7, <1>8, <1>9, Blank, NewTaskLimits DEF WithinLimits
<1>16. /\ \A v \in Worker : ws[v] = IF v = w THEN rec ELSE ws0[v]
       /\ \A u \in Task : ts[u] = IF u = t THEN PendingTask(w) ELSE ts0[u]
  BY <1>3 DEF Life
<1> HIDE DEF ws, ts
<1>17. Binding(ws)
  <2>1. \A v \in Worker : \/ ws[v].chat = None
                          \/ ws[v].chat = ws0[v].chat /\ ws[v].core = ws0[v].core
    BY <1>9, <1>16
  <2> QED
    BY <1>3, <2>1, StillBound
<1>18. StoreFits(families', ws, rp, rs)
  <2>1. StoreFits(families \ gone, ws0, rp, rs0)
    BY <1>3 DEF WithinLimits
  <2>2. IsFiniteSet(rs)
    BY <2>1, FS_AddElement DEF StoreFits
  <2>3. ASSUME NEW v \in Worker
        PROVE  ws[v].core # None => ws[v].core \in families'
    BY <1>5, <1>9, <1>16, <2>1 DEF StoreFits
  <2>4. ASSUME NEW v \in Worker PROVE Cardinality(ws[v].inbox) <= MaxInbox
    <3>1. Cardinality(rec.inbox) = 0
      BY <1>9, FS_EmptySet
    <3> QED
      BY <1>16, <2>1, <3>1, LimitsAreNaturals DEF StoreFits
  <2>5. ASSUME NEW r \in rp
        PROVE  ws[r.worker].core = r.core /\ ws[r.worker].state # "Provisioning"
    <3>1. /\ r.worker \in Worker /\ r.core \in Core
          /\ ws0[r.worker].core = r.core /\ ws0[r.worker].state # "Provisioning"
      BY <2>1 DEF StoreFits, ReportRecord
    <3>2. r.worker # w
      BY <1>8, <3>1, Blank, ConstantsOK DEF ConstantsOK
    <3> QED
      BY <1>16, <3>1, <3>2
  <2> QED
    BY <1>5, <2>1, <2>2, <2>3, <2>4, <2>5 DEF StoreFits
<1>19. Fresh(ws, ts, made')
  <2>1. /\ \A v \in Worker : v > made.worker => ws0[v] = NoWorker
        /\ \A u \in Task : u > made.task => ts0[u] = NoTask
    BY <1>3 DEF Fresh
  <2>2. \A v \in Worker : v > w => ws[v] = NoWorker
    BY <1>6, <1>16, <2>1 DEF Counters, Worker, w
  <2>3. \A u \in Task : u > t => ts[u] = NoTask
    BY <1>6, <1>16, <2>1 DEF Counters, Task, t
  <2> QED
    BY <1>10, <2>2, <2>3 DEF Fresh
<1>20. HandedOut(batches', made')
  BY <1>2, <1>6, <1>10 DEF StoreInv, HandedOut, Counters, Task, t
<1> HIDE DEF rs
<1>21. fences' \subseteq Session /\ DOMAIN plan' = Core /\ batches' \in Seq(BatchRecord)
  BY <1>2 DEF StoreInv
<1> QED
  BY <1>4, <1>13, <1>14, <1>15, <1>17, <1>18, <1>19, <1>20, <1>21, CompactionKeeps

-----------------------------------------------------------------------------
(* The theorems.                                                           *)

LEMMA StoreStart == Init => StoreInv
<1> SUFFICES ASSUME Init PROVE StoreInv
  OBVIOUS
<1> USE DEF Init
<1>1. Life(workers, tasks)
  BY Blank DEF Life, OnItsTask, HasItsWorker
<1>2. Fresh(workers, tasks, made)
  BY DEF Fresh, Counters
<1>3. Binding(workers)
  BY Blank DEF Binding
<1>4. ~ \E t : Delivered(batches, t)
  BY DEF Delivered
<1>5. Receipts(workers, tasks, receipts, batches)
  BY Blank DEF Receipts, Receipted, OneReceipt, NotForgotten, CollectedIsDelivered,
               CameFrom, Created
<1>6. families = {} /\ reports = {} /\ receipts = {}
  OBVIOUS
<1>7. WithinLimits(families, workers, tasks, reports, receipts)
  <2>1. StoreFits(families, workers, reports, receipts)
    <3>1. \A c \in Core : Cardinality(ReportsOf(reports, c)) <= MaxQueued
      <4> TAKE c \in Core
      <4>1. ReportsOf(reports, c) = {}
        BY DEF ReportsOf
      <4> QED
        BY <4>1, EmptyFits, LimitsAreNaturals
    <3>2. ASSUME NEW w \in Worker
          PROVE  workers[w].core = None /\ Cardinality(workers[w].inbox) <= MaxInbox
      <4>1. workers[w].core = None /\ workers[w].inbox = {}
        BY Blank
      <4> QED
        BY <4>1, EmptyFits, LimitsAreNaturals
    <3>3. /\ IsFiniteSet(families) /\ Cardinality(families) <= MaxFamilies
          /\ IsFiniteSet(reports) /\ IsFiniteSet(receipts)
      BY <1>6, EmptyFits, LimitsAreNaturals
    <3> QED
      BY <1>6, <3>1, <3>2, <3>3 DEF StoreFits
  <2>2. ASSUME NEW c \in Core PROVE FamilyFits(workers, tasks, receipts, c)
    <3>1. ASSUME NEW k \in Kind PROVE Cardinality(KindOf(receipts, k, c)) <= ReceiptLimit(k)
      <4>1. KindOf(receipts, k, c) = {}
        BY DEF KindOf
      <4> QED
        BY <4>1, EmptyFits, LimitsAreNaturals
    <3>2. ASSUME NEW w \in Worker PROVE Cardinality(TasksOf(tasks, w)) <= MaxTasks
      <4>1. TasksOf(tasks, w) = {}
        BY Blank, NoneIsNobody DEF TasksOf
      <4> QED
        BY <4>1, EmptyFits, LimitsAreNaturals
    <3> QED
      BY <3>1, <3>2 DEF FamilyFits, WorkersOf
  <2> QED
    BY <2>1, <2>2 DEF WithinLimits
<1>8. HandedOut(batches, made)
  BY <1>4 DEF HandedOut
<1> QED
  BY <1>1, <1>2, <1>3, <1>5, <1>7, <1>8 DEF StoreInv

LEMMA StoreStep == StoreInv /\ [Next]_vars => StoreInv'
<1> SUFFICES ASSUME StoreInv, [Next]_vars PROVE StoreInv'
  OBVIOUS
<1>1. CASE CoreStep
  <2>1. ASSUME NEW c \in Core, NEW op \in Op, SpawnWorker(c, op) \/ CollectUpdates(c, op)
        PROVE  StoreInv'
    BY <2>1, SpawnKeeps, CollectKeeps
  <2>2. ASSUME NEW w \in Worker, NEW op \in Op, ReuseWorker(w, op) \/ MessageWorker(w, op)
        PROVE  StoreInv'
    BY <2>2, ReuseKeeps, MessageKeeps
  <2>3. ASSUME NEW w \in Worker, RetireIdle(w) \/ RetirePending(w)
        PROVE  StoreInv'
    BY <2>3, RetireIdleKeeps, RetirePendingKeeps
  <2>4. ASSUME NEW w \in Worker, RollbackUnlinkedSpawn(w) \/ RollbackUnlinkedReuse(w)
        PROVE  StoreInv'
    BY <2>4, ForgetSpawnKeeps, ForgetReuseKeeps DEF RollbackUnlinkedSpawn, RollbackUnlinkedReuse
  <2>5. ASSUME NEW w \in Worker, NEW m \in Command,
               \/ RollbackLinkedSpawn(w, m) \/ RollbackLinkedReuse(w, m)
               \/ LinkLaunchCommand(w, m)
        PROVE  StoreInv'
    BY <2>5, ForgetSpawnKeeps, ForgetReuseKeeps, LinkKeeps DEF RollbackLinkedSpawn, RollbackLinkedReuse
  <2>6. ASSUME NEW w \in Worker, CancelUnclaimedAfterSend(w)
        PROVE  StoreInv'
    BY <2>6, CancelKeeps
  <2> QED
    BY <1>1, <2>1, <2>2, <2>3, <2>4, <2>5, <2>6 DEF CoreStep
<1>2. CASE LaunchStep
  BY <1>2, MirrorKeeps, SettleKeeps, GraceKeeps DEF LaunchStep
<1>3. CASE WorkerStep
  BY <1>3, ClaimKeeps, StartKeeps, FinishKeeps, ReportKeeps, AcknowledgeKeeps DEF WorkerStep
<1>4. CASE RecoveryStep
  BY <1>4, GuardKeeps, ClearGuardKeeps, GuardAgesKeeps DEF RecoveryStep
<1>5. CASE HostStep
  <2>1. ASSUME NEW c \in Core, ExpireWaitingClaims({c}) \/ ClearFamilyForAnchor(c)
        PROVE  StoreInv'
    BY <2>1, ExpireKeeps, ClearKeeps DEF ClearFamilyForAnchor
  <2>2. CASE ExpireWaitingClaims(Core)
    BY <2>2, ExpireKeeps
  <2>3. CASE ClearAllWorkers
    BY <2>3, ClearKeeps DEF ClearAllWorkers
  <2>4. CASE PurgeWorkspace
    BY <2>4, PurgeKeeps
  <2>5. ASSUME NEW s \in Session, FenceLapses(s)
        PROVE  StoreInv'
    BY <2>5, FenceKeeps
  <2>6. CASE PreviewCleanup
    BY <2>6, PreviewKeeps
  <2>7. CASE CleanupInactiveFamilies
    BY <2>7, CleanupKeeps
  <2> QED
    BY <1>5, <2>1, <2>2, <2>3, <2>4, <2>5, <2>6, <2>7 DEF HostStep
<1>6. CASE UNCHANGED vars
  BY <1>6 DEF vars, StoreInv
<1> QED
  BY <1>1, <1>2, <1>3, <1>4, <1>5, <1>6 DEF Next

\* Through every history of calls, timeouts and cleanups the records of
\* workers, tasks, receipts and reports fit together: the invariant from
\* which the properties below follow.
THEOREM StoreInvariant == Spec => []StoreInv
<1>1. Init => StoreInv
  BY StoreStart
<1>2. StoreInv /\ [Next]_vars => StoreInv'
  BY StoreStep
<1> QED
  BY <1>1, <1>2, PTL DEF Spec

LEMMA InvOneOpenTask == StoreInv => OneOpenTask
<1> SUFFICES ASSUME StoreInv, NEW w \in Worker
    PROVE  /\ {t \in TasksOf(tasks, w) : OpenTask(t)}
                = IF workers[w].current = None THEN {} ELSE {workers[w].current}
           /\ workers[w].state \in {"Provisioning", "Waking", "Running"}
                <=> workers[w].current # None
           /\ workers[w].current # None =>
                (workers[w].state = "Running" <=> tasks[workers[w].current].state = "Running")
  BY DEF OneOpenTask
<1>1. workers[w] \in WorkerRecord /\ RecordOK(workers[w]) /\ OnItsTask(workers, tasks, w)
  BY KnownWorker
<1>2. \A t \in TasksOf(tasks, w) : OpenTask(t) => t = workers[w].current /\ t # None
  <2>1. \A t \in Task : HasItsWorker(workers, tasks, t) /\ t # None
    <3>1. None \notin Nat
      BY ConstantsOK DEF ConstantsOK
    <3>2. \A t \in Task : t \in Nat
      BY DEF Task
    <3> QED
      BY <3>1, <3>2 DEF StoreInv, Life
  <2> QED
    BY <2>1 DEF HasItsWorker, TasksOf, OpenTask
<1>3. workers[w].current # None =>
        workers[w].current \in TasksOf(tasks, w) /\ OpenTask(workers[w].current)
  BY <1>1 DEF OnItsTask, WorkerRecord, TasksOf, OpenTask
<1>4. {t \in TasksOf(tasks, w) : OpenTask(t)}
        = IF workers[w].current = None THEN {} ELSE {workers[w].current}
  BY <1>2, <1>3
<1> QED
  BY <1>1, <1>4 DEF RecordOK, OnItsTask

\* Every worker that is launching or running is on exactly one open task of
\* its own, and an idle or retired one on none.
THEOREM TasksAreOwned == Spec => []OneOpenTask
<1>1. StoreInv => OneOpenTask
  BY InvOneOpenTask
<1> QED
  BY <1>1, StoreInvariant, PTL

\* The claim capability exists exactly while the launch is undecided.
THEOREM CapabilityEnds == Spec => []CapabilityIsOneTime
<1>1. StoreInv => CapabilityIsOneTime
  BY DEF StoreInv, Life, RecordOK, CapabilityIsOneTime
<1> QED
  BY <1>1, StoreInvariant, PTL

\* No identity is two workers, or the worker of its own family, and a family's
\* workers are of one account as far as their accounts are told, over all
\* families and whoever claims.
THEOREM BindingsAreExclusive == Spec => []BindingIsExclusive
<1>1. StoreInv => BindingIsExclusive
  BY DEF StoreInv, Binding, BindingIsExclusive
<1> QED
  BY <1>1, StoreInvariant, PTL

LEMMA InvTypeOK == StoreInv => TypeOK
<1> SUFFICES ASSUME StoreInv PROVE TypeOK
  OBVIOUS
<1>1. \A w \in Worker : workers[w].state = "Absent" <=> workers[w] = NoWorker
  BY DEF StoreInv, Life, RecordOK
<1>2. \A t \in Task : tasks[t].state = "Absent" <=> tasks[t] = NoTask
  BY DEF StoreInv, Life, HasItsWorker
<1>3. made \in [worker : Nat, task : Nat, message : Nat, report : Nat, guard : Nat, plan : Nat]
  BY DEF StoreInv, Fresh, Counters
<1>4. batches \in Seq([core : Core, reports : SUBSET Report, tasks : SUBSET Task])
  BY DEF StoreInv, BatchRecord
<1>5. families \subseteq Core /\ reports \subseteq ReportRecord
  BY DEF StoreInv, WithinLimits, StoreFits
<1>6. receipts \subseteq Receipt /\ fences \subseteq Session /\ DOMAIN plan = Core
  BY DEF StoreInv, Receipts
<1>7. workers \in [Worker -> WorkerRecord] /\ tasks \in [Task -> TaskRecord]
  BY DEF StoreInv, Life
<1> QED
  BY <1>1, <1>2, <1>3, <1>4, <1>5, <1>6, <1>7 DEF TypeOK

LEMMA InvValidateAccepts == StoreInv => ValidateAccepts
<1> SUFFICES ASSUME StoreInv PROVE ValidateAccepts
  OBVIOUS
<1>1. StoreFits(families, workers, reports, receipts)
  BY DEF StoreInv, WithinLimits
<1>2. \A c \in Core : FamilyFits(workers, tasks, receipts, c)
  BY DEF StoreInv, WithinLimits
<1>3. ASSUME NEW w \in Worker
      PROVE  /\ workers[w].state # "Absent" => workers[w].core \in families
             /\ workers[w].guard # None => tasks[workers[w].guard.task].worker = w
             /\ Cardinality(TasksOf(tasks, w)) <= MaxTasks
             /\ Cardinality(workers[w].inbox) <= MaxInbox
  <2>1. workers[w] \in WorkerRecord /\ RecordOK(workers[w]) /\ OnItsTask(workers, tasks, w)
    BY KnownWorker
  <2>2. workers[w].state # "Absent" => workers[w].core \in families
    BY <1>1, <2>1 DEF StoreFits, RecordOK
  <2>3. workers[w].guard # None => tasks[workers[w].guard.task].worker = w
    BY <2>1 DEF RecordOK, OnItsTask
  <2>4. Cardinality(TasksOf(tasks, w)) <= MaxTasks
    <3>1. CASE workers[w].core = None
      <4>1. TasksOf(tasks, w) = {}
        <5>1. \A t \in Task : HasItsWorker(workers, tasks, t)
          BY DEF StoreInv, Life
        <5>2. w # None
          BY NoneIsNobody
        <5> QED
          BY <3>1, <5>1, <5>2 DEF HasItsWorker, TasksOf
      <4> QED
        BY <4>1, EmptyFits, LimitsAreNaturals
    <3>2. CASE workers[w].core # None
      <4>1. workers[w].core \in Core /\ w \in WorkersOf(workers, workers[w].core)
        BY <2>1, <3>2 DEF WorkerRecord, WorkersOf
      <4> QED
        BY <1>2, <4>1 DEF FamilyFits
    <3> QED
      BY <3>1, <3>2
  <2> QED
    BY <1>1, <2>2, <2>3, <2>4 DEF StoreFits
<1>4. ASSUME NEW c \in Core
      PROVE  /\ Cardinality({r \in reports : r.core = c}) <= MaxQueued
             /\ \A k \in Kind : Cardinality(ReceiptsOf(k, c)) <= ReceiptLimit(k)
  BY <1>1, <1>2 DEF StoreFits, FamilyFits, ReportsOf, KindOf, ReceiptsOf
<1> QED
  BY <1>1, <1>3, <1>4 DEF ValidateAccepts, StoreFits

LEMMA InvReceiptsMatchTasks == StoreInv => ReceiptsMatchTasks
<1> SUFFICES ASSUME StoreInv PROVE ReceiptsMatchTasks
  OBVIOUS
<1>1. /\ Receipted(workers, tasks, receipts) /\ OneReceipt(receipts)
      /\ NotForgotten(tasks, receipts, batches)
  BY DEF StoreInv, Receipts
<1>2. ASSUME NEW t \in Task, tasks[t].state # "Absent"
      PROVE  /\ Cardinality({r \in Created(receipts) : r.id = t}) = 1
             /\ \A r \in Created(receipts) : r.id = t => r.core = workers[tasks[t].worker].core
  <2>1. PICK r \in Created(receipts) : r.id = t /\ r.core = workers[tasks[t].worker].core
    BY <1>1, <1>2 DEF Receipted
  <2>2. \A q \in Created(receipts) : q.id = t => q = r
    BY <1>1, <2>1 DEF OneReceipt
  <2>3. {q \in Created(receipts) : q.id = t} = {r}
    BY <2>1, <2>2
  <2> QED
    BY <2>1, <2>2, <2>3, FS_Singleton
<1>3. \A r \in Created(receipts) : \/ tasks[r.id].state # "Absent"
                                   \/ \E b \in DOMAIN batches : r.id \in batches[b].tasks
  BY <1>1 DEF NotForgotten, Delivered
<1>4. Created(receipts) = {r \in receipts : r.kind \in {"spawn", "reuse"}}
  BY DEF Created
<1> HIDE DEF Created
<1> QED
  BY <1>2, <1>3, <1>4 DEF ReceiptsMatchTasks

\* What the store keeps always fits together, so the checks that validate
\* makes before each commit never fail: types, limits, guards that name a kept
\* task, and one receipt for every task that is there.
THEOREM StoreIsValid == Spec => []StoreValid
<1>1. StoreInv => StoreValid
  BY InvTypeOK, InvValidateAccepts, InvReceiptsMatchTasks DEF StoreValid
<1> QED
  BY <1>1, StoreInvariant, PTL

\* From here on a step that needs SetWorker says so.
HIDE DEF SetWorker

-----------------------------------------------------------------------------
(* What is over stays over: EndsAreFinal.                                  *)

StaysRetired(w) ==
  workers[w].state = "Retired" =>
    /\ workers'[w].state \in {"Retired", "Absent"}
    /\ workers'[w].chat \in {workers[w].chat, None}

StaysSettled(t) ==
  tasks[t].state \in {"Completed", "Failed"} =>
    \/ tasks'[t] = NoTask
    \/ /\ tasks'[t].state = tasks[t].state
       /\ tasks'[t].outcome = tasks[t].outcome
       /\ tasks[t].collected => tasks'[t].collected

Final == (\A w \in Worker : StaysRetired(w)) /\ (\A t \in Task : StaysSettled(t))

\* A step on one record that is not retired, or that keeps who it is.
LEMMA OneRecordStays ==
  ASSUME StoreInv, NEW w \in Worker, NEW rec,
         workers' = [workers EXCEPT ![w] = rec],
         workers[w].state = "Retired" =>
           rec.state = "Retired" /\ rec.chat = workers[w].chat
  PROVE  \A v \in Worker : StaysRetired(v)
BY DEF StoreInv, Life, StaysRetired

\* One record changes, and no task.
LEMMA RecordStays ==
  ASSUME StoreInv, NEW w \in Worker, NEW rec, SetWorker(w, rec),
         workers[w].state = "Retired" =>
           rec.state = "Retired" /\ rec.chat = workers[w].chat
  PROVE  Final
<1>1. \A v \in Worker : StaysRetired(v)
  BY OneRecordStays DEF SetWorker
<1>2. \A t \in Task : StaysSettled(t)
  BY DEF SetWorker, StaysSettled
<1> QED
  BY <1>1, <1>2 DEF Final

\* A worker on a task is not retired, and the task is open.
LEMMA AtWorkIsOpen ==
  ASSUME StoreInv, NEW w \in Worker, workers[w].current # None
  PROVE  /\ workers[w].state # "Retired"
         /\ workers[w].current \in Task
         /\ tasks[workers[w].current].state \in {"Pending", "Running"}
<1>1. workers[w] \in WorkerRecord /\ RecordOK(workers[w]) /\ OnItsTask(workers, tasks, w)
  BY KnownWorker
<1> QED
  BY <1>1 DEF RecordOK, OnItsTask, WorkerRecord

\* A worker and the task it is on change.
LEMMA RecordAndTaskStay ==
  ASSUME StoreInv, NEW w \in Worker, workers[w].current # None, NEW rec, NEW task,
         SetWorkerAndTask(w, rec, task)
  PROVE  Final
<1>1. /\ workers[w].state # "Retired"
      /\ tasks[workers[w].current].state \in {"Pending", "Running"}
  BY AtWorkIsOpen
<1>2. \A v \in Worker : StaysRetired(v)
  BY <1>1, OneRecordStays DEF SetWorkerAndTask
<1>3. \A t \in Task : StaysSettled(t)
  BY <1>1 DEF SetWorkerAndTask, StaysSettled, StoreInv, Life
<1> QED
  BY <1>2, <1>3 DEF Final

\* Compaction only drops tasks.
LEMMA CompactedStays ==
  ASSUME StoreInv, NEW c, NEW ws, NEW ts, NEW rp, NEW rs, Compacted(c, ws, ts, rp, rs),
         \A w \in Worker : workers[w].state = "Retired" =>
           /\ ws[w].state \in {"Retired", "Absent"}
           /\ ws[w].chat \in {workers[w].chat, None},
         \A t \in Task : tasks[t].state \in {"Completed", "Failed"} =>
           \/ ts[t] = NoTask
           \/ /\ ts[t].state = tasks[t].state /\ ts[t].outcome = tasks[t].outcome
              /\ tasks[t].collected => ts[t].collected
  PROVE  Final
<1>1. workers' = ws /\ tasks' = TrimmedTasks(ws, ts, c)
  BY DEF Compacted
<1>2. \A t \in Task : tasks'[t] = ts[t] \/ tasks'[t] = NoTask
  BY <1>1 DEF TrimmedTasks
<1>3. \A w \in Worker : StaysRetired(w)
  BY <1>1 DEF StaysRetired
<1>4. \A t \in Task : StaysSettled(t)
  BY <1>2 DEF StaysSettled
<1> QED
  BY <1>3, <1>4 DEF Final

LEMMA RemovalStays ==
  ASSUME StoreInv, NEW C, RemoveFamilies(C)
  PROVE  Final
<1>1. Life(workers, tasks)
  BY DEF StoreInv
<1>2. workers' = WorkersWithout(C) /\ tasks' = TasksWithout(C)
  BY DEF RemoveFamilies
<1>3. \A w \in Worker : StaysRetired(w)
  BY <1>1, <1>2, FamiliesGo, Blank DEF StaysRetired
<1>4. \A t \in Task : StaysSettled(t)
  BY <1>1, <1>2, FamiliesGo DEF StaysSettled
<1> QED
  BY <1>3, <1>4 DEF Final

LEMMA NothingMoves ==
  ASSUME UNCHANGED <<workers, tasks>>
  PROVE  Final
BY DEF Final, StaysRetired, StaysSettled

-----------------------------------------------------------------------------

LEMMA SpawnIsFinal ==
  ASSUME StoreInv, NEW c \in Core, NEW op \in Op, SpawnWorker(c, op)
  PROVE  Final
<1> DEFINE w == made.worker + 1
           t == made.task + 1
<1>1. PICK gone \in {{}} \cup {{d} : d \in families} :
        Compacted(c,
          [WorkersWithout(gone) EXCEPT ![w] =
             [NoWorker EXCEPT !.core = c, !.state = "Provisioning",
                !.launch = "Queued", !.token = TRUE, !.current = t]],
          [TasksWithout(gone) EXCEPT ![t] = PendingTask(w)],
          Others(reports, gone),
          Others(receipts, gone) \cup {Record("spawn", c, op, t)})
  BY DEF SpawnWorker
<1>2. /\ w > made.worker /\ t > made.task
      /\ w \in Worker => workers[w] = NoWorker
      /\ t \in Task => tasks[t] = NoTask
  BY DEF StoreInv, Fresh, Counters
<1> DEFINE rec == [NoWorker EXCEPT !.core = c, !.state = "Provisioning",
                     !.launch = "Queued", !.token = TRUE, !.current = t]
           ws == [WorkersWithout(gone) EXCEPT ![w] = rec]
           ts == [TasksWithout(gone) EXCEPT ![t] = PendingTask(w)]
<1> HIDE DEF w, t, rec
<1>3. Life(workers, tasks)
  BY DEF StoreInv
<1>4. /\ \A v \in Worker : v # w => ws[v] = IF workers[v].core \in gone THEN NoWorker ELSE workers[v]
      /\ \A u \in Task : u # t => ts[u] = TasksWithout(gone)[u]
  BY <1>3 DEF WorkersWithout, TasksWithout
<1>5. \A v \in Worker : workers[v].state = "Retired" =>
           /\ ws[v].state \in {"Retired", "Absent"}
           /\ ws[v].chat \in {workers[v].chat, None}
  BY <1>2, <1>4, Blank
<1>6. \A u \in Task : tasks[u].state \in {"Completed", "Failed"} =>
           \/ ts[u] = NoTask
           \/ /\ ts[u].state = tasks[u].state /\ ts[u].outcome = tasks[u].outcome
              /\ tasks[u].collected => ts[u].collected
  BY <1>2, <1>3, <1>4, Blank, FamiliesGo
<1>7. Compacted(c, ws, ts, Others(reports, gone),
                Others(receipts, gone) \cup {Record("spawn", c, op, t)})
  BY <1>1 DEF rec, w, t
<1> HIDE DEF ws, ts
<1> QED
  BY <1>5, <1>6, <1>7, CompactedStays

LEMMA ReuseIsFinal ==
  ASSUME StoreInv, NEW w \in Worker, NEW op \in Op, ReuseWorker(w, op)
  PROVE  Final
<1> DEFINE c == workers[w].core
           t == made.task + 1
           rec == [workers[w] EXCEPT !.state = "Waking", !.launch = "Queued",
                     !.command = None, !.current = t, !.guard = None]
           ws == [workers EXCEPT ![w] = rec]
           ts == [tasks EXCEPT ![t] = PendingTask(w)]
<1>1. Compacted(c, ws, ts, reports, receipts \cup {Record("reuse", c, op, t)})
  BY DEF ReuseWorker
<1>2. workers[w].state = "Idle" /\ (t \in Task => tasks[t] = NoTask)
  BY DEF ReuseWorker, StoreInv, Fresh, Counters
<1> HIDE DEF c, t, rec
<1>3. \A v \in Worker : v # w => ws[v] = workers[v]
  BY DEF StoreInv, Life
<1>4. \A u \in Task : u # t => ts[u] = tasks[u]
  BY DEF StoreInv, Life
<1>5. \A v \in Worker : workers[v].state = "Retired" =>
           /\ ws[v].state \in {"Retired", "Absent"}
           /\ ws[v].chat \in {workers[v].chat, None}
  BY <1>2, <1>3
<1>6. \A u \in Task : tasks[u].state \in {"Completed", "Failed"} =>
           \/ ts[u] = NoTask
           \/ /\ ts[u].state = tasks[u].state /\ ts[u].outcome = tasks[u].outcome
              /\ tasks[u].collected => ts[u].collected
  BY <1>2, <1>4, Blank
<1> HIDE DEF ws, ts
<1> QED
  BY <1>1, <1>5, <1>6, CompactedStays

LEMMA MessageIsFinal ==
  ASSUME StoreInv, NEW w \in Worker, NEW op \in Op, MessageWorker(w, op)
  PROVE  Final
<1> DEFINE c == workers[w].core
           m == made.message + 1
           ws == [workers EXCEPT ![w].inbox = @ \cup {m}]
<1>1. Compacted(c, ws, tasks, reports, receipts \cup {Record("message", c, op, m)})
  BY DEF MessageWorker
<1>2. \A v \in Worker : ws[v].state = workers[v].state /\ ws[v].chat = workers[v].chat
  BY DEF StoreInv, Life, WorkerRecord
<1> HIDE DEF ws
<1> QED
  BY <1>1, <1>2, CompactedStays

LEMMA ReportIsFinal ==
  ASSUME StoreInv, NEW w \in Worker, NEW op \in Op, ReportWorker(w, op)
  PROVE  Final
<1>1. PICK c, rp, rs : Compacted(c, workers, tasks, rp, rs)
  BY DEF ReportWorker
<1> QED
  BY <1>1, CompactedStays

LEMMA CollectIsFinal ==
  ASSUME StoreInv, NEW c \in Core, NEW op \in Op, CollectUpdates(c, op)
  PROVE  Final
<1>1. PICK S \in DueOutcomes(c) : \E rp, rs : Compacted(c, workers, Told(S), rp, rs)
  BY DEF CollectUpdates
<1>2. \A t \in Task : /\ Told(S)[t].state = tasks[t].state
                      /\ Told(S)[t].outcome = tasks[t].outcome
                      /\ tasks[t].collected => Told(S)[t].collected
  BY DEF Told, StoreInv, Life, TaskRecord
<1> QED
  BY <1>1, <1>2, CompactedStays

LEMMA ForgetIsFinal ==
  ASSUME StoreInv, NEW w \in Worker, ForgetSpawn(w) \/ ForgetReuse(w)
  PROVE  Final
<1>1. workers[w].current # None
  BY DEF ForgetSpawn, ForgetReuse, HasPending
<1>2. workers[w].state # "Retired"
  BY <1>1, AtWorkIsOpen
<1>3. \E rec : workers' = [workers EXCEPT ![w] = rec]
  BY DEF ForgetSpawn, ForgetReuse
<1>4. \A v \in Worker : StaysRetired(v)
  BY <1>2, <1>3, OneRecordStays
<1>5. \A t \in Task : tasks'[t] = tasks[t] \/ tasks'[t] = NoTask
  BY DEF ForgetSpawn, ForgetReuse, StoreInv, Life
<1> QED
  BY <1>4, <1>5 DEF Final, StaysSettled

LEMMA ExpireIsFinal ==
  ASSUME StoreInv, NEW C, ExpireWaitingClaims(C)
  PROVE  Final
<1>1. \A w \in Worker : workers[w].state # "Provisioning" => workers'[w] = workers[w]
  BY DEF ExpireWaitingClaims, AwaitsClaim
<1>2. \A t \in Task : tasks[t].state # "Pending" => tasks'[t] = tasks[t]
  BY DEF ExpireWaitingClaims
<1> QED
  BY <1>1, <1>2 DEF Final, StaysRetired, StaysSettled

\* Links, mirrors, deadlines, messages read, guards and the retirement of an
\* idle worker change one record, and neither whose it is nor its chat.
LEMMA RecordSteps ==
  ASSUME StoreInv, NEW w \in Worker,
         \/ \E m \in Command : LinkLaunchCommand(w, m)
         \/ \E m \in Mirrored : UpdateLaunchByCommand(w, m[1], m[2])
         \/ GraceEnds(w)
         \/ \E m \in Message : AcknowledgeMessage(w, m)
         \/ RetireIdle(w)
         \/ \E g \in 1 .. NumGuards : ClearRecoveryGuard(w, g)
         \/ GuardAges(w)
  PROVE  \E rec : /\ SetWorker(w, rec)
                  /\ rec.core = workers[w].core /\ rec.chat = workers[w].chat
                  /\ rec.state \in {workers[w].state, "Retired"}
<1>1. workers[w] \in WorkerRecord
  BY KnownWorker
<1>2. ASSUME NEW m \in Command, LinkLaunchCommand(w, m)
      PROVE  \E rec : /\ SetWorker(w, rec) /\ rec.state = workers[w].state
                      /\ rec.core = workers[w].core /\ rec.chat = workers[w].chat
  <2> DEFINE url == workers[w].url /\ workers[w].state # "Provisioning"
             rec == [workers[w] EXCEPT !.command = m, !.launch = "Queued", !.url = url]
  <2>1. SetWorker(w, rec)
    BY <1>2 DEF LinkLaunchCommand
  <2> HIDE DEF url
  <2>2. /\ rec.state = workers[w].state /\ rec.core = workers[w].core
        /\ rec.chat = workers[w].chat
    BY <1>1 DEF WorkerRecord
  <2> HIDE DEF rec
  <2> QED
    BY <2>1, <2>2
<1>3. ASSUME NEW m \in Mirrored, UpdateLaunchByCommand(w, m[1], m[2])
      PROVE  \E rec : /\ SetWorker(w, rec) /\ rec.state = workers[w].state
                      /\ rec.core = workers[w].core /\ rec.chat = workers[w].chat
  <2> DEFINE url == workers[w].url \/ m[2]
             wait == CASE m[1] = "WaitingClaim" /\ workers[w].chat = None ->
                            IF workers[w].wait = "No" THEN "Waiting" ELSE workers[w].wait
                       [] m[1] \in {"Paused", "Failed"} -> "No"
                       [] OTHER -> workers[w].wait
             rec == [workers[w] EXCEPT !.launch = m[1], !.url = url, !.wait = wait]
  <2>1. SetWorker(w, rec)
    BY <1>3 DEF UpdateLaunchByCommand
  <2> HIDE DEF url, wait
  <2>2. /\ rec.state = workers[w].state /\ rec.core = workers[w].core
        /\ rec.chat = workers[w].chat
    BY <1>1 DEF WorkerRecord
  <2> HIDE DEF rec
  <2> QED
    BY <2>1, <2>2
<1>4. CASE GraceEnds(w)
  BY <1>1, <1>4 DEF GraceEnds, WorkerRecord
<1>5. CASE \E m \in Message : AcknowledgeMessage(w, m)
  BY <1>1, <1>5 DEF AcknowledgeMessage, WorkerRecord
<1>6. CASE RetireIdle(w)
  <2>1. SetWorker(w, Gone(workers[w]))
    BY <1>6 DEF RetireIdle
  <2>2. /\ Gone(workers[w]).core = workers[w].core /\ Gone(workers[w]).chat = workers[w].chat
        /\ Gone(workers[w]).state = "Retired"
    BY <1>1 DEF Gone, WorkerRecord
  <2> QED
    BY <2>1, <2>2
<1>7. CASE \E g \in 1 .. NumGuards : ClearRecoveryGuard(w, g)
  BY <1>1, <1>7 DEF ClearRecoveryGuard, WorkerRecord
<1>8. CASE GuardAges(w)
  BY <1>1, <1>8 DEF GuardAges, WorkerRecord
<1> QED
  BY <1>2, <1>3, <1>4, <1>5, <1>6, <1>7, <1>8

LEMMA RecordStepIsFinal ==
  ASSUME StoreInv, NEW w \in Worker,
         \/ \E m \in Command : LinkLaunchCommand(w, m)
         \/ \E m \in Mirrored : UpdateLaunchByCommand(w, m[1], m[2])
         \/ GraceEnds(w)
         \/ \E m \in Message : AcknowledgeMessage(w, m)
         \/ RetireIdle(w)
         \/ \E g \in 1 .. NumGuards : ClearRecoveryGuard(w, g)
         \/ GuardAges(w)
  PROVE  Final
BY RecordSteps, RecordStays

LEMMA GuardIsFinal ==
  ASSUME StoreInv, NEW w \in Worker, BeginRecoveryGuard(w)
  PROVE  Final
<1>1. workers[w].state # "Retired" /\ \E rec : workers' = [workers EXCEPT ![w] = rec]
  BY DEF BeginRecoveryGuard, StoreInv, Life
<1>2. \A v \in Worker : StaysRetired(v)
  BY <1>1, OneRecordStays
<1>3. \A t \in Task : StaysSettled(t)
  BY DEF BeginRecoveryGuard, StaysSettled
<1> QED
  BY <1>2, <1>3 DEF Final

\* A pending retirement, failures and cancellations of a launch, and what the
\* worker's own conversation does to its task: the task stays the worker's, and
\* nothing is said of it before it ends.
LEMMA TaskSteps ==
  ASSUME StoreInv, NEW w \in Worker,
         \/ RetirePending(w) \/ SettlePreSendFailure(w) \/ CancelUnclaimedAfterSend(w)
         \/ \E h \in Chat : ClaimWorkerAttested(w, h)
         \/ StartTask(w) \/ FinishTask(w)
  PROVE  LET t == workers[w].current IN
         /\ t # None
         /\ \E rec, task :
              /\ SetWorkerAndTask(w, rec, task) /\ rec.core = workers[w].core
              /\ task.worker = tasks[t].worker /\ task.collected = tasks[t].collected
              /\ task.state \in {"Pending", "Running"} => task.outcome = tasks[t].outcome
<1> DEFINE t == workers[w].current
           Does(rec, task) ==
              /\ SetWorkerAndTask(w, rec, task) /\ rec.core = workers[w].core
              /\ task.worker = tasks[t].worker /\ task.collected = tasks[t].collected
              /\ task.state \in {"Pending", "Running"} => task.outcome = tasks[t].outcome
<1>1. t # None
  BY DEF RetirePending, SettlePreSendFailure, CancelUnclaimedAfterSend,
         ClaimWorkerAttested, StartTask, FinishTask, HasPending, AtWork
<1>2. workers[w] \in WorkerRecord /\ tasks[t] \in TaskRecord
  BY <1>1, KnownWorker
<1>3. CASE RetirePending(w)
  <2>1. Does(Gone(workers[w]), [tasks[t] EXCEPT !.state = "Failed"])
    BY <1>2, <1>3 DEF RetirePending, Gone, WorkerRecord, TaskRecord
  <2> QED
    BY <1>1, <2>1
<1>4. CASE SettlePreSendFailure(w)
  <2> DEFINE fresh == workers[w].state = "Provisioning" /\ workers[w].chat = None
             idle == [Reidled(workers[w]) EXCEPT !.wait = "No"]
             rec == IF fresh THEN GaveUp(workers[w]) ELSE idle
  <2>1. GaveUp(workers[w]).core = workers[w].core
    BY <1>2 DEF GaveUp, Gone, WorkerRecord
  <2>2. idle.core = workers[w].core
    BY <1>2 DEF Reidled, WorkerRecord
  <2>3. SetWorkerAndTask(w, rec, FailedTask(tasks[t]))
    BY <1>4 DEF SettlePreSendFailure
  <2>4. /\ FailedTask(tasks[t]).worker = tasks[t].worker
        /\ FailedTask(tasks[t]).collected = tasks[t].collected
        /\ FailedTask(tasks[t]).state = "Failed"
    BY <1>2 DEF FailedTask, TaskRecord
  <2> HIDE DEF fresh, idle
  <2> QED
    BY <1>1, <2>1, <2>2, <2>3, <2>4
<1>5. CASE CancelUnclaimedAfterSend(w)
  <2>1. Does(GaveUp(workers[w]), FailedTask(tasks[t]))
    BY <1>2, <1>5 DEF CancelUnclaimedAfterSend, GaveUp, Gone, FailedTask, WorkerRecord, TaskRecord
  <2> QED
    BY <1>1, <2>1
<1>6. ASSUME NEW h \in Chat, ClaimWorkerAttested(w, h) PROVE \E rec, task : Does(rec, task)
  <2>1. Does([workers[w] EXCEPT !.chat = h, !.token = FALSE, !.wait = "No",
                                !.state = "Provisioning", !.launch = "Claimed"],
             [tasks[t] EXCEPT !.state = "Pending"])
    BY <1>2, <1>6 DEF ClaimWorkerAttested, WorkerRecord, TaskRecord
  <2> QED
    BY <2>1
<1>7. CASE StartTask(w)
  <2>1. Does([workers[w] EXCEPT !.state = "Running", !.launch = "Claimed"],
             [tasks[t] EXCEPT !.state = "Running"])
    BY <1>2, <1>7 DEF StartTask, WorkerRecord, TaskRecord
  <2> QED
    BY <1>1, <2>1
<1>8. CASE FinishTask(w)
  <2> DEFINE guard == IF workers[w].guard # None /\ workers[w].guard.task = t THEN None
                      ELSE workers[w].guard
             rec == [workers[w] EXCEPT !.current = None, !.state = "Idle", !.guard = guard]
             task == [tasks[t] EXCEPT !.state = "Completed", !.outcome = "result"]
  <2>1. SetWorkerAndTask(w, rec, task)
    BY <1>8 DEF FinishTask
  <2> HIDE DEF guard
  <2>2. /\ rec.core = workers[w].core
        /\ task.worker = tasks[t].worker /\ task.collected = tasks[t].collected
        /\ task.state = "Completed"
    BY <1>2 DEF WorkerRecord, TaskRecord
  <2> HIDE DEF rec, task
  <2> QED
    BY <1>1, <2>1, <2>2
<1> QED
  BY <1>1, <1>3, <1>4, <1>5, <1>6, <1>7, <1>8

LEMMA TaskStepIsFinal ==
  ASSUME StoreInv, NEW w \in Worker,
         \/ RetirePending(w) \/ SettlePreSendFailure(w) \/ CancelUnclaimedAfterSend(w)
         \/ \E h \in Chat : ClaimWorkerAttested(w, h)
         \/ StartTask(w) \/ FinishTask(w)
  PROVE  Final
BY TaskSteps, RecordAndTaskStay

LEMMA StepIsFinal == StoreInv /\ Next => Final
<1> SUFFICES ASSUME StoreInv, Next PROVE Final
  OBVIOUS
<1>1. CASE CoreStep
  BY <1>1, SpawnIsFinal, CollectIsFinal, ReuseIsFinal, MessageIsFinal, RecordStepIsFinal,
     TaskStepIsFinal, ForgetIsFinal
     DEF CoreStep, RollbackUnlinkedSpawn, RollbackUnlinkedReuse, RollbackLinkedSpawn,
         RollbackLinkedReuse
<1>2. CASE LaunchStep
  BY <1>2, RecordStepIsFinal, TaskStepIsFinal DEF LaunchStep
<1>3. CASE WorkerStep
  BY <1>3, RecordStepIsFinal, TaskStepIsFinal, ReportIsFinal DEF WorkerStep
<1>4. CASE RecoveryStep
  BY <1>4, RecordStepIsFinal, GuardIsFinal DEF RecoveryStep
<1>5. CASE HostStep
  BY <1>5, ExpireIsFinal, RemovalStays, NothingMoves
     DEF HostStep, ClearFamilyForAnchor, ClearAllWorkers, ClearFamilies, PurgeWorkspace,
         FenceLapses, PreviewCleanup, CleanupInactiveFamilies
<1> QED
  BY <1>1, <1>2, <1>3, <1>4, <1>5 DEF Next

\* Nothing that retires a worker is undone and no settled task is settled
\* again (workers/broker.rs): a late finish, mirror update, rollback or failure
\* finds the worker or its task in a state that refuses it.
THEOREM RetiredAndSettledAreFinal == Spec => EndsAreFinal
<1>1. StoreInv /\ [Next]_vars =>
        [/\ \A w \in Worker : workers[w].state = "Retired" =>
              /\ workers'[w].state \in {"Retired", "Absent"}
              /\ workers'[w].chat \in {workers[w].chat, None}
         /\ \A t \in Task : tasks[t].state \in {"Completed", "Failed"} =>
              \/ tasks'[t] = NoTask
              \/ /\ tasks'[t].state = tasks[t].state
                 /\ tasks'[t].outcome = tasks[t].outcome
                 /\ tasks[t].collected => tasks'[t].collected]_vars
  BY StepIsFinal DEF Final, StaysRetired, StaysSettled
<1> QED
  BY <1>1, StoreInvariant, PTL DEF Spec, EndsAreFinal

-----------------------------------------------------------------------------
(* Updates: the broker implements UpdateMailbox.                           *)

Reported(bs, i) == \E b \in DOMAIN bs : i \in bs[b].reports

\* What was delivered is marked or gone, what is open has nothing to tell yet,
\* and no report that waits has been, or shares its number with one that was.
MailInv ==
  /\ \A t \in Task : Delivered(batches, t) => tasks[t].collected \/ tasks[t] = NoTask
  /\ \A t \in Task : tasks[t].state \in {"Pending", "Running"} => tasks[t].outcome = "none"
  /\ \A i \in Report : Reported(batches, i) => i <= made.report
  /\ \A r \in reports : r.id <= made.report /\ ~Reported(batches, r.id)
  /\ \A r, q \in reports : r.id = q.id => r = q

LEMMA InFamily ==
  ASSUME NEW ws, NEW ts, NEW c, NEW t
  PROVE  t \in FamilyTasks(ws, ts, c) <=>
           t \in Task /\ ts[t].worker \in Worker /\ ws[ts[t].worker].core = c
BY DEF FamilyTasks, WorkersOf, TasksOf

WaitingReport(c, i) == \E r \in reports : r.core = c /\ r.id = i
WaitingTask(c, t) ==
  /\ t \in Task /\ tasks[t].worker \in Worker
  /\ workers[tasks[t].worker].core = c
  /\ Undelivered(tasks[t])

\* What waits for a Core and what was delivered, member by member.
MailIs ==
  /\ DOMAIN PendingUpdates = Core
  /\ \A c \in Core : \A u : u \in PendingUpdates[c] <=>
       \/ \E i : WaitingReport(c, i) /\ u = <<"report", i>>
       \/ \E t : WaitingTask(c, t) /\ u = <<"task", t>>
  /\ \A u : u \in DeliveredUpdates <=>
       \/ \E i : Reported(batches, i) /\ u = <<"report", i>>
       \/ \E t : Delivered(batches, t) /\ u = <<"task", t>>

LEMMA MailIsIt == MailIs
<1>1. DOMAIN PendingUpdates = Core
  BY DEF PendingUpdates
<1>2. ASSUME NEW c \in Core, NEW u
      PROVE  u \in PendingUpdates[c] <=>
               \/ \E i : WaitingReport(c, i) /\ u = <<"report", i>>
               \/ \E t : WaitingTask(c, t) /\ u = <<"task", t>>
  <2>1. \A t : WaitingTask(c, t) <=>
          t \in {s \in FamilyTasks(workers, tasks, c) : Undelivered(tasks[s])}
    BY InFamily DEF WaitingTask
  <2>2. PendingUpdates[c] =
          {<<"report", r.id>> : r \in {r \in reports : r.core = c}}
          \cup {<<"task", t>> : t \in {t \in FamilyTasks(workers, tasks, c) : Undelivered(tasks[t])}}
    BY DEF PendingUpdates
  <2> QED
    BY <2>1, <2>2 DEF WaitingReport
<1>3. ASSUME NEW u
      PROVE  u \in DeliveredUpdates <=>
               \/ \E i : Reported(batches, i) /\ u = <<"report", i>>
               \/ \E t : Delivered(batches, t) /\ u = <<"task", t>>
  <2>1. u \in DeliveredUpdates <=>
          \E b \in DOMAIN batches :
             u \in ({"report"} \X batches[b].reports) \cup ({"task"} \X batches[b].tasks)
    BY DEF DeliveredUpdates
  <2> QED
    BY <2>1 DEF Reported, Delivered
<1> QED
  BY <1>1, <1>2, <1>3 DEF MailIs

\* What waits keeps waiting, and what newly waits was never delivered.
LEMMA Posts ==
  ASSUME MailInv', UNCHANGED batches, reports \subseteq reports',
         \A c \in Core, t \in Task : WaitingTask(c, t) => WaitingTask(c, t)'
  PROVE  Mailbox!Post
<1>1. MailIs /\ MailIs'
  BY MailIsIt, PTL
<1>2. \A c, i : WaitingReport(c, i) => WaitingReport(c, i)'
  BY DEF WaitingReport
<1>3. \A c \in Core : PendingUpdates[c] \subseteq PendingUpdates'[c]
  BY <1>1, <1>2 DEF MailIs, WaitingTask
<1>4. UNCHANGED DeliveredUpdates
  BY DEF DeliveredUpdates
<1>5. ASSUME NEW c \in Core, NEW u \in PendingUpdates'[c] PROVE u \notin DeliveredUpdates
  <2>1. ASSUME NEW i, WaitingReport(c, i)', u = <<"report", i>> PROVE u \notin DeliveredUpdates
    <3>1. ~Reported(batches, i)
      BY <2>1 DEF WaitingReport, MailInv
    <3> QED
      BY <1>1, <2>1, <3>1 DEF MailIs
  <2>2. ASSUME NEW t, WaitingTask(c, t)', u = <<"task", t>> PROVE u \notin DeliveredUpdates
    <3>1. ~Delivered(batches, t)
      BY <2>2, Blank DEF WaitingTask, MailInv, Undelivered
    <3> QED
      BY <1>1, <2>2, <3>1 DEF MailIs
  <2> QED
    BY <1>1, <1>5, <2>1, <2>2 DEF MailIs
<1> QED
  BY <1>3, <1>4, <1>5 DEF Mailbox!Post

TaskMove(t) ==
  \/ tasks'[t] = tasks[t]
  \/ tasks'[t] = NoTask
  \/ t > made.task /\ tasks'[t].outcome = "none"
  \/ /\ tasks[t].state \in {"Pending", "Running"}
     /\ tasks'[t].worker = tasks[t].worker /\ tasks'[t].collected = tasks[t].collected
     /\ tasks'[t].state \in {"Pending", "Running"} => tasks'[t].outcome = "none"

\* No batch, no report, and no task but a new one that the past speaks of.
LEMMA MailStays ==
  ASSUME StoreInv, MailInv, UNCHANGED batches, reports' \subseteq reports,
         made'.report = made.report, \A t \in Task : TaskMove(t)
  PROVE  MailInv'
<1>1. \A t \in Task : Delivered(batches, t) => tasks'[t].collected \/ tasks'[t] = NoTask
  <2> TAKE t \in Task
  <2> HAVE Delivered(batches, t)
  <2>1. (tasks[t].collected \/ tasks[t] = NoTask) /\ ~(t > made.task)
    BY DEF MailInv, StoreInv, HandedOut, Fresh, Counters, Task
  <2> QED
    BY <2>1, Blank DEF TaskMove
<1>2. \A t \in Task : tasks'[t].state \in {"Pending", "Running"} => tasks'[t].outcome = "none"
  BY Blank DEF MailInv, TaskMove
<1> QED
  BY <1>1, <1>2 DEF MailInv

\* Of the tasks with something to tell none moves, and none changes hands.
LEMMA Quiet ==
  ASSUME StoreInv, MailInv, UNCHANGED <<batches, reports>>,
         made'.report = made.report,
         \A t \in Task : TaskMove(t) /\ (tasks'[t] = NoTask => ~Undelivered(tasks[t])),
         \A w \in Worker : \/ workers'[w].core = workers[w].core
                           \/ \A t \in Task : tasks[t].worker = w => ~Undelivered(tasks[t])
  PROVE  MailInv' /\ Mailbox!Post
<1>1. MailInv'
  BY MailStays
<1>2. ASSUME NEW c \in Core, NEW t \in Task, WaitingTask(c, t) PROVE WaitingTask(c, t)'
  <2>1. Undelivered(tasks[t]) /\ tasks[t].worker \in Worker
        /\ workers[tasks[t].worker].core = c
    BY <1>2 DEF WaitingTask
  <2>2. tasks[t].outcome # "none"
    BY <2>1 DEF Undelivered
  <2>3. ~(t > made.task) /\ tasks[t].state \notin {"Pending", "Running"}
    BY <2>2, Blank DEF StoreInv, Fresh, MailInv
  <2>4. tasks'[t] = tasks[t]
    BY <2>1, <2>3 DEF TaskMove
  <2>5. workers'[tasks[t].worker].core = c
    BY <2>1
  <2> QED
    BY <2>1, <2>4, <2>5 DEF WaitingTask
<1> QED
  BY <1>1, <1>2, Posts

Mailed == MailInv' /\ [Mailbox!Next]_<<PendingUpdates, DeliveredUpdates>>

LEMMA PostIsNext == Mailbox!Post => Mailbox!Next
BY DEF Mailbox!Next

\* A step on records alone.
LEMMA RecordsAlone ==
  ASSUME StoreInv, MailInv, UNCHANGED <<tasks, batches, reports>>,
         made'.report = made.report,
         \A w \in Worker : workers'[w].core = workers[w].core
  PROVE  Mailed
<1>1. \A t \in Task : tasks'[t] = NoTask => ~Undelivered(tasks[t])
  BY Blank DEF Undelivered
<1> QED
  BY <1>1, Quiet, PostIsNext DEF TaskMove, Mailed

LEMMA RecordStepMails ==
  ASSUME StoreInv, MailInv, NEW w \in Worker,
         \/ \E m \in Command : LinkLaunchCommand(w, m)
         \/ \E m \in Mirrored : UpdateLaunchByCommand(w, m[1], m[2])
         \/ GraceEnds(w)
         \/ \E m \in Message : AcknowledgeMessage(w, m)
         \/ RetireIdle(w)
         \/ \E g \in 1 .. NumGuards : ClearRecoveryGuard(w, g)
         \/ GuardAges(w)
  PROVE  Mailed
<1>1. PICK rec : SetWorker(w, rec) /\ rec.core = workers[w].core
  BY RecordSteps
<1>2. \A v \in Worker : workers'[v].core = workers[v].core
  BY <1>1 DEF SetWorker, StoreInv, Life
<1> QED
  BY <1>1, <1>2, RecordsAlone DEF SetWorker

LEMMA GuardMails ==
  ASSUME StoreInv, MailInv, NEW w \in Worker, BeginRecoveryGuard(w)
  PROVE  Mailed
<1>1. \A v \in Worker : workers'[v].core = workers[v].core
  BY DEF BeginRecoveryGuard, StoreInv, Life, WorkerRecord
<1>2. made'.report = made.report
  BY DEF BeginRecoveryGuard, StoreInv, Fresh, Counters
<1> QED
  BY <1>1, <1>2, RecordsAlone DEF BeginRecoveryGuard

LEMMA TaskStepMails ==
  ASSUME StoreInv, MailInv, NEW w \in Worker,
         \/ RetirePending(w) \/ SettlePreSendFailure(w) \/ CancelUnclaimedAfterSend(w)
         \/ \E h \in Chat : ClaimWorkerAttested(w, h)
         \/ StartTask(w) \/ FinishTask(w)
  PROVE  Mailed
<1> DEFINE t == workers[w].current
<1>1. t # None
  BY TaskSteps
<1>2. PICK rec, task :
        /\ SetWorkerAndTask(w, rec, task) /\ rec.core = workers[w].core
        /\ task.worker = tasks[t].worker /\ task.collected = tasks[t].collected
        /\ task.state \in {"Pending", "Running"} => task.outcome = tasks[t].outcome
  BY TaskSteps
<1>3. t \in Task /\ tasks[t].state \in {"Pending", "Running"} /\ tasks[t].outcome = "none"
  BY <1>1, AtWorkIsOpen DEF MailInv
<1>4. tasks'[t] = task /\ \A u \in Task : u # t => tasks'[u] = tasks[u]
  BY <1>2, <1>3 DEF SetWorkerAndTask, StoreInv, Life
<1>5. \A v \in Worker : workers'[v].core = workers[v].core
  BY <1>2 DEF SetWorkerAndTask, StoreInv, Life
<1>6. \A u \in Task : TaskMove(u)
  BY <1>2, <1>3, <1>4 DEF TaskMove
<1>7. \A u \in Task : tasks'[u] = NoTask => ~Undelivered(tasks[u])
  BY <1>3, <1>4, Blank DEF Undelivered
<1>8. UNCHANGED <<batches, reports, made>>
  BY <1>2 DEF SetWorkerAndTask
<1> QED
  BY <1>5, <1>6, <1>7, <1>8, Quiet, PostIsNext DEF Mailed

LEMMA ExpireMails ==
  ASSUME StoreInv, MailInv, NEW C, ExpireWaitingClaims(C)
  PROVE  Mailed
<1>1. UNCHANGED <<batches, reports, made>>
  BY DEF ExpireWaitingClaims
<1>2. \A w \in Worker : workers'[w].core = workers[w].core
  BY DEF ExpireWaitingClaims, GaveUp, Gone, StoreInv, Life, WorkerRecord
<1>3. \A t \in Task : \/ tasks'[t] = tasks[t]
                      \/ tasks[t].state = "Pending" /\ tasks'[t] = FailedTask(tasks[t])
  BY DEF ExpireWaitingClaims
<1>4. ASSUME NEW t \in Task
      PROVE  /\ FailedTask(tasks[t]).worker = tasks[t].worker
             /\ FailedTask(tasks[t]).collected = tasks[t].collected
             /\ FailedTask(tasks[t]).state = "Failed"
  BY DEF FailedTask, StoreInv, Life, TaskRecord
<1>5. \A t \in Task : TaskMove(t) /\ (tasks'[t] = NoTask => ~Undelivered(tasks[t]))
  BY <1>3, <1>4, Blank DEF TaskMove, Undelivered, MailInv
<1> QED
  BY <1>1, <1>2, <1>5, Quiet, PostIsNext DEF Mailed

LEMMA ForgetMails ==
  ASSUME StoreInv, MailInv, NEW w \in Worker, ForgetSpawn(w) \/ ForgetReuse(w)
  PROVE  Mailed
<1> DEFINE t == workers[w].current
<1>1. /\ t # None /\ UNCHANGED <<batches, reports, made>>
      /\ workers[w].state \in {"Provisioning", "Waking"}
  BY DEF ForgetSpawn, ForgetReuse, HasPending
<1>2. t \in Task /\ tasks[t].outcome = "none" /\ tasks[t].worker = w
  BY <1>1, AtWorkIsOpen, KnownWorker DEF MailInv
<1>3. \A u \in Task : u # t => \/ tasks'[u] = tasks[u]
                               \/ tasks'[u] = NoTask /\ workers[w].state = "Provisioning"
                                  /\ tasks[u].worker = w
  BY <1>1, <1>2 DEF ForgetSpawn, ForgetReuse, HasPending, StoreInv, Life
<1>4. workers[w].state = "Provisioning" => \A u \in Task : tasks[u].worker = w => u = t
  BY DEF StoreInv, Receipts, CameFrom
<1>5. tasks'[t] = NoTask
  BY <1>2 DEF ForgetSpawn, ForgetReuse, StoreInv, Life
<1>6. \A u \in Task : TaskMove(u) /\ (tasks'[u] = NoTask => ~Undelivered(tasks[u]))
  BY <1>2, <1>3, <1>4, <1>5, Blank DEF TaskMove, Undelivered
<1>7. \A v \in Worker : \/ workers'[v].core = workers[v].core
                        \/ \A u \in Task : tasks[u].worker = v => ~Undelivered(tasks[u])
  <2>1. CASE ForgetSpawn(w)
    <3>1. workers[w].state = "Provisioning" /\ workers' = [workers EXCEPT ![w] = NoWorker]
      BY <2>1 DEF ForgetSpawn, HasPending
    <3>2. \A u \in Task : tasks[u].worker = w => ~Undelivered(tasks[u])
      BY <1>2, <1>4, <3>1 DEF Undelivered
    <3> QED
      BY <3>1, <3>2 DEF StoreInv, Life
  <2>2. CASE ForgetReuse(w)
    <3>1. Reidled(workers[w]).core = workers[w].core
      BY KnownWorker DEF Reidled, WorkerRecord
    <3> QED
      BY <2>2, <3>1 DEF ForgetReuse, StoreInv, Life
  <2> QED
    BY <2>1, <2>2
<1> QED
  BY <1>1, <1>6, <1>7, Quiet, PostIsNext DEF Mailed

\* Compaction drops only what was collected.
LEMMA TrimOnly ==
  ASSUME NEW ws, NEW ts, NEW c, NEW t \in Task
  PROVE  \/ TrimmedTasks(ws, ts, c)[t] = ts[t]
         \/ TrimmedTasks(ws, ts, c)[t] = NoTask /\ ts[t].collected
BY DEF TrimmedTasks, Trimmable, TasksOf

LEMMA MessageMails ==
  ASSUME StoreInv, MailInv, NEW w \in Worker, NEW op \in Op, MessageWorker(w, op)
  PROVE  Mailed
<1> DEFINE c == workers[w].core
           m == made.message + 1
           ws == [workers EXCEPT ![w].inbox = @ \cup {m}]
<1>1. Compacted(c, ws, tasks, reports, receipts \cup {Record("message", c, op, m)})
  BY DEF MessageWorker
<1>2. \A v \in Worker : ws[v].core = workers[v].core
  BY DEF StoreInv, Life, WorkerRecord
<1>3. made'.report = made.report /\ UNCHANGED batches
  BY DEF MessageWorker, StoreInv, Fresh, Counters
<1> HIDE DEF ws, c, m
<1>4. workers' = ws /\ UNCHANGED reports /\ tasks' = TrimmedTasks(ws, tasks, c)
  BY <1>1 DEF Compacted
<1>5. \A t \in Task : TaskMove(t) /\ (tasks'[t] = NoTask => ~Undelivered(tasks[t]))
  BY <1>4, TrimOnly, Blank DEF TaskMove, Undelivered
<1> QED
  BY <1>2, <1>3, <1>4, <1>5, Quiet, PostIsNext DEF Mailed

LEMMA ReportMails ==
  ASSUME StoreInv, MailInv, NEW w \in Worker, NEW op \in Op, ReportWorker(w, op)
  PROVE  Mailed
<1> DEFINE c == workers[w].core
           r == made.report + 1
           new == [id |-> r, core |-> c, worker |-> w]
<1>1. /\ Compacted(c, workers, tasks, reports \cup {new},
                   receipts \cup {Record("report", c, op, r)})
      /\ made' = [made EXCEPT !.report = r]
      /\ UNCHANGED batches
  BY DEF ReportWorker
<1>2. /\ UNCHANGED workers /\ reports' = reports \cup {new}
      /\ tasks' = TrimmedTasks(workers, tasks, c)
  BY <1>1 DEF Compacted
<1>3. made.report \in Nat /\ made'.report = made.report + 1
  BY <1>1 DEF StoreInv, Fresh, Counters
<1>4. \A q \in reports : q.id \in Nat
  BY DEF StoreInv, WithinLimits, StoreFits, ReportRecord, Report
<1>5. new.id = made.report + 1
  OBVIOUS
<1> HIDE DEF new
<1>6. \A t \in Task : tasks'[t] = tasks[t] \/ (tasks'[t] = NoTask /\ tasks[t].collected)
  BY <1>2, TrimOnly
<1>7. MailInv'
  <2>1. \A t \in Task : Delivered(batches', t) => tasks'[t].collected \/ tasks'[t] = NoTask
    BY <1>1, <1>6 DEF MailInv
  <2>2. \A t \in Task : tasks'[t].state \in {"Pending", "Running"} => tasks'[t].outcome = "none"
    BY <1>6, Blank DEF MailInv
  <2>3. \A i \in Report : Reported(batches', i) => i <= made'.report
    BY <1>1, <1>3 DEF MailInv, Report
  <2>4. r \in Report
    BY <1>3, ConstantsOK DEF ReportWorker, Report, ConstantsOK
  <2>5. ~Reported(batches', r)
    BY <1>1, <1>3, <2>4 DEF MailInv
  <2>6. \A q \in reports' : q.id <= made'.report /\ ~Reported(batches', q.id)
    BY <1>1, <1>2, <1>3, <1>4, <1>5, <2>5 DEF MailInv
  <2>7. \A p, q \in reports' : p.id = q.id => p = q
    BY <1>2, <1>3, <1>4, <1>5 DEF MailInv
  <2> QED
    BY <2>1, <2>2, <2>3, <2>6, <2>7 DEF MailInv
<1>8. \A d \in Core, t \in Task : WaitingTask(d, t) => WaitingTask(d, t)'
  BY <1>2, <1>6 DEF WaitingTask, Undelivered
<1> QED
  BY <1>1, <1>2, <1>7, <1>8, Posts, PostIsNext DEF Mailed

LEMMA ReuseMails ==
  ASSUME StoreInv, MailInv, NEW w \in Worker, NEW op \in Op, ReuseWorker(w, op)
  PROVE  Mailed
<1> DEFINE c == workers[w].core
           t == made.task + 1
           rec == [workers[w] EXCEPT !.state = "Waking", !.launch = "Queued",
                     !.command = None, !.current = t, !.guard = None]
           ws == [workers EXCEPT ![w] = rec]
           ts == [tasks EXCEPT ![t] = PendingTask(w)]
<1>1. Compacted(c, ws, ts, reports, receipts \cup {Record("reuse", c, op, t)})
  BY DEF ReuseWorker
<1>2. rec.core = workers[w].core
  BY KnownWorker DEF WorkerRecord
<1>3. made'.report = made.report /\ UNCHANGED batches
  BY DEF ReuseWorker, StoreInv, Fresh, Counters
<1>4. t > made.task /\ (t \in Task => tasks[t] = NoTask)
  BY DEF StoreInv, Fresh, Counters
<1> HIDE DEF c, t, rec
<1>5. \A v \in Worker : ws[v].core = workers[v].core
  BY <1>2 DEF StoreInv, Life
<1>6. \A u \in Task : ts[u] = IF u = t THEN PendingTask(w) ELSE tasks[u]
  BY DEF StoreInv, Life
<1> HIDE DEF ws, ts
<1>7. workers' = ws /\ UNCHANGED reports /\ tasks' = TrimmedTasks(ws, ts, c)
  BY <1>1 DEF Compacted
<1>8. \A u \in Task : TaskMove(u) /\ (tasks'[u] = NoTask => ~Undelivered(tasks[u]))
  BY <1>4, <1>6, <1>7, TrimOnly, PendingIsTask, Blank DEF TaskMove, Undelivered
<1> QED
  BY <1>3, <1>5, <1>7, <1>8, Quiet, PostIsNext DEF Mailed

\* A family that may be released has nothing its Core has yet to hear.
LEMMA ReleasedIsTold ==
  ASSUME NEW c, SafeToRelease(c)
  PROVE  /\ \A r \in reports : r.core # c
         /\ \A w \in WorkersOf(workers, c), t \in Task :
              tasks[t].worker = w => ~Undelivered(tasks[t])
BY DEF SafeToRelease, TasksOf, SettledAndDelivered, Undelivered

LEMMA SpawnMails ==
  ASSUME StoreInv, MailInv, NEW c \in Core, NEW op \in Op, SpawnWorker(c, op)
  PROVE  Mailed
<1> DEFINE w == made.worker + 1
           t == made.task + 1
           rec == [NoWorker EXCEPT !.core = c, !.state = "Provisioning",
                     !.launch = "Queued", !.token = TRUE, !.current = t]
<1>1. PICK gone \in {{}} \cup {{d} : d \in families} :
        /\ MakesRoom(c, gone)
        /\ Compacted(c, [WorkersWithout(gone) EXCEPT ![w] = rec],
             [TasksWithout(gone) EXCEPT ![t] = PendingTask(w)],
             Others(reports, gone),
             Others(receipts, gone) \cup {Record("spawn", c, op, t)})
  BY DEF SpawnWorker
<1> DEFINE ws == [WorkersWithout(gone) EXCEPT ![w] = rec]
           ts == [TasksWithout(gone) EXCEPT ![t] = PendingTask(w)]
<1>2. made'.report = made.report /\ UNCHANGED batches /\ w \in Worker
  <2>1. /\ made \in Counters /\ made.worker < NumWorkers /\ UNCHANGED batches
        /\ made' = [made EXCEPT !.worker = @ + 1, !.task = @ + 1]
    BY DEF SpawnWorker, StoreInv, Fresh
  <2>2. made'.report = made.report
    BY <2>1 DEF Counters
  <2>3. w \in Worker
    BY <2>1, ConstantsOK DEF Counters, Worker, ConstantsOK
  <2> QED
    BY <2>1, <2>2, <2>3
<1>3. /\ t > made.task /\ (t \in Task => tasks[t] = NoTask)
      /\ w \in Worker => workers[w] = NoWorker
  BY DEF StoreInv, Fresh, Counters
<1> HIDE DEF w, t, rec
<1>4. \A d \in gone : SafeToRelease(d)
  BY <1>1 DEF MakesRoom, Reclaimable
<1>5. Others(reports, gone) = reports
  BY <1>4, ReleasedIsTold DEF Others
<1>6. Life(workers, tasks)
  BY DEF StoreInv
<1>7. \A v \in Worker : v # w => ws[v] = IF workers[v].core \in gone THEN NoWorker ELSE workers[v]
  BY <1>6 DEF WorkersWithout
<1>8. \A u \in Task : ts[u] = IF u = t THEN PendingTask(w) ELSE TasksWithout(gone)[u]
  BY <1>6, FamiliesGo DEF TasksWithout
<1>9. \A v \in Worker : workers[v].core \in gone =>
        \A u \in Task : tasks[u].worker = v => ~Undelivered(tasks[u])
  BY <1>4, ReleasedIsTold DEF WorkersOf
<1>10. \A u \in Task : tasks[u].worker # w
  <2> SUFFICES ASSUME NEW u \in Task, tasks[u].worker = w PROVE FALSE
    OBVIOUS
  <2>1. w # None
    BY <1>2, NoneIsNobody
  <2>2. workers[w].core # None
    BY <1>6, <2>1 DEF Life, HasItsWorker
  <2> QED
    BY <1>2, <1>3, <2>2, Blank
<1>11. /\ workers' = ws /\ tasks' = TrimmedTasks(ws, ts, c) /\ UNCHANGED reports
  BY <1>1, <1>5 DEF Compacted
<1> HIDE DEF ws, ts
<1>12. \A v \in Worker : \/ workers'[v].core = workers[v].core
                         \/ \A u \in Task : tasks[u].worker = v => ~Undelivered(tasks[u])
  BY <1>7, <1>9, <1>10, <1>11
<1>13. ASSUME NEW u \in Task
       PROVE  TaskMove(u) /\ (tasks'[u] = NoTask => ~Undelivered(tasks[u]))
  <2>1. tasks'[u] = ts[u] \/ (tasks'[u] = NoTask /\ ts[u].collected)
    BY <1>11, TrimOnly
  <2>2. CASE u = t
    BY <1>2, <1>3, <1>8, <2>1, <2>2, PendingIsTask, Blank DEF TaskMove, Undelivered
  <2>3. CASE u # t
    <3>1. ts[u] = TasksWithout(gone)[u]
      BY <1>8, <2>3
    <3>2. tasks[u].worker \in Worker \cup {None} /\ (tasks[u].worker = None => tasks[u] = NoTask)
      BY <1>6 DEF Life, TaskRecord, HasItsWorker
    <3>3. CASE tasks[u].worker = None
      BY <1>6, <2>1, <3>1, <3>2, <3>3, FamiliesGo, Blank DEF TaskMove, Undelivered
    <3>4. CASE tasks[u].worker # None /\ workers[tasks[u].worker].core \in gone
      BY <1>6, <1>9, <2>1, <3>1, <3>2, <3>4, FamiliesGo, Blank DEF TaskMove
    <3>5. CASE tasks[u].worker # None /\ workers[tasks[u].worker].core \notin gone
      <4>1. ts[u] = tasks[u]
        BY <1>6, <3>1, <3>5, FamiliesGo
      <4> QED
        BY <2>1, <4>1, Blank DEF TaskMove, Undelivered
    <3> QED
      BY <3>3, <3>4, <3>5
  <2> QED
    BY <2>2, <2>3
<1> QED
  BY <1>2, <1>11, <1>12, <1>13, Quiet, PostIsNext DEF Mailed

\* What a batch delivers of the reports stays delivered.
LEMMA BatchReports ==
  ASSUME StoreInv, NEW c \in Core, NEW due, NEW S,
         batches' = Append(batches, [core |-> c, reports |-> due, tasks |-> S])
  PROVE  \A i : Reported(batches', i) <=> (Reported(batches, i) \/ i \in due)
<1> DEFINE new == [core |-> c, reports |-> due, tasks |-> S]
<1>1. batches \in Seq(BatchRecord)
  BY DEF StoreInv
<1>2. /\ Len(batches) \in Nat /\ DOMAIN batches = 1 .. Len(batches)
      /\ DOMAIN batches' = 1 .. (Len(batches) + 1)
      /\ \A b \in 1 .. Len(batches) : batches'[b] = batches[b]
      /\ batches'[Len(batches) + 1] = new
  BY <1>1
<1>3. new.reports = due
  OBVIOUS
<1> HIDE DEF new
<1> SUFFICES ASSUME NEW i
             PROVE  Reported(batches', i) <=> (Reported(batches, i) \/ i \in due)
  OBVIOUS
<1>4. ASSUME Reported(batches', i) PROVE Reported(batches, i) \/ i \in due
  <2>1. PICK b \in DOMAIN batches' : i \in batches'[b].reports
    BY <1>4 DEF Reported
  <2>2. b \in DOMAIN batches \/ b = Len(batches) + 1
    BY <1>2
  <2> QED
    BY <1>2, <1>3, <2>1, <2>2 DEF Reported
<1>5. ASSUME Reported(batches, i) PROVE Reported(batches', i)
  <2>1. PICK b \in DOMAIN batches : i \in batches[b].reports
    BY <1>5 DEF Reported
  <2>2. b \in DOMAIN batches' /\ batches'[b] = batches[b]
    BY <1>2
  <2> QED
    BY <2>1, <2>2 DEF Reported
<1>6. ASSUME i \in due PROVE Reported(batches', i)
  <2>1. Len(batches) + 1 \in DOMAIN batches'
    BY <1>2
  <2> QED
    BY <1>2, <1>3, <1>6, <2>1 DEF Reported
<1> QED
  BY <1>4, <1>5, <1>6

\* A batch takes from its Core what it delivers, and from no other.
LEMMA CollectMails ==
  ASSUME StoreInv, MailInv, NEW c \in Core, NEW op \in Op, CollectUpdates(c, op)
  PROVE  Mailed
<1> DEFINE due == DueReports(c)
<1>1. PICK outcomes \in DueOutcomes(c) :
        /\ due # {} \/ outcomes # {}
        /\ Compacted(c, workers, Told(outcomes), {r \in reports : r.id \notin due},
             receipts \cup {Record("collect", c, op, Len(batches) + 1)})
        /\ batches' = Append(batches, [core |-> c, reports |-> due, tasks |-> outcomes])
  BY DEF CollectUpdates
<1>2. /\ UNCHANGED workers /\ reports' = {r \in reports : r.id \notin due}
      /\ tasks' = TrimmedTasks(workers, Told(outcomes), c)
  BY <1>1 DEF Compacted
<1>3. UNCHANGED made
  BY DEF CollectUpdates
<1>4. /\ \A t \in outcomes : WaitingTask(c, t)
      /\ \A i \in due : WaitingReport(c, i) /\ i \in Report
      /\ due \subseteq Report /\ outcomes \subseteq Task
  <2>1. \A t \in outcomes : WaitingTask(c, t)
    BY InFamily DEF DueOutcomes, WaitingTask
  <2>2. \A i \in due : WaitingReport(c, i)
    BY DEF DueReports, Oldest, WaitingReport
  <2>3. due \subseteq Report
    BY <2>2 DEF WaitingReport, StoreInv, WithinLimits, StoreFits, ReportRecord
  <2> QED
    BY <2>1, <2>2, <2>3 DEF WaitingTask
<1> HIDE DEF due
<1>5. /\ \A t : Delivered(batches', t) <=> (Delivered(batches, t) \/ t \in outcomes)
      /\ \A i : Reported(batches', i) <=> (Reported(batches, i) \/ i \in due)
  BY <1>1, <1>4, BatchAppended, BatchReports
<1>6. ASSUME NEW t \in Task
      PROVE  /\ t \notin outcomes => Told(outcomes)[t] = tasks[t]
             /\ t \in outcomes => /\ Told(outcomes)[t].collected
                                  /\ Told(outcomes)[t].state = tasks[t].state
                                  /\ Told(outcomes)[t].outcome = tasks[t].outcome
                                  /\ Told(outcomes)[t].worker = tasks[t].worker
  BY DEF Told, StoreInv, Life, TaskRecord
<1>7. ASSUME NEW t \in Task
      PROVE  \/ tasks'[t] = Told(outcomes)[t]
             \/ tasks'[t] = NoTask /\ Told(outcomes)[t].collected
  BY <1>2, TrimOnly
<1>8. MailInv'
  <2>1. \A t \in Task : Delivered(batches', t) => tasks'[t].collected \/ tasks'[t] = NoTask
    BY <1>5, <1>6, <1>7, Blank DEF MailInv
  <2>2. \A t \in Task : tasks'[t].state \in {"Pending", "Running"} => tasks'[t].outcome = "none"
    BY <1>6, <1>7, Blank DEF MailInv
  <2>3. \A i \in Report : Reported(batches', i) => i <= made'.report
    BY <1>3, <1>4, <1>5 DEF MailInv, WaitingReport
  <2>4. \A r \in reports' : r.id <= made'.report /\ ~Reported(batches', r.id)
    BY <1>2, <1>3, <1>5 DEF MailInv
  <2>5. \A r, q \in reports' : r.id = q.id => r = q
    BY <1>2 DEF MailInv
  <2> QED
    BY <2>1, <2>2, <2>3, <2>4, <2>5 DEF MailInv
<1>9. MailIs /\ MailIs'
  BY MailIsIt, PTL
<1>10. ASSUME NEW d \in Core, NEW i
       PROVE  WaitingReport(d, i)' <=> WaitingReport(d, i) /\ (d # c \/ i \notin due)
  BY <1>2, <1>4 DEF WaitingReport, MailInv
<1>11. ASSUME NEW d \in Core, NEW t
       PROVE  WaitingTask(d, t)' <=> WaitingTask(d, t) /\ (d # c \/ t \notin outcomes)
  <2>1. CASE t \in Task /\ t \in outcomes
    BY <1>2, <1>4, <1>6, <1>7, <2>1, Blank DEF WaitingTask, Undelivered
  <2>2. CASE t \in Task /\ t \notin outcomes
    BY <1>2, <1>6, <1>7, <2>2, Blank DEF WaitingTask, Undelivered
  <2> QED
    BY <2>1, <2>2 DEF WaitingTask
<1> DEFINE S == ({"report"} \X due) \cup ({"task"} \X outcomes)
<1>12. \A u : u \in S <=> \/ \E i : i \in due /\ u = <<"report", i>>
                          \/ \E t : t \in outcomes /\ u = <<"task", t>>
  OBVIOUS
<1> HIDE DEF S
<1>13. S \subseteq PendingUpdates[c] /\ S # {}
  <2>1. S \subseteq PendingUpdates[c]
    BY <1>4, <1>9, <1>12 DEF MailIs
  <2>2. S # {}
    BY <1>1, <1>12
  <2> QED
    BY <2>1, <2>2
<1>14. ASSUME NEW d \in Core
       PROVE  PendingUpdates'[d] = IF d = c THEN PendingUpdates[d] \ S ELSE PendingUpdates[d]
  <2>1. ASSUME NEW u
        PROVE  u \in PendingUpdates'[d] <=> u \in PendingUpdates[d] /\ (d # c \/ u \notin S)
    <3>1. u \in PendingUpdates'[d] <=>
            \/ \E i : WaitingReport(d, i)' /\ u = <<"report", i>>
            \/ \E t : WaitingTask(d, t)' /\ u = <<"task", t>>
      BY <1>9 DEF MailIs
    <3>2. u \in PendingUpdates[d] <=>
            \/ \E i : WaitingReport(d, i) /\ u = <<"report", i>>
            \/ \E t : WaitingTask(d, t) /\ u = <<"task", t>>
      BY <1>9 DEF MailIs
    <3> QED
      BY <1>10, <1>11, <1>12, <3>1, <3>2
  <2> QED
    BY <2>1
<1>15. PendingUpdates' = [PendingUpdates EXCEPT ![c] = @ \ S]
  <2>1. /\ PendingUpdates = [d \in Core |-> PendingUpdates[d]]
        /\ PendingUpdates' = [d \in Core |-> PendingUpdates'[d]]
    BY DEF PendingUpdates
  <2> QED
    BY <1>14, <2>1
<1>16. DeliveredUpdates' = DeliveredUpdates \cup S
  <2>1. ASSUME NEW u PROVE u \in DeliveredUpdates' <=> u \in DeliveredUpdates \/ u \in S
    <3>1. u \in DeliveredUpdates' <=>
            \/ \E i : Reported(batches', i) /\ u = <<"report", i>>
            \/ \E t : Delivered(batches', t) /\ u = <<"task", t>>
      BY <1>9 DEF MailIs
    <3>2. u \in DeliveredUpdates <=>
            \/ \E i : Reported(batches, i) /\ u = <<"report", i>>
            \/ \E t : Delivered(batches, t) /\ u = <<"task", t>>
      BY <1>9 DEF MailIs
    <3> QED
      BY <1>5, <1>12, <3>1, <3>2
  <2> QED
    BY <2>1
<1>17. Mailbox!Deliver(c)
  BY <1>13, <1>15, <1>16 DEF Mailbox!Deliver
<1> QED
  BY <1>8, <1>17 DEF Mailed, Mailbox!Next

\* A family that goes takes what it has not collected with it.
LEMMA RemovalMails ==
  ASSUME StoreInv, MailInv, NEW C \in SUBSET Core, RemoveFamilies(C)
  PROVE  Mailed
<1>1. /\ workers' = WorkersWithout(C) /\ tasks' = TasksWithout(C)
      /\ reports' = {r \in reports : r.core \notin C} /\ UNCHANGED <<made, batches>>
  BY DEF RemoveFamilies, Others
<1>2. Life(workers, tasks) /\ None \notin Core /\ None \notin Worker
  <2>1. None \notin Core
    BY ConstantsOK DEF ConstantsOK
  <2>2. None \notin Worker
    BY NoneIsNobody
  <2> QED
    BY <2>1, <2>2 DEF StoreInv
<1>3. MailInv'
  BY <1>1, <1>2, FamiliesGo, MailStays DEF TaskMove
<1>4. MailIs /\ MailIs'
  BY MailIsIt, PTL
<1>5. ASSUME NEW d \in Core, NEW i
      PROVE  WaitingReport(d, i)' <=> WaitingReport(d, i) /\ d \notin C
  BY <1>1 DEF WaitingReport
<1>6. ASSUME NEW d \in Core, NEW t
      PROVE  WaitingTask(d, t)' <=> WaitingTask(d, t) /\ d \notin C
  <2>1. CASE t \in Task /\ tasks[t].worker \in Worker
    BY <1>1, <1>2, <2>1, FamiliesGo, Blank DEF WaitingTask
  <2>2. CASE t \in Task /\ tasks[t].worker \notin Worker
    BY <1>1, <1>2, <2>2, FamiliesGo, Blank DEF WaitingTask
  <2> QED
    BY <2>1, <2>2 DEF WaitingTask
<1>7. ASSUME NEW d \in Core
      PROVE  PendingUpdates'[d] = IF d \in C THEN {} ELSE PendingUpdates[d]
  <2>1. ASSUME NEW u PROVE u \in PendingUpdates'[d] <=> u \in PendingUpdates[d] /\ d \notin C
    BY <1>4, <1>5, <1>6 DEF MailIs
  <2> QED
    BY <2>1
<1>8. PendingUpdates' = [d \in Core |-> IF d \in C THEN {} ELSE PendingUpdates[d]]
  <2>1. PendingUpdates' = [d \in Core |-> PendingUpdates'[d]]
    BY DEF PendingUpdates
  <2> QED
    BY <1>7, <2>1
<1>9. UNCHANGED DeliveredUpdates
  BY <1>1 DEF DeliveredUpdates
<1> QED
  BY <1>3, <1>8, <1>9 DEF Mailed, Mailbox!Destroy, Mailbox!Next

LEMMA MailStart == Init => MailInv /\ Mailbox!Init
<1> SUFFICES ASSUME Init PROVE MailInv /\ Mailbox!Init
  OBVIOUS
<1> USE DEF Init
<1>1. batches = <<>> /\ DOMAIN batches = {} /\ reports = {}
  OBVIOUS
<1>2. \A c, t : ~WaitingTask(c, t)
  BY Blank DEF WaitingTask, Undelivered
<1>3. MailInv
  BY <1>1, Blank DEF MailInv, Delivered, Reported
<1>4. DeliveredUpdates = {}
  BY <1>1 DEF DeliveredUpdates
<1>5. \A c \in Core : PendingUpdates[c] = {}
  BY <1>1, <1>2, MailIsIt DEF MailIs, WaitingReport
<1>6. PendingUpdates = [c \in Core |-> {}]
  <2>1. PendingUpdates = [c \in Core |-> PendingUpdates[c]]
    BY DEF PendingUpdates
  <2> QED
    BY <1>5, <2>1
<1> QED
  BY <1>3, <1>4, <1>6 DEF Mailbox!Init

LEMMA MailStep == StoreInv /\ MailInv /\ [Next]_vars => Mailed
<1> SUFFICES ASSUME StoreInv, MailInv, [Next]_vars PROVE Mailed
  OBVIOUS
<1>1. CASE CoreStep
  BY <1>1, SpawnMails, CollectMails, ReuseMails, MessageMails, RecordStepMails,
     TaskStepMails, ForgetMails
     DEF CoreStep, RollbackUnlinkedSpawn, RollbackUnlinkedReuse, RollbackLinkedSpawn,
         RollbackLinkedReuse
<1>2. CASE LaunchStep
  BY <1>2, RecordStepMails, TaskStepMails DEF LaunchStep
<1>3. CASE WorkerStep
  BY <1>3, RecordStepMails, TaskStepMails, ReportMails DEF WorkerStep
<1>4. CASE RecoveryStep
  BY <1>4, RecordStepMails, GuardMails DEF RecoveryStep
<1>5. CASE HostStep
  <2>1. families \subseteq Core
    BY DEF StoreInv, WithinLimits, StoreFits
  <2>2. ASSUME NEW c \in Core, ClearFamilyForAnchor(c) PROVE Mailed
    BY <2>2, RemovalMails DEF ClearFamilyForAnchor, ClearFamilies
  <2>3. CASE ClearAllWorkers \/ PurgeWorkspace
    BY <2>1, <2>3, RemovalMails DEF ClearAllWorkers, ClearFamilies, PurgeWorkspace
  <2>4. CASE CleanupInactiveFamilies
    BY <2>4, RemovalMails DEF CleanupInactiveFamilies
  <2>5. ASSUME NEW s \in Session, FenceLapses(s) PROVE Mailed
    BY <2>5, RecordsAlone DEF FenceLapses
  <2>6. CASE PreviewCleanup
    <3>1. made'.report = made.report
      BY <2>6 DEF PreviewCleanup, StoreInv, Fresh, Counters
    <3> QED
      BY <2>6, <3>1, RecordsAlone DEF PreviewCleanup
  <2> QED
    BY <1>5, <2>2, <2>3, <2>4, <2>5, <2>6, ExpireMails DEF HostStep
<1>6. CASE UNCHANGED vars
  BY <1>6, RecordsAlone DEF vars
<1> QED
  BY <1>1, <1>2, <1>3, <1>4, <1>5, <1>6 DEF Next

\* The broker implements UpdateMailbox (workers/broker.rs): a report or an
\* outcome once posted waits for its Core until one batch delivers it, no update
\* is in two batches, and only the removal of the whole family loses one that
\* waits; compaction, reuse, timeouts and reclaiming lose and repeat none.
THEOREM UpdatesAreKept == Spec => ImplementsMailbox
<1>1. Init => MailInv /\ Mailbox!Init
  BY MailStart
<1>2. StoreInv /\ MailInv /\ [Next]_vars => MailInv' /\ [Mailbox!Next]_<<PendingUpdates, DeliveredUpdates>>
  BY MailStep DEF Mailed
<1> QED
  BY <1>1, <1>2, StoreInvariant, PTL DEF Spec, ImplementsMailbox, Mailbox!Spec

-----------------------------------------------------------------------------
(* The replay window of collect.                                           *)

\* A set of receipts has as many ids as members.
LEMMA AsManyIds ==
  ASSUME NEW R, IsFiniteSet(R), \A r, q \in R : r.id = q.id => r = q
  PROVE  IsFiniteSet({r.id : r \in R}) /\ Cardinality({r.id : r \in R}) = Cardinality(R)
<1> DEFINE ids == {r.id : r \in R}
           f == [r \in R |-> r.id]
<1>1. f \in Bijection(R, ids)
  BY DEF Bijection, Injection, Surjection, IsInjective
<1>2. ExistsBijection(R, ids)
  BY <1>1 DEF ExistsBijection
<1> QED
  BY <1>2, FS_Bijection

\* Of a finite set of naturals, those below a later member are more.
LEMMA Below ==
  ASSUME NEW S \in SUBSET Nat, IsFiniteSet(S), NEW i \in S, NEW j \in S
  PROVE  LET below(k) == {m \in S : m < k}
         IN  /\ Cardinality(below(i)) \in Nat
             /\ i < j => Cardinality(below(i)) < Cardinality(below(j))
             /\ (\A k \in S : k <= i) => Cardinality(below(i)) = Cardinality(S) - 1
<1> DEFINE below(k) == {m \in S : m < k}
<1>1. ASSUME NEW k \in S PROVE IsFiniteSet(below(k)) /\ Cardinality(below(k)) \in Nat
  <2>1. below(k) \subseteq S
    OBVIOUS
  <2> HIDE DEF below
  <2> QED
    BY <2>1, FS_Subset, FS_CardinalityType
<1>2. ASSUME i < j PROVE Cardinality(below(i)) < Cardinality(below(j))
  <2>0. S \subseteq Nat /\ i \in Nat /\ j \in Nat
    OBVIOUS
  <2>1. below(i) \subseteq below(j) /\ i \in below(j) /\ i \notin below(i)
    <3>1. ASSUME NEW m \in below(i) PROVE m \in below(j)
      <4>1. m \in S /\ m \in Nat /\ m < i
        BY <2>0
      <4>2. m < j
        BY <1>2, <2>0, <4>1
      <4> QED
        BY <4>1, <4>2
    <3>2. ~(i < i)
      BY <2>0
    <3> QED
      BY <1>2, <3>1, <3>2
  <2>2. IsFiniteSet(below(j)) /\ Cardinality(below(i)) \in Nat /\ Cardinality(below(j)) \in Nat
    BY <1>1
  <2> HIDE DEF below
  <2>3. Cardinality(below(i)) <= Cardinality(below(j))
    BY <2>1, <2>2, FS_Subset
  <2>4. Cardinality(below(j)) # Cardinality(below(i))
    BY <2>1, <2>2, FS_Subset
  <2> QED
    BY <2>2, <2>3, <2>4
<1>3. ASSUME \A k \in S : k <= i PROVE Cardinality(below(i)) = Cardinality(S) - 1
  <2>1. below(i) = S \ {i}
    <3>1. ASSUME NEW m \in S PROVE m < i <=> m # i
      BY <1>3
    <3> QED
      BY <3>1
  <2> QED
    BY <2>1, FS_RemoveElement
<1> QED
  BY <1>1, <1>2, <1>3

\* At most n members have fewer than n below them.
LEMMA OldestAreFew ==
  ASSUME NEW S \in SUBSET Nat, IsFiniteSet(S), NEW n \in Nat
  PROVE  Cardinality(Oldest(S, n)) <= n
<1> DEFINE O == Oldest(S, n)
           rank(i) == Cardinality({j \in S : j < i})
           f == [i \in O |-> rank(i)]
<1>1. O = {i \in S : rank(i) < n}
  BY DEF Oldest
<1>2. \A i \in S : rank(i) \in Nat
  BY Below
<1>3. \A i, j \in S : i < j => rank(i) < rank(j)
  BY Below
<1> HIDE DEF rank, O
<1>4. f \in [O -> 0 .. n - 1]
  BY <1>1, <1>2
<1>5. ASSUME NEW i \in O, NEW j \in O, f[i] = f[j] PROVE i = j
  <2>1. i \in Nat /\ j \in Nat /\ i \in S /\ j \in S
    BY <1>1
  <2>2. rank(i) = rank(j) /\ rank(i) \in Nat
    BY <1>2, <1>5, <2>1
  <2> QED
    BY <1>3, <2>1, <2>2
<1>6. f \in Injection(O, 0 .. n - 1)
  BY <1>4, <1>5 DEF Injection, IsInjective
<1>7. IsFiniteSet(0 .. n - 1) /\ Cardinality(0 .. n - 1) = n
  BY FS_Interval
<1>8. Cardinality(O) <= n
  BY <1>6, <1>7, FS_Injection
<1> QED
  BY <1>8 DEF O

\* What pruning drops is older than what it keeps, of which there are then at
\* least L, and the newest stays.
LEMMA PrunedWindow ==
  ASSUME NEW R, IsFiniteSet(R), \A r \in R : r.id \in Nat,
         \A r, q \in R : r.id = q.id => r = q, NEW L \in Nat
  PROVE  /\ Pruned(R, {}, L) \subseteq R
         /\ \A r \in R \ Pruned(R, {}, L) :
              /\ \A q \in Pruned(R, {}, L) : q.id > r.id
              /\ Cardinality(Pruned(R, {}, L)) >= L
         /\ Cardinality(R) <= L => Pruned(R, {}, L) = R
         /\ L > 0 => \A r \in R : (\A q \in R : q.id <= r.id) => r \in Pruned(R, {}, L)
<1> DEFINE ids == {r.id : r \in R}
           n == Cardinality(R) - L
           dropped == Oldest(ids, n)
           P == Pruned(R, {}, L)
           rank(i) == Cardinality({j \in ids : j < i})
<1>1. P = {r \in R : r.id \notin dropped}
  <2>1. ids \ {} = ids
    OBVIOUS
  <2> QED
    BY <2>1 DEF Pruned
<1>2. /\ IsFiniteSet(ids) /\ Cardinality(ids) = Cardinality(R)
      /\ ids \in SUBSET Nat /\ Cardinality(R) \in Nat
  BY AsManyIds, FS_CardinalityType
<1>3. \A r \in R : r.id \in ids
  OBVIOUS
<1>4. dropped = {i \in ids : rank(i) < n}
  BY DEF Oldest
<1>5. /\ \A i \in ids : rank(i) \in Nat
      /\ \A i, j \in ids : i < j => rank(i) < rank(j)
      /\ \A i \in ids : (\A k \in ids : k <= i) => rank(i) = Cardinality(ids) - 1
  <2> HIDE DEF ids
  <2> QED
    BY <1>2, Below
<1>6. n \in Int
  BY <1>2
<1> HIDE DEF rank
<1>7. Cardinality(R) <= L => P = R
  BY <1>1, <1>2, <1>4, <1>5
<1>8. ASSUME NEW r \in R \ P PROVE \A q \in P : q.id > r.id
  <2>1. r.id \in dropped /\ r.id \in ids /\ rank(r.id) < n
    BY <1>1, <1>3, <1>4
  <2>2. ASSUME NEW q \in P PROVE q.id > r.id
    <3>1. q.id \in ids /\ ~(rank(q.id) < n)
      BY <1>1, <1>3, <1>4, <2>2
    <3>2. rank(q.id) \in Nat /\ rank(r.id) \in Nat /\ q.id \in Nat /\ r.id \in Nat
      BY <1>2, <1>5, <2>1, <3>1
    <3>3. ~(q.id < r.id)
      BY <1>5, <1>6, <2>1, <3>1, <3>2
    <3>4. q.id # r.id
      BY <2>1, <3>1
    <3> QED
      BY <3>2, <3>3, <3>4
  <2> QED
    BY <2>2
<1>9. ASSUME L > 0, NEW r \in R, \A q \in R : q.id <= r.id PROVE r \in P
  <2>0. r.id \in ids /\ \A k \in ids : k <= r.id
    BY <1>9
  <2>1. rank(r.id) = Cardinality(R) - 1
    <3> HIDE DEF ids
    <3> QED
      BY <1>2, <1>5, <2>0
  <2> QED
    <3>1. ~(rank(r.id) < n)
      BY <1>2, <1>9, <2>1
    <3>2. r.id \notin dropped
      BY <1>4, <3>1
    <3> QED
      BY <1>1, <1>9, <3>2
<1>10. ASSUME NEW r \in R \ P PROVE Cardinality(P) >= L
  <2>1. r.id \in dropped /\ n \in Nat
    <3>1. r.id \in dropped
      BY <1>1, <1>10
    <3>2. rank(r.id) \in Nat /\ rank(r.id) < n
      BY <1>4, <1>5, <3>1
    <3> HIDE DEF n
    <3>3. n \in Nat
      BY <1>6, <3>2
    <3> QED
      BY <3>1, <3>3
  <2>2. Cardinality(dropped) <= n
    <3> HIDE DEF ids, n
    <3> QED
      BY <1>2, <2>1, OldestAreFew
  <2>3. IsFiniteSet(dropped) /\ IsFiniteSet(ids \ dropped) /\ dropped \subseteq ids
    BY <1>2, <1>4, FS_Subset
  <2> HIDE DEF dropped
  <2>4. Cardinality(ids) = Cardinality(ids \ dropped) + Cardinality(dropped)
    <3> DEFINE kept == ids \ dropped
    <3>1. ids = kept \cup dropped /\ kept \cap dropped = {} /\ IsFiniteSet(kept)
      BY <2>3
    <3> HIDE DEF kept, ids
    <3>2. Cardinality(kept \cup dropped) =
            Cardinality(kept) + Cardinality(dropped) - Cardinality(kept \cap dropped)
      BY <2>3, <3>1, FS_Union
    <3>3. Cardinality(kept \cap dropped) = 0
      BY <3>1, FS_EmptySet
    <3>4. Cardinality(kept) \in Nat /\ Cardinality(dropped) \in Nat
      BY <2>3, <3>1, FS_CardinalityType
    <3>5. Cardinality(ids) = Cardinality(kept) + Cardinality(dropped)
      BY <3>1, <3>2, <3>3, <3>4
    <3> QED
      BY <3>5 DEF kept
  <2>5. Cardinality(P) = Cardinality(ids \ dropped)
    <3>1. ids \ dropped = {q.id : q \in P}
      BY <1>1
    <3>2. IsFiniteSet(P) /\ P \subseteq R
      BY <1>1, FS_Subset
    <3> QED
      BY <3>1, <3>2, AsManyIds
  <2>6. Cardinality(dropped) \in Nat /\ Cardinality(ids \ dropped) \in Nat
    BY <2>3, FS_CardinalityType
  <2> QED
    BY <1>2, <2>2, <2>4, <2>5, <2>6
<1>11. P \subseteq R
  BY <1>1
<1> QED
  BY <1>7, <1>8, <1>9, <1>10, <1>11

Batches(rs) == {r \in rs : r.kind = "collect"}

\* The receipts of collect name batches that were delivered, each another one.
ReplayInv ==
  /\ \A r \in Batches(receipts) : r.id <= Len(batches)
  /\ \A r, q \in Batches(receipts) : r.id = q.id => r = q

Replayable ==
  /\ batches' # batches =>
       \E r \in receipts' : r.kind = "collect" /\ r.id = Len(batches')
  /\ \A r \in receipts \ receipts' : r.kind = "collect" =>
       \/ Cardinality({q \in receipts' : /\ q.kind = "collect"
                                         /\ q.core = r.core
                                         /\ q.id > r.id}) >= MaxCollects
       \/ r.core \notin families' /\ made' = made

LEMMA BatchesStay ==
  ASSUME ReplayInv, UNCHANGED batches, Batches(receipts') = Batches(receipts)
  PROVE  ReplayInv' /\ Replayable
<1>1. \A r \in receipts : r.kind = "collect" => r \in receipts'
  BY DEF Batches
<1> QED
  BY <1>1 DEF ReplayInv, Replayable

LEMMA ReceiptsAreFinite ==
  ASSUME StoreInv
  PROVE  /\ receipts \subseteq Receipt /\ IsFiniteSet(receipts)
         /\ \A c \in Core : /\ IsFiniteSet(KindOf(receipts, "collect", c))
                            /\ Cardinality(KindOf(receipts, "collect", c)) <= MaxCollects
<1>1. receipts \subseteq Receipt /\ IsFiniteSet(receipts)
  BY DEF StoreInv, Receipts, WithinLimits, StoreFits
<1>2. ASSUME NEW c \in Core
      PROVE  /\ IsFiniteSet(KindOf(receipts, "collect", c))
             /\ Cardinality(KindOf(receipts, "collect", c)) <= MaxCollects
  <2>1. KindOf(receipts, "collect", c) \subseteq receipts
    BY DEF KindOf
  <2>2. Cardinality(KindOf(receipts, "collect", c)) <= ReceiptLimit("collect")
    BY DEF StoreInv, WithinLimits, FamilyFits, Kind
  <2> QED
    BY <1>1, <2>1, <2>2, FS_Subset DEF ReceiptLimit
<1> QED
  BY <1>1, <1>2

\* Compaction prunes the collect receipts of its own family, and no others.
LEMMA BatchesCompacted ==
  ASSUME NEW c \in Core, NEW ws, NEW ts, NEW rp, NEW rs, rs \subseteq Receipt,
         Compacted(c, ws, ts, rp, rs)
  PROVE  /\ receipts' \subseteq rs
         /\ \A r \in rs : r.core # c => r \in receipts'
         /\ KindOf(receipts', "collect", c)
              = Pruned(KindOf(rs, "collect", c), {}, MaxCollects)
<1> DEFINE kept == TrimmedTasks(ws, ts, c)
           Mine(k) == {r \in rs : r.kind = k /\ r.core = c}
           PrunedKind(k) == Pruned(Mine(k), Protected(k, ws, kept, rp, c), ReceiptLimit(k))
<1>1. receipts' = {r \in rs : r.core # c} \cup UNION {PrunedKind(k) : k \in Kind}
  BY DEF Compacted
<1>2. PrunedKind("collect") = Pruned(KindOf(rs, "collect", c), {}, MaxCollects)
  <2>1. Protected("collect", ws, kept, rp, c) = {} /\ ReceiptLimit("collect") = MaxCollects
    BY DEF Protected, ReceiptLimit
  <2> QED
    BY <2>1 DEF KindOf
<1>3. \A k \in Kind : PrunedKind(k) \subseteq Mine(k)
  BY DEF Pruned
<1> HIDE DEF PrunedKind
<1>4. KindOf(receipts', "collect", c) = PrunedKind("collect")
  BY <1>1, <1>3 DEF KindOf, Kind
<1> QED
  BY <1>1, <1>2, <1>4, ReceiptsCompacted

\* A compaction that adds no batch drops none.
LEMMA CompactionKeepsBatches ==
  ASSUME StoreInv, ReplayInv, NEW c \in Core, NEW ws, NEW ts, NEW rp, NEW rs,
         rs \subseteq Receipt, Batches(rs) = Batches(receipts),
         Compacted(c, ws, ts, rp, rs), UNCHANGED batches
  PROVE  ReplayInv' /\ Replayable
<1> DEFINE R == KindOf(receipts, "collect", c)
<1>1. KindOf(rs, "collect", c) = R
  BY DEF KindOf, Batches
<1>2. /\ receipts' \subseteq rs /\ \A r \in rs : r.core # c => r \in receipts'
      /\ KindOf(receipts', "collect", c) = Pruned(R, {}, MaxCollects)
  BY <1>1, BatchesCompacted
<1>3. /\ IsFiniteSet(R) /\ Cardinality(R) <= MaxCollects /\ \A r \in R : r.id \in Nat
      /\ \A r, q \in R : r.id = q.id => r = q
  BY ReceiptsAreFinite DEF KindOf, Receipt, ReplayInv, Batches
<1>4. MaxCollects \in Nat
  BY ConstantsOK DEF ConstantsOK
<1> HIDE DEF R
<1>5. Pruned(R, {}, MaxCollects) = R
  BY <1>3, <1>4, PrunedWindow
<1>6. Batches(receipts') = Batches(receipts)
  <2>1. \A r : r \in Batches(receipts') => r \in Batches(receipts)
    BY <1>2 DEF Batches
  <2>2. ASSUME NEW r \in Batches(receipts) PROVE r \in Batches(receipts')
    <3>1. r \in rs /\ r.kind = "collect"
      BY DEF Batches
    <3>2. r.core = c => r \in KindOf(receipts', "collect", c)
      BY <1>2, <1>5 DEF R, KindOf, Batches
    <3> QED
      BY <1>2, <3>1, <3>2 DEF Batches, KindOf
  <2> QED
    BY <2>1, <2>2
<1> QED
  BY <1>6, BatchesStay

LEMMA NotABatch ==
  ASSUME StoreInv, NEW k \in {"spawn", "reuse", "message", "report"}, NEW c \in Core,
         NEW op \in Op, NEW id \in Nat, NEW rs, rs \subseteq receipts,
         Batches(rs) = Batches(receipts)
  PROVE  /\ rs \cup {Record(k, c, op, id)} \subseteq Receipt
         /\ Batches(rs \cup {Record(k, c, op, id)}) = Batches(receipts)
<1>1. Record(k, c, op, id) \in Receipt /\ Record(k, c, op, id).kind = k
  BY DEF Record, Receipt, Kind
<1> QED
  BY <1>1, ReceiptsAreFinite DEF Batches

LEMMA CompactingStepReplays ==
  ASSUME StoreInv, ReplayInv, NEW w \in Worker, NEW op \in Op,
         ReuseWorker(w, op) \/ MessageWorker(w, op) \/ ReportWorker(w, op)
  PROVE  ReplayInv' /\ Replayable
<1> DEFINE c == workers[w].core
<1>1. c \in Core
  <2>1. workers[w].state # "Absent"
    BY DEF ReuseWorker, MessageWorker, ReportWorker, AtWork, WorkerState
  <2> QED
    BY <2>1, KnownWorker DEF RecordOK, WorkerRecord
<1>2. made.task \in Nat /\ made.message \in Nat /\ made.report \in Nat
  BY DEF StoreInv, Fresh, Counters
<1>3. UNCHANGED batches
  BY DEF ReuseWorker, MessageWorker, ReportWorker
<1>4. \E k \in {"spawn", "reuse", "message", "report"} : \E id \in Nat : \E ws, ts, rp :
        Compacted(c, ws, ts, rp, receipts \cup {Record(k, c, op, id)})
  <2>1. ASSUME ReuseWorker(w, op)
        PROVE  \E ws, ts, rp :
                 Compacted(c, ws, ts, rp, receipts \cup {Record("reuse", c, op, made.task + 1)})
    BY <2>1 DEF ReuseWorker
  <2>2. ASSUME MessageWorker(w, op)
        PROVE  \E ws, ts, rp :
                 Compacted(c, ws, ts, rp,
                           receipts \cup {Record("message", c, op, made.message + 1)})
    BY <2>2 DEF MessageWorker
  <2>3. ASSUME ReportWorker(w, op)
        PROVE  \E ws, ts, rp :
                 Compacted(c, ws, ts, rp,
                           receipts \cup {Record("report", c, op, made.report + 1)})
    BY <2>3 DEF ReportWorker
  <2>4. made.task + 1 \in Nat /\ made.message + 1 \in Nat /\ made.report + 1 \in Nat
    BY <1>2
  <2> HIDE DEF c
  <2> QED
    BY <2>1, <2>2, <2>3, <2>4
<1>5. PICK k \in {"spawn", "reuse", "message", "report"} : \E id \in Nat : \E ws, ts, rp :
        Compacted(c, ws, ts, rp, receipts \cup {Record(k, c, op, id)})
  BY <1>4
<1>6. PICK id \in Nat : \E ws, ts, rp :
        Compacted(c, ws, ts, rp, receipts \cup {Record(k, c, op, id)})
  BY <1>5
<1>7. PICK ws, ts, rp : Compacted(c, ws, ts, rp, receipts \cup {Record(k, c, op, id)})
  BY <1>6
<1> DEFINE rs == receipts \cup {Record(k, c, op, id)}
<1> HIDE DEF c
<1>8. rs \subseteq Receipt /\ Batches(rs) = Batches(receipts)
  BY <1>1, NotABatch
<1> HIDE DEF rs
<1> QED
  BY <1>1, <1>3, <1>7, <1>8, CompactionKeepsBatches DEF rs

LEMMA SpawnReplays ==
  ASSUME StoreInv, ReplayInv, NEW c \in Core, NEW op \in Op, SpawnWorker(c, op)
  PROVE  ReplayInv' /\ Replayable
<1> DEFINE t == made.task + 1
<1>1. PICK gone \in {{}} \cup {{d} : d \in families} :
        /\ MakesRoom(c, gone)
        /\ \E ws, ts, rp : Compacted(c, ws, ts, rp,
             Others(receipts, gone) \cup {Record("spawn", c, op, t)})
  BY DEF SpawnWorker
<1>2. t \in Nat /\ UNCHANGED batches
  BY DEF SpawnWorker, StoreInv, Fresh, Counters
<1>3. Others(receipts, gone) \subseteq receipts
      /\ Batches(Others(receipts, gone)) = Batches(receipts)
  <2>1. \A d \in gone : ReceiptsOf("collect", d) = {}
    BY <1>1 DEF MakesRoom, Reclaimable
  <2> QED
    BY <2>1 DEF Others, Batches, ReceiptsOf
<1> DEFINE rs == Others(receipts, gone) \cup {Record("spawn", c, op, t)}
<1>4. PICK ws, ts, rp : Compacted(c, ws, ts, rp, rs)
  BY <1>1
<1> HIDE DEF t
<1>5. rs \subseteq Receipt /\ Batches(rs) = Batches(receipts)
  BY <1>2, <1>3, NotABatch
<1> HIDE DEF rs
<1> QED
  BY <1>2, <1>4, <1>5, CompactionKeepsBatches

LEMMA CollectReplays ==
  ASSUME StoreInv, ReplayInv, NEW c \in Core, NEW op \in Op, CollectUpdates(c, op)
  PROVE  ReplayInv' /\ Replayable
<1> DEFINE n == Len(batches) + 1
           new == Record("collect", c, op, n)
           rs == receipts \cup {new}
           R == KindOf(rs, "collect", c)
           P == Pruned(R, {}, MaxCollects)
<1>1. \E ws, ts, rp : Compacted(c, ws, ts, rp, rs)
  BY DEF CollectUpdates
<1>2. /\ Len(batches) \in Nat /\ Len(batches') = n
  <2>1. PICK b : batches' = Append(batches, b)
    BY DEF CollectUpdates
  <2> QED
    BY <2>1 DEF StoreInv
<1>3. new.kind = "collect" /\ new.core = c /\ new.id = n /\ new \in Receipt
  BY <1>2 DEF Record, Receipt, Kind
<1>4. n = Len(batches) + 1
  OBVIOUS
<1> HIDE DEF new, n
<1>5. rs \subseteq Receipt /\ IsFiniteSet(rs)
  BY <1>3, ReceiptsAreFinite, FS_AddElement
<1>6. \A r, q \in Batches(rs) : r.id = q.id => r = q
  BY <1>2, <1>3, <1>4 DEF Batches, ReplayInv
<1>7. \A r \in Batches(rs) : r.id <= n /\ r.id \in Nat
  BY <1>2, <1>3, <1>4, <1>5 DEF Batches, ReplayInv, Receipt
<1> HIDE DEF rs
<1>8. /\ receipts' \subseteq rs /\ \A r \in rs : r.core # c => r \in receipts'
      /\ KindOf(receipts', "collect", c) = P
  BY <1>1, <1>5, BatchesCompacted
<1>9. R \subseteq Batches(rs) /\ new \in R
  BY <1>3 DEF R, rs, KindOf, Batches
<1>10. IsFiniteSet(R)
  BY <1>5, FS_Subset DEF KindOf
<1>11. MaxCollects \in Nat /\ MaxCollects > 0
  BY ConstantsOK, ReplaysSome DEF ConstantsOK, ReplaysSome
<1> HIDE DEF R
<1>12. /\ P \subseteq R /\ new \in P
       /\ \A r \in R \ P : (\A q \in P : q.id > r.id) /\ Cardinality(P) >= MaxCollects
  BY <1>3, <1>6, <1>7, <1>9, <1>10, <1>11, PrunedWindow
<1> HIDE DEF P
<1>13. ReplayInv'
  BY <1>2, <1>6, <1>7, <1>8 DEF ReplayInv, Batches
<1>14. \E r \in receipts' : r.kind = "collect" /\ r.id = Len(batches')
  BY <1>2, <1>3, <1>8, <1>12 DEF KindOf
<1>15. ASSUME NEW r \in receipts \ receipts', r.kind = "collect"
       PROVE  Cardinality({q \in receipts' : /\ q.kind = "collect"
                                             /\ q.core = r.core
                                             /\ q.id > r.id}) >= MaxCollects
  <2>1. r \in rs /\ r.core = c
    BY <1>8 DEF rs
  <2>2. r \in R \ P
    BY <1>8, <1>15, <2>1 DEF R, KindOf
  <2>3. {q \in receipts' : q.kind = "collect" /\ q.core = r.core /\ q.id > r.id} = P
    BY <1>8, <1>12, <2>1, <2>2 DEF KindOf
  <2> QED
    BY <1>12, <2>2, <2>3
<1> QED
  BY <1>13, <1>14, <1>15 DEF Replayable

LEMMA RemovalReplays ==
  ASSUME ReplayInv, NEW C, RemoveFamilies(C)
  PROVE  ReplayInv' /\ Replayable
BY DEF RemoveFamilies, Others, ReplayInv, Replayable, Batches

LEMMA ForgetReplays ==
  ASSUME ReplayInv, NEW w \in Worker, ForgetSpawn(w) \/ ForgetReuse(w)
  PROVE  ReplayInv' /\ Replayable
<1>1. Batches(receipts') = Batches(receipts)
  BY DEF ForgetSpawn, ForgetReuse, WithoutReceipts, Batches
<1> QED
  BY <1>1, BatchesStay DEF ForgetSpawn, ForgetReuse

\* A family that may be released holds nothing that counts.
LEMMA ReleasedIsEmpty ==
  ASSUME NEW c \in Core, SafeToRelease(c)
  PROVE  /\ PendingUpdates[c] = {}
         /\ \A w \in WorkersOf(workers, c) :
              workers[w].current = None /\ workers[w].inbox = {}
<1>1. \A i : ~WaitingReport(c, i)
  BY ReleasedIsTold DEF WaitingReport
<1>2. \A t : ~WaitingTask(c, t)
  BY ReleasedIsTold DEF WaitingTask, WorkersOf
<1>3. PendingUpdates[c] = {}
  BY <1>1, <1>2, MailIsIt DEF MailIs
<1> QED
  BY <1>3 DEF SafeToRelease

Lossless ==
  plan' # plan \/ made'.worker # made.worker =>
    \A c \in families \ families' :
      /\ PendingUpdates[c] = {}
      /\ \A w \in WorkersOf(workers, c) :
           workers[w].current = None /\ workers[w].inbox = {}

LEMMA ReleasesOnly ==
  ASSUME StoreInv, NEW C, families \ families' \subseteq C, \A c \in C : SafeToRelease(c)
  PROVE  Lossless
<1>1. families \subseteq Core
  BY DEF StoreInv, WithinLimits, StoreFits
<1> QED
  BY <1>1, ReleasedIsEmpty DEF Lossless

LEMMA SpawnIsLossless ==
  ASSUME StoreInv, NEW c \in Core, NEW op \in Op, SpawnWorker(c, op)
  PROVE  Lossless
<1>1. PICK gone \in {{}} \cup {{d} : d \in families} :
        MakesRoom(c, gone) /\ families' = (families \ gone) \cup {c}
  BY DEF SpawnWorker
<1>2. \A d \in gone : SafeToRelease(d)
  BY <1>1 DEF MakesRoom, Reclaimable
<1> QED
  BY <1>1, <1>2, ReleasesOnly

LEMMA CleanupIsLossless ==
  ASSUME StoreInv, CleanupInactiveFamilies
  PROVE  Lossless
<1> DEFINE planned == {c \in Core : plan[c] # None}
<1>1. \A c \in planned : SafeToRelease(c)
  BY DEF CleanupInactiveFamilies, PlanMatches
<1>2. families' = families \ planned
  BY DEF CleanupInactiveFamilies, RemoveFamilies
<1> QED
  BY <1>1, <1>2, ReleasesOnly

LEMMA FamiliesStay == families' = families => Lossless
BY DEF Lossless

Kept == ReplayInv' /\ Replayable /\ Lossless

LEMMA NothingGoes ==
  ASSUME ReplayInv, UNCHANGED <<families, receipts, batches>>
  PROVE  Kept
<1>1. Batches(receipts') = Batches(receipts)
  OBVIOUS
<1> QED
  BY <1>1, BatchesStay, FamiliesStay DEF Kept

LEMMA RoomStep == StoreInv /\ ReplayInv /\ [Next]_vars => Kept
<1> SUFFICES ASSUME StoreInv, ReplayInv, [Next]_vars PROVE Kept
  OBVIOUS
<1>1. CASE CoreStep
  <2>1. ASSUME NEW c \in Core, NEW op \in Op, SpawnWorker(c, op) PROVE Kept
    BY <2>1, SpawnReplays, SpawnIsLossless DEF Kept
  <2>2. ASSUME NEW c \in Core, NEW op \in Op, CollectUpdates(c, op) PROVE Kept
    BY <2>2, CollectReplays, FamiliesStay DEF Kept, CollectUpdates
  <2>3. ASSUME NEW w \in Worker, NEW op \in Op, ReuseWorker(w, op) \/ MessageWorker(w, op)
        PROVE  Kept
    BY <2>3, CompactingStepReplays, FamiliesStay DEF Kept, ReuseWorker, MessageWorker
  <2>4. ASSUME NEW w \in Worker, ForgetSpawn(w) \/ ForgetReuse(w) PROVE Kept
    BY <2>4, ForgetReplays, FamiliesStay DEF Kept, ForgetSpawn, ForgetReuse
  <2>5. ASSUME NEW w \in Worker,
               \/ RetireIdle(w) \/ RetirePending(w) \/ CancelUnclaimedAfterSend(w)
               \/ \E m \in Command : LinkLaunchCommand(w, m)
        PROVE  Kept
    BY <2>5, NothingGoes
       DEF RetireIdle, RetirePending, CancelUnclaimedAfterSend, LinkLaunchCommand, SetWorker,
           SetWorkerAndTask
  <2> QED
    BY <1>1, <2>1, <2>2, <2>3, <2>4, <2>5
       DEF CoreStep, RollbackUnlinkedSpawn, RollbackUnlinkedReuse, RollbackLinkedSpawn,
           RollbackLinkedReuse
<1>2. CASE LaunchStep
  BY <1>2, NothingGoes
     DEF LaunchStep, UpdateLaunchByCommand, SettlePreSendFailure, GraceEnds, SetWorker,
         SetWorkerAndTask
<1>3. CASE WorkerStep
  <2>1. ASSUME NEW w \in Worker, NEW op \in Op, ReportWorker(w, op) PROVE Kept
    BY <2>1, CompactingStepReplays, FamiliesStay DEF Kept, ReportWorker
  <2>2. ASSUME NEW w \in Worker,
               \/ \E h \in Chat : ClaimWorkerAttested(w, h)
               \/ StartTask(w) \/ FinishTask(w)
               \/ \E m \in Message : AcknowledgeMessage(w, m)
        PROVE  Kept
    BY <2>2, NothingGoes
       DEF ClaimWorkerAttested, StartTask, FinishTask, AcknowledgeMessage, SetWorker,
           SetWorkerAndTask
  <2> QED
    BY <1>3, <2>1, <2>2 DEF WorkerStep
<1>4. CASE RecoveryStep
  BY <1>4, NothingGoes
     DEF RecoveryStep, BeginRecoveryGuard, ClearRecoveryGuard, GuardAges, SetWorker
<1>5. CASE HostStep
  <2>1. ASSUME NEW C, ClearFamilies(C) PROVE Kept
    BY <2>1, RemovalReplays DEF Kept, Lossless, ClearFamilies, RemoveFamilies
  <2>2. CASE PurgeWorkspace
    BY <2>2, RemovalReplays DEF Kept, Lossless, PurgeWorkspace, RemoveFamilies
  <2>3. CASE CleanupInactiveFamilies
    BY <2>3, RemovalReplays, CleanupIsLossless DEF Kept, CleanupInactiveFamilies
  <2>4. ASSUME NEW C, ExpireWaitingClaims(C) PROVE Kept
    BY <2>4, NothingGoes DEF ExpireWaitingClaims
  <2>5. ASSUME NEW s \in Session, FenceLapses(s) PROVE Kept
    BY <2>5, NothingGoes DEF FenceLapses
  <2>6. CASE PreviewCleanup
    BY <2>6, NothingGoes DEF PreviewCleanup
  <2> QED
    BY <1>5, <2>1, <2>2, <2>3, <2>4, <2>5, <2>6
       DEF HostStep, ClearFamilyForAnchor, ClearAllWorkers
<1>6. CASE UNCHANGED vars
  BY <1>6, NothingGoes DEF vars
<1> QED
  BY <1>1, <1>2, <1>3, <1>4, <1>5, <1>6 DEF Next

\* No limit costs a Core what it counts on (workers/broker.rs): a batch can be
\* asked for again until MaxCollects newer ones of its family exist, unless the
\* family itself is removed by the host, and a family is reclaimed for another
\* Core, or after a preview, only with nothing left to collect, read or do.
THEOREM RoomLosesNothing == Spec => CapacityIsLossless
<1>1. Init => ReplayInv
  BY DEF Init, ReplayInv, Batches
<1>2. StoreInv /\ ReplayInv /\ [Next]_vars => ReplayInv' /\ Replayable /\ Lossless
  BY RoomStep DEF Kept
<1>3. StoreInv /\ ReplayInv /\ [Next]_vars =>
        /\ [plan' # plan \/ made'.worker # made.worker =>
             \A c \in families \ families' :
               /\ PendingUpdates[c] = {}
               /\ \A w \in WorkersOf(workers, c) :
                    workers[w].current = None /\ workers[w].inbox = {}]_vars
        /\ [/\ batches' # batches =>
                 \E r \in receipts' : r.kind = "collect" /\ r.id = Len(batches')
            /\ \A r \in receipts \ receipts' : r.kind = "collect" =>
                 \/ Cardinality({q \in receipts' : /\ q.kind = "collect"
                                                   /\ q.core = r.core
                                                   /\ q.id > r.id}) >= MaxCollects
                 \/ r.core \notin families' /\ made' = made]_vars
  BY <1>2 DEF Replayable, Lossless
<1> QED
  BY <1>1, <1>2, <1>3, StoreInvariant, PTL
     DEF Spec, CapacityIsLossless, ReclaimIsLossless, ReplayWindow
-----------------------------------------------------------------------------
(* What the launch transactions count on.  They name a launch by worker,   *)
(* task and the kind of its receipt, and read all three again after each    *)
(* of their commits.                                                        *)

Reused(rs, t) == \E r \in rs : r.kind = "reuse" /\ r.id = t

\* A task there was before, and that is still there, is the launch it was.
Inherits ==
  /\ made.task <= made'.task
  /\ \A t \in Task : t <= made.task /\ tasks'[t].state # "Absent" =>
       /\ tasks[t].state # "Absent"
       /\ tasks'[t].worker = tasks[t].worker
       /\ Reused(receipts', t) <=> Reused(receipts, t)

\* A launching worker's state tells which call its task came from.
LEMMA LaunchKind ==
  ASSUME NEW ws, NEW ts, NEW rs, NEW bs, Life(ws, ts), Receipts(ws, ts, rs, bs),
         NEW w \in Worker, ws[w].current # None
  PROVE  /\ ws[w].state = "Provisioning" => ~Reused(rs, ws[w].current)
         /\ ws[w].state = "Waking" => Reused(rs, ws[w].current)
<1> DEFINE t == ws[w].current
<1>1. t \in Task /\ ts[t].state # "Absent"
  BY DEF Life, WorkerRecord, OnItsTask
<1>2. PICK r \in Created(rs) : r.id = t
  BY <1>1 DEF Receipts, Receipted
<1>3. \A q \in rs : q.kind = "reuse" => q \in Created(rs)
  BY DEF Created
<1>4. \A q \in Created(rs) : q.id = t =>
        /\ ws[w].state = "Provisioning" => q.kind = "spawn"
        /\ ws[w].state = "Waking" => q.kind = "reuse"
  BY DEF Receipts, CameFrom
<1>5. r \in rs
  BY <1>2 DEF Created
<1> QED
  BY <1>2, <1>3, <1>4, <1>5 DEF Reused

\* Where nothing was collected, a receipt stays as long as its task.
LEMMA KindStays ==
  ASSUME NEW ws, NEW ts, NEW rs, NEW bs, Receipts(ws, ts, rs, bs),
         NEW ws2, NEW ts2, NEW rs2, NEW bs2, Receipts(ws2, ts2, rs2, bs2),
         NEW t \in Task, ts2[t].state # "Absent",
         \A r \in rs2 : r.id = t => r \in rs \/ r.kind \notin {"spawn", "reuse"}
  PROVE  Reused(rs2, t) <=> Reused(rs, t)
<1>1. PICK r \in Created(rs2) : r.id = t
  BY DEF Receipts, Receipted
<1>2. r \in Created(rs)
  BY <1>1 DEF Created
<1>3. ASSUME Reused(rs2, t) PROVE Reused(rs, t)
  BY <1>3 DEF Reused
<1>4. ASSUME Reused(rs, t) PROVE Reused(rs2, t)
  <2>1. PICK q \in rs : q.kind = "reuse" /\ q.id = t
    BY <1>4 DEF Reused
  <2>2. q \in Created(rs)
    BY <2>1 DEF Created
  <2>3. q = r
    BY <1>1, <1>2, <2>1, <2>2 DEF Receipts, OneReceipt
  <2> QED
    BY <1>1, <2>1, <2>3 DEF Reused, Created
<1> QED
  BY <1>3, <1>4

LEMMA NothingTold ==
  ASSUME StoreInv, batches = <<>>
  PROVE  \A t \in Task : ~tasks[t].collected /\ ~Delivered(batches, t)
<1>1. \A t \in Task : ~Delivered(batches, t)
  BY DEF Delivered
<1> QED
  BY <1>1 DEF StoreInv, Receipts, CollectedIsDelivered

\* A new task: the others stay, and so does what their receipts say of them.
LEMMA NewTaskInherits ==
  ASSUME StoreInv, StoreInv', batches = <<>>,
         NEW c \in Core, NEW ws, NEW ts, NEW rp, NEW rs, NEW k, NEW op, NEW w \in Worker,
         NEW t \in Task, t = made.task + 1, made' \in Counters, made'.task = t,
         k \in {"spawn", "reuse"},
         rs = receipts \cup {Record(k, c, op, t)},
         rs \subseteq Receipt,
         ts = [tasks EXCEPT ![t] = PendingTask(w)],
         Compacted(c, ws, ts, rp, rs)
  PROVE  /\ tasks[t].state = "Absent"
         /\ tasks'[t].state = "Pending" /\ tasks'[t].worker = w
         /\ \A u \in Task : u # t => tasks'[u] = tasks[u]
         /\ Inherits
<1>0. made \in Counters /\ made.task \in Nat
  BY DEF StoreInv, Fresh, Counters
<1>1. tasks[t] = NoTask
  BY <1>0 DEF StoreInv, Fresh
<1>2. \A u \in Task : ts[u] = IF u = t THEN PendingTask(w) ELSE tasks[u]
  BY DEF StoreInv, Life
<1>3. \A u \in Task : ~ts[u].collected
  BY <1>2, NothingTold, PendingIsTask
<1>4. \A u \in Task : tasks'[u] = ts[u]
  <2>1. tasks' = TrimmedTasks(ws, ts, c)
    BY DEF Compacted
  <2>2. ASSUME NEW u \in Task, NEW v PROVE u \notin Trimmable(ws, ts, v)
    BY <1>3 DEF Trimmable
  <2> QED
    BY <2>1, <2>2 DEF TrimmedTasks
<1>5. receipts' \subseteq rs
  BY ReceiptsCompacted
<1>6. ASSUME NEW u \in Task, u <= made.task, tasks'[u].state # "Absent"
      PROVE  /\ tasks[u].state # "Absent" /\ tasks'[u].worker = tasks[u].worker
             /\ Reused(receipts', u) <=> Reused(receipts, u)
  <2>1. u # t
    BY <1>0, <1>6
  <2>2. tasks'[u] = tasks[u]
    BY <1>2, <1>4, <2>1
  <2>3. \A r \in receipts' : r.id = u => r \in receipts
    BY <1>5, <2>1 DEF Record
  <2>4. Reused(receipts', u) <=> Reused(receipts, u)
    BY <1>6, <2>3, KindStays DEF StoreInv
  <2> QED
    BY <1>6, <2>2, <2>4
<1>7. made.task <= made'.task
  BY <1>0
<1> QED
  BY <1>1, <1>2, <1>4, <1>6, <1>7, Blank, PendingIsTask DEF Inherits

LEMMA ReuseAdds ==
  ASSUME StoreInv, batches = <<>>, NEW w \in Worker, NEW op \in Op, ReuseWorker(w, op)
  PROVE  LET t == made.task + 1 IN
         /\ StoreInv' /\ batches' = <<>> /\ families' = families
         /\ t \in Task /\ made'.task = t
         /\ workers[w].state = "Idle" /\ workers[w].current = None /\ workers[w].url
         /\ /\ workers'[w].state = "Waking" /\ workers'[w].launch = "Queued"
            /\ workers'[w].command = None /\ workers'[w].current = t
            /\ workers'[w].url = workers[w].url
            /\ workers'[w].chat = workers[w].chat
         /\ \A v \in Worker : v # w => workers'[v] = workers[v]
         /\ tasks[t].state = "Absent"
         /\ tasks'[t].state = "Pending" /\ tasks'[t].worker = w
         /\ \A u \in Task : u # t => tasks'[u] = tasks[u]
         /\ Inherits
<1> DEFINE c == workers[w].core
           t == made.task + 1
           rec == [workers[w] EXCEPT !.state = "Waking", !.launch = "Queued",
                     !.command = None, !.current = t, !.guard = None]
           ws == [workers EXCEPT ![w] = rec]
           ts == [tasks EXCEPT ![t] = PendingTask(w)]
           rs == receipts \cup {Record("reuse", c, op, t)}
<1>1. /\ Compacted(c, ws, ts, reports, rs)
      /\ made' = [made EXCEPT !.task = t] /\ made.task < NumTasks
      /\ batches' = batches /\ families' = families
      /\ workers[w].state = "Idle" /\ workers[w].current = None /\ workers[w].url
  BY DEF ReuseWorker
<1>2. workers[w] \in WorkerRecord /\ RecordOK(workers[w]) /\ made \in Counters
  BY KnownWorker
<1>3. c \in Core
  BY <1>1, <1>2, Blank DEF WorkerRecord, RecordOK
<1>4. t \in Task /\ t \in Nat
  <2> HIDE DEF rec, ws, ts, rs
  <2>1. made.task \in Nat /\ made.task < NumTasks
    BY <1>1, <1>2 DEF Counters
  <2>2. NumTasks \in Nat
    BY ConstantsOK DEF ConstantsOK
  <2> QED
    BY <2>1, <2>2 DEF Task
<1>5. StoreInv'
  BY ReuseKeeps
<1>6. made' \in Counters /\ made'.task = t
  BY <1>1, <1>2, <1>4 DEF Counters
<1>7. rs \subseteq Receipt
  BY <1>3, <1>4 DEF StoreInv, Receipts, Record, Receipt, Kind
<1>8. /\ rec.state = "Waking" /\ rec.launch = "Queued" /\ rec.command = None
      /\ rec.current = t /\ rec.url = workers[w].url /\ rec.chat = workers[w].chat
  BY <1>2 DEF WorkerRecord
<1> HIDE DEF rec
<1>9. \A v \in Worker : workers'[v] = IF v = w THEN rec ELSE workers[v]
  BY <1>1 DEF Compacted, StoreInv, Life
<1> HIDE DEF t, ws, c
<1>10. /\ tasks[t].state = "Absent"
       /\ tasks'[t].state = "Pending" /\ tasks'[t].worker = w
       /\ \A u \in Task : u # t => tasks'[u] = tasks[u]
       /\ Inherits
  <2>1. t = made.task + 1
    BY DEF t
  <2>2. PICK k, ts2, rs2 : k = "reuse" /\ ts2 = ts /\ rs2 = rs
    OBVIOUS
  <2>3. /\ rs2 = receipts \cup {Record(k, c, op, t)}
        /\ ts2 = [tasks EXCEPT ![t] = PendingTask(w)]
    BY <2>2 DEF t
  <2>4. rs2 \subseteq Receipt /\ Compacted(c, ws, ts2, reports, rs2)
    BY <1>1, <1>7, <2>2
  <2>5. k \in {"spawn", "reuse"}
    BY <2>2
  <2> HIDE DEF ts, rs
  <2> QED
    BY <1>3, <1>4, <1>5, <1>6, <2>1, <2>3, <2>4, <2>5, NewTaskInherits
<1> QED
  BY <1>1, <1>4, <1>5, <1>6, <1>8, <1>9, <1>10 DEF t

LEMMA SpawnAdds ==
  ASSUME StoreInv, batches = <<>>, NEW c \in Core, NEW op \in Op, SpawnWorker(c, op),
         families \subseteq {c}
  PROVE  LET w == made.worker + 1
             t == made.task + 1
         IN
         /\ StoreInv' /\ batches' = <<>> /\ families' \subseteq {c}
         /\ w \in Worker /\ t \in Task /\ made'.worker = w /\ made'.task = t
         /\ workers[w].state = "Absent" /\ workers[w].current = None
         /\ /\ workers'[w].state = "Provisioning" /\ workers'[w].launch = "Queued"
            /\ workers'[w].command = None /\ workers'[w].current = t
            /\ workers'[w].chat = None
         /\ \A v \in Worker : v # w => workers'[v] = workers[v]
         /\ tasks[t].state = "Absent"
         /\ tasks'[t].state = "Pending" /\ tasks'[t].worker = w
         /\ \A u \in Task : u # t => tasks'[u] = tasks[u]
         /\ Inherits
<1> DEFINE w == made.worker + 1
           t == made.task + 1
           rec == [NoWorker EXCEPT !.core = c, !.state = "Provisioning",
                     !.launch = "Queued", !.token = TRUE, !.current = t]
<1>1. PICK gone \in {{}} \cup {{d} : d \in families} :
        /\ MakesRoom(c, gone)
        /\ families' = (families \ gone) \cup {c}
        /\ Compacted(c, [WorkersWithout(gone) EXCEPT ![w] = rec],
             [TasksWithout(gone) EXCEPT ![t] = PendingTask(w)],
             Others(reports, gone),
             Others(receipts, gone) \cup {Record("spawn", c, op, t)})
  BY DEF SpawnWorker
<1>2. /\ made' = [made EXCEPT !.worker = @ + 1, !.task = @ + 1]
      /\ made.worker < NumWorkers /\ made.task < NumTasks
      /\ batches' = batches
  BY DEF SpawnWorker
<1>3. gone = {}
  BY <1>1 DEF MakesRoom
<1>4. /\ WorkersWithout(gone) = workers /\ TasksWithout(gone) = tasks
      /\ Others(receipts, gone) = receipts
  BY <1>3 DEF WorkersWithout, TasksWithout, Others, StoreInv, Life
<1> DEFINE ws == [workers EXCEPT ![w] = rec]
           ts == [tasks EXCEPT ![t] = PendingTask(w)]
           rs == receipts \cup {Record("spawn", c, op, t)}
<1>5. PICK rp : Compacted(c, ws, ts, rp, rs)
  BY <1>1, <1>4
<1>6. made \in Counters
  BY DEF StoreInv, Fresh
<1>7. w \in Worker /\ t \in Task /\ t \in Nat /\ w > made.worker
  <2> HIDE DEF rec, ws, ts, rs
  <2>1. /\ made.task \in Nat /\ made.task < NumTasks
        /\ made.worker \in Nat /\ made.worker < NumWorkers
    BY <1>2, <1>6 DEF Counters
  <2>2. NumTasks \in Nat /\ NumWorkers \in Nat
    BY ConstantsOK DEF ConstantsOK
  <2> QED
    BY <2>1, <2>2 DEF Task, Worker
<1>8. StoreInv'
  BY SpawnKeeps
<1>9. made' \in Counters /\ made'.worker = w /\ made'.task = t
  <2> HIDE DEF rec, w, t
  <2>1. made' = [made EXCEPT !.worker = w, !.task = t]
    BY <1>2 DEF w, t
  <2>2. w \in Nat /\ t \in Nat
    BY <1>6 DEF Counters, w, t
  <2> QED
    BY <1>6, <2>1, <2>2 DEF Counters
<1>10. rs \subseteq Receipt
  BY <1>7 DEF StoreInv, Receipts, Record, Receipt, Kind
<1>11. /\ rec.state = "Provisioning" /\ rec.launch = "Queued" /\ rec.command = None
       /\ rec.current = t /\ rec.chat = None
  BY DEF NoWorker
<1>12. workers[w] = NoWorker
  BY <1>7 DEF StoreInv, Fresh
<1> HIDE DEF rec
<1>13. \A v \in Worker : workers'[v] = IF v = w THEN rec ELSE workers[v]
  BY <1>5 DEF Compacted, StoreInv, Life
<1> HIDE DEF t, w, ws
<1>14. /\ tasks[t].state = "Absent"
       /\ tasks'[t].state = "Pending" /\ tasks'[t].worker = w
       /\ \A u \in Task : u # t => tasks'[u] = tasks[u]
       /\ Inherits
  <2>1. t = made.task + 1
    BY DEF t
  <2>2. PICK k, ts2, rs2 : k = "spawn" /\ ts2 = ts /\ rs2 = rs
    OBVIOUS
  <2>3. /\ rs2 = receipts \cup {Record(k, c, op, t)}
        /\ ts2 = [tasks EXCEPT ![t] = PendingTask(w)]
    BY <2>2 DEF t
  <2>4. rs2 \subseteq Receipt /\ Compacted(c, ws, ts2, rp, rs2)
    BY <1>5, <1>10, <2>2
  <2>5. k \in {"spawn", "reuse"}
    BY <2>2
  <2> HIDE DEF ts, rs
  <2>6. w \in Worker /\ t \in Task /\ made' \in Counters /\ made'.task = t
    BY <1>7, <1>9
  <2>7. /\ rs2 = receipts \cup {Record(k, c, op, t)} /\ rs2 \subseteq Receipt
        /\ ts2 = [tasks EXCEPT ![t] = PendingTask(w)]
        /\ Compacted(c, ws, ts2, rp, rs2)
    BY <2>3, <2>4
  <2> HIDE DEF rec
  <2> QED
    BY <1>8, <2>1, <2>5, <2>6, <2>7, NewTaskInherits, Zenon
<1>15. families' \subseteq {c}
  BY <1>1
<1> QED
  BY <1>2, <1>7, <1>8, <1>9, <1>11, <1>12, <1>13, <1>14, <1>15, Blank DEF t, w

LEMMA ForgetSpawnUndoes ==
  ASSUME StoreInv, NEW w \in Worker, ForgetSpawn(w)
  PROVE  LET t == workers[w].current IN
         /\ StoreInv' /\ UNCHANGED <<batches, families>>
         /\ t \in Task /\ made' = made
         /\ workers[w].state = "Provisioning"
         /\ workers'[w].state = "Absent" /\ workers'[w].current = None
         /\ workers'[w].command = None
         /\ \A v \in Worker : v # w => workers'[v] = workers[v]
         /\ tasks'[t].state = "Absent"
         /\ \A u \in Task : u # t => tasks'[u] = tasks[u]
         /\ Inherits
<1> DEFINE u == workers[w].current
<1>1. /\ workers' = [workers EXCEPT ![w] = NoWorker]
      /\ tasks' = [t \in Task |-> IF tasks[t].worker = w THEN NoTask ELSE tasks[t]]
      /\ receipts' = WithoutReceipts("spawn", u)
      /\ UNCHANGED <<families, made, batches>>
      /\ workers[w].state = "Provisioning" /\ u # None
  BY DEF ForgetSpawn, HasPending
<1>2. u \in Task /\ tasks[u].worker = w
  BY <1>1 DEF StoreInv, Life, WorkerRecord, OnItsTask
<1>3. \A t \in Task : tasks[t].worker = w => t = u
  BY <1>1 DEF StoreInv, Receipts, CameFrom
<1>4. \A t \in Task : tasks'[t] = IF t = u THEN NoTask ELSE tasks[t]
  BY <1>1, <1>2, <1>3
<1>5. \A v \in Worker : workers'[v] = IF v = w THEN NoWorker ELSE workers[v]
  BY <1>1 DEF StoreInv, Life
<1>6. NoWorker.command = None
  BY DEF NoWorker
<1>7. \A t \in Task : Reused(receipts', t) <=> Reused(receipts, t)
  BY <1>1 DEF WithoutReceipts, Reused
<1>8. made.task <= made'.task
  BY <1>1 DEF StoreInv, Fresh, Counters
<1>9. Inherits
  BY <1>4, <1>7, <1>8, Blank DEF Inherits
<1> QED
  BY <1>1, <1>2, <1>4, <1>5, <1>6, <1>9, Blank, ForgetSpawnKeeps

LEMMA ForgetReuseUndoes ==
  ASSUME StoreInv, NEW w \in Worker, ForgetReuse(w)
  PROVE  LET t == workers[w].current IN
         /\ StoreInv' /\ UNCHANGED <<batches, families>>
         /\ t \in Task /\ made' = made
         /\ workers[w].state = "Waking"
         /\ workers'[w].state = "Idle" /\ workers'[w].current = None
         /\ workers'[w].command = None
         /\ \A v \in Worker : v # w => workers'[v] = workers[v]
         /\ tasks'[t].state = "Absent"
         /\ \A u \in Task : u # t => tasks'[u] = tasks[u]
         /\ Inherits
<1> DEFINE u == workers[w].current
           rec == Reidled(workers[w])
<1>1. /\ workers' = [workers EXCEPT ![w] = rec]
      /\ tasks' = [tasks EXCEPT ![u] = NoTask]
      /\ receipts' = WithoutReceipts("reuse", u)
      /\ UNCHANGED <<families, made, batches>>
      /\ workers[w].state = "Waking" /\ u # None
  BY DEF ForgetReuse, HasPending
<1>2. workers[w] \in WorkerRecord /\ u \in Task
  BY <1>1, KnownWorker DEF WorkerRecord
<1>3. rec.state = "Idle" /\ rec.current = None /\ rec.command = None
  BY <1>2 DEF WorkerRecord, Reidled
<1> HIDE DEF rec
<1>4. \A t \in Task : tasks'[t] = IF t = u THEN NoTask ELSE tasks[t]
  BY <1>1, <1>2 DEF StoreInv, Life
<1>5. \A v \in Worker : workers'[v] = IF v = w THEN rec ELSE workers[v]
  BY <1>1 DEF StoreInv, Life
<1>6. \A t \in Task : t # u => (Reused(receipts', t) <=> Reused(receipts, t))
  BY <1>1 DEF WithoutReceipts, Reused
<1>7. made.task <= made'.task
  BY <1>1 DEF StoreInv, Fresh, Counters
<1>8. Inherits
  BY <1>4, <1>6, <1>7, Blank DEF Inherits
<1> QED
  BY <1>1, <1>2, <1>3, <1>4, <1>5, <1>8, Blank, ForgetReuseKeeps

LEMMA ClearEnds ==
  ASSUME StoreInv, ClearAllWorkers
  PROVE  /\ StoreInv' /\ UNCHANGED <<batches, made>> /\ families' = {}
         /\ \A w \in Worker : /\ workers'[w].state = "Absent"
                              /\ workers'[w].current = None
                              /\ workers'[w].command = None
         /\ \A t \in Task : tasks'[t].state = "Absent"
<1>1. ClearFamilies(families)
  BY DEF ClearAllWorkers
<1>2. /\ workers' = WorkersWithout(families) /\ tasks' = TasksWithout(families)
      /\ families' = {} /\ UNCHANGED <<batches, made>>
  BY <1>1 DEF ClearFamilies, RemoveFamilies
<1>3. \A w \in Worker : workers[w].core \in families \/ workers[w] = NoWorker
  BY DEF StoreInv, Life, RecordOK, WithinLimits, StoreFits
<1>4. \A w \in Worker : workers'[w] = NoWorker
  BY <1>2, <1>3 DEF WorkersWithout
<1>5. ASSUME NEW t \in Task PROVE tasks'[t] = NoTask
  <2>1. CASE tasks[t].worker = None
    BY <1>2, <2>1 DEF TasksWithout, StoreInv, Life, HasItsWorker
  <2>2. CASE tasks[t].worker # None
    <3>1. tasks[t].worker \in Worker /\ workers[tasks[t].worker].core # None
      BY <2>2 DEF StoreInv, Life, HasItsWorker, TaskRecord
    <3>2. workers[tasks[t].worker].core \in families
      BY <1>3, <3>1, Blank
    <3> QED
      BY <1>2, <3>1, <3>2 DEF TasksWithout
  <2> QED
    BY <2>1, <2>2
<1>6. NoWorker.command = None
  BY DEF NoWorker
<1> QED
  BY <1>1, <1>2, <1>4, <1>5, <1>6, Blank, ClearKeeps
=============================================================================
