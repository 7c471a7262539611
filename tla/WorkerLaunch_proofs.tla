------------------------ MODULE WorkerLaunch_proofs ------------------------
(***************************************************************************)
(* Proofs about the launch transactions, for every number of workers,      *)
(* tasks, commands, browsers and faults.  What each store does on its own  *)
(* is proved in ManagedChat_proofs and WorkerBroker_proofs and cited here.  *)
(***************************************************************************)
EXTENDS WorkerLaunch, FiniteSetTheorems, TLAPS

QP == INSTANCE ManagedChat_proofs WITH
        Key <- LaunchKey, Conv <- Worker, NoConv <- 0, NoClient <- None,
        NoKey <- None,
        ThreadOf <- [k \in LaunchKey |-> k.worker],
        BoundConv <- [k \in LaunchKey |-> IF k.reuse THEN k.worker ELSE 0],
        AnchorOf <- [k \in LaunchKey |-> TheCore],
        WorkspaceOf <- [k \in LaunchKey |-> TheCore]

SP == INSTANCE WorkerBroker_proofs WITH
        Session <- Chat, SessionOf <- [h \in Chat |-> h],
        Subject <- {}, SubjectOf <- [h \in Chat |-> None],
        NumMessages <- 0, NumReports <- 0, NumBatches <- 0, NumGuards <- 0,
        NumPlans <- 0, Mirrored <- S!Mirrorable, CommandsPerTask <- MaxSeq,
        MaxFamilies <- 1, MaxRecords <- NumWorkers, MaxActive <- NumWorkers,
        MaxInbox <- 0, MaxQueued <- 0, MaxUpdates <- 0,
        MaxReceipts <- NumTasks, MaxCollects <- 1, KeptTasks <- NumTasks,
        MaxTasks <- NumTasks

-----------------------------------------------------------------------------
(* The two stores, by the names their own proofs give them.                *)

LEMMA QAssumed == QP!ConstantsOK
<1>1. MaxSeq \in Nat /\ MaxLease \in Nat /\ MaxCommands \in Nat /\ MaxHistory \in Nat
  BY LaunchConstantsOK DEF LaunchConstantsOK
<1>2. None \notin Client /\ None \notin LaunchKey
  BY LaunchConstantsOK DEF LaunchConstantsOK
<1>3. 0 \notin Worker
  BY DEF Worker
<1>4. \A k \in LaunchKey : (IF k.reuse THEN k.worker ELSE 0) \in Worker \cup {0}
  BY DEF LaunchKey
<1> QED
  BY <1>1, <1>2, <1>3, <1>4 DEF QP!ConstantsOK

LEMMA SAssumed == SP!ConstantsOK /\ SP!ReplaysSome
<1>1. {NumWorkers, NumTasks, MaxSeq} \subseteq Nat /\ Core \subseteq Chat
  BY LaunchConstantsOK DEF LaunchConstantsOK
<1>2. None \notin Chat \cup {} \cup Nat
  BY LaunchConstantsOK DEF LaunchConstantsOK
<1>3. S!Mirrorable \subseteq SP!Mirrorable
  BY DEF S!Mirrorable, SP!Mirrorable
<1>4. [h \in Chat |-> None] \in [Chat -> {} \cup {None}]
  OBVIOUS
<1>5. /\ [h \in Chat |-> h] \in [Chat -> Chat]
      /\ \A g, h \in Chat : [k \in Chat |-> k][g] = [k \in Chat |-> k][h] => g = h
  OBVIOUS
<1> QED
  BY <1>1, <1>2, <1>3, <1>4, <1>5 DEF SP!ConstantsOK, SP!ReplaysSome

LEMMA Names ==
  /\ Q!Id = Id /\ QP!Id = Id /\ Id = 0 .. MaxSeq - 1
  /\ Q!NoId = NoId /\ QP!NoId = NoId /\ NoId = -1
  /\ S!Worker = Worker /\ SP!Worker = Worker
  /\ S!Task = Task /\ SP!Task = Task
  /\ QP!LeaseId = 1 .. MaxLease
BY DEF Q!Id, QP!Id, Id, Q!NoId, QP!NoId, NoId, S!Worker, SP!Worker, Worker,
       S!Task, SP!Task, Task, QP!LeaseId

LEMMA CommandTypes == ASSUME QP!IInv PROVE Q!TypeOK
BY DEF QP!IInv, QP!TypeOK, Q!TypeOK, Q!Id, QP!Id, Q!NoId, QP!NoId, Q!LeaseId, QP!LeaseId,
       Q!Command, QP!Command, Q!State, QP!State, Q!NoLease, QP!NoLease

LEMMA WorkerTypes == ASSUME SP!StoreInv PROVE S!TypeOK
<1>1. SP!TypeOK
  BY SP!InvTypeOK, SAssumed
<1> QED
  BY <1>1
  DEF SP!TypeOK, S!TypeOK, S!Worker, SP!Worker, S!Task, SP!Task, S!WorkerRecord, SP!WorkerRecord,
      S!WorkerState, SP!WorkerState, S!LaunchState, SP!LaunchState, S!Command, SP!Command,
      S!Guard, SP!Guard, S!Message, SP!Message, S!NoWorker, SP!NoWorker, S!TaskRecord, SP!TaskRecord,
      S!TaskState, SP!TaskState, S!NoTask, SP!NoTask, S!ReportRecord, SP!ReportRecord, S!Report, SP!Report,
      S!Receipt, SP!Receipt, S!Kind, SP!Kind

(* The steps of the command store.                                         *)

LEMMA Enqueues ==
  ASSUME NEW k, NEW r, Q!EnqueueHeld(k, r) PROVE QP!EnqueueHeld(k, r)
BY DEF Q!EnqueueHeld, QP!EnqueueHeld, Q!CompactedAway, QP!CompactedAway, Q!Without, QP!Without,
       Q!HasRoom, QP!HasRoom, Q!InStore, QP!InStore, Q!Routes, QP!Routes, Q!PriorOnThread,
       QP!PriorOnThread, Q!NewestSuccesses, QP!NewestSuccesses, Q!InState, QP!InState,
       Q!ExistingThread, QP!ExistingThread, Q!QueuedLaunch, QP!QueuedLaunch, Q!NoCommand,
       QP!NoCommand, Q!Unindexed, QP!Unindexed, Q!NoId, QP!NoId, Q!Newest, QP!Newest, Q!Id, QP!Id,
       Q!NoLease, QP!NoLease, Q!Cardinality, QP!Cardinality

LEMMA Releases ==
  ASSUME NEW i, Q!ActivateDispatch(i) PROVE QP!ActivateDispatch(i)
BY DEF Q!ActivateDispatch, QP!ActivateDispatch, Q!Become, QP!Become

LEMMA Removes ==
  ASSUME NEW S0, Q!RemoveCommands(S0) PROVE QP!RemoveCommands(S0)
BY DEF Q!RemoveCommands, QP!RemoveCommands, Q!Without, QP!Without, Q!Unindexed, QP!Unindexed,
       Q!NoCommand, QP!NoCommand, Q!NoId, QP!NoId, Q!Id, QP!Id, Q!NoLease, QP!NoLease

LEMMA Cancels ==
  ASSUME NEW k, Q!CancelPreSend(k)
  PROVE  dedupe[k] # NoId /\ QP!RemoveCommands({dedupe[k]})
BY Removes DEF Q!CancelPreSend, NoId

LEMMA RetireSettles ==
  ASSUME NEW k, Q!SettleForWorkerRetire(k)
  PROVE  dedupe[k] # NoId /\ QP!RemoveCommands({dedupe[k]})
BY Cancels DEF Q!SettleForWorkerRetire

LEMMA Fences ==
  ASSUME NEW k, Q!FenceUnclaimedAfterSend(k)
  PROVE  dedupe[k] # NoId /\ QP!FenceUnclaimedAfterSend(k)
BY DEF Q!FenceUnclaimedAfterSend, QP!FenceUnclaimedAfterSend, Q!AmbiguousPostSend,
       QP!AmbiguousPostSend, Q!Become, QP!Become, Q!Unleased, QP!Unleased, Q!Unrouted, QP!Unrouted,
       Q!NoId, QP!NoId, NoId, Q!NoLease, QP!NoLease

LEMMA Confirms ==
  ASSUME NEW k, NEW conv, Q!ConfirmWorkerStarted(k, conv) PROVE QP!ConfirmWorkerStarted(k, conv)
BY DEF Q!ConfirmWorkerStarted, QP!ConfirmWorkerStarted, Q!AmbiguousPostSend, QP!AmbiguousPostSend,
       Q!ExistingThread, QP!ExistingThread, Q!Become, QP!Become, Q!Unleased, QP!Unleased,
       Q!NoId, QP!NoId, Q!NoLease, QP!NoLease

LEMMA Revokes ==
  ASSUME NEW client, Q!SettleRevokedClient(client) PROVE QP!SettleRevokedClient(client)
BY DEF Q!SettleRevokedClient, QP!SettleRevokedClient, Q!AfterRevoke, QP!AfterRevoke,
       Q!AmbiguousPostSend, QP!AmbiguousPostSend, Q!Unleased, QP!Unleased, Q!Unrouted, QP!Unrouted,
       Q!Id, QP!Id, Q!NoLease, QP!NoLease

LEMMA Expires ==
  ASSUME NEW i, Q!LeaseExpires(i) PROVE QP!LeaseExpires(i)
BY DEF Q!LeaseExpires, QP!LeaseExpires, Q!Become, QP!Become, Q!NoLease, QP!NoLease

LEMMA Redeems ==
  ASSUME NEW client, NEW e, Q!Redeem(client, e) PROVE QP!Redeem(client, e)
BY DEF Q!Redeem, QP!Redeem, Q!AfterExpiry, QP!AfterExpiry, Q!Offer, QP!Offer, Q!Offerable,
       QP!Offerable, Q!InState, QP!InState, Q!Unleased, QP!Unleased, Q!Id, QP!Id, Q!NoLease,
       QP!NoLease

LEMMA Marks ==
  ASSUME NEW i, NEW l, NEW client, Q!MarkSendStarted(i, l, client)
  PROVE  QP!MarkSendStarted(i, l, client)
BY DEF Q!MarkSendStarted, QP!MarkSendStarted, Q!HoldsLease, QP!HoldsLease

LEMMA Acks ==
  ASSUME NEW i, NEW l, NEW client, NEW conv,
         \/ Q!AckSucceeded(i, l, client, conv) \/ Q!AckFailed(i, l, client)
         \/ Q!AckNeedsReconcile(i, l, client) \/ Q!AckPaused(i, l, client)
  PROVE  \/ QP!AckSucceeded(i, l, client, conv) \/ QP!AckFailed(i, l, client)
         \/ QP!AckNeedsReconcile(i, l, client) \/ QP!AckPaused(i, l, client)
BY DEF Q!AckSucceeded, QP!AckSucceeded, Q!AckFailed, QP!AckFailed, Q!AckNeedsReconcile,
       QP!AckNeedsReconcile, Q!AckPaused, QP!AckPaused, Q!Acknowledge, QP!Acknowledge,
       Q!AmbiguousPostSend, QP!AmbiguousPostSend, Q!ExistingThread, QP!ExistingThread,
       Q!HoldsLease, QP!HoldsLease, Q!Become, QP!Become, Q!Unleased, QP!Unleased, Q!NoLease, QP!NoLease

(* The steps of the Worker store.                                          *)

LEMMA Spawns ==
  ASSUME NEW c \in Core, NEW op, S!SpawnWorker(c, op) PROVE SP!SpawnWorker(c, op)
BY DEF S!SpawnWorker, SP!SpawnWorker, S!Used, SP!Used, S!ReceiptsOf, SP!ReceiptsOf, S!WorkersOf, SP!WorkersOf,
  S!MakesRoom, SP!MakesRoom, S!Compacted, SP!Compacted, S!Reclaimable, SP!Reclaimable, S!SafeToRelease,
  SP!SafeToRelease, S!TasksOf, SP!TasksOf, S!SettledAndDelivered, SP!SettledAndDelivered,
  S!WorkersWithout, SP!WorkersWithout, S!TasksWithout, SP!TasksWithout, S!Others, SP!Others, S!Record, SP!Record,
  S!PendingTask, SP!PendingTask, S!NoTask, SP!NoTask, S!NoWorker, SP!NoWorker, S!TrimmedTasks, SP!TrimmedTasks,
  S!Trimmable, SP!Trimmable, S!Newest, SP!Newest, S!Oldest, SP!Oldest, S!Pruned, SP!Pruned,
  S!Protected, SP!Protected, S!FamilyTasks, SP!FamilyTasks, S!ReceiptLimit, SP!ReceiptLimit,
  S!Kind, SP!Kind, S!Worker, SP!Worker, S!Task, SP!Task, S!Cardinality, SP!Cardinality

LEMMA Reuses ==
  ASSUME NEW w, NEW op, S!ReuseWorker(w, op) PROVE SP!ReuseWorker(w, op)
BY DEF S!ReuseWorker, SP!ReuseWorker, S!Used, SP!Used, S!ReceiptsOf, SP!ReceiptsOf, S!WorkersOf, SP!WorkersOf,
  S!Compacted, SP!Compacted, S!TasksOf, SP!TasksOf, S!Record, SP!Record,
  S!PendingTask, SP!PendingTask, S!NoTask, SP!NoTask, S!TrimmedTasks, SP!TrimmedTasks,
  S!Trimmable, SP!Trimmable, S!Newest, SP!Newest, S!Oldest, SP!Oldest, S!Pruned, SP!Pruned,
  S!Protected, SP!Protected, S!FamilyTasks, SP!FamilyTasks, S!ReceiptLimit, SP!ReceiptLimit,
  S!Kind, SP!Kind, S!Worker, SP!Worker, S!Task, SP!Task, S!Cardinality, SP!Cardinality

LEMMA ForgetsSpawn ==
  ASSUME NEW w, S!ForgetSpawn(w) PROVE SP!ForgetSpawn(w)
BY DEF S!ForgetSpawn, SP!ForgetSpawn, S!HasPending, SP!HasPending, S!NoWorker, SP!NoWorker, S!NoTask, SP!NoTask,
       S!WithoutReceipts, SP!WithoutReceipts, S!Task, SP!Task

LEMMA ForgetsReuse ==
  ASSUME NEW w, S!ForgetReuse(w) PROVE SP!ForgetReuse(w)
BY DEF S!ForgetReuse, SP!ForgetReuse, S!HasPending, SP!HasPending, S!Reidled, SP!Reidled, S!NoTask, SP!NoTask,
       S!WithoutReceipts, SP!WithoutReceipts

LEMMA Clears ==
  S!ClearAllWorkers => SP!ClearAllWorkers
BY DEF S!ClearAllWorkers, SP!ClearAllWorkers, S!ClearFamilies, SP!ClearFamilies, S!RemoveFamilies,
       SP!RemoveFamilies, S!SessionsOf, SP!SessionsOf, S!WorkersWithout, SP!WorkersWithout,
       S!TasksWithout, SP!TasksWithout, S!Others, SP!Others, S!NoWorker, SP!NoWorker, S!NoTask, SP!NoTask,
       S!Worker, SP!Worker, S!Task, SP!Task, S!WorkersOf, SP!WorkersOf

LEMMA Links ==
  ASSUME NEW w, NEW m, S!LinkLaunchCommand(w, m) PROVE SP!LinkLaunchCommand(w, m)
BY DEF S!LinkLaunchCommand, SP!LinkLaunchCommand, S!SetWorker, SP!SetWorker

LEMMA Mirrors ==
  ASSUME NEW w, NEW launch, NEW url, S!UpdateLaunchByCommand(w, launch, url)
  PROVE  SP!UpdateLaunchByCommand(w, launch, url)
BY DEF S!UpdateLaunchByCommand, SP!UpdateLaunchByCommand, S!SetWorker, SP!SetWorker

LEMMA GivesUp ==
  ASSUME NEW w, S!SettlePreSendFailure(w) PROVE SP!SettlePreSendFailure(w)
BY DEF S!SettlePreSendFailure, SP!SettlePreSendFailure, S!HasPending, SP!HasPending, S!SetWorkerAndTask,
       SP!SetWorkerAndTask, S!GaveUp, SP!GaveUp, S!Gone, SP!Gone, S!Reidled, SP!Reidled, S!FailedTask, SP!FailedTask

LEMMA CancelsSent ==
  ASSUME NEW w, S!CancelUnclaimedAfterSend(w) PROVE SP!CancelUnclaimedAfterSend(w)
BY DEF S!CancelUnclaimedAfterSend, SP!CancelUnclaimedAfterSend, S!HasPending, SP!HasPending,
       S!SetWorkerAndTask, SP!SetWorkerAndTask, S!GaveUp, SP!GaveUp, S!Gone, SP!Gone, S!FailedTask, SP!FailedTask

LEMMA RetiresPending ==
  ASSUME NEW w, S!RetirePending(w) PROVE SP!RetirePending(w)
BY DEF S!RetirePending, SP!RetirePending, S!HasPending, SP!HasPending, S!SetWorkerAndTask,
       SP!SetWorkerAndTask, S!Gone, SP!Gone

LEMMA RetiresIdle ==
  ASSUME NEW w, S!RetireIdle(w) PROVE SP!RetireIdle(w)
BY DEF S!RetireIdle, SP!RetireIdle, S!SetWorker, SP!SetWorker, S!Gone, SP!Gone

LEMMA Ages ==
  ASSUME NEW w, S!GraceEnds(w) PROVE SP!GraceEnds(w)
BY DEF S!GraceEnds, SP!GraceEnds, S!SetWorker, SP!SetWorker

LEMMA TimesOut ==
  ASSUME S!ExpireWaitingClaims(Core) PROVE SP!ExpireWaitingClaims(Core)
BY DEF S!ExpireWaitingClaims, SP!ExpireWaitingClaims, S!AwaitsClaim, SP!AwaitsClaim, S!GaveUp, SP!GaveUp,
       S!Gone, SP!Gone, S!FailedTask, SP!FailedTask, S!Worker, SP!Worker, S!Task, SP!Task, S!HasPending, SP!HasPending

LEMMA Claims ==
  ASSUME NEW w, NEW h, S!ClaimWorkerAttested(w, h) PROVE SP!ClaimWorkerAttested(w, h)
BY DEF S!ClaimWorkerAttested, SP!ClaimWorkerAttested, S!Unbound, SP!Unbound, S!SameAccount, SP!SameAccount,
       S!FamilySubjects, SP!FamilySubjects, S!WorkersOf, SP!WorkersOf, S!SetWorkerAndTask, SP!SetWorkerAndTask,
       S!Worker, SP!Worker

LEMMA Starts ==
  ASSUME NEW w, S!StartTask(w) PROVE SP!StartTask(w)
BY DEF S!StartTask, SP!StartTask, S!HasPending, SP!HasPending, S!SetWorkerAndTask, SP!SetWorkerAndTask,
       S!WorkerState, SP!WorkerState

LEMMA Finishes ==
  ASSUME NEW w, S!FinishTask(w) PROVE SP!FinishTask(w)
BY DEF S!FinishTask, SP!FinishTask, S!AtWork, SP!AtWork, S!SetWorkerAndTask, SP!SetWorkerAndTask

-----------------------------------------------------------------------------
(* The inductive invariant.                                                *)

Present(i) == commands[i].state # "Absent"

\* What a browser was told, or may yet be told, to send for task t.
Offered(t) ==
  sends[t] \cup {i \in Id : /\ Present(i) /\ commands[i].ready
                            /\ commands[i].key.task = t}

\* A browser may still be told to send it for the first time.
Unsent(i) ==
  /\ Present(i) /\ commands[i].ready /\ ~commands[i].history
  /\ commands[i].state \in {"Queued", "Leased"}

\* The name of a launch stays right as long as its task is there.
KnownKey(k) ==
  /\ k \in LaunchKey /\ k.task <= made.task
  /\ tasks[k.task].state # "Absent" =>
       tasks[k.task].worker = k.worker /\ k = KeyOf(k.worker, k.task)

\* `sends' is what the commands remember of it, as long as they are there.
CommandRight(i) ==
  LET c == commands[i] IN
  Present(i) =>
    /\ KnownKey(c.key)
    /\ c.history <=> i \in sends[c.key.task]
    /\ c.state = "Succeeded" => c.history
    /\ c.conv # 0 <=> c.state = "Succeeded"

\* A worker is linked to a command of the task it is on.
LinkRight(w) ==
  LET m == workers[w].command IN
  m # None =>
    /\ m[2] <= nextSequence
    /\ workers[w].current # None => m[1] = workers[w].current
    /\ Present(m[2] - 1) => /\ commands[m[2] - 1].key.worker = w
                            /\ commands[m[2] - 1].key.task = m[1]

\* Before the link only a launch that was just asked for; a worker counts as
\* sent, or runs, only when its assignment was.
RecordRight(r) ==
  /\ r.current # None /\ r.command = None =>
       /\ r.launch = "Queued"
       /\ r.state = "Waking" \/ (r.state = "Provisioning" /\ r.chat = None)
  /\ r.state = "Waking" => r.url
  /\ r.state = "Provisioning" /\ r.chat # None => r.launch = "Claimed"
  /\ r.state = "Running" => sends[r.current] # {}
  /\ /\ r.state \in {"Provisioning", "Waking"} /\ r.current # None
     /\ r.chat = None /\ r.launch \in {"SendStarted", "Reconciling", "WaitingClaim"}
     => sends[r.current] # {}

\* Nothing but the linked command is ever offered for the task.
OffersLinked(w) ==
  workers[w].current # None =>
    \A i \in Offered(workers[w].current) : Linked(w, i)

\* No second command is ever offered for a task.
TaskRight(t) ==
  /\ \A i \in sends[t] : i < nextSequence /\ t <= made.task
  /\ \A i, j \in Offered(t) : i = j

\* Its worker waits for this command and no other.
Owner(i) ==
  LET k == commands[i].key IN
  /\ Pending(k.worker) /\ workers[k.worker].current = k.task
  /\ Linked(k.worker, i)

Owned == ~halfCleared /\ lock.step # "clear" => \A i \in Id : Unsent(i) => Owner(i)

\* What the handler at work may count on before its next commit.
HeldLock(l) ==
  LET k == l.key
      i == l.id
  IN
  /\ l.step \notin {"free", "sync", "clear"} => KnownKey(k)
  /\ l.step # "sync" => l.todo = {}
  /\ l.step = "sync" => \A j \in l.todo : Present(j)
  /\ l.step \in {"link", "cancelUnlinked"} => i \in Id /\ dedupe[k] = i
  /\ l.step = "activate" =>
       /\ i \in Id /\ Present(i) /\ commands[i].key = k
       /\ Offered(k.task) \subseteq {i}
       /\ workers[k.worker].current = k.task => Linked(k.worker, i)
       /\ \/ sends[k.task] # {}
          \/ Pending(k.worker) /\ workers[k.worker].current = k.task
  /\ l.step \in {"cancelLinked", "rollbackLinked"} =>
       i \in Id /\ i \notin sends[k.task] /\ (Present(i) => ~commands[i].ready)
  /\ l.step \in {"retireSent", "retireUnsent"} =>
       /\ workers[k.worker].current \in {None, k.task}
       /\ \A j \in Id : Unsent(j) => commands[j].key.task # k.task
  /\ l.step = "confirm" => tasks[k.task].state = "Running"

Stores ==
  /\ QP!IInv /\ SP!StoreInv
  /\ batches = <<>> /\ families \subseteq {TheCore}

Ghosts ==
  /\ lock \in Lock /\ sends \in [Task -> SUBSET Id]
  /\ faults \in 0 .. MaxFaults /\ halfCleared \in BOOLEAN

\* What holds of the commands, the workers and the tasks in every state.
Together ==
  /\ \A i \in Id : CommandRight(i)
  /\ \A w \in Worker : LinkRight(w) /\ RecordRight(workers[w]) /\ OffersLinked(w)
  /\ \A t \in Task : TaskRight(t)

LaunchInv == Stores /\ Ghosts /\ Together /\ Owned /\ HeldLock(lock)

-----------------------------------------------------------------------------
(* What the invariants of the two stores say here.                         *)

LEMMA WorkerFacts ==
  ASSUME SP!StoreInv, NEW w \in Worker
  PROVE  LET r == workers[w] IN
         /\ r \in S!WorkerRecord
         /\ r.current \in Task \cup {None} /\ r.command \in S!Command \cup {None}
         /\ r.current # None <=> r.state \in {"Provisioning", "Waking", "Running"}
         /\ r.state \in {"Idle", "Waking", "Running"} => r.chat # None
         /\ r.current # None =>
              /\ r.current \in Task /\ tasks[r.current].worker = w
              /\ tasks[r.current].state \in {"Pending", "Running"}
              /\ r.state = "Running" <=> tasks[r.current].state = "Running"
<1>1. w \in SP!Worker
  BY Names
<1>2. SP!RecordOK(workers[w]) /\ SP!OnItsTask(workers, tasks, w)
  BY <1>1, SP!KnownWorker, SAssumed
<1>3. workers[w] \in S!WorkerRecord
  BY WorkerTypes, Names DEF S!TypeOK
<1>4. /\ workers[w].current \in Task \cup {None}
      /\ workers[w].command \in S!Command \cup {None}
  BY <1>3, Names DEF S!WorkerRecord
<1> QED
  BY <1>2, <1>3, <1>4 DEF SP!RecordOK, SP!OnItsTask

LEMMA OnTasks ==
  SP!StoreInv => \A v \in Worker : workers[v].current \in Task \cup {None}
BY WorkerFacts

LEMMA TaskFacts ==
  ASSUME SP!StoreInv
  PROVE  /\ made.task \in Nat /\ None \notin Nat
         /\ \A t \in Task :
              /\ tasks[t].worker \in Worker \cup {None} /\ t \in Nat
              /\ tasks[t].state = "Absent" <=> tasks[t].worker = None
              /\ tasks[t].state # "Absent" => t <= made.task
              /\ tasks[t].state \in {"Pending", "Running"} =>
                   workers[tasks[t].worker].current = t
<1>1. made.task \in Nat /\ None \notin Nat
  BY WorkerTypes, LaunchConstantsOK DEF S!TypeOK, LaunchConstantsOK
<1>2. ASSUME NEW t \in Task
      PROVE  /\ tasks[t].worker \in Worker \cup {None}
             /\ t \in Nat
  BY WorkerTypes, Names DEF S!TypeOK, S!TaskRecord, Task
<1>3. ASSUME NEW t \in Task
      PROVE  /\ SP!HasItsWorker(workers, tasks, t)
             /\ t > made.task => tasks[t] = SP!NoTask
  BY Names DEF SP!StoreInv, SP!Life, SP!Fresh
<1>4. SP!NoTask.state = "Absent" /\ SP!NoTask.worker = None
  BY SP!Blank, SAssumed
<1> QED
  BY <1>1, <1>2, <1>3, <1>4 DEF SP!HasItsWorker

LEMMA CommandFacts ==
  ASSUME QP!IInv, NEW i \in Id
  PROVE  LET c == commands[i] IN
         /\ c \in Q!Command /\ i \in Nat
         /\ Present(i) =>
              /\ c.key \in LaunchKey /\ dedupe[c.key] = i
              /\ ~c.ready => c.state = "Queued"
              /\ c.state = "Queued" => ~c.history
              /\ c.state \in {"SendStarted", "NeedsReconcile", "Paused"} => c.history
              /\ i < nextSequence
         /\ ~Present(i) => ~c.ready /\ c.lease = 0
<1>1. commands[i] \in Q!Command /\ i \in Nat /\ nextSequence \in Nat
  BY CommandTypes, Names DEF Q!TypeOK
<1>2. QP!CommandOK(i) /\ (i >= nextSequence => commands[i] = QP!NoCommand)
  BY Names DEF QP!IInv, QP!UnusedBlank
<1>3. /\ QP!NoCommand.state = "Absent" /\ ~QP!NoCommand.ready
      /\ QP!NoCommand.lease = 0
  BY DEF QP!NoCommand, QP!NoLease
<1> QED
  BY <1>1, <1>2, <1>3 DEF QP!CommandOK, QP!StateOK, Present

LEMMA IndexFacts ==
  ASSUME QP!IInv
  PROVE  /\ nextSequence \in 0 .. MaxSeq /\ NoId \notin Id
         /\ \A k \in LaunchKey :
              /\ dedupe[k] \in Id \cup {NoId}
              /\ dedupe[k] # NoId => Present(dedupe[k]) /\ commands[dedupe[k]].key = k
<1>1. NoId \notin Id /\ nextSequence \in 0 .. MaxSeq
  BY CommandTypes, Names DEF Q!TypeOK
<1>2. \A k \in LaunchKey : dedupe[k] \in Id \cup {NoId}
  BY CommandTypes, Names DEF Q!TypeOK
<1>3. \A k \in LaunchKey : dedupe[k] # NoId =>
        Present(dedupe[k]) /\ commands[dedupe[k]].key = k
  BY Names DEF QP!IInv, QP!DedupePoints, Present
<1> QED
  BY <1>1, <1>2, <1>3

\* A link names a command: the id that comes before its second part.
LEMMA LinkFacts ==
  /\ None \notin S!Command
  /\ \A t \in Task, i \in Id : <<t, i + 1>> \in S!Command
  /\ \A m \in S!Command : m[1] \in Task /\ m[2] - 1 \in Id /\ m[2] \in Nat
                          /\ m = <<m[1], (m[2] - 1) + 1>>
<1>1. MaxSeq \in Nat /\ None \notin S!Command
  BY LaunchConstantsOK DEF LaunchConstantsOK
<1> QED
  BY <1>1, Names DEF S!Command

LEMMA KeyFacts ==
  ASSUME NEW k \in LaunchKey
  PROVE  k.worker \in Worker /\ k.task \in Task
BY DEF LaunchKey

LEMMA KeyOfFacts ==
  ASSUME NEW w, NEW t
  PROVE  /\ KeyOf(w, t).worker = w /\ KeyOf(w, t).task = t
         /\ KeyOf(w, t).reuse <=> SP!Reused(receipts, t)
         /\ w \in Worker /\ t \in Task => KeyOf(w, t) \in LaunchKey
BY DEF KeyOf, LaunchKey, SP!Reused

-----------------------------------------------------------------------------
(* Steps in which no browser is told anything, and no command released.    *)

\* A worker stays linked, ends its task, or begins a new one.
KeepsLink(w) ==
  LET r == workers[w]
      s == workers'[w]
  IN  \/ s.current = r.current /\ s.command = r.command
      \/ s.current = None /\ s.command \in {r.command, None}
      \/ s.current > made.task /\ s.command = None

\* A command goes on quietly, or is new, and held.
Quiet ==
  /\ sends' = sends
  /\ nextSequence <= nextSequence'
  /\ \A i \in Id :
       \/ QP!Calm(i)
       \/ LET d == commands'[i] IN
          /\ d.state = "Queued" /\ ~d.ready /\ ~d.history /\ d.conv = 0
          /\ i >= nextSequence /\ KnownKey(commands[i].key)'

LEMMA KeyStays ==
  ASSUME SP!Inherits, SP!StoreInv, SP!StoreInv', NEW k, KnownKey(k)
  PROVE  KnownKey(k)'
<1>1. k.task \in Task /\ k.worker \in Worker /\ k \in LaunchKey
  BY KeyFacts DEF KnownKey
<1>2. /\ made.task <= made'.task
      /\ tasks'[k.task].state # "Absent" =>
           /\ tasks[k.task].state # "Absent"
           /\ tasks'[k.task].worker = tasks[k.task].worker
           /\ SP!Reused(receipts', k.task) <=> SP!Reused(receipts, k.task)
  BY <1>1, Names DEF SP!Inherits, KnownKey
<1>3. k.task \in Nat /\ made.task \in Nat /\ made'.task \in Nat
  BY <1>1, TaskFacts DEF SP!StoreInv, SP!Fresh, SP!Counters
<1>4. k.task <= made'.task
  BY <1>2, <1>3 DEF KnownKey
<1>5. ASSUME tasks'[k.task].state # "Absent"
      PROVE  k = KeyOf(k.worker, k.task)'
  <2>1. k = KeyOf(k.worker, k.task)
    BY <1>2, <1>5 DEF KnownKey
  <2> QED
    BY <1>2, <1>5, <2>1 DEF KeyOf, SP!Reused
<1> QED
  BY <1>1, <1>2, <1>4, <1>5 DEF KnownKey

LEMMA OfferedShrinks ==
  ASSUME Quiet, NEW t PROVE Offered(t)' \subseteq Offered(t)
<1> SUFFICES ASSUME NEW x \in Offered(t)', x \notin sends[t] PROVE x \in Offered(t)
  BY DEF Offered
<1>1. /\ x \in Id /\ commands'[x].state # "Absent" /\ commands'[x].ready
      /\ commands'[x].key.task = t
  BY DEF Offered, Present, Quiet, Id, Q!Id
<1>2. QP!Calm(x)
  BY <1>1 DEF Quiet
<1> QED
  BY <1>1, <1>2 DEF QP!Calm, Offered, Present

LEMMA NothingBefore ==
  ASSUME SP!StoreInv, Together, NEW t \in Task, t > made.task
  PROVE  Offered(t) = {}
<1>1. sends[t] = {}
  BY TaskFacts DEF Together, TaskRight
<1>2. \A i \in Id : Present(i) => commands[i].key.task # t
  BY TaskFacts DEF Together, CommandRight, KnownKey
<1> QED
  BY <1>1, <1>2 DEF Offered

LEMMA QuietCommandRight ==
  ASSUME QP!IInv, SP!StoreInv, SP!StoreInv', Together, Quiet, SP!Inherits, NEW i \in Id
  PROVE  CommandRight(i)'
<1> SUFFICES ASSUME commands'[i].state # "Absent"
             PROVE  LET d == commands'[i] IN
                    /\ KnownKey(commands[i].key)'
                    /\ d.history <=> i \in sends[d.key.task]
                    /\ d.state = "Succeeded" => d.history
                    /\ d.conv # 0 <=> d.state = "Succeeded"
  BY DEF CommandRight, Present, Quiet
<1>1. CASE QP!Calm(i)
  <2>1. /\ Present(i) /\ commands'[i].key = commands[i].key
        /\ commands'[i].history <=> commands[i].history
        /\ QP!Answered(commands[i]) => QP!Answered(commands'[i])
    BY <1>1 DEF QP!Calm, Present
  <2>2. /\ KnownKey(commands[i].key)
        /\ commands[i].history <=> i \in sends[commands[i].key.task]
        /\ QP!Answered(commands[i])
    BY <2>1 DEF Together, CommandRight, QP!Answered
  <2>3. PICK k : k = commands[i].key
    OBVIOUS
  <2>4. KnownKey(k)'
    BY <2>2, <2>3, KeyStays
  <2>5. KnownKey(commands[i].key)'
    BY <2>1, <2>3, <2>4 DEF KnownKey
  <2> QED
    BY <2>1, <2>2, <2>5 DEF QP!Answered
<1>2. CASE ~QP!Calm(i)
  <2>1. /\ commands'[i].state = "Queued" /\ ~commands'[i].ready /\ ~commands'[i].history
        /\ commands'[i].conv = 0 /\ i >= nextSequence /\ KnownKey(commands[i].key)'
    BY <1>2 DEF Quiet
  <2>2. commands'[i].key.task \in Task
    BY <2>1 DEF KnownKey, LaunchKey, Task
  <2>3. i \notin sends[commands'[i].key.task]
    BY <2>1, <2>2, CommandFacts, IndexFacts DEF Together, TaskRight
  <2> QED
    BY <2>1, <2>3
<1> QED
  BY <1>1, <1>2

LEMMA QuietLinkRight ==
  ASSUME QP!IInv, QP!IInv', SP!StoreInv, Together, Quiet, NEW w \in Worker, KeepsLink(w)
  PROVE  LinkRight(w)'
<1> DEFINE m == workers[w].command
           j == m[2] - 1
<1> SUFFICES ASSUME workers'[w].command # None
             PROVE  /\ workers'[w].command[2] <= nextSequence'
                    /\ workers'[w].current # None =>
                         workers'[w].command[1] = workers'[w].current
                    /\ commands'[workers'[w].command[2] - 1].state # "Absent" =>
                         /\ commands'[workers'[w].command[2] - 1].key.worker = w
                         /\ commands'[workers'[w].command[2] - 1].key.task = workers'[w].command[1]
  BY DEF LinkRight, Present
<1>1. workers'[w].command = m /\ m # None
  BY DEF KeepsLink
<1>2. m \in S!Command /\ j \in Id /\ m[2] \in Nat
  BY <1>1, WorkerFacts, LinkFacts
<1>3. /\ m[2] <= nextSequence
      /\ workers[w].current # None => m[1] = workers[w].current
      /\ Present(j) => commands[j].key.worker = w /\ commands[j].key.task = m[1]
  BY <1>1 DEF Together, LinkRight
<1>4. workers'[w].current # None => workers'[w].current = workers[w].current
  BY <1>1 DEF KeepsLink
<1>5. nextSequence \in Nat /\ nextSequence' \in Nat /\ nextSequence <= nextSequence'
  BY IndexFacts, Names DEF QP!IInv, QP!TypeOK, Quiet
<1>6. j < nextSequence /\ m[2] <= nextSequence'
  BY <1>2, <1>3, <1>5
<1>7. j \in Nat
  BY <1>2, CommandFacts
<1>8. QP!Calm(j)
  BY <1>2, <1>5, <1>6, <1>7 DEF Quiet
<1>9. commands'[j].state # "Absent" => Present(j) /\ commands'[j].key = commands[j].key
  BY <1>8 DEF QP!Calm, Present
<1> HIDE DEF m, j
<1> QED
  BY <1>1, <1>3, <1>4, <1>6, <1>9 DEF j

LEMMA QuietOffersLinked ==
  ASSUME SP!StoreInv, SP!StoreInv', Together, Quiet, NEW w \in Worker, KeepsLink(w)
  PROVE  OffersLinked(w)'
<1> SUFFICES ASSUME workers'[w].current # None, NEW i \in Offered(workers[w].current)'
             PROVE  Linked(w, i)'
  BY DEF OffersLinked
<1>1. workers'[w].current \in Task
  <2>1. (SP!StoreInv => \A v \in Worker : workers[v].current \in Task \cup {None})'
    BY OnTasks, PTL
  <2> QED
    BY <2>1
<1>2. i \in Offered(workers'[w].current)
  BY OfferedShrinks DEF Offered
<1>3. CASE workers'[w].current = workers[w].current /\ workers'[w].command = workers[w].command
  BY <1>2, <1>3 DEF Together, OffersLinked, Linked
<1>4. CASE workers'[w].current > made.task
  BY <1>1, <1>2, <1>4, NothingBefore
<1> QED
  BY <1>3, <1>4 DEF KeepsLink

LEMMA QuietTaskRight ==
  ASSUME QP!IInv, QP!IInv', SP!StoreInv, SP!StoreInv', Together, Quiet, SP!Inherits,
         sends \in [Task -> SUBSET Id], NEW t \in Task
  PROVE  TaskRight(t)'
<1>1. nextSequence \in Nat /\ nextSequence' \in Nat /\ nextSequence <= nextSequence'
  BY IndexFacts, Names DEF QP!IInv, QP!TypeOK, Quiet
<1>2. made.task \in Nat /\ made'.task \in Nat /\ made.task <= made'.task /\ t \in Nat
  BY TaskFacts DEF SP!StoreInv, SP!Fresh, SP!Counters, SP!Inherits
<1>3. \A i \in sends[t] : i < nextSequence /\ t <= made.task /\ i \in Id /\ i \in Nat
  BY CommandFacts DEF Together, TaskRight
<1>4. \A i \in sends'[t] : i < nextSequence' /\ t <= made'.task
  BY <1>1, <1>2, <1>3 DEF Quiet
<1>5. \A i, j \in Offered(t)' : i = j
  BY OfferedShrinks DEF Together, TaskRight
<1> QED
  BY <1>4, <1>5 DEF TaskRight, Offered, Present

\* Whatever a step does quietly, what held of both stores still does.
LEMMA QuietKeeps ==
  ASSUME QP!IInv, QP!IInv', SP!StoreInv, SP!StoreInv', sends \in [Task -> SUBSET Id],
         Together, Quiet, SP!Inherits,
         \A w \in Worker : KeepsLink(w) /\ RecordRight(workers[w])'
  PROVE  Together'
<1>1. \A i \in Id : CommandRight(i)'
  BY QuietCommandRight
<1>2. \A w \in Worker : LinkRight(w)' /\ OffersLinked(w)' /\ RecordRight(workers[w])'
  BY QuietLinkRight, QuietOffersLinked
<1>3. \A t \in Task : TaskRight(t)'
  BY QuietTaskRight
<1> QED
  BY <1>1, <1>2, <1>3 DEF Together

LEMMA CommandsStay ==
  ASSUME QP!IInv, UNCHANGED commandVars
  PROVE  QP!IInv' /\ (sends' = sends => Quiet)
<1>1. QP!IInv'
  BY QP!IInvStep, QAssumed DEF QP!vars, commandVars
<1>2. \A i \in Id : QP!Calm(i)
  BY DEF QP!Calm, commandVars
<1>3. nextSequence <= nextSequence'
  BY IndexFacts DEF commandVars
<1> QED
  BY <1>1, <1>2, <1>3 DEF Quiet

LEMMA WorkersStay ==
  ASSUME SP!StoreInv, Together, UNCHANGED workerVars
  PROVE  /\ SP!StoreInv' /\ SP!Inherits
         /\ \A w \in Worker : KeepsLink(w) /\ (sends' = sends => RecordRight(workers[w])')
<1>1. SP!StoreInv'
  BY SP!StoreStep, SAssumed DEF SP!vars, workerVars
<1>2. SP!Inherits
  BY TaskFacts DEF SP!Inherits, SP!Reused, workerVars
<1>3. \A w \in Worker : KeepsLink(w) /\ (sends' = sends => RecordRight(workers[w])')
  BY DEF KeepsLink, workerVars, Together, RecordRight
<1> QED
  BY <1>1, <1>2, <1>3

\* What was told to send is never unsent again, nor is another command.
LEMMA SentHasNoUnsent ==
  ASSUME Together, NEW t \in Task, sends[t] # {}, NEW i \in Id, Unsent(i)
  PROVE  commands[i].key.task # t
<1> SUFFICES ASSUME commands[i].key.task = t PROVE FALSE
  OBVIOUS
<1>1. PICK j \in sends[t] : TRUE
  OBVIOUS
<1>2. i \in Offered(t) /\ j \in Offered(t)
  BY <1>1 DEF Offered, Unsent
<1>3. i = j
  BY <1>2 DEF Together, TaskRight
<1> QED
  BY <1>1, <1>3 DEF Together, CommandRight, Unsent

LEMMA UnlinkedOffersNothing ==
  ASSUME SP!StoreInv, sends \in [Task -> SUBSET Id], Together,
         NEW w \in Worker, workers[w].current # None, workers[w].command = None
  PROVE  Offered(workers[w].current) = {}
<1>1. \A i \in Offered(workers[w].current) : Linked(w, i) /\ i \in Id
  BY WorkerFacts DEF Together, OffersLinked, Offered
<1> QED
  BY <1>1, WorkerFacts, LinkFacts DEF Linked

-----------------------------------------------------------------------------
(* From the parts to the invariant after a step.                           *)

\* A launch a browser may still be told of goes on waiting for it.
StillWaits(w) ==
  Pending(w) =>
    \/ /\ Pending(w)' /\ workers'[w].current = workers[w].current
       /\ workers'[w].command = workers[w].command
    \/ \A i \in Id : Unsent(i) => commands[i].key.task # workers[w].current
    \/ \A i \in Id : Unsent(i)' => commands'[i].key.task # workers[w].current

LEMMA OwnedStays ==
  ASSUME QP!IInv, Quiet, Owned,
         halfCleared \/ lock.step = "clear" => halfCleared' \/ lock'.step = "clear",
         \A w \in Worker : StillWaits(w)
  PROVE  Owned'
<1> SUFFICES ASSUME ~(halfCleared' \/ lock'.step = "clear"), NEW i \in Id, Unsent(i)'
             PROVE  Owner(i)'
  BY DEF Owned, Id, Q!Id
<1>1. QP!Calm(i)
  BY DEF Quiet, Unsent
<1>2. Unsent(i) /\ commands'[i].key = commands[i].key
  BY <1>1 DEF QP!Calm, Unsent, Present
<1>3. Owner(i)
  BY <1>2 DEF Owned
<1> DEFINE w == commands[i].key.worker
<1>4. w \in Worker
  BY <1>2, CommandFacts, KeyFacts DEF Unsent
<1>5. /\ Pending(w)' /\ workers'[w].current = workers[w].current
      /\ workers'[w].command = workers[w].command
  BY <1>2, <1>3, <1>4 DEF StillWaits, Owner
<1> QED
  BY <1>2, <1>3, <1>5 DEF Owner, Pending, Linked

LEMMA StepKeeps ==
  ASSUME LaunchInv, QP!IInv', SP!StoreInv', batches' = <<>>, families' \subseteq {TheCore},
         lock' \in Lock, HeldLock(lock)', faults' \in 0 .. MaxFaults,
         halfCleared' \in BOOLEAN,
         halfCleared \/ lock.step = "clear" => halfCleared' \/ lock'.step = "clear",
         Quiet, SP!Inherits,
         \A w \in Worker : KeepsLink(w) /\ RecordRight(workers[w])' /\ StillWaits(w)
  PROVE  LaunchInv'
<1>1. Stores'
  BY DEF Stores
<1>2. Ghosts'
  BY DEF LaunchInv, Ghosts, Quiet, Lock, Id, Q!Id, LaunchKey, Worker, Task
<1>3. Together'
  BY QuietKeeps DEF LaunchInv, Stores, Ghosts
<1>4. Owned'
  BY OwnedStays DEF LaunchInv, Stores
<1> QED
  BY <1>1, <1>2, <1>3, <1>4 DEF LaunchInv

LEMMA FreeLock == lock' = Free => lock' \in Lock /\ HeldLock(lock)' /\ lock'.step = "free"
BY DEF Free, Lock, Step, HeldLock

LEMMA SyncLock ==
  ASSUME NEW S0 \in SUBSET Id, lock' = Sync(S0), \A j \in S0 : commands'[j].state # "Absent"
  PROVE  lock' \in Lock /\ HeldLock(lock)'
<1>1. CASE S0 = {}
  BY <1>1, FreeLock DEF Sync
<1>2. CASE S0 # {}
  <2>1. lock' = [step |-> "sync", key |-> None, id |-> NoId, todo |-> S0]
    BY <1>2 DEF Sync, Free
  <2> QED
    BY <2>1 DEF Lock, Step, HeldLock, Present
<1> QED
  BY <1>1, <1>2

LEMMA AtLock ==
  ASSUME NEW step \in Step, NEW k \in LaunchKey \cup {None}, NEW i \in Id \cup {NoId},
         lock' = At(step, k, i)
  PROVE  /\ lock' \in Lock /\ lock'.step = step /\ lock'.key = k
         /\ lock'.id = i /\ lock'.todo = {}
BY DEF At, Lock

-----------------------------------------------------------------------------
(* The steps of one worker.                                                *)

\* No other worker moves, and every task stays its worker's.
OnlyWorker(w) ==
  /\ SP!StoreInv' /\ SP!Inherits /\ UNCHANGED <<families, batches, made>>
  /\ \A v \in Worker : v # w => workers'[v] = workers[v]

LEMMA TasksStay ==
  ASSUME SP!StoreInv, UNCHANGED <<receipts, made>>,
         \A t \in Task : tasks'[t].state # "Absent" =>
           tasks[t].state # "Absent" /\ tasks'[t].worker = tasks[t].worker
  PROVE  SP!Inherits
BY TaskFacts, Names DEF SP!Inherits, SP!Reused

LEMMA SetsWorker ==
  ASSUME SP!StoreInv, NEW w \in Worker, NEW r, S!SetWorker(w, r)
  PROVE  /\ workers'[w] = r /\ \A v \in Worker : v # w => workers'[v] = workers[v]
         /\ SP!Inherits /\ UNCHANGED <<families, batches, made, tasks>>
<1>1. /\ workers' = [workers EXCEPT ![w] = r]
      /\ UNCHANGED <<families, tasks, receipts, made, batches>>
  BY DEF S!SetWorker
<1>2. workers \in [Worker -> S!WorkerRecord]
  BY WorkerTypes, Names DEF S!TypeOK
<1>3. SP!Inherits
  BY <1>1, TasksStay
<1> QED
  BY <1>1, <1>2, <1>3

LEMMA SetsBoth ==
  ASSUME SP!StoreInv, NEW w \in Worker, NEW r, NEW task, workers[w].current # None,
         S!SetWorkerAndTask(w, r, task), task.worker = w, task.state # "Absent"
  PROVE  /\ workers'[w] = r /\ \A v \in Worker : v # w => workers'[v] = workers[v]
         /\ SP!Inherits /\ UNCHANGED <<families, batches, made>>
         /\ \A t \in Task : tasks'[t] = IF t = workers[w].current THEN task ELSE tasks[t]
<1>1. /\ workers' = [workers EXCEPT ![w] = r]
      /\ tasks' = [tasks EXCEPT ![workers[w].current] = task]
      /\ UNCHANGED <<families, receipts, made, batches>>
  BY DEF S!SetWorkerAndTask
<1>2. workers \in [Worker -> S!WorkerRecord] /\ tasks \in [Task -> S!TaskRecord]
  BY WorkerTypes, Names DEF S!TypeOK
<1>3. /\ workers[w].current \in Task /\ tasks[workers[w].current].worker = w
      /\ tasks[workers[w].current].state \in {"Pending", "Running"}
  BY WorkerFacts
<1>4. \A t \in Task : tasks'[t] = IF t = workers[w].current THEN task ELSE tasks[t]
  BY <1>1, <1>2, <1>3
<1>5. SP!Inherits
  BY <1>1, <1>3, <1>4, TasksStay
<1> QED
  BY <1>1, <1>2, <1>4, <1>5

LEMMA MirrorMoves ==
  ASSUME SP!StoreInv, NEW w \in Worker, NEW launch, NEW url,
         S!UpdateLaunchByCommand(w, launch, url), <<launch, url>> \in S!Mirrorable
  PROVE  /\ OnlyWorker(w) /\ tasks' = tasks
         /\ workers[w].command # None /\ workers[w].launch # "Claimed"
         /\ workers'[w].state = workers[w].state /\ workers'[w].current = workers[w].current
         /\ workers'[w].command = workers[w].command /\ workers'[w].chat = workers[w].chat
         /\ workers'[w].launch = launch /\ (workers'[w].url <=> workers[w].url \/ url)
<1>1. SP!StoreInv'
  <2>1. SP!UpdateLaunchByCommand(w, <<launch, url>>[1], <<launch, url>>[2])
    BY Mirrors
  <2>2. PICK m \in S!Mirrorable : m = <<launch, url>>
    OBVIOUS
  <2>3. SP!UpdateLaunchByCommand(w, m[1], m[2])
    BY <2>1, <2>2
  <2> QED
    BY <2>3, SP!MirrorKeeps, SAssumed, Names
<1>2. PICK wait, r :
        /\ r = [workers[w] EXCEPT !.launch = launch, !.url = workers[w].url \/ url, !.wait = wait]
        /\ S!SetWorker(w, r)
  BY DEF S!UpdateLaunchByCommand
<1>3. workers[w].command # None /\ workers[w].launch # "Claimed"
  BY DEF S!UpdateLaunchByCommand
<1>4. /\ r.state = workers[w].state /\ r.current = workers[w].current
      /\ r.command = workers[w].command /\ r.chat = workers[w].chat /\ r.launch = launch
  BY <1>2, WorkerFacts DEF S!WorkerRecord
<1>5. r.url <=> workers[w].url \/ url
  BY <1>2, WorkerFacts DEF S!WorkerRecord
<1> QED
  BY <1>1, <1>2, <1>3, <1>4, <1>5, SetsWorker DEF OnlyWorker

LEMMA LinkMoves ==
  ASSUME SP!StoreInv, NEW w \in Worker, NEW m \in S!Command, S!LinkLaunchCommand(w, m)
  PROVE  /\ OnlyWorker(w) /\ tasks' = tasks
         /\ workers[w].current # None /\ m[1] = workers[w].current
         /\ workers[w].command = None /\ workers'[w].command = m
         /\ workers'[w].state = workers[w].state /\ workers'[w].current = workers[w].current
         /\ workers'[w].chat = workers[w].chat /\ workers'[w].launch = "Queued"
         /\ workers'[w].state = "Waking" => workers'[w].url
<1>1. SP!StoreInv'
  <2>1. m \in SP!Command
    BY DEF S!Command, SP!Command, S!Task, SP!Task
  <2> QED
    BY <2>1, Links, SP!LinkKeeps, SAssumed, Names
<1>2. PICK r :
        /\ r = [workers[w] EXCEPT !.command = m, !.launch = "Queued",
                  !.url = workers[w].url /\ workers[w].state # "Provisioning"]
        /\ S!SetWorker(w, r)
  BY DEF S!LinkLaunchCommand
<1>3. /\ workers[w].current # None /\ m[1] = workers[w].current /\ workers[w].command = None
      /\ workers[w].state = "Waking" => workers[w].url
  BY DEF S!LinkLaunchCommand
<1>4. /\ r.state = workers[w].state /\ r.current = workers[w].current
      /\ r.command = m /\ r.chat = workers[w].chat /\ r.launch = "Queued"
  BY <1>2, WorkerFacts DEF S!WorkerRecord
<1>5. r.url <=> workers[w].url /\ workers[w].state # "Provisioning"
  BY <1>2, WorkerFacts DEF S!WorkerRecord
<1>6. /\ workers'[w] = r /\ \A v \in Worker : v # w => workers'[v] = workers[v]
      /\ SP!Inherits /\ UNCHANGED <<families, batches, made, tasks>>
  BY <1>2, SetsWorker
<1>7. r.state = "Waking" => r.url
  BY <1>3, <1>4, <1>5
<1> QED
  BY <1>1, <1>3, <1>4, <1>6, <1>7 DEF OnlyWorker

\* The launch is over without a start: nobody waits for the command any more.
Ends(w) ==
  /\ OnlyWorker(w) /\ Pending(w) /\ workers'[w].current = None
  /\ workers'[w].command \in {workers[w].command, None}
  /\ workers'[w].state \in {"Retired", "Idle"}
  /\ \A t \in Task : tasks'[t].state = "Absent" <=> tasks[t].state = "Absent"

LEMMA EndsBy ==
  ASSUME SP!StoreInv, SP!StoreInv', NEW w \in Worker, NEW r, NEW task, Pending(w),
         S!SetWorkerAndTask(w, r, task),
         r.current = None, r.command \in {workers[w].command, None},
         r.state \in {"Retired", "Idle"}, task.worker = w, task.state = "Failed"
  PROVE  Ends(w)
<1>1. workers[w].current # None /\ workers[w].current \in Task
      /\ tasks[workers[w].current].state \in {"Pending", "Running"}
  BY WorkerFacts DEF Pending
<1>2. /\ workers'[w] = r /\ \A v \in Worker : v # w => workers'[v] = workers[v]
      /\ SP!Inherits /\ UNCHANGED <<families, batches, made>>
      /\ \A t \in Task : tasks'[t] = IF t = workers[w].current THEN task ELSE tasks[t]
  BY <1>1, SetsBoth
<1>3. \A t \in Task : tasks'[t].state = "Absent" <=> tasks[t].state = "Absent"
  BY <1>1, <1>2
<1> QED
  BY <1>2, <1>3 DEF Ends, OnlyWorker

LEMMA OldTask ==
  ASSUME SP!StoreInv, NEW w \in Worker, workers[w].current # None
  PROVE  LET t == tasks[workers[w].current] IN
         /\ t \in S!TaskRecord /\ t.worker = w
         /\ S!FailedTask(t).worker = w /\ S!FailedTask(t).state = "Failed"
         /\ [t EXCEPT !.state = "Failed"].worker = w
         /\ [t EXCEPT !.state = "Failed"].state = "Failed"
         /\ [t EXCEPT !.state = "Pending"].worker = w
         /\ [t EXCEPT !.state = "Pending"].state = "Pending"
         /\ [t EXCEPT !.state = "Running"].worker = w
         /\ [t EXCEPT !.state = "Running"].state = "Running"
         /\ [t EXCEPT !.state = "Completed", !.outcome = "result"].worker = w
         /\ [t EXCEPT !.state = "Completed", !.outcome = "result"].state = "Completed"
<1>1. /\ tasks[workers[w].current] \in S!TaskRecord
      /\ tasks[workers[w].current].worker = w
  BY WorkerFacts, WorkerTypes, Names DEF S!TypeOK
<1> QED
  BY <1>1 DEF S!FailedTask, S!TaskRecord

LEMMA SettleEnds ==
  ASSUME SP!StoreInv, NEW w \in Worker, S!SettlePreSendFailure(w) PROVE Ends(w)
<1>1. SP!StoreInv'
  BY GivesUp, SP!SettleKeeps, SAssumed, Names
<1>2. PICK r, task :
        /\ \/ r = S!GaveUp(workers[w])
           \/ r = [S!Reidled(workers[w]) EXCEPT !.wait = "No"]
        /\ task = S!FailedTask(tasks[workers[w].current])
        /\ S!SetWorkerAndTask(w, r, task)
  BY DEF S!SettlePreSendFailure
<1>3. Pending(w)
  BY DEF S!SettlePreSendFailure, S!HasPending, Pending
<1>4. /\ r.current = None /\ r.command \in {workers[w].command, None}
      /\ r.state \in {"Retired", "Idle"}
  BY <1>2, WorkerFacts DEF S!GaveUp, S!Gone, S!Reidled, S!WorkerRecord
<1>5. task.worker = w /\ task.state = "Failed"
  BY <1>2, <1>3, OldTask DEF Pending
<1> QED
  BY <1>1, <1>2, <1>3, <1>4, <1>5, EndsBy

LEMMA CancelEnds ==
  ASSUME SP!StoreInv, NEW w \in Worker, S!CancelUnclaimedAfterSend(w) PROVE Ends(w)
<1>1. SP!StoreInv'
  BY CancelsSent, SP!CancelKeeps, SAssumed, Names
<1>2. PICK r, task :
        /\ r = S!GaveUp(workers[w])
        /\ task = S!FailedTask(tasks[workers[w].current])
        /\ S!SetWorkerAndTask(w, r, task)
  BY DEF S!CancelUnclaimedAfterSend
<1>3. Pending(w)
  BY DEF S!CancelUnclaimedAfterSend, S!HasPending, Pending
<1>4. r.current = None /\ r.command = workers[w].command /\ r.state = "Retired"
  BY <1>2, WorkerFacts DEF S!GaveUp, S!Gone, S!WorkerRecord
<1>5. task.worker = w /\ task.state = "Failed"
  BY <1>2, <1>3, OldTask DEF Pending
<1> QED
  BY <1>1, <1>2, <1>3, <1>4, <1>5, EndsBy

LEMMA RetireEnds ==
  ASSUME SP!StoreInv, NEW w \in Worker, S!RetirePending(w) PROVE Ends(w)
<1>1. SP!StoreInv'
  BY RetiresPending, SP!RetirePendingKeeps, SAssumed, Names
<1>2. PICK r, task :
        /\ r = S!Gone(workers[w])
        /\ task = [tasks[workers[w].current] EXCEPT !.state = "Failed"]
        /\ S!SetWorkerAndTask(w, r, task)
  BY DEF S!RetirePending
<1>3. Pending(w)
  BY DEF S!RetirePending, S!HasPending, Pending
<1>4. r.current = None /\ r.command = workers[w].command /\ r.state = "Retired"
  BY <1>2, WorkerFacts DEF S!Gone, S!WorkerRecord
<1>5. task.worker = w /\ task.state = "Failed"
  BY <1>2, <1>3, OldTask DEF Pending
<1> QED
  BY <1>1, <1>2, <1>3, <1>4, <1>5, EndsBy

LEMMA RetireIdleMoves ==
  ASSUME SP!StoreInv, NEW w \in Worker, S!RetireIdle(w)
  PROVE  /\ OnlyWorker(w) /\ tasks' = tasks /\ workers[w].current = None
         /\ workers'[w].current = None /\ workers'[w].state = "Retired"
         /\ workers'[w].command = workers[w].command
<1>1. SP!StoreInv'
  BY RetiresIdle, SP!RetireIdleKeeps, SAssumed, Names
<1>2. workers[w].current = None /\ S!SetWorker(w, S!Gone(workers[w]))
  BY DEF S!RetireIdle
<1>3. PICK r : r = S!Gone(workers[w]) /\ S!SetWorker(w, r)
  BY <1>2
<1>4. r.current = None /\ r.command = workers[w].command /\ r.state = "Retired"
  BY <1>3, WorkerFacts DEF S!Gone, S!WorkerRecord
<1> QED
  BY <1>1, <1>2, <1>3, <1>4, SetsWorker DEF OnlyWorker

LEMMA GraceMoves ==
  ASSUME SP!StoreInv, NEW w \in Worker, S!GraceEnds(w)
  PROVE  /\ OnlyWorker(w) /\ tasks' = tasks
         /\ workers'[w].state = workers[w].state /\ workers'[w].current = workers[w].current
         /\ workers'[w].command = workers[w].command /\ workers'[w].chat = workers[w].chat
         /\ workers'[w].launch = workers[w].launch /\ workers'[w].url = workers[w].url
<1>1. SP!StoreInv'
  BY Ages, SP!GraceKeeps, SAssumed, Names
<1>2. PICK r : r = [workers[w] EXCEPT !.wait = "Overdue"] /\ S!SetWorker(w, r)
  BY DEF S!GraceEnds
<1>3. /\ r.state = workers[w].state /\ r.current = workers[w].current
      /\ r.command = workers[w].command /\ r.chat = workers[w].chat
      /\ r.launch = workers[w].launch /\ r.url = workers[w].url
  BY <1>2, WorkerFacts DEF S!WorkerRecord
<1> QED
  BY <1>1, <1>2, <1>3, SetsWorker DEF OnlyWorker

LEMMA ClaimMoves ==
  ASSUME SP!StoreInv, NEW w \in Worker, NEW h \in Chat, S!ClaimWorkerAttested(w, h)
  PROVE  /\ OnlyWorker(w) /\ workers[w].current # None /\ workers[w].chat = None
         /\ workers[w].launch = "WaitingClaim"
         /\ workers'[w].state = "Provisioning" /\ workers'[w].current = workers[w].current
         /\ workers'[w].command = workers[w].command /\ workers'[w].chat # None
         /\ workers'[w].launch = "Claimed"
         /\ \A t \in Task : tasks'[t].state = "Absent" <=> tasks[t].state = "Absent"
<1>1. SP!StoreInv'
  BY Claims, SP!ClaimKeeps, SAssumed, Names
<1>2. PICK r, task :
        /\ r = [workers[w] EXCEPT !.chat = h, !.token = FALSE, !.wait = "No",
                                  !.state = "Provisioning", !.launch = "Claimed"]
        /\ task = [tasks[workers[w].current] EXCEPT !.state = "Pending"]
        /\ S!SetWorkerAndTask(w, r, task)
  BY DEF S!ClaimWorkerAttested
<1>3. workers[w].current # None /\ workers[w].chat = None /\ workers[w].launch = "WaitingClaim"
  BY DEF S!ClaimWorkerAttested
<1>4. /\ r.state = "Provisioning" /\ r.current = workers[w].current
      /\ r.command = workers[w].command /\ r.chat = h /\ r.launch = "Claimed"
  BY <1>2, WorkerFacts DEF S!WorkerRecord
<1>5. task.worker = w /\ task.state = "Pending" /\ task.state # "Absent"
  BY <1>2, <1>3, OldTask
<1>6. h # None
  BY LaunchConstantsOK DEF LaunchConstantsOK
<1>7. /\ workers'[w] = r /\ \A v \in Worker : v # w => workers'[v] = workers[v]
      /\ SP!Inherits /\ UNCHANGED <<families, batches, made>>
      /\ \A t \in Task : tasks'[t] = IF t = workers[w].current THEN task ELSE tasks[t]
  <2>1. S!SetWorkerAndTask(w, r, task) /\ workers[w].current # None
    BY <1>2, <1>3
  <2> QED
    BY <1>5, <2>1, SetsBoth
<1>8. \A t \in Task : tasks'[t].state = "Absent" <=> tasks[t].state = "Absent"
  BY <1>3, <1>5, <1>7, WorkerFacts
<1> QED
  BY <1>1, <1>3, <1>4, <1>6, <1>7, <1>8 DEF OnlyWorker

LEMMA StartMoves ==
  ASSUME SP!StoreInv, NEW w \in Worker, S!StartTask(w)
  PROVE  /\ OnlyWorker(w) /\ workers[w].current # None /\ workers[w].chat # None
         /\ workers'[w].state = "Running" /\ workers'[w].current = workers[w].current
         /\ workers'[w].command = workers[w].command /\ workers'[w].chat # None
         /\ tasks[workers[w].current].state = "Pending"
         /\ tasks'[workers[w].current].state = "Running"
         /\ \A t \in Task : tasks'[t].state = "Absent" <=> tasks[t].state = "Absent"
<1>1. SP!StoreInv'
  BY Starts, SP!StartKeeps, SAssumed, Names
<1>2. PICK r, task :
        /\ r = [workers[w] EXCEPT !.state = "Running", !.launch = "Claimed"]
        /\ task = [tasks[workers[w].current] EXCEPT !.state = "Running"]
        /\ S!SetWorkerAndTask(w, r, task)
  BY DEF S!StartTask
<1>3. /\ workers[w].current # None /\ workers[w].chat # None
      /\ tasks[workers[w].current].state = "Pending"
  BY DEF S!StartTask, S!HasPending
<1>4. /\ r.state = "Running" /\ r.current = workers[w].current
      /\ r.command = workers[w].command /\ r.chat = workers[w].chat
  BY <1>2, WorkerFacts DEF S!WorkerRecord
<1>5. task.worker = w /\ task.state = "Running" /\ task.state # "Absent"
  BY <1>2, <1>3, OldTask
<1>6. /\ workers'[w] = r /\ \A v \in Worker : v # w => workers'[v] = workers[v]
      /\ SP!Inherits /\ UNCHANGED <<families, batches, made>>
      /\ \A t \in Task : tasks'[t] = IF t = workers[w].current THEN task ELSE tasks[t]
  <2>1. S!SetWorkerAndTask(w, r, task) /\ workers[w].current # None
    BY <1>2, <1>3
  <2> QED
    BY <1>5, <2>1, SetsBoth
<1>7. /\ tasks'[workers[w].current].state = "Running"
      /\ \A t \in Task : tasks'[t].state = "Absent" <=> tasks[t].state = "Absent"
  BY <1>3, <1>5, <1>6, WorkerFacts
<1> QED
  BY <1>1, <1>3, <1>4, <1>6, <1>7 DEF OnlyWorker

LEMMA FinishMoves ==
  ASSUME SP!StoreInv, NEW w \in Worker, S!FinishTask(w)
  PROVE  /\ OnlyWorker(w) /\ workers[w].state = "Running"
         /\ workers'[w].state = "Idle" /\ workers'[w].current = None
         /\ workers'[w].command = workers[w].command
         /\ \A t \in Task : tasks'[t].state = "Absent" <=> tasks[t].state = "Absent"
<1>1. SP!StoreInv'
  BY Finishes, SP!FinishKeeps, SAssumed, Names
<1>2. PICK guard, r, task :
        /\ r = [workers[w] EXCEPT !.current = None, !.state = "Idle", !.guard = guard]
        /\ task = [tasks[workers[w].current] EXCEPT !.state = "Completed", !.outcome = "result"]
        /\ S!SetWorkerAndTask(w, r, task)
  BY DEF S!FinishTask
<1>3. workers[w].current # None /\ workers[w].state = "Running"
  BY DEF S!FinishTask, S!AtWork
<1>4. r.state = "Idle" /\ r.current = None /\ r.command = workers[w].command
  BY <1>2, WorkerFacts DEF S!WorkerRecord
<1>5. task.worker = w /\ task.state = "Completed" /\ task.state # "Absent"
  BY <1>2, <1>3, OldTask
<1>6. /\ workers'[w] = r /\ \A v \in Worker : v # w => workers'[v] = workers[v]
      /\ SP!Inherits /\ UNCHANGED <<families, batches, made>>
      /\ \A t \in Task : tasks'[t] = IF t = workers[w].current THEN task ELSE tasks[t]
  <2>1. S!SetWorkerAndTask(w, r, task) /\ workers[w].current # None
    BY <1>2, <1>3
  <2> QED
    BY <1>5, <2>1, SetsBoth
<1>7. \A t \in Task : tasks'[t].state = "Absent" <=> tasks[t].state = "Absent"
  BY <1>3, <1>5, <1>6, WorkerFacts
<1> QED
  BY <1>1, <1>3, <1>4, <1>6, <1>7 DEF OnlyWorker

\* Every launch that is too late ends; the others stay as they are.
LEMMA ExpiryMoves ==
  ASSUME SP!StoreInv, S!ExpireWaitingClaims(Core)
  PROVE  /\ SP!StoreInv' /\ SP!Inherits /\ UNCHANGED <<families, batches, made>>
         /\ \A w \in Worker :
              \/ workers'[w] = workers[w]
              \/ /\ workers[w].launch = "WaitingClaim" /\ workers[w].chat = None
                 /\ Pending(w) /\ workers'[w].current = None
                 /\ workers'[w].state = "Retired"
                 /\ workers'[w].command = workers[w].command
         /\ \A t \in Task :
              /\ tasks'[t].state = "Absent" <=> tasks[t].state = "Absent"
              /\ tasks[t].state = "Running" => tasks'[t].state = "Running"
<1>1. SP!StoreInv'
  BY TimesOut, SP!ExpireKeeps, SAssumed
<1>2. PICK late \in SUBSET Worker :
        /\ \A w \in late : S!AwaitsClaim(w)
        /\ workers' = [w \in Worker |-> IF w \in late THEN S!GaveUp(workers[w]) ELSE workers[w]]
        /\ tasks' = [t \in Task |->
             IF tasks[t].state = "Pending" /\ \E w \in late : t = workers[w].current
             THEN S!FailedTask(tasks[t]) ELSE tasks[t]]
        /\ UNCHANGED <<families, receipts, made, batches>>
  <2>1. {w \in Worker : /\ S!AwaitsClaim(w) /\ workers[w].core \in Core
                        /\ workers[w].wait = "Overdue"} \in SUBSET Worker
    OBVIOUS
  <2> QED
    BY <2>1, Names DEF S!ExpireWaitingClaims
<1>3. ASSUME NEW w \in late
      PROVE  /\ workers[w].launch = "WaitingClaim" /\ workers[w].chat = None
             /\ Pending(w) /\ workers'[w].current = None
             /\ workers'[w].state = "Retired"
             /\ workers'[w].command = workers[w].command
  <2>1. S!AwaitsClaim(w) /\ w \in Worker /\ workers'[w] = S!GaveUp(workers[w])
    BY <1>2
  <2>2. PICK r : r = S!GaveUp(workers[w])
    OBVIOUS
  <2>3. r.current = None /\ r.state = "Retired" /\ r.command = workers[w].command
    BY <2>1, <2>2, WorkerFacts DEF S!GaveUp, S!Gone, S!WorkerRecord
  <2> QED
    BY <2>1, <2>2, <2>3, WorkerFacts DEF S!AwaitsClaim, S!HasPending, Pending
<1>4. \A t \in Task : tasks[t] \in S!TaskRecord
  BY WorkerTypes, Names DEF S!TypeOK
<1>5. ASSUME NEW t \in Task
      PROVE  /\ tasks'[t].worker = tasks[t].worker
             /\ tasks'[t].state = "Absent" <=> tasks[t].state = "Absent"
             /\ tasks[t].state = "Running" => tasks'[t].state = "Running"
  BY <1>2, <1>4 DEF S!FailedTask, S!TaskRecord
<1>6. SP!Inherits
  BY <1>2, <1>5, TasksStay
<1> QED
  BY <1>1, <1>2, <1>3, <1>5, <1>6

\* A launch is undone: its task goes, and its worker is free of it.
Undoes(w) ==
  LET t == workers[w].current IN
  /\ OnlyWorker(w) /\ Pending(w)
  /\ workers'[w].state \in {"Absent", "Idle"} /\ workers'[w].current = None
  /\ workers'[w].command = None
  /\ \A u \in Task : u # t => tasks'[u] = tasks[u]

LEMMA ForgetUndoes ==
  ASSUME SP!StoreInv, NEW w \in Worker, S!ForgetSpawn(w) \/ S!ForgetReuse(w)
  PROVE  Undoes(w)
<1>1. Pending(w)
  BY DEF S!ForgetSpawn, S!ForgetReuse, S!HasPending, Pending
<1>2. CASE S!ForgetSpawn(w)
  BY <1>1, <1>2, ForgetsSpawn, SP!ForgetSpawnUndoes, SAssumed, Names DEF Undoes, OnlyWorker
<1>3. CASE S!ForgetReuse(w)
  BY <1>1, <1>3, ForgetsReuse, SP!ForgetReuseUndoes, SAssumed, Names DEF Undoes, OnlyWorker
<1> QED
  BY <1>2, <1>3

\* A launch begins: a new task, for a worker that had none.
Begins(w) ==
  LET t == made.task + 1 IN
  /\ SP!StoreInv' /\ SP!Inherits /\ batches' = <<>> /\ families' \subseteq {TheCore}
  /\ \A v \in Worker : v # w => workers'[v] = workers[v]
  /\ w \in Worker /\ t \in Task /\ made'.task = t /\ workers[w].current = None
  /\ workers'[w].current = t /\ workers'[w].command = None
  /\ workers'[w].launch = "Queued"
  /\ \/ workers'[w].state = "Waking" /\ workers'[w].url
     \/ workers'[w].state = "Provisioning" /\ workers'[w].chat = None
  /\ tasks[t].state = "Absent" /\ tasks'[t].state = "Pending" /\ tasks'[t].worker = w
  /\ \A u \in Task : u # t => tasks'[u] = tasks[u]

LEMMA SpawnBegins ==
  ASSUME SP!StoreInv, batches = <<>>, families \subseteq {TheCore}, NEW op \in Op,
         S!SpawnWorker(TheCore, op)
  PROVE  LET w == made'.worker IN Begins(w) /\ workers'[w].state = "Provisioning"
<1>1. TheCore \in Core
  BY LaunchConstantsOK DEF LaunchConstantsOK
<1> QED
  BY <1>1, Spawns, SP!SpawnAdds, SAssumed, Names DEF Begins

LEMMA ReuseBegins ==
  ASSUME SP!StoreInv, batches = <<>>, families \subseteq {TheCore}, NEW w \in Worker, NEW op \in Op,
         S!ReuseWorker(w, op)
  PROVE  Begins(w) /\ workers'[w].state = "Waking"
BY Reuses, SP!ReuseAdds, SAssumed, Names DEF Begins

\* The key a begun launch is given is the one recovery would look for.
LEMMA BegunKey ==
  ASSUME SP!StoreInv, NEW w \in Worker, Begins(w), NEW b \in BOOLEAN, NEW k,
         k = [worker |-> w, task |-> made'.task, reuse |-> b],
         workers'[w].state = IF b THEN "Waking" ELSE "Provisioning"
  PROVE  KnownKey(k)'
<1>1. PICK t \in Task : t = made.task + 1
  BY DEF Begins
<1>2. /\ made'.task = t /\ workers'[w].current = t /\ tasks'[t].worker = w
      /\ SP!StoreInv' /\ t \in Nat
  BY <1>1, TaskFacts DEF Begins
<1>3. SP!Reused(receipts', t) <=> b
  <2>1. SP!Life(workers', tasks') /\ SP!Receipts(workers', tasks', receipts', batches')
    BY <1>2 DEF SP!StoreInv
  <2>2. t # None
    BY <1>2, TaskFacts
  <2> QED
    BY <1>2, <2>1, <2>2, SP!LaunchKind, SAssumed, Names
<1>4. k = [worker |-> w, task |-> t, reuse |-> b] /\ k \in LaunchKey /\ k.task = t /\ k.worker = w
  BY <1>2 DEF LaunchKey
<1>5. k = KeyOf(w, t)'
  BY <1>3, <1>4 DEF KeyOf, SP!Reused
<1> QED
  BY <1>2, <1>4, <1>5 DEF KnownKey

-----------------------------------------------------------------------------
(* The handlers.                                                           *)

\* What every step leaves of the lock and of the faults.
LockStep ==
  /\ lock' \in Lock /\ HeldLock(lock)' /\ faults' \in 0 .. MaxFaults
  /\ halfCleared' = halfCleared /\ (lock.step = "clear" => lock'.step = "clear")

LEMMA FaultBound ==
  ASSUME Ghosts
  PROVE  /\ Fault => faults' \in 0 .. MaxFaults /\ sends' = sends /\ halfCleared' = halfCleared
         /\ faults' = faults => faults' \in 0 .. MaxFaults
BY LaunchConstantsOK DEF Ghosts, Fault, LaunchConstantsOK

LEMMA OneWorkerStep ==
  ASSUME LaunchInv, NEW w \in Worker, UNCHANGED commandVars, sends' = sends, LockStep,
         OnlyWorker(w), KeepsLink(w), RecordRight(workers[w])', StillWaits(w)
  PROVE  LaunchInv'
<1>1. QP!IInv' /\ Quiet
  BY CommandsStay DEF LaunchInv, Stores
<1>2. \A v \in Worker : v # w => workers'[v] = workers[v]
  BY DEF OnlyWorker
<1>3. \A v \in Worker : KeepsLink(v) /\ RecordRight(workers[v])' /\ StillWaits(v)
  <2> SUFFICES ASSUME NEW v \in Worker, v # w
               PROVE  KeepsLink(v) /\ RecordRight(workers[v])' /\ StillWaits(v)
    OBVIOUS
  <2>1. workers'[v] = workers[v]
    BY <1>2
  <2>2. RecordRight(workers[v])
    BY DEF LaunchInv, Together
  <2> QED
    BY <2>1, <2>2 DEF KeepsLink, StillWaits, Pending, RecordRight
<1>4. /\ SP!StoreInv' /\ SP!Inherits /\ batches' = <<>> /\ families' \subseteq {TheCore}
      /\ halfCleared' \in BOOLEAN
  BY DEF OnlyWorker, LaunchInv, Stores, Ghosts, LockStep
<1> QED
  BY <1>1, <1>3, <1>4, StepKeeps DEF LockStep

LEMMA CommandStep ==
  ASSUME LaunchInv, UNCHANGED workerVars, QP!IInv', Quiet, LockStep
  PROVE  LaunchInv'
<1>1. SP!StoreInv' /\ SP!Inherits /\ UNCHANGED <<batches, families>>
  BY WorkersStay DEF LaunchInv, Stores, workerVars
<1>2. \A w \in Worker : KeepsLink(w) /\ RecordRight(workers[w])'
  BY WorkersStay DEF LaunchInv, Stores, Quiet
<1>3. \A w \in Worker : StillWaits(w)
  BY DEF StillWaits, Pending, workerVars
<1>4. batches' = <<>> /\ families' \subseteq {TheCore} /\ halfCleared' \in BOOLEAN
  BY <1>1 DEF LaunchInv, Stores, Ghosts, LockStep
<1> QED
  BY <1>1, <1>2, <1>3, <1>4, StepKeeps DEF LockStep

\* Neither store changes.
LEMMA NeitherStep ==
  ASSUME LaunchInv, UNCHANGED workerVars, UNCHANGED commandVars, sends' = sends, LockStep
  PROVE  LaunchInv'
<1>1. QP!IInv' /\ Quiet
  BY CommandsStay DEF LaunchInv, Stores
<1> QED
  BY <1>1, CommandStep

LEMMA EndsStep ==
  ASSUME LaunchInv, NEW w \in Worker, UNCHANGED commandVars, sends' = sends, LockStep,
         Ends(w) \/ Undoes(w),
         \A i \in Id : Unsent(i) => commands[i].key.task # workers[w].current
  PROVE  LaunchInv'
<1>1. /\ OnlyWorker(w) /\ workers'[w].current = None
      /\ workers'[w].command \in {workers[w].command, None}
      /\ workers'[w].state \notin {"Provisioning", "Waking", "Running"}
  BY DEF Ends, Undoes
<1>2. KeepsLink(w) /\ StillWaits(w)
  BY <1>1 DEF KeepsLink, StillWaits
<1>3. RecordRight(workers[w])'
  BY <1>1 DEF RecordRight
<1> QED
  BY <1>1, <1>2, <1>3, OneWorkerStep

\* Only the mirror of a launch changes: it may be ahead of no command.
LEMMA MirrorStep ==
  ASSUME LaunchInv, NEW w \in Worker, UNCHANGED commandVars, sends' = sends, LockStep,
         NEW launch, NEW url, <<launch, url>> \in S!Mirrorable,
         S!UpdateLaunchByCommand(w, launch, url),
         launch \in {"SendStarted", "Reconciling", "WaitingClaim"} /\ Pending(w) =>
           sends[workers[w].current] # {}
  PROVE  LaunchInv'
<1>1. /\ OnlyWorker(w) /\ workers[w].command # None /\ workers[w].launch # "Claimed"
      /\ workers'[w].state = workers[w].state /\ workers'[w].current = workers[w].current
      /\ workers'[w].command = workers[w].command /\ workers'[w].chat = workers[w].chat
      /\ workers'[w].launch = launch /\ (workers'[w].url <=> workers[w].url \/ url)
  BY MirrorMoves DEF LaunchInv, Stores
<1>2. KeepsLink(w) /\ StillWaits(w)
  BY <1>1 DEF KeepsLink, StillWaits, Pending
<1>3. RecordRight(workers[w])
  BY DEF LaunchInv, Together
<1>4. RecordRight(workers[w])'
  BY <1>1, <1>3 DEF RecordRight, Pending
<1> QED
  BY <1>1, <1>2, <1>4, OneWorkerStep

\* A command is linked only where nothing was offered before.
LEMMA LinkStep ==
  ASSUME LaunchInv, NEW w \in Worker, NEW k \in LaunchKey, NEW i \in Id,
         UNCHANGED commandVars, sends' = sends, LockStep,
         k.worker = w, dedupe[k] = i, S!LinkLaunchCommand(w, <<k.task, i + 1>>)
  PROVE  LaunchInv'
<1>1. k.task \in Task /\ <<k.task, i + 1>> \in S!Command
  BY KeyFacts, LinkFacts
<1>2. PICK m \in S!Command : m = <<k.task, i + 1>>
  BY <1>1
<1>3. /\ OnlyWorker(w) /\ workers[w].current # None /\ m[1] = workers[w].current
      /\ workers[w].command = None /\ workers'[w].command = m
      /\ workers'[w].state = workers[w].state /\ workers'[w].current = workers[w].current
      /\ workers'[w].chat = workers[w].chat /\ workers'[w].launch = "Queued"
      /\ workers'[w].state = "Waking" => workers'[w].url
  BY <1>2, LinkMoves DEF LaunchInv, Stores
<1>4. QP!IInv' /\ Quiet
  BY CommandsStay DEF LaunchInv, Stores
<1>5. /\ Present(i) /\ commands[i].key = k /\ i < nextSequence /\ i \in Nat /\ nextSequence \in Nat
      /\ m[2] - 1 = i /\ m[2] = i + 1 /\ m[1] = k.task
  BY <1>2, IndexFacts, CommandFacts, LinkFacts DEF LaunchInv, Stores
<1>6. LinkRight(w)'
  <2>1. m[2] <= nextSequence
    BY <1>5
  <2> QED
    BY <1>3, <1>5, <2>1 DEF LinkRight, Present, commandVars
<1>7. RecordRight(workers[w])'
  <2>1. RecordRight(workers[w]) /\ m # None
    BY <1>2, LinkFacts DEF LaunchInv, Together
  <2> QED
    BY <1>3, <2>1 DEF RecordRight
<1>8. Offered(workers[w].current) = {}
  BY <1>3, UnlinkedOffersNothing DEF LaunchInv, Stores, Ghosts
<1>9. \A v \in Worker : v # w => workers'[v] = workers[v]
  BY <1>3 DEF OnlyWorker
<1>10. \A v \in Worker : LinkRight(v)' /\ OffersLinked(v)' /\ RecordRight(workers[v])'
  <2>1. OffersLinked(w)'
    BY <1>3, <1>8 DEF OffersLinked, Offered, Present, commandVars, Id, Q!Id
  <2>2. ASSUME NEW v \in Worker, v # w
        PROVE  LinkRight(v)' /\ OffersLinked(v)' /\ RecordRight(workers[v])'
    <3>1. workers'[v] = workers[v] /\ UNCHANGED <<commands, nextSequence, sends>>
      BY <1>9, <2>2 DEF commandVars
    <3>2. LinkRight(v) /\ OffersLinked(v) /\ RecordRight(workers[v])
      BY DEF LaunchInv, Together
    <3>3. LinkRight(v)'
      BY <3>1, <3>2 DEF LinkRight, Present
    <3>4. OffersLinked(v)'
      BY <3>1, <3>2 DEF OffersLinked, Linked, Offered, Present, Id, Q!Id
    <3>5. RecordRight(workers[v])'
      BY <3>1, <3>2 DEF RecordRight
    <3> QED
      BY <3>3, <3>4, <3>5
  <2> QED
    BY <1>6, <1>7, <2>1, <2>2
<1>11. Together'
  <2>1. \A j \in Id : CommandRight(j)'
    BY <1>3, <1>4, QuietCommandRight DEF LaunchInv, Stores, OnlyWorker
  <2>2. \A t \in Task : TaskRight(t)'
    BY <1>3, <1>4, QuietTaskRight DEF LaunchInv, Stores, OnlyWorker, Ghosts
  <2> QED
    BY <1>10, <2>1, <2>2 DEF Together
<1>12. Owned'
  <2>1. \A j \in Id : Unsent(j) => commands[j].key.task # workers[w].current
    BY <1>8 DEF Offered, Unsent
  <2>2. \A v \in Worker : StillWaits(v)
    BY <1>9, <2>1 DEF StillWaits, Pending
  <2> QED
    BY <1>4, <2>2, OwnedStays DEF LaunchInv, Stores, LockStep
<1>13. Stores' /\ Ghosts'
  BY <1>3, <1>4 DEF Stores, Ghosts, LaunchInv, OnlyWorker, LockStep, Lock, Id, Q!Id, LaunchKey, Worker, Task
<1> QED
  BY <1>11, <1>12, <1>13 DEF LaunchInv, LockStep

LEMMA FreeStep ==
  ASSUME lock' = Free, lock.step # "clear", faults' \in 0 .. MaxFaults, halfCleared' = halfCleared
  PROVE  LockStep
BY FreeLock DEF LockStep

LEMMA FreeStays ==
  ASSUME Ghosts, lock = Free, lock' = Free, UNCHANGED <<faults, halfCleared>>
  PROVE  LockStep
BY FreeStep, FaultBound DEF Free

\* Releasing a command adds it to what is offered for its task, and nothing
\* else is, provided that its worker waits for it.
LEMMA ReleaseStep ==
  ASSUME LaunchInv, NEW i \in Id, UNCHANGED workerVars, sends' = sends, LockStep,
         Q!ActivateDispatch(i),
         LET k == commands[i].key IN
           /\ Offered(k.task) \subseteq {i}
           /\ workers[k.worker].current = k.task => Linked(k.worker, i)
           /\ \/ sends[k.task] # {}
              \/ Pending(k.worker) /\ workers[k.worker].current = k.task
  PROVE  LaunchInv'
<1>1. PICK k : k = commands[i].key
  OBVIOUS
<1>2. /\ Offered(k.task) \subseteq {i}
      /\ workers[k.worker].current = k.task => Linked(k.worker, i)
      /\ sends[k.task] # {} \/ (Pending(k.worker) /\ workers[k.worker].current = k.task)
  BY <1>1
<1>3. QP!ActivateDispatch(i) /\ i \in QP!Id
  BY Releases, Names
<1>4. QP!IInv' /\ QP!IInv /\ SP!StoreInv
  BY <1>3, QP!ActivateDispatchStep, QAssumed DEF LaunchInv, Stores
<1>5. /\ commands[i].state = "Queued" /\ ~commands[i].ready /\ ~commands[i].history
      /\ commands'[i].state = "Queued" /\ commands'[i].ready
      /\ commands'[i].key = k /\ ~commands'[i].history
      /\ commands'[i].conv = commands[i].conv
      /\ \A j \in Id : j # i => commands'[j] = commands[j]
      /\ UNCHANGED <<dedupe, nextSequence>>
  BY <1>1, <1>3, <1>4, QP!ActivateReleases, QAssumed, Names
<1>6. Present(i) /\ KnownKey(k) /\ i \notin sends[k.task] /\ commands[i].conv = 0
  BY <1>1, <1>5 DEF Present, LaunchInv, Together, CommandRight
<1>7. sends[k.task] = {}
  BY <1>2, <1>6 DEF Offered
<1>8. Pending(k.worker) /\ workers[k.worker].current = k.task /\ Linked(k.worker, i)
  BY <1>2, <1>7
<1>9. k.worker \in Worker /\ k.task \in Task
  BY <1>6, KeyFacts DEF KnownKey
<1>10. /\ workers' = workers /\ tasks' = tasks /\ receipts' = receipts /\ made' = made
       /\ batches' = batches /\ families' = families
  BY DEF workerVars
<1>11. \A x : KnownKey(x) => KnownKey(x)'
  BY <1>10 DEF KnownKey, KeyOf
<1>12. ASSUME NEW t \in Task
       PROVE  Offered(t)' \subseteq Offered(t) \cup IF t = k.task THEN {i} ELSE {}
  BY <1>5 DEF Offered, Present, Id, Q!Id
<1>13. \A j \in Id : CommandRight(j)'
  <2> SUFFICES ASSUME NEW j \in Id PROVE CommandRight(j)'
    OBVIOUS
  <2>1. CommandRight(j)
    BY DEF LaunchInv, Together
  <2>2. CASE j # i
    <3>1. PICK x : x = commands[j].key
      OBVIOUS
    <3>2. commands'[j] = commands[j] /\ sends' = sends
      BY <1>5, <2>2
    <3>3. Present(j) => KnownKey(x)'
      BY <1>11, <2>1, <3>1 DEF CommandRight
    <3>4. Present(j) => KnownKey(commands[j].key)'
      BY <3>1, <3>2, <3>3 DEF KnownKey
    <3> QED
      BY <2>1, <3>2, <3>4 DEF CommandRight, Present
  <2>3. CASE j = i
    <3>1. KnownKey(k)'
      BY <1>6, <1>11
    <3>2. KnownKey(commands[i].key)'
      BY <1>5, <3>1 DEF KnownKey
    <3> QED
      BY <1>5, <1>6, <2>3, <3>2 DEF CommandRight, Present
  <2> QED
    BY <2>2, <2>3
<1>14. ASSUME NEW w \in Worker
       PROVE  LinkRight(w)' /\ RecordRight(workers[w])' /\ OffersLinked(w)'
  <2>1. LinkRight(w) /\ RecordRight(workers[w]) /\ OffersLinked(w)
    BY DEF LaunchInv, Together
  <2>2. RecordRight(workers[w])'
    BY <1>10, <2>1 DEF RecordRight
  <2>3. LinkRight(w)'
    <3>1. \A j \in Id : Present(j)' => Present(j) /\ commands'[j].key = commands[j].key
      BY <1>1, <1>5, <1>6 DEF Present
    <3>2. workers[w].command # None => workers[w].command[2] - 1 \in Id
      BY <1>4, WorkerFacts, LinkFacts
    <3> QED
      BY <1>5, <1>10, <2>1, <3>1, <3>2 DEF LinkRight
  <2>4. OffersLinked(w)'
    <3>1. workers[w].current # None => workers[w].current \in Task
      BY <1>4, WorkerFacts
    <3>2. CASE workers[w].current = k.task
      <4>1. w = k.worker
        BY <1>4, <1>8, <1>9, <3>1, <3>2, WorkerFacts DEF Pending
      <4> QED
        BY <1>8, <1>10, <1>12, <2>1, <3>1, <3>2, <4>1 DEF OffersLinked, Linked, Offered
    <3>3. CASE workers[w].current # k.task
      BY <1>10, <1>12, <2>1, <3>1, <3>3 DEF OffersLinked, Linked, Offered
    <3> QED
      BY <3>2, <3>3
  <2> QED
    BY <2>2, <2>3, <2>4
<1>15. ASSUME NEW t \in Task PROVE TaskRight(t)'
  <2>1. TaskRight(t)
    BY DEF LaunchInv, Together
  <2>2. \A x \in sends'[t] : x < nextSequence' /\ t <= made'.task
    BY <1>5, <1>10, <2>1 DEF TaskRight
  <2>3. \A x, y \in Offered(t)' : x = y
    BY <1>2, <1>12, <2>1 DEF TaskRight
  <2> QED
    BY <2>2, <2>3 DEF TaskRight, Offered
<1>16. Together'
  BY <1>13, <1>14, <1>15 DEF Together
<1>17. Owned'
  <2> SUFFICES ASSUME ~(halfCleared' \/ lock'.step = "clear"), NEW j \in Id, Unsent(j)'
               PROVE  Owner(j)'
    BY DEF Owned, Id, Q!Id
  <2>1. CASE j = i
    BY <1>5, <1>8, <1>10, <2>1 DEF Owner, Pending, Linked
  <2>2. CASE j # i
    <3>1. commands'[j] = commands[j]
      BY <1>5, <2>2
    <3>2. Unsent(j)
      BY <3>1 DEF Unsent, Present
    <3>3. Owner(j)
      BY <3>2 DEF LaunchInv, Owned, LockStep
    <3> QED
      BY <1>10, <3>1, <3>3 DEF Owner, Pending, Linked
  <2> QED
    BY <2>1, <2>2
<1>18. SP!StoreInv'
  BY <1>4, WorkersStay DEF LaunchInv
<1>19. Stores' /\ Ghosts'
  BY <1>4, <1>10, <1>18 DEF Stores, Ghosts, LaunchInv, LockStep, Lock, Id, Q!Id, LaunchKey, Worker, Task
<1> QED
  BY <1>16, <1>17, <1>19 DEF LaunchInv, LockStep

\* The one step that tells a browser to press Send: what is offered stays.
LEMMA MarkStep ==
  ASSUME LaunchInv, NEW i \in Id, NEW l \in 1 .. MaxLease, NEW client \in Client,
         UNCHANGED workerVars, LockStep, Q!MarkSendStarted(i, l, client),
         sends' = [sends EXCEPT ![commands[i].key.task] = @ \cup {i}]
  PROVE  LaunchInv'
<1>1. PICK k : k = commands[i].key
  OBVIOUS
<1>2. QP!MarkSendStarted(i, l, client) /\ i \in QP!Id /\ l \in QP!LeaseId
  BY Marks, Names
<1>3. QP!IInv' /\ QP!IInv /\ SP!StoreInv
  BY <1>2, QP!MarkSendStartedStep, QAssumed DEF LaunchInv, Stores
<1>4. /\ commands[i].state = "Leased" /\ commands[i].ready /\ ~commands[i].history
      /\ commands'[i].state = "SendStarted" /\ commands'[i].ready
      /\ commands'[i].key = k /\ commands'[i].history
      /\ commands'[i].conv = commands[i].conv
      /\ \A j \in Id : j # i => commands'[j] = commands[j]
      /\ UNCHANGED <<dedupe, nextSequence>>
  BY <1>1, <1>2, <1>3, QP!MarkTells, QAssumed, Names
<1>5. Present(i) /\ KnownKey(k) /\ i \notin sends[k.task] /\ commands[i].conv = 0
  BY <1>1, <1>4 DEF Present, LaunchInv, Together, CommandRight
<1>6. k.worker \in Worker /\ k.task \in Task /\ i < nextSequence
  BY <1>3, <1>5, KeyFacts, CommandFacts DEF KnownKey
<1>7. /\ workers' = workers /\ tasks' = tasks /\ receipts' = receipts /\ made' = made
      /\ batches' = batches /\ families' = families
  BY DEF workerVars
<1>8. \A x : KnownKey(x) => KnownKey(x)'
  BY <1>7 DEF KnownKey, KeyOf
<1>9. /\ sends \in [Task -> SUBSET Id]
      /\ \A t \in Task : sends'[t] = IF t = k.task THEN sends[t] \cup {i} ELSE sends[t]
  BY <1>1 DEF LaunchInv, Ghosts
<1>10. ASSUME NEW t \in Task PROVE Offered(t)' \subseteq Offered(t)
  BY <1>1, <1>4, <1>5, <1>9 DEF Offered, Present, Id, Q!Id
<1>11. \A j \in Id : CommandRight(j)'
  <2> SUFFICES ASSUME NEW j \in Id PROVE CommandRight(j)'
    OBVIOUS
  <2>1. CommandRight(j)
    BY DEF LaunchInv, Together
  <2>2. CASE j # i
    <3>1. PICK x : x = commands[j].key
      OBVIOUS
    <3>2. commands'[j] = commands[j]
      BY <1>4, <2>2
    <3>3. Present(j) => KnownKey(x) /\ KnownKey(x)' /\ x.task \in Task
      BY <1>8, <2>1, <3>1, KeyFacts DEF CommandRight, KnownKey
    <3>4. Present(j) => KnownKey(commands[j].key)'
      BY <3>1, <3>2, <3>3 DEF KnownKey
    <3>5. Present(j) => (j \in sends'[x.task] <=> j \in sends[x.task])
      BY <1>9, <2>2, <3>3
    <3> QED
      BY <2>1, <3>1, <3>2, <3>4, <3>5 DEF CommandRight, Present
  <2>3. CASE j = i
    <3>1. KnownKey(k)'
      BY <1>5, <1>8
    <3>2. KnownKey(commands[i].key)'
      BY <1>4, <3>1 DEF KnownKey
    <3>3. i \in sends'[k.task]
      BY <1>6, <1>9
    <3> QED
      BY <1>4, <1>5, <2>3, <3>2, <3>3 DEF CommandRight, Present
  <2> QED
    BY <2>2, <2>3
<1>12. ASSUME NEW w \in Worker
       PROVE  LinkRight(w)' /\ RecordRight(workers[w])' /\ OffersLinked(w)'
  <2>1. LinkRight(w) /\ RecordRight(workers[w]) /\ OffersLinked(w)
    BY DEF LaunchInv, Together
  <2>2. workers[w].current # None => workers[w].current \in Task
    BY <1>3, WorkerFacts
  <2>3. RecordRight(workers[w])'
    <3>1. workers[w].current # None /\ sends[workers[w].current] # {} =>
            sends'[workers[w].current] # {}
      BY <1>9, <2>2
    <3>2. workers[w].state = "Running" => workers[w].current # None
      BY <1>3, WorkerFacts
    <3> QED
      BY <1>7, <2>1, <3>1, <3>2 DEF RecordRight
  <2>4. LinkRight(w)'
    <3>1. \A j \in Id : Present(j)' => Present(j) /\ commands'[j].key = commands[j].key
      BY <1>1, <1>4, <1>5 DEF Present
    <3>2. workers[w].command # None => workers[w].command[2] - 1 \in Id
      BY <1>3, WorkerFacts, LinkFacts
    <3> QED
      BY <1>4, <1>7, <2>1, <3>1, <3>2 DEF LinkRight
  <2>5. OffersLinked(w)'
    BY <1>7, <1>10, <2>1, <2>2 DEF OffersLinked, Linked, Offered
  <2> QED
    BY <2>3, <2>4, <2>5
<1>13. ASSUME NEW t \in Task PROVE TaskRight(t)'
  <2>1. TaskRight(t)
    BY DEF LaunchInv, Together
  <2>2. t = k.task => t <= made.task
    BY <1>5 DEF KnownKey
  <2>3. \A x \in sends'[t] : x < nextSequence' /\ t <= made'.task
    BY <1>4, <1>6, <1>7, <1>9, <2>1, <2>2 DEF TaskRight
  <2>4. \A x, y \in Offered(t)' : x = y
    BY <1>10, <2>1 DEF TaskRight
  <2> QED
    BY <2>3, <2>4 DEF TaskRight, Offered
<1>14. Together'
  BY <1>11, <1>12, <1>13 DEF Together
<1>15. Owned'
  <2> SUFFICES ASSUME ~(halfCleared' \/ lock'.step = "clear"), NEW j \in Id, Unsent(j)'
               PROVE  Owner(j)'
    BY DEF Owned, Id, Q!Id
  <2>1. j # i
    BY <1>4 DEF Unsent
  <2>2. commands'[j] = commands[j]
    BY <1>4, <2>1
  <2>3. Owner(j)
    BY <2>2 DEF Unsent, Present, LaunchInv, Owned, LockStep
  <2> QED
    BY <1>7, <2>2, <2>3 DEF Owner, Pending, Linked
<1>16. SP!StoreInv'
  BY <1>3, WorkersStay DEF LaunchInv
<1>17. sends' \in [Task -> SUBSET Id]
  BY <1>6, <1>9, <1>1
<1>18. Stores' /\ Ghosts'
  BY <1>3, <1>7, <1>16, <1>17 DEF Stores, Ghosts, LaunchInv, LockStep, Lock, Id, Q!Id, LaunchKey, Worker, Task
<1> QED
  BY <1>14, <1>15, <1>18 DEF LaunchInv, LockStep

LEMMA SettlesQuiet ==
  ASSUME QP!IInv, NEW X, QP!Settles(X), sends' = sends
  PROVE  /\ Quiet
         /\ \A i \in Id : i \notin X /\ Present(i) => commands'[i].state # "Absent"
         /\ \A k \in LaunchKey : dedupe'[k] = dedupe[k] \/ (dedupe[k] \in X /\ dedupe'[k] = NoId)
<1>1. nextSequence <= nextSequence'
  BY IndexFacts DEF QP!Settles
<1> QED
  BY <1>1, Names DEF QP!Settles, Quiet, Present

LEMMA RemovalQuiet ==
  ASSUME QP!IInv, NEW X, QP!RemoveCommands(X), sends' = sends
  PROVE  /\ QP!IInv' /\ Quiet
         /\ \A i \in Id : i \in X => commands'[i].state = "Absent"
         /\ \A i \in Id : i \notin X /\ Present(i) => commands'[i].state # "Absent"
<1>1. QP!Settles(X) /\ \A i \in Id : i \in X => commands'[i].state = "Absent"
  BY QP!RemovalSettles, QAssumed, Names
<1> QED
  BY <1>1, QP!Removal, QAssumed, SettlesQuiet

\* A recovered launch: only its indexed, linked command is offered.
LEMMA FoundFacts ==
  ASSUME LaunchInv, NEW w \in Worker, Pending(w), Found(w) # NoId
  PROVE  LET k == KeyOf(w, workers[w].current) IN
         /\ k \in LaunchKey /\ k.worker = w /\ k.task = workers[w].current
         /\ workers[w].current \in Task
         /\ Found(w) = dedupe[k] /\ Found(w) \in Id
         /\ Present(Found(w)) /\ commands[Found(w)].key = k
         /\ Linked(w, Found(w)) => Offered(workers[w].current) \subseteq {Found(w)}
<1> DEFINE k == KeyOf(w, workers[w].current)
<1>1. workers[w].current \in Task
  BY WorkerFacts DEF LaunchInv, Stores, Pending
<1>2. k \in LaunchKey /\ k.worker = w /\ k.task = workers[w].current
  BY <1>1, KeyOfFacts
<1>3. Found(w) = dedupe[k]
  BY DEF Found
<1>4. Found(w) \in Id /\ Present(Found(w)) /\ commands[Found(w)].key = k
  BY <1>2, <1>3, IndexFacts DEF LaunchInv, Stores
<1>5. ASSUME Linked(w, Found(w)), NEW x \in Offered(workers[w].current)
      PROVE  x = Found(w)
  <2>1. Linked(w, x) /\ x \in Id
    BY <1>1, <1>5 DEF LaunchInv, Together, OffersLinked, Offered, Ghosts, Pending
  <2>2. x + 1 = Found(w) + 1
    BY <1>5, <2>1 DEF Linked
  <2>3. x \in Int /\ Found(w) \in Int
    BY <1>4, <2>1, CommandFacts DEF LaunchInv, Stores
  <2> QED
    BY <2>2, <2>3
<1> QED
  BY <1>1, <1>2, <1>3, <1>4, <1>5

LEMMA NothingUnsent ==
  ASSUME NEW t, Offered(t) = {}
  PROVE  \A i \in Id : Unsent(i) => commands[i].key.task # t
BY DEF Offered, Unsent

LEMMA RecoverWorkerKeeps ==
  ASSUME LaunchInv, NEW w \in Worker, RecoverWorker(w) PROVE LaunchInv'
<1>1. lock = Free /\ lock' = Free /\ UNCHANGED <<sends, faults, halfCleared>> /\ Pending(w)
  BY DEF RecoverWorker, history
<1>2. LockStep
  BY <1>1, FreeStays DEF LaunchInv
<1>3. CASE /\ Found(w) # NoId
           /\ S!LinkLaunchCommand(w, <<workers[w].current, Found(w) + 1>>)
           /\ UNCHANGED commandVars
  <2>1. PICK k \in LaunchKey : k = KeyOf(w, workers[w].current)
    BY <1>1, <1>3, FoundFacts
  <2>2. PICK i \in Id : i = Found(w)
    BY <1>1, <1>3, FoundFacts
  <2>3. k.worker = w /\ dedupe[k] = i /\ S!LinkLaunchCommand(w, <<k.task, i + 1>>)
    BY <1>1, <1>3, <2>1, <2>2, FoundFacts
  <2> QED
    BY <1>1, <1>2, <1>3, <2>3, LinkStep
<1>4. CASE /\ Found(w) # NoId /\ Linked(w, Found(w))
           /\ Q!ActivateDispatch(Found(w))
           /\ UNCHANGED workerVars
  <2>1. PICK i \in Id : i = Found(w)
    BY <1>1, <1>4, FoundFacts
  <2>2. LET k == commands[i].key IN
          /\ Offered(k.task) \subseteq {i}
          /\ Linked(k.worker, i) /\ Pending(k.worker) /\ workers[k.worker].current = k.task
    BY <1>1, <1>4, <2>1, FoundFacts
  <2>3. Q!ActivateDispatch(i)
    BY <1>4, <2>1
  <2> QED
    BY <1>1, <1>2, <1>4, <2>2, <2>3, ReleaseStep
<1>5. CASE /\ Found(w) = NoId
           /\ S!RollbackUnlinkedSpawn(w) \/ S!RollbackUnlinkedReuse(w)
           /\ UNCHANGED commandVars
  <2>1. workers[w].command = None /\ (S!ForgetSpawn(w) \/ S!ForgetReuse(w))
    BY <1>5 DEF S!RollbackUnlinkedSpawn, S!RollbackUnlinkedReuse
  <2>2. Undoes(w)
    BY <2>1, ForgetUndoes DEF LaunchInv, Stores
  <2>3. Offered(workers[w].current) = {}
    BY <1>1, <2>1, UnlinkedOffersNothing DEF LaunchInv, Stores, Ghosts, Pending
  <2> QED
    BY <1>1, <1>2, <1>5, <2>2, <2>3, NothingUnsent, EndsStep
<1>6. CASE /\ S!UpdateLaunchByCommand(w, "Paused", FALSE)
           /\ UNCHANGED commandVars
  <2>1. <<"Paused", FALSE>> \in S!Mirrorable
    BY DEF S!Mirrorable
  <2>2. PICK launch, url : launch = "Paused" /\ url = FALSE
    OBVIOUS
  <2> QED
    BY <1>1, <1>2, <1>6, <2>1, <2>2, MirrorStep
<1> QED
  BY <1>3, <1>4, <1>5, <1>6 DEF RecoverWorker

LEMMA RecoverOrphanKeeps ==
  ASSUME LaunchInv, NEW i \in Id, RecoverOrphan(i) PROVE LaunchInv'
<1>1. /\ lock = Free /\ lock' = Free /\ UNCHANGED <<sends, faults, halfCleared>>
      /\ UNCHANGED workerVars /\ Q!CancelPreSend(commands[i].key)
  BY DEF RecoverOrphan, history
<1>2. LockStep
  BY <1>1, FreeStays DEF LaunchInv
<1>3. QP!IInv' /\ Quiet
  BY <1>1, Cancels, RemovalQuiet DEF LaunchInv, Stores
<1> QED
  BY <1>1, <1>2, <1>3, CommandStep

LEMMA BeginsStep ==
  ASSUME LaunchInv, NEW w \in Worker, Begins(w), UNCHANGED commandVars, sends' = sends, LockStep
  PROVE  LaunchInv'
<1>1. /\ SP!StoreInv' /\ SP!Inherits /\ batches' = <<>> /\ families' \subseteq {TheCore}
      /\ workers[w].current = None /\ workers'[w].current = made.task + 1
      /\ workers'[w].command = None /\ workers'[w].launch = "Queued"
      /\ \/ workers'[w].state = "Waking" /\ workers'[w].url
         \/ workers'[w].state = "Provisioning" /\ workers'[w].chat = None
      /\ \A v \in Worker : v # w => workers'[v] = workers[v]
  BY DEF Begins
<1>2. QP!IInv' /\ Quiet
  BY CommandsStay DEF LaunchInv, Stores
<1>3. KeepsLink(w) /\ StillWaits(w)
  BY <1>1, TaskFacts DEF LaunchInv, Stores, KeepsLink, StillWaits, Pending
<1>4. RecordRight(workers[w])'
  BY <1>1 DEF RecordRight
<1>5. \A v \in Worker : KeepsLink(v) /\ RecordRight(workers[v])' /\ StillWaits(v)
  <2> SUFFICES ASSUME NEW v \in Worker, v # w
               PROVE  KeepsLink(v) /\ RecordRight(workers[v])' /\ StillWaits(v)
    BY <1>3, <1>4
  <2>1. workers'[v] = workers[v]
    BY <1>1
  <2>2. RecordRight(workers[v])
    BY DEF LaunchInv, Together
  <2> QED
    BY <2>1, <2>2 DEF KeepsLink, StillWaits, Pending, RecordRight
<1>6. halfCleared' \in BOOLEAN
  BY DEF LaunchInv, Ghosts, LockStep
<1> QED
  BY <1>1, <1>2, <1>5, <1>6, StepKeeps DEF LockStep

\* A lock step of a transaction that goes on.
LEMMA AtStep ==
  ASSUME NEW step \in Step, NEW k \in LaunchKey, NEW i \in Id \cup {NoId},
         lock' = At(step, k, i), HeldLock(lock)', lock.step # "clear",
         faults' \in 0 .. MaxFaults, halfCleared' = halfCleared
  PROVE  LockStep
BY AtLock DEF LockStep

\* The handler that begins a launch holds nothing but its name.
LEMMA EnqueueNext ==
  ASSUME NEW k, KnownKey(k)', lock' = At("enqueue", k, NoId), lock.step # "clear",
         faults' \in 0 .. MaxFaults, halfCleared' = halfCleared
  PROVE  LockStep
<1>1. k \in LaunchKey
  BY DEF KnownKey, LaunchKey, Worker, Task
<1>2. /\ lock' \in Lock /\ lock'.step = "enqueue" /\ lock'.key = k /\ lock'.todo = {}
  BY <1>1, AtLock DEF Step
<1>3. KnownKey(lock.key)'
  BY <1>2 DEF KnownKey
<1>4. HeldLock(lock)'
  BY <1>2, <1>3 DEF HeldLock
<1> QED
  BY <1>2, <1>4 DEF LockStep

\* A receipt names a launch as recovery would.
LEMMA ReplayedKey ==
  ASSUME SP!StoreInv, NEW r \in receipts, tasks[r.id].worker # None, r.id \in Task
  PROVE  KnownKey(KeyOf(tasks[r.id].worker, r.id))
<1>1. /\ tasks[r.id].worker \in Worker /\ r.id <= made.task
  BY TaskFacts
<1> QED
  BY <1>1, KeyOfFacts DEF KnownKey

\* A retry names the launch of the receipt that answers it.
LEMMA ReplayKeeps ==
  ASSUME LaunchInv, NEW kind \in {"spawn", "reuse"}, NEW op, NEW r \in Replayed(kind, op),
         lock = Free, lock' = At("enqueue", KeyOf(tasks[r.id].worker, r.id), NoId),
         UNCHANGED workerVars, UNCHANGED commandVars, UNCHANGED history
  PROVE  LaunchInv'
<1>1. /\ UNCHANGED <<sends, faults, halfCleared>> /\ lock.step # "clear"
      /\ r \in receipts /\ tasks[r.id].worker # None /\ r.kind = kind
  BY DEF Replayed, history, Free
<1>2. r.id \in Task
  BY <1>1, Names DEF LaunchInv, Stores, SP!StoreInv, SP!Receipts, SP!NotForgotten, SP!Created
<1>3. PICK k : k = KeyOf(tasks[r.id].worker, r.id)
  OBVIOUS
<1>4. KnownKey(k)
  BY <1>1, <1>2, <1>3, ReplayedKey DEF LaunchInv, Stores
<1>5. KnownKey(k)'
  BY <1>4 DEF KnownKey, KeyOf, workerVars
<1>6. faults' \in 0 .. MaxFaults
  BY <1>1, FaultBound DEF LaunchInv
<1>7. LockStep
  BY <1>1, <1>3, <1>5, <1>6, EnqueueNext
<1> QED
  BY <1>1, <1>7, NeitherStep

LEMMA SpawnKeeps ==
  ASSUME LaunchInv, NEW op \in Op, Spawn(op) PROVE LaunchInv'
<1>1. /\ lock = Free /\ UNCHANGED <<sends, faults, halfCleared>> /\ UNCHANGED commandVars
      /\ lock.step # "clear" /\ UNCHANGED history
  BY DEF Spawn, history, Free
<1>2. faults' \in 0 .. MaxFaults
  BY <1>1, FaultBound DEF LaunchInv
<1>3. CASE /\ S!SpawnWorker(TheCore, op)
           /\ lock' = At("enqueue", [worker |-> made'.worker, task |-> made'.task,
                                     reuse |-> FALSE], NoId)
  <2>1. PICK w \in Worker : w = made'.worker /\ Begins(w) /\ workers'[w].state = "Provisioning"
    BY <1>3, SpawnBegins DEF LaunchInv, Stores, Begins
  <2>2. PICK k : k = [worker |-> w, task |-> made'.task, reuse |-> FALSE]
    OBVIOUS
  <2>3. KnownKey(k)'
    BY <2>1, <2>2, BegunKey DEF LaunchInv, Stores
  <2>4. LockStep
    BY <1>1, <1>2, <1>3, <2>1, <2>2, <2>3, EnqueueNext
  <2> QED
    BY <1>1, <2>1, <2>4, BeginsStep
<1>4. ASSUME NEW r \in Replayed("spawn", op),
             lock' = At("enqueue", KeyOf(tasks[r.id].worker, r.id), NoId),
             UNCHANGED workerVars
      PROVE  LaunchInv'
  BY <1>1, <1>4, ReplayKeeps
<1> QED
  BY <1>3, <1>4 DEF Spawn

LEMMA ReuseKeeps ==
  ASSUME LaunchInv, NEW w \in Worker, NEW op \in Op, Reuse(w, op) PROVE LaunchInv'
<1>1. /\ lock = Free /\ UNCHANGED <<sends, faults, halfCleared>> /\ UNCHANGED commandVars
      /\ lock.step # "clear" /\ UNCHANGED history
  BY DEF Reuse, history, Free
<1>2. faults' \in 0 .. MaxFaults
  BY <1>1, FaultBound DEF LaunchInv
<1>3. CASE /\ S!ReuseWorker(w, op)
           /\ lock' = At("enqueue", [worker |-> w, task |-> made'.task, reuse |-> TRUE], NoId)
  <2>1. Begins(w) /\ workers'[w].state = "Waking"
    BY <1>3, ReuseBegins DEF LaunchInv, Stores
  <2>2. PICK k : k = [worker |-> w, task |-> made'.task, reuse |-> TRUE]
    OBVIOUS
  <2>3. KnownKey(k)'
    BY <2>1, <2>2, BegunKey DEF LaunchInv, Stores
  <2>4. LockStep
    BY <1>1, <1>2, <1>3, <2>2, <2>3, EnqueueNext
  <2> QED
    BY <1>1, <2>1, <2>4, BeginsStep
<1>4. ASSUME NEW r \in Replayed("reuse", op), tasks[r.id].worker = w,
             lock' = At("enqueue", KeyOf(w, r.id), NoId),
             UNCHANGED workerVars
      PROVE  LaunchInv'
  BY <1>1, <1>4, ReplayKeeps
<1> QED
  BY <1>3, <1>4 DEF Reuse

LEMMA KnownStays == UNCHANGED workerVars => \A k : KnownKey(k) => KnownKey(k)'
BY DEF KnownKey, KeyOf, workerVars

\* Until the link only the index says which command the launch has.
LEMMA LinkNext ==
  ASSUME NEW step \in {"link", "cancelUnlinked"}, NEW k, KnownKey(k)', NEW i \in Id,
         dedupe'[k] = i, lock' = At(step, k, i), lock.step # "clear",
         faults' \in 0 .. MaxFaults, halfCleared' = halfCleared
  PROVE  LockStep
<1>1. k \in LaunchKey
  BY DEF KnownKey, LaunchKey, Worker, Task
<1>2. lock' \in Lock /\ lock'.step = step /\ lock'.key = k /\ lock'.id = i /\ lock'.todo = {}
  BY <1>1, AtLock DEF Step
<1>3. KnownKey(lock.key)'
  BY <1>2 DEF KnownKey
<1>4. HeldLock(lock)'
  BY <1>2, <1>3 DEF HeldLock, Id, Q!Id
<1> QED
  BY <1>2, <1>4 DEF LockStep

LEMMA UndoNext ==
  ASSUME NEW k, KnownKey(k)', lock'.step = "rollbackUnlinked", lock'.key = k, lock'.todo = {},
         lock' \in Lock, lock.step # "clear",
         faults' \in 0 .. MaxFaults, halfCleared' = halfCleared
  PROVE  LockStep
<1>1. KnownKey(lock.key)'
  BY DEF KnownKey
<1>2. HeldLock(lock)'
  BY <1>1 DEF HeldLock
<1> QED
  BY <1>2 DEF LockStep

LEMMA EnqueueKeeps ==
  ASSUME LaunchInv, Enqueue PROVE LaunchInv'
<1>1. PICK k : k = lock.key
  OBVIOUS
<1>2. /\ lock.step = "enqueue" /\ UNCHANGED workerVars /\ KnownKey(k)
      /\ QP!IInv /\ Ghosts /\ lock.step # "clear"
  BY <1>1 DEF Enqueue, LaunchInv, HeldLock, Stores
<1>3. KnownKey(k)' /\ k \in LaunchKey
  BY <1>2, KnownStays DEF KnownKey
<1>4. CASE /\ dedupe[k] # NoId
           /\ lock' = At("link", k, dedupe[k])
           /\ UNCHANGED <<commandVars, history>>
  <2>1. PICK i \in Id : i = dedupe[k]
    BY <1>2, <1>3, <1>4, IndexFacts
  <2>2. dedupe'[k] = i /\ sends' = sends /\ halfCleared' = halfCleared /\ faults' \in 0 .. MaxFaults
    BY <1>2, <1>4, <2>1, FaultBound DEF commandVars, history
  <2>3. LockStep
    BY <1>2, <1>3, <1>4, <2>1, <2>2, LinkNext
  <2> QED
    BY <1>2, <1>4, <2>2, <2>3, NeitherStep
<1>5. ASSUME NEW r \in Requested(k), Q!EnqueueHeld(k, r),
             lock' = At("link", k, nextSequence), UNCHANGED history
      PROVE  LaunchInv'
  <2>1. r \in Client \cup {None} /\ QP!EnqueueHeld(k, r)
    BY <1>5, Enqueues DEF Requested
  <2>2. QP!IInv'
    BY <1>2, <1>3, <2>1, QP!EnqueueStep, QAssumed
  <2>3. PICK n \in Id : n = nextSequence
    BY <1>2, <1>3, <2>1, QP!EnqueueHolds, QAssumed, Names
  <2>4. /\ nextSequence' = n + 1 /\ dedupe'[k] = n
        /\ commands'[n].state = "Queued" /\ commands'[n].key = k
        /\ ~commands'[n].ready /\ ~commands'[n].history /\ commands'[n].conv = 0
        /\ \A i \in Id : i # n => commands'[i] = commands[i] \/ commands'[i].state = "Absent"
    BY <1>2, <1>3, <2>1, <2>3, QP!EnqueueHolds, QAssumed, Names
  <2>5. KnownKey(commands[n].key)'
    BY <1>3, <2>4 DEF KnownKey
  <2>6. ASSUME NEW i \in Id, i # n PROVE QP!Calm(i)
    BY <2>4, <2>6 DEF QP!Calm
  <2>7. nextSequence \in Nat /\ n \in Nat
    BY <1>2, <2>3, IndexFacts
  <2>8. Quiet
    <3>1. sends' = sends
      BY <1>5 DEF history
    <3>2. nextSequence <= nextSequence' /\ n >= nextSequence
      BY <2>3, <2>4, <2>7
    <3> QED
      BY <2>4, <2>5, <2>6, <3>1, <3>2 DEF Quiet
  <2>9. halfCleared' = halfCleared /\ faults' \in 0 .. MaxFaults
    BY <1>2, <1>5, FaultBound DEF history
  <2>10. LockStep
    BY <1>2, <1>3, <1>5, <2>3, <2>4, <2>9, LinkNext
  <2> QED
    BY <1>2, <2>2, <2>8, <2>10, CommandStep
<1>6. CASE /\ Fault \/ UNCHANGED history
           /\ lock' = At("rollbackUnlinked", k, NoId)
           /\ UNCHANGED commandVars
  <2>1. sends' = sends /\ halfCleared' = halfCleared /\ faults' \in 0 .. MaxFaults
    BY <1>2, <1>6, FaultBound DEF history
  <2>2. lock' \in Lock /\ lock'.step = "rollbackUnlinked" /\ lock'.key = k /\ lock'.todo = {}
    BY <1>3, <1>6, AtLock DEF Step
  <2>3. LockStep
    BY <1>2, <1>3, <2>1, <2>2, UndoNext
  <2> QED
    BY <1>2, <1>6, <2>1, <2>3, NeitherStep
<1> QED
  BY <1>1, <1>4, <1>5, <1>6 DEF Enqueue

LEMMA LinkKeeps ==
  ASSUME LaunchInv, Link PROVE LaunchInv'
<1>1. PICK k, i : k = lock.key /\ i = lock.id
  OBVIOUS
<1>2. /\ lock.step = "link" /\ UNCHANGED commandVars /\ KnownKey(k) /\ i \in Id /\ dedupe[k] = i
      /\ QP!IInv /\ SP!StoreInv /\ Ghosts /\ lock.step # "clear"
  BY <1>1 DEF Link, LaunchInv, HeldLock, Stores
<1>3. k \in LaunchKey /\ k.worker \in Worker /\ k.task \in Task
  BY <1>2, KeyFacts DEF KnownKey
<1>4. PICK w \in Worker, m \in S!Command : w = k.worker /\ m = <<k.task, i + 1>>
  BY <1>2, <1>3, LinkFacts
<1>5. Present(i) /\ commands[i].key = k /\ i \in Int
  BY <1>2, <1>3, IndexFacts, CommandFacts
\* What the release may count on once the worker waits for the command.
<1>6. ASSUME lock' = At("activate", k, i), UNCHANGED commandVars, sends' = sends,
             workers'[w].current = k.task, workers'[w].command = m,
             workers'[w].state \in {"Provisioning", "Waking"} \/ sends[k.task] # {},
             Offered(k.task) \subseteq {i}, KnownKey(k)',
             faults' \in 0 .. MaxFaults, halfCleared' = halfCleared
      PROVE  LockStep
  <2>1. lock' \in Lock /\ lock'.step = "activate" /\ lock'.key = k /\ lock'.id = i /\ lock'.todo = {}
    BY <1>2, <1>3, <1>6, AtLock DEF Step
  <2>2. KnownKey(lock.key)'
    BY <1>6, <2>1 DEF KnownKey
  <2>3. k.task # None
    BY <1>2, <1>3, TaskFacts
  <2>4. /\ workers'[k.worker].command = <<workers'[k.worker].current, i + 1>>
        /\ \/ sends'[k.task] # {}
           \/ /\ workers'[k.worker].state \in {"Provisioning", "Waking"}
              /\ workers'[k.worker].current # None
    BY <1>4, <1>6, <2>3
  <2>5. /\ Offered(k.task)' \subseteq {i} /\ Present(i)' /\ commands'[i].key = k
    BY <1>5, <1>6 DEF Offered, Present, commandVars, Id, Q!Id
  <2>6. HeldLock(lock)'
    BY <1>2, <1>4, <1>6, <2>1, <2>2, <2>4, <2>5 DEF HeldLock, Linked, Pending, Present, Offered, Id, Q!Id
  <2> QED
    BY <1>2, <1>6, <2>1, <2>6 DEF LockStep
<1>7. CASE /\ S!LinkLaunchCommand(k.worker, <<k.task, i + 1>>)
           /\ lock' = At("activate", k, i) /\ UNCHANGED history
  <2>1. /\ OnlyWorker(w) /\ tasks' = tasks
        /\ workers[w].current # None /\ m[1] = workers[w].current
        /\ workers[w].command = None /\ workers'[w].command = m
        /\ workers'[w].state = workers[w].state /\ workers'[w].current = workers[w].current
    BY <1>2, <1>4, <1>7, LinkMoves
  <2>2. m[1] = k.task
    BY <1>4
  <2>3. Offered(k.task) \subseteq {i}
    BY <1>2, <2>1, <2>2, UnlinkedOffersNothing DEF LaunchInv, Ghosts
  <2>4. workers[w].state \in {"Provisioning", "Waking"} \/ sends[k.task] # {}
    <3>1. workers[w].state = "Running" => sends[workers[w].current] # {}
      BY DEF LaunchInv, Together, RecordRight
    <3> QED
      BY <1>2, <2>1, <2>2, <3>1, WorkerFacts
  <2>5. KnownKey(k)'
    BY <1>2, <2>1, KeyStays DEF OnlyWorker
  <2>6. sends' = sends /\ halfCleared' = halfCleared /\ faults' \in 0 .. MaxFaults
    BY <1>2, <1>7, FaultBound DEF history
  <2>7. LockStep
    BY <1>2, <1>6, <1>7, <2>1, <2>2, <2>3, <2>4, <2>5, <2>6
  <2> QED
    BY <1>2, <1>3, <1>4, <1>7, <2>6, <2>7, LinkStep
<1>8. CASE /\ workers[k.worker].current = k.task
           /\ workers[k.worker].command = <<k.task, i + 1>>
           /\ lock' = At("activate", k, i)
           /\ UNCHANGED <<workerVars, history>>
  <2>1. workers[w].current = k.task /\ workers[w].command = m /\ workers' = workers /\ UNCHANGED workerVars
    BY <1>4, <1>8 DEF workerVars
  <2>2. workers[w].current # None
    BY <1>2, <1>3, <2>1, TaskFacts
  <2>3. ASSUME NEW x \in Offered(k.task) PROVE x = i
    <3>1. Linked(w, x) /\ x \in Id
      BY <1>2, <1>3, <2>1, <2>2 DEF LaunchInv, Together, OffersLinked, Offered, Ghosts
    <3>2. x + 1 = i + 1
      BY <1>4, <2>1, <3>1 DEF Linked
    <3> QED
      BY <1>2, <1>5, <3>1, <3>2, CommandFacts
  <2>4. workers[w].state \in {"Provisioning", "Waking"} \/ sends[k.task] # {}
    <3>1. workers[w].state = "Running" => sends[workers[w].current] # {}
      BY DEF LaunchInv, Together, RecordRight
    <3> QED
      BY <1>2, <2>1, <2>2, <3>1, WorkerFacts
  <2>5. KnownKey(k)'
    BY <1>2, <2>1, KnownStays
  <2>6. sends' = sends /\ halfCleared' = halfCleared /\ faults' \in 0 .. MaxFaults
    BY <1>2, <1>8, FaultBound DEF history
  <2>7. LockStep
    BY <1>2, <1>6, <1>8, <2>1, <2>3, <2>4, <2>5, <2>6
  <2> QED
    BY <1>2, <2>1, <2>6, <2>7, NeitherStep
<1>9. CASE /\ Fault \/ UNCHANGED history
           /\ lock' = At("cancelUnlinked", k, i)
           /\ UNCHANGED workerVars
  <2>1. sends' = sends /\ halfCleared' = halfCleared /\ faults' \in 0 .. MaxFaults
    BY <1>2, <1>9, FaultBound DEF history
  <2>2. dedupe'[k] = i /\ KnownKey(k)'
    BY <1>2, <1>9, KnownStays DEF commandVars
  <2>3. LockStep
    BY <1>2, <1>9, <2>1, <2>2, LinkNext
  <2> QED
    BY <1>2, <1>9, <2>1, <2>3, NeitherStep
<1> QED
  BY <1>1, <1>7, <1>8, <1>9 DEF Link

LEMMA ActivateKeeps ==
  ASSUME LaunchInv, Activate PROVE LaunchInv'
<1>1. PICK k, i : k = lock.key /\ i = lock.id
  OBVIOUS
<1>2. /\ lock.step = "activate" /\ UNCHANGED workerVars /\ KnownKey(k) /\ i \in Id
      /\ Present(i) /\ commands[i].key = k
      /\ Offered(k.task) \subseteq {i}
      /\ workers[k.worker].current = k.task => Linked(k.worker, i)
      /\ \/ sends[k.task] # {}
         \/ Pending(k.worker) /\ workers[k.worker].current = k.task
      /\ QP!IInv /\ Ghosts /\ lock.step # "clear"
  BY <1>1 DEF Activate, LaunchInv, HeldLock, Stores
<1>3. CASE Q!ActivateDispatch(i) /\ lock' = Free /\ UNCHANGED history
  <2>1. sends' = sends /\ halfCleared' = halfCleared /\ faults' \in 0 .. MaxFaults
    BY <1>2, <1>3, FaultBound DEF history
  <2>2. LockStep
    BY <1>2, <1>3, <2>1, FreeStep
  <2> QED
    BY <1>2, <1>3, <2>1, <2>2, ReleaseStep
<1>4. CASE lock' = Free /\ UNCHANGED <<commandVars, history>>
  <2>1. sends' = sends /\ halfCleared' = halfCleared /\ faults' \in 0 .. MaxFaults
    BY <1>2, <1>4, FaultBound DEF history
  <2>2. LockStep
    BY <1>2, <1>4, <2>1, FreeStep
  <2> QED
    BY <1>2, <1>4, <2>1, <2>2, NeitherStep
<1>5. CASE Held(i) /\ Fault /\ lock' = At("cancelLinked", k, i) /\ UNCHANGED commandVars
  <2>1. sends' = sends /\ halfCleared' = halfCleared /\ faults' \in 0 .. MaxFaults
    BY <1>2, <1>5, FaultBound
  <2>2. k \in LaunchKey /\ KnownKey(k)'
    BY <1>2, KnownStays DEF KnownKey
  <2>3. lock' \in Lock /\ lock'.step = "cancelLinked" /\ lock'.key = k /\ lock'.id = i /\ lock'.todo = {}
    BY <1>2, <1>5, <2>2, AtLock DEF Step
  <2>4. ~commands[i].ready /\ ~commands[i].history
    BY <1>2, <1>5, CommandFacts DEF Held
  <2>5. i \notin sends[k.task]
    BY <1>2, <2>4 DEF LaunchInv, Together, CommandRight
  <2>6. commands' = commands
    BY <1>5 DEF commandVars
  <2>7. KnownKey(lock.key)'
    BY <2>2, <2>3 DEF KnownKey
  <2>8. HeldLock(lock)'
    BY <1>2, <2>1, <2>3, <2>4, <2>5, <2>6, <2>7 DEF HeldLock, Id, Q!Id
  <2>9. LockStep
    BY <1>2, <2>1, <2>3, <2>8 DEF LockStep
  <2> QED
    BY <1>2, <1>5, <2>1, <2>9, NeitherStep
<1> QED
  BY <1>1, <1>3, <1>4, <1>5 DEF Activate

LEMMA CancelKeeps ==
  ASSUME LaunchInv, Cancel PROVE LaunchInv'
<1>1. PICK k, i : k = lock.key /\ i = lock.id
  OBVIOUS
<1>2. /\ lock.step \in {"cancelUnlinked", "cancelLinked"} /\ UNCHANGED workerVars
      /\ KnownKey(k) /\ lock.todo = {}
      /\ lock.step = "cancelLinked" =>
           i \in Id /\ i \notin sends[k.task] /\ (Present(i) => ~commands[i].ready)
      /\ QP!IInv /\ Ghosts /\ lock \in Lock
  BY <1>1 DEF Cancel, LaunchInv, HeldLock, Stores, Ghosts
<1>3. \/ Q!CancelPreSend(k) /\ UNCHANGED history
      \/ (Fault \/ UNCHANGED history) /\ UNCHANGED commandVars
  BY <1>1 DEF Cancel
<1>4. sends' = sends /\ halfCleared' = halfCleared /\ faults' \in 0 .. MaxFaults
  BY <1>2, <1>3, FaultBound DEF history
<1>5. QP!IInv' /\ Quiet
  BY <1>2, <1>3, <1>4, Cancels, RemovalQuiet, CommandsStay
<1>6. /\ lock'.step = IF lock.step = "cancelLinked" THEN "rollbackLinked" ELSE "rollbackUnlinked"
      /\ lock'.key = k /\ lock'.id = i /\ lock'.todo = {} /\ lock' \in Lock
  BY <1>1, <1>2 DEF Cancel, Lock, Step
<1>7. KnownKey(k)'
  BY <1>2, KnownStays
<1>8. CASE lock.step = "cancelUnlinked"
  <2>1. LockStep
    BY <1>4, <1>6, <1>7, <1>8, UndoNext
  <2> QED
    BY <1>2, <1>5, <2>1, CommandStep
<1>9. CASE lock.step = "cancelLinked"
  <2>1. commands'[i].state # "Absent" => ~commands'[i].ready
    BY <1>2, <1>5, <1>9 DEF Quiet, QP!Calm, Present
  <2>2. KnownKey(lock.key)'
    BY <1>6, <1>7 DEF KnownKey
  <2>3. HeldLock(lock)'
    BY <1>2, <1>4, <1>6, <1>9, <2>1, <2>2 DEF HeldLock, Present, Id, Q!Id
  <2>4. LockStep
    BY <1>4, <1>6, <1>9, <2>3 DEF LockStep
  <2> QED
    BY <1>2, <1>5, <2>4, CommandStep
<1> QED
  BY <1>2, <1>8, <1>9

\* What a rollback undoes was never offered to a browser.
LEMMA UndoneIsUnoffered ==
  ASSUME LaunchInv, lock.step \in {"rollbackUnlinked", "rollbackLinked"},
         CanRollback(lock.key, IF lock.step = "rollbackLinked"
                               THEN <<lock.key.task, lock.id + 1>> ELSE None)
  PROVE  LET w == lock.key.worker IN
         /\ w \in Worker /\ workers[w].current = lock.key.task
         /\ workers[w].current # None /\ Offered(workers[w].current) = {}
<1>1. PICK k, i : k = lock.key /\ i = lock.id
  OBVIOUS
<1>2. /\ KnownKey(k) /\ SP!StoreInv /\ QP!IInv
      /\ lock.step = "rollbackLinked" =>
           i \in Id /\ i \notin sends[k.task] /\ (Present(i) => ~commands[i].ready)
      /\ sends \in [Task -> SUBSET Id]
  BY <1>1 DEF LaunchInv, HeldLock, Stores, Ghosts
<1>3. PICK w \in Worker : w = k.worker
  BY <1>2, KeyFacts DEF KnownKey
<1>4. workers[w].current = k.task /\ k.task \in Task /\ k.task # None
  BY <1>1, <1>2, <1>3, KeyFacts, TaskFacts DEF CanRollback, KnownKey
<1>5. CASE lock.step = "rollbackUnlinked"
  <2>1. workers[w].command = None
    BY <1>1, <1>3, <1>5 DEF CanRollback
  <2> QED
    BY <1>1, <1>2, <1>3, <1>4, <2>1, UnlinkedOffersNothing DEF LaunchInv
<1>6. CASE lock.step = "rollbackLinked"
  <2>1. workers[w].command = <<k.task, i + 1>>
    BY <1>1, <1>3, <1>6 DEF CanRollback
  <2>2. ASSUME NEW x \in Offered(k.task) PROVE FALSE
    <3>1. Linked(w, x) /\ x \in Id
      BY <1>2, <1>3, <1>4, <2>2 DEF LaunchInv, Together, OffersLinked, Offered
    <3>2. x + 1 = i + 1
      BY <2>1, <3>1 DEF Linked
    <3>3. x \in Nat /\ i \in Nat
      BY <1>2, <1>6, <3>1, CommandFacts
    <3>4. x = i
      BY <3>2, <3>3
    <3> QED
      BY <1>2, <1>6, <2>2, <3>4 DEF Offered
  <2> QED
    BY <1>1, <1>3, <1>4, <2>2
<1> QED
  BY <1>5, <1>6

LEMMA RollbackKeeps ==
  ASSUME LaunchInv, Rollback PROVE LaunchInv'
<1>1. PICK k, m : k = lock.key
        /\ m = IF lock.step = "rollbackLinked" THEN <<lock.key.task, lock.id + 1>> ELSE None
  OBVIOUS
<1>2. /\ lock.step \in {"rollbackUnlinked", "rollbackLinked"} /\ lock' = Free
      /\ UNCHANGED commandVars /\ Ghosts /\ SP!StoreInv
      /\ \/ /\ CanRollback(k, m)
            /\ S!ForgetReuse(k.worker) \/ S!ForgetSpawn(k.worker)
            /\ UNCHANGED history
         \/ (Fault \/ UNCHANGED history) /\ UNCHANGED workerVars
  BY <1>1 DEF Rollback, LaunchInv, Stores
<1>3. sends' = sends /\ halfCleared' = halfCleared /\ faults' \in 0 .. MaxFaults
  BY <1>2, FaultBound DEF history
<1>4. LockStep
  BY <1>2, <1>3, FreeStep
<1>5. CASE /\ CanRollback(k, m)
           /\ S!ForgetReuse(k.worker) \/ S!ForgetSpawn(k.worker)
  <2>1. PICK w \in Worker : w = k.worker /\ Offered(workers[w].current) = {}
    BY <1>1, <1>2, <1>5, UndoneIsUnoffered
  <2>2. Undoes(w)
    BY <1>2, <1>5, <2>1, ForgetUndoes
  <2>3. \A x \in Id : Unsent(x) => commands[x].key.task # workers[w].current
    BY <2>1, NothingUnsent
  <2> QED
    BY <1>2, <1>3, <1>4, <2>2, <2>3, EndsStep
<1>6. CASE UNCHANGED workerVars
  BY <1>2, <1>3, <1>4, <1>6, NeitherStep
<1> QED
  BY <1>2, <1>5, <1>6

LEMMA CurrentKey ==
  ASSUME LaunchInv, NEW w \in Worker, workers[w].current # None
  PROVE  LET k == KeyOf(w, workers[w].current) IN
         /\ KnownKey(k) /\ k \in LaunchKey /\ k.worker = w /\ k.task = workers[w].current
         /\ \A j \in Id : Unsent(j) /\ commands[j].key.task = workers[w].current =>
              dedupe[k] = j
<1>1. PICK t \in Task : t = workers[w].current /\ tasks[t].worker = w /\ tasks[t].state # "Absent"
  BY WorkerFacts DEF LaunchInv, Stores
<1>2. PICK k \in LaunchKey : k = KeyOf(w, t) /\ k.worker = w /\ k.task = t
  BY <1>1, KeyOfFacts
<1>3. t <= made.task
  BY <1>1, TaskFacts DEF LaunchInv, Stores
<1>4. KnownKey(k)
  BY <1>1, <1>2, <1>3 DEF KnownKey
<1>5. ASSUME NEW j \in Id, Unsent(j), commands[j].key.task = t PROVE dedupe[k] = j
  <2>1. PICK x : x = commands[j].key
    OBVIOUS
  <2>2. KnownKey(x) /\ x.task = t /\ dedupe[x] = j
    BY <1>5, <2>1, CommandFacts DEF LaunchInv, Stores, Together, CommandRight, Unsent
  <2>3. x = KeyOf(x.worker, t) /\ x.worker = w
    BY <1>1, <2>2 DEF KnownKey
  <2> QED
    BY <1>2, <2>2, <2>3
<1> QED
  BY <1>1, <1>2, <1>4, <1>5

\* Retirement goes on once no browser can be told of the launch any more.
LEMMA RetireNext ==
  ASSUME LaunchInv, NEW step \in {"retireSent", "retireUnsent"}, NEW w \in Worker,
         NEW k, Pending(w), k = KeyOf(w, workers[w].current), lock = Free,
         lock' = At(step, k, NoId), UNCHANGED workerVars, UNCHANGED history,
         QP!IInv', Quiet, \A j \in Id : dedupe[k] = j => ~Unsent(j)'
  PROVE  LaunchInv'
<1>1. /\ KnownKey(k) /\ k \in LaunchKey /\ k.worker = w /\ k.task = workers[w].current
      /\ \A j \in Id : Unsent(j) /\ commands[j].key.task = k.task => dedupe[k] = j
  BY CurrentKey DEF Pending
<1>2. lock' \in Lock /\ lock'.step = step /\ lock'.key = k /\ lock'.todo = {}
  BY <1>1, AtLock DEF Step
<1>3. KnownKey(k)'
  BY <1>1, KnownStays
<1>4. KnownKey(lock.key)'
  BY <1>2, <1>3 DEF KnownKey
<1>5. ASSUME NEW j \in Id, Unsent(j)' PROVE commands'[j].key.task # k.task
  <2>1. QP!Calm(j)
    BY <1>5 DEF Quiet, Unsent
  <2>2. Unsent(j) /\ commands'[j].key = commands[j].key
    BY <1>5, <2>1 DEF QP!Calm, Unsent, Present
  <2> QED
    BY <1>1, <1>5, <2>2
<1>6. workers'[k.worker].current = k.task
  BY <1>1 DEF workerVars
<1>7. HeldLock(lock)'
  BY <1>2, <1>4, <1>5, <1>6 DEF HeldLock, Id, Q!Id
<1>8. lock.step # "clear" /\ sends' = sends /\ halfCleared' = halfCleared /\ faults' = faults
  BY DEF Free, history
<1>9. LockStep
  BY <1>2, <1>7, <1>8, FaultBound DEF LockStep, LaunchInv
<1> QED
  BY <1>9, CommandStep

LEMMA FencedIsNotUnsent ==
  ASSUME NEW k, AlreadyFenced(k) \/ CommandOf(k).state = "Succeeded", UNCHANGED commandVars,
         QP!IInv
  PROVE  \A j \in Id : dedupe[k] = j => ~Unsent(j)'
<1>1. ASSUME NEW j \in Id, dedupe[k] = j PROVE ~Unsent(j)
  <2>1. CommandOf(k) = commands[j]
    BY <1>1, IndexFacts, Names DEF CommandOf
  <2> QED
    BY <2>1 DEF AlreadyFenced, Unsent
<1> QED
  BY <1>1 DEF Unsent, Present, commandVars

LEMMA RetireKeeps ==
  ASSUME LaunchInv, NEW w \in Worker, Retire(w) PROVE LaunchInv'
<1>1. PICK k : k = KeyOf(w, workers[w].current)
  OBVIOUS
<1>2. lock = Free /\ UNCHANGED history /\ QP!IInv /\ SP!StoreInv
  BY DEF Retire, LaunchInv, Stores
<1>3. Pending(w) => k \in LaunchKey
  BY <1>1, CurrentKey DEF Pending
<1>4. sends' = sends
  BY <1>2 DEF history
<1>5. CASE Pending(w) /\ Q!FenceUnclaimedAfterSend(k) /\ lock' = At("retireSent", k, NoId)
           /\ UNCHANGED workerVars
  <2>1. QP!FenceUnclaimedAfterSend(k) /\ k \in LaunchKey
    BY <1>3, <1>5, Fences
  <2>2. QP!IInv' /\ QP!Settles({dedupe[k]}) /\ commands'[dedupe[k]].state = "Failed"
    BY <1>2, <2>1, QP!FenceStep, QP!FenceSettles, QAssumed
  <2>3. Quiet
    BY <1>2, <1>4, <2>2, SettlesQuiet
  <2>4. \A j \in Id : dedupe[k] = j => ~Unsent(j)'
    BY <2>2 DEF Unsent
  <2> QED
    BY <1>1, <1>2, <1>5, <2>2, <2>3, <2>4, RetireNext
<1>6. CASE Pending(w) /\ Q!SettleForWorkerRetire(k) /\ lock' = At("retireUnsent", k, NoId)
           /\ UNCHANGED workerVars
  <2>1. QP!RemoveCommands({dedupe[k]})
    BY <1>6, RetireSettles
  <2>2. QP!IInv' /\ Quiet /\ \A i \in Id : i \in {dedupe[k]} => commands'[i].state = "Absent"
    BY <1>2, <1>4, <2>1, RemovalQuiet
  <2>3. \A j \in Id : dedupe[k] = j => ~Unsent(j)'
    BY <2>2 DEF Unsent, Present
  <2> QED
    BY <1>1, <1>2, <1>6, <2>2, <2>3, RetireNext
<1>7. ASSUME NEW step \in {"retireSent", "retireUnsent"}, Pending(w),
             AlreadyFenced(k) \/ CommandOf(k).state = "Succeeded",
             UNCHANGED commandVars, lock' = At(step, k, NoId), UNCHANGED workerVars
      PROVE  LaunchInv'
  <2>1. QP!IInv' /\ Quiet
    BY <1>2, <1>4, <1>7, CommandsStay
  <2>2. \A j \in Id : dedupe[k] = j => ~Unsent(j)'
    BY <1>2, <1>7, FencedIsNotUnsent
  <2> QED
    BY <1>1, <1>2, <1>7, <2>1, <2>2, RetireNext
<1>8. CASE S!RetireIdle(w) /\ UNCHANGED <<commandVars, lock>>
  <2>1. /\ OnlyWorker(w) /\ tasks' = tasks /\ workers[w].current = None
        /\ workers'[w].current = None /\ workers'[w].state = "Retired"
        /\ workers'[w].command = workers[w].command
    BY <1>2, <1>8, RetireIdleMoves
  <2>2. KeepsLink(w) /\ RecordRight(workers[w])' /\ StillWaits(w)
    BY <2>1 DEF KeepsLink, RecordRight, StillWaits, Pending
  <2>3. LockStep
    BY <1>2, <1>8, FreeStays DEF LaunchInv, history
  <2> QED
    BY <1>4, <1>8, <2>1, <2>2, <2>3, OneWorkerStep
<1> QED
  BY <1>1, <1>5, <1>6, <1>7, <1>8 DEF Retire

LEMMA RetireWorkerKeeps ==
  ASSUME LaunchInv, RetireWorker PROVE LaunchInv'
<1>1. PICK k : k = lock.key
  OBVIOUS
<1>2. /\ lock.step \in {"retireSent", "retireUnsent"} /\ lock' = Free
      /\ UNCHANGED commandVars /\ UNCHANGED history
      /\ KnownKey(k) /\ workers[k.worker].current \in {None, k.task}
      /\ \A j \in Id : Unsent(j) => commands[j].key.task # k.task
      /\ SP!StoreInv /\ Ghosts
  BY <1>1 DEF RetireWorker, LaunchInv, HeldLock, Stores
<1>3. PICK w \in Worker : w = k.worker
  BY <1>2, KeyFacts DEF KnownKey
<1>4. sends' = sends /\ halfCleared' = halfCleared /\ faults' \in 0 .. MaxFaults
  BY <1>2, FaultBound DEF history
<1>5. LockStep
  BY <1>2, <1>4, FreeStep
<1>6. CASE S!CancelUnclaimedAfterSend(w) \/ S!RetirePending(w)
  <2>1. Ends(w)
    BY <1>2, <1>6, CancelEnds, RetireEnds
  <2>2. workers[w].current # None
    BY <2>1 DEF Ends, Pending
  <2>3. \A j \in Id : Unsent(j) => commands[j].key.task # workers[w].current
    BY <1>2, <1>3, <2>2
  <2> QED
    BY <1>2, <1>4, <1>5, <2>1, <2>3, EndsStep
<1>7. CASE UNCHANGED workerVars
  BY <1>2, <1>4, <1>5, <1>7, NeitherStep
<1> QED
  BY <1>1, <1>3, <1>6, <1>7 DEF RetireWorker

\* A linked worker's current launch is the one its stored command is of.
LEMMA LinkedCommand ==
  ASSUME LaunchInv, NEW i \in Id, Present(i), NEW w \in LinkedTo(i), workers[w].current # None
  PROVE  /\ w \in Worker /\ Linked(w, i)
         /\ commands[i].key.task = workers[w].current
         /\ commands[i].key = KeyOf(w, workers[w].current)
         /\ dedupe[KeyOf(w, workers[w].current)] = i
<1>1. w \in Worker /\ workers[w].command # None /\ workers[w].command[2] = i + 1
  BY DEF LinkedTo
<1>2. workers[w].command \in S!Command /\ i \in Nat
  BY <1>1, WorkerFacts, CommandFacts DEF LaunchInv, Stores
<1>3. PICK m \in S!Command : m = workers[w].command
  BY <1>2
<1>4. m[2] - 1 = i /\ m = <<m[1], i + 1>>
  <2>1. m[2] = i + 1 /\ m[2] \in Nat
    BY <1>1, <1>3, LinkFacts
  <2>2. m[2] - 1 = i
    BY <1>2, <2>1
  <2> QED
    BY <2>1, <2>2, LinkFacts
<1>5. /\ m[1] = workers[w].current
      /\ commands[i].key.worker = w /\ commands[i].key.task = m[1]
  BY <1>1, <1>3, <1>4 DEF LaunchInv, Together, LinkRight
<1>6. KnownKey(commands[i].key) /\ dedupe[commands[i].key] = i
  BY CommandFacts DEF LaunchInv, Stores, Together, CommandRight
<1>7. tasks[workers[w].current].state # "Absent"
  BY <1>1, WorkerFacts DEF LaunchInv, Stores
<1>8. commands[i].key = KeyOf(w, workers[w].current)
  BY <1>5, <1>6, <1>7 DEF KnownKey
<1> QED
  BY <1>1, <1>3, <1>4, <1>5, <1>6, <1>8 DEF Linked

LEMMA MirrorOfFacts ==
  ASSUME LaunchInv, NEW i \in Id, Present(i), ~ProvenUnsent(commands[i])
  PROVE  LET c == commands[i] IN
         /\ <<MirrorOf(c), c.conv # 0>> \in S!Mirrorable
         /\ MirrorOf(c) \in {"SendStarted", "Reconciling", "WaitingClaim"} =>
              i \in sends[c.key.task]
<1>1. commands[i].state \in {"Queued", "Leased", "SendStarted", "NeedsReconcile",
                             "Paused", "Succeeded", "Failed"}
  BY CommandFacts DEF LaunchInv, Stores, Q!Command, Q!State, Present
<1>2. /\ commands[i].history <=> i \in sends[commands[i].key.task]
      /\ commands[i].state = "Succeeded" => commands[i].history
      /\ commands[i].conv # 0 <=> commands[i].state = "Succeeded"
      /\ commands[i].state \in {"SendStarted", "NeedsReconcile", "Paused"} => commands[i].history
  BY CommandFacts DEF LaunchInv, Stores, Together, CommandRight
<1>3. (commands[i].conv # 0) \in BOOLEAN
  OBVIOUS
<1>4. commands[i].state # "Succeeded" => (commands[i].conv # 0) = FALSE
  BY <1>2
<1>5. commands[i].state = "Succeeded" => (commands[i].conv # 0) = TRUE
  BY <1>2
<1>6. <<MirrorOf(commands[i]), commands[i].conv # 0>> \in S!Mirrorable
  <2> DEFINE b == commands[i].conv # 0
  <2>1. b \in BOOLEAN
    OBVIOUS
  <2>2. commands[i].state # "Succeeded" => b = FALSE
    BY <1>4
  <2>3. commands[i].state = "Succeeded" => b = TRUE
    BY <1>5
  <2> HIDE DEF b
  <2>4. \/ MirrorOf(commands[i]) \in {"Queued", "Preparing", "SendStarted", "Reconciling"} /\ b = FALSE
        \/ MirrorOf(commands[i]) \in {"Paused", "Failed"}
        \/ MirrorOf(commands[i]) = "WaitingClaim" /\ b = TRUE
    BY <1>1, <2>2, <2>3 DEF MirrorOf
  <2>5. <<MirrorOf(commands[i]), b>> \in S!Mirrorable
    BY <2>1, <2>4 DEF S!Mirrorable
  <2> QED
    BY <2>5 DEF b
<1>7. MirrorOf(commands[i]) \in {"SendStarted", "Reconciling", "WaitingClaim"} =>
        commands[i].history
  BY <1>1, <1>2 DEF MirrorOf
<1> QED
  BY <1>2, <1>6, <1>7

LEMMA MirrorKeeps ==
  ASSUME LaunchInv, NEW i \in Id, Mirror(i) PROVE LaunchInv'
<1>1. /\ i \in lock.todo /\ lock' = Sync(lock.todo \ {i})
      /\ UNCHANGED commandVars /\ UNCHANGED history
  BY DEF Mirror
<1>2. /\ lock.step = "sync" /\ lock.todo \in SUBSET Id /\ \A j \in lock.todo : Present(j)
      /\ SP!StoreInv /\ Ghosts
  BY <1>1 DEF LaunchInv, HeldLock, Ghosts, Stores, Lock
<1>3. sends' = sends /\ halfCleared' = halfCleared /\ faults' \in 0 .. MaxFaults
  BY <1>1, <1>2, FaultBound DEF history
<1>4. LockStep
  <2>1. PICK T \in SUBSET Id : T = lock.todo \ {i}
    BY <1>2
  <2>2. \A j \in T : commands'[j].state # "Absent"
    BY <1>1, <1>2, <2>1 DEF Present, commandVars
  <2>3. lock' \in Lock /\ HeldLock(lock)'
    BY <1>1, <2>1, <2>2, SyncLock
  <2> QED
    BY <1>2, <1>3, <2>3 DEF LockStep
<1>5. CASE UNCHANGED workerVars
  BY <1>1, <1>3, <1>4, <1>5, NeitherStep
<1>6. ASSUME NEW w \in LinkedTo(i), ProvenUnsent(commands[i]), S!SettlePreSendFailure(w)
      PROVE  LaunchInv'
  <2>1. Ends(w) /\ w \in Worker
    BY <1>2, <1>6, SettleEnds DEF LinkedTo
  <2>2. workers[w].current # None
    BY <2>1 DEF Ends, Pending
  <2>3. dedupe[KeyOf(w, workers[w].current)] = i
    BY <1>1, <1>2, <1>6, <2>2, LinkedCommand
  <2>4. \A j \in Id : Unsent(j) => commands[j].key.task # workers[w].current
    <3>1. ~Unsent(i)
      BY <1>6 DEF ProvenUnsent, Unsent
    <3> QED
      BY <2>1, <2>2, <2>3, <3>1, CurrentKey
  <2> QED
    BY <1>1, <1>3, <1>4, <2>1, <2>4, EndsStep
<1>7. ASSUME NEW w \in LinkedTo(i), ~ProvenUnsent(commands[i]),
             S!UpdateLaunchByCommand(w, MirrorOf(commands[i]), commands[i].conv # 0)
      PROVE  LaunchInv'
  <2>1. PICK launch, url : launch = MirrorOf(commands[i]) /\ url = (commands[i].conv # 0)
    OBVIOUS
  <2>2. <<launch, url>> \in S!Mirrorable /\ w \in Worker
    BY <1>1, <1>2, <1>7, <2>1, MirrorOfFacts DEF LinkedTo
  <2>3. launch \in {"SendStarted", "Reconciling", "WaitingClaim"} /\ Pending(w) =>
          sends[workers[w].current] # {}
    BY <1>1, <1>2, <1>7, <2>1, MirrorOfFacts, LinkedCommand DEF Pending
  <2> QED
    BY <1>1, <1>3, <1>4, <1>7, <2>1, <2>2, <2>3, MirrorStep
<1> QED
  BY <1>5, <1>6, <1>7 DEF Mirror

LEMMA RedeemKeeps ==
  ASSUME LaunchInv, NEW client \in Client, NEW e, Redeem(client, e) PROVE LaunchInv'
<1>1. /\ lock = Free /\ QP!Redeem(client, e) /\ UNCHANGED workerVars /\ UNCHANGED history
      /\ lock' = Sync({i \in Id : issued' # issued /\ commands'[i].lease = issued'})
      /\ QP!IInv /\ Ghosts
  BY Redeems DEF Redeem, LaunchInv, Stores
<1>2. sends' = sends /\ halfCleared' = halfCleared /\ faults' \in 0 .. MaxFaults
  BY <1>1, FaultBound DEF history
<1>3. QP!IInv' /\ QP!Settles({})
  BY <1>1, QP!RedeemStep, QP!RedeemSettles, QAssumed
<1>4. Quiet
  BY <1>1, <1>2, <1>3, SettlesQuiet
<1>5. PICK T \in SUBSET Id : T = {i \in Id : issued' # issued /\ commands'[i].lease = issued'}
  OBVIOUS
<1>6. \A j \in T : commands'[j].state # "Absent"
  BY <1>1, <1>3, <1>5, QP!LeasedIsStored, QAssumed, Names
<1>7. LockStep
  BY <1>1, <1>2, <1>5, <1>6, SyncLock DEF LockStep, Free
<1> QED
  BY <1>1, <1>3, <1>4, <1>7, CommandStep

LEMMA MarkKeeps ==
  ASSUME LaunchInv, NEW i \in Id, NEW l \in 1 .. MaxLease, NEW client \in Client,
         MarkSendStarted(i, l, client)
  PROVE  LaunchInv'
<1>1. /\ lock = Free /\ lock' = Sync({i}) /\ UNCHANGED workerVars
      /\ UNCHANGED <<faults, halfCleared>> /\ QP!IInv /\ Ghosts
  BY DEF MarkSendStarted, LaunchInv, Stores
<1>2. commands'[i].state # "Absent"
  <2>1. CASE Q!MarkSendStarted(i, l, client)
    BY <1>1, <2>1, Marks, QP!MarkTells, QAssumed, Names
  <2>2. CASE commands[i].state = "SendStarted" /\ UNCHANGED commandVars
    BY <2>2 DEF commandVars
  <2> QED
    BY <2>1, <2>2 DEF MarkSendStarted
<1>3. LockStep
  <2>1. PICK T \in SUBSET Id : T = {i}
    OBVIOUS
  <2>2. faults' \in 0 .. MaxFaults
    BY <1>1, FaultBound
  <2> QED
    BY <1>1, <1>2, <2>1, <2>2, SyncLock DEF LockStep, Free
<1>4. CASE /\ Q!MarkSendStarted(i, l, client)
           /\ sends' = [sends EXCEPT ![commands[i].key.task] = @ \cup {i}]
  BY <1>1, <1>3, <1>4, MarkStep
<1>5. CASE UNCHANGED <<commandVars, sends>>
  BY <1>1, <1>3, <1>5, NeitherStep
<1> QED
  BY <1>4, <1>5 DEF MarkSendStarted

LEMMA AcknowledgeKeeps ==
  ASSUME LaunchInv, NEW i \in Id, NEW l \in 1 .. MaxLease, NEW client \in Client,
         Acknowledge(i, l, client)
  PROVE  LaunchInv'
<1>1. PICK conv : conv = commands[i].key.worker
  OBVIOUS
<1>2. /\ lock = Free /\ lock' = Sync({i}) /\ UNCHANGED workerVars
      /\ UNCHANGED history /\ QP!IInv /\ Ghosts
      /\ \/ Q!AckSucceeded(i, l, client, conv) \/ Q!AckFailed(i, l, client)
         \/ Q!AckNeedsReconcile(i, l, client) \/ Q!AckPaused(i, l, client)
  BY <1>1 DEF Acknowledge, LaunchInv, Stores
<1>3. sends' = sends /\ halfCleared' = halfCleared /\ faults' \in 0 .. MaxFaults
  BY <1>2, FaultBound DEF history
<1>4. Present(i)
  BY <1>2 DEF Q!AckSucceeded, Q!AckFailed, Q!AckNeedsReconcile, Q!AckPaused, Q!Acknowledge, Present
<1>5. conv \in Worker
  BY <1>1, <1>2, <1>4, CommandFacts, KeyFacts
<1>6. \/ \E x \in Worker : QP!AckSucceeded(i, l, client, x)
      \/ QP!AckFailed(i, l, client)
      \/ QP!AckNeedsReconcile(i, l, client) \/ QP!AckPaused(i, l, client)
  BY <1>2, <1>5, Acks
<1>7. i \in QP!Id /\ l \in QP!LeaseId
  BY Names
<1>8. QP!IInv' /\ QP!Settles({i}) /\ commands'[i].state # "Absent"
  BY <1>2, <1>6, <1>7, QP!AcksStep, QP!AcksSettle, QAssumed
<1>9. Quiet
  BY <1>2, <1>3, <1>8, SettlesQuiet
<1>10. LockStep
  <2>1. PICK T \in SUBSET Id : T = {i}
    OBVIOUS
  <2> QED
    BY <1>2, <1>3, <1>8, <2>1, SyncLock DEF LockStep, Free
<1> QED
  BY <1>2, <1>8, <1>9, <1>10, CommandStep

LEMMA RevokeKeeps ==
  ASSUME LaunchInv, NEW client \in Client, Revoke(client) PROVE LaunchInv'
<1>1. /\ lock = Free /\ lock' = Sync({i \in Id : commands[i].state # "Absent"})
      /\ UNCHANGED workerVars /\ UNCHANGED history /\ QP!IInv /\ Ghosts
      /\ QP!SettleRevokedClient(client) \/ UNCHANGED commandVars
  BY Revokes DEF Revoke, LaunchInv, Stores
<1>2. sends' = sends /\ halfCleared' = halfCleared /\ faults' \in 0 .. MaxFaults
  BY <1>1, FaultBound DEF history
<1>3. /\ QP!IInv' /\ Quiet
      /\ \A i \in Id : commands[i].state # "Absent" => commands'[i].state # "Absent"
  <2>1. CASE QP!SettleRevokedClient(client)
    <3>1. QP!IInv' /\ QP!Settles({})
      BY <1>1, <2>1, QP!SettleRevokedStep, QP!RevokeSettles, QAssumed
    <3> QED
      BY <1>1, <1>2, <3>1, SettlesQuiet DEF Present
  <2>2. CASE UNCHANGED commandVars
    BY <1>1, <1>2, <2>2, CommandsStay DEF commandVars
  <2> QED
    BY <1>1, <2>1, <2>2
<1>4. PICK T \in SUBSET Id : T = {i \in Id : commands[i].state # "Absent"}
  OBVIOUS
<1>5. LockStep
  BY <1>1, <1>2, <1>3, <1>4, SyncLock DEF LockStep, Free
<1> QED
  BY <1>1, <1>3, <1>5, CommandStep

LEMMA RememberedIsStored ==
  ASSUME QP!IInv, NEW i \in Id, commands[i].history PROVE Present(i)
<1>1. QP!CommandOK(i)
  BY Names DEF QP!IInv
<1>2. ~QP!NoCommand.history
  BY DEF QP!NoCommand
<1> QED
  BY <1>1, <1>2 DEF QP!CommandOK, Present

LEMMA RegisterClaimKeeps ==
  ASSUME LaunchInv, NEW w \in Worker, RegisterClaim(w) PROVE LaunchInv'
<1>1. PICK i \in Id : Linked(w, i) /\ commands[i].history
  BY DEF RegisterClaim
<1>2. /\ lock = Free /\ lock' = Free /\ UNCHANGED <<faults, halfCleared>> /\ sends' = sends
      /\ UNCHANGED commandVars /\ workers[w].current # None
      /\ S!UpdateLaunchByCommand(w, "WaitingClaim", TRUE)
  BY DEF RegisterClaim, history
<1>3. Present(i)
  BY <1>1, RememberedIsStored DEF LaunchInv, Stores
<1>4. w \in LinkedTo(i)
  BY <1>1, <1>2 DEF Linked, LinkedTo, S!UpdateLaunchByCommand
<1>5. i \in sends[workers[w].current]
  BY <1>1, <1>2, <1>3, <1>4, LinkedCommand DEF LaunchInv, Together, CommandRight
<1>6. LockStep
  BY <1>2, FreeStays DEF LaunchInv
<1>7. PICK launch, url : launch = "WaitingClaim" /\ url = TRUE
  OBVIOUS
<1>8. <<launch, url>> \in S!Mirrorable
  BY <1>7 DEF S!Mirrorable
<1>9. S!UpdateLaunchByCommand(w, launch, url) /\ sends[workers[w].current] # {}
  BY <1>2, <1>5, <1>7
<1> QED
  BY <1>2, <1>6, <1>8, <1>9, MirrorStep

LEMMA ClaimKeeps ==
  ASSUME LaunchInv, NEW w \in Worker, NEW h \in Chat, Claim(w, h) PROVE LaunchInv'
<1>1. /\ lock = Free /\ lock' = Free /\ UNCHANGED <<faults, halfCleared>> /\ sends' = sends
      /\ UNCHANGED commandVars /\ S!ClaimWorkerAttested(w, h)
  BY DEF Claim, history
<1>2. /\ OnlyWorker(w) /\ workers[w].current # None /\ workers[w].chat = None
      /\ workers[w].launch = "WaitingClaim"
      /\ workers'[w].state = "Provisioning" /\ workers'[w].current = workers[w].current
      /\ workers'[w].command = workers[w].command /\ workers'[w].chat # None
      /\ workers'[w].launch = "Claimed"
  BY <1>1, ClaimMoves DEF LaunchInv, Stores
<1>3. RecordRight(workers[w])
  BY DEF LaunchInv, Together
<1>4. RecordRight(workers[w])'
  BY <1>2, <1>3 DEF RecordRight
<1>5. KeepsLink(w) /\ StillWaits(w)
  BY <1>2 DEF KeepsLink, StillWaits, Pending
<1>6. LockStep
  BY <1>1, FreeStays DEF LaunchInv
<1> QED
  BY <1>1, <1>2, <1>4, <1>5, <1>6, OneWorkerStep

\* The start is confirmed to the command of the task that now runs.
LEMMA ConfirmNext ==
  ASSUME NEW k \in LaunchKey, KnownKey(k)', lock' = At("confirm", k, NoId),
         tasks'[k.task].state = "Running", lock.step # "clear",
         faults' \in 0 .. MaxFaults, halfCleared' = halfCleared
  PROVE  LockStep
<1>1. lock' \in Lock /\ lock'.step = "confirm" /\ lock'.key = k /\ lock'.todo = {}
  BY AtLock DEF Step
<1>2. KnownKey(lock.key)'
  BY <1>1 DEF KnownKey
<1>3. HeldLock(lock)'
  BY <1>1, <1>2 DEF HeldLock
<1> QED
  BY <1>1, <1>3 DEF LockStep

LEMMA StartKeeps ==
  ASSUME LaunchInv, NEW w \in Worker, Start(w) PROVE LaunchInv'
<1>1. PICK k : k = KeyOf(w, workers[w].current)
  OBVIOUS
<1>2. /\ lock = Free /\ lock' = At("confirm", k, NoId) /\ UNCHANGED <<sends, faults, halfCleared>>
      /\ UNCHANGED commandVars /\ workers[w].current # None
      /\ SP!StoreInv /\ Ghosts /\ lock.step # "clear"
  BY <1>1 DEF Start, history, LaunchInv, Stores, Free
<1>3. KnownKey(k) /\ k \in LaunchKey /\ k.worker = w /\ k.task = workers[w].current
  BY <1>1, <1>2, CurrentKey
<1>4. faults' \in 0 .. MaxFaults
  BY <1>2, FaultBound
<1>5. workers[w].current \in Task
  BY <1>2, WorkerFacts
<1>6. CASE sends[workers[w].current] # {} /\ S!StartTask(w)
  <2>1. /\ OnlyWorker(w)
        /\ workers'[w].state = "Running" /\ workers'[w].current = workers[w].current
        /\ workers'[w].command = workers[w].command
        /\ tasks'[workers[w].current].state = "Running"
    BY <1>2, <1>6, StartMoves
  <2>2. KnownKey(k)'
    BY <1>2, <1>3, <2>1, KeyStays DEF OnlyWorker
  <2>3. LockStep
    BY <1>2, <1>3, <1>4, <2>1, <2>2, ConfirmNext
  <2>4. workers[w].command # None
    BY <1>2, <1>6, UnlinkedOffersNothing DEF Offered, LaunchInv, Ghosts
  <2>5. RecordRight(workers[w])'
    BY <1>2, <1>6, <2>1, <2>4 DEF RecordRight
  <2>6. \A i \in Id : Unsent(i) => commands[i].key.task # workers[w].current
    BY <1>5, <1>6, SentHasNoUnsent DEF LaunchInv
  <2>7. KeepsLink(w) /\ StillWaits(w)
    BY <2>1, <2>6 DEF KeepsLink, StillWaits
  <2> QED
    BY <1>2, <2>1, <2>3, <2>5, <2>7, OneWorkerStep
<1>7. CASE S!AtWork(w) /\ UNCHANGED workerVars
  <2>1. KnownKey(k)'
    BY <1>3, <1>7, KnownStays
  <2>2. tasks'[k.task].state = "Running"
    BY <1>3, <1>7 DEF S!AtWork, workerVars
  <2>3. LockStep
    BY <1>2, <1>3, <1>4, <2>1, <2>2, ConfirmNext
  <2> QED
    BY <1>2, <1>7, <2>3, NeitherStep
<1> QED
  BY <1>6, <1>7 DEF Start

LEMMA ConfirmKeeps ==
  ASSUME LaunchInv, Confirm PROVE LaunchInv'
<1>1. PICK k, conv : k = lock.key /\ conv = k.worker
  OBVIOUS
<1>2. /\ lock.step = "confirm" /\ lock' = Free /\ UNCHANGED workerVars
      /\ KnownKey(k) /\ QP!IInv /\ Ghosts
      /\ \/ Q!ConfirmWorkerStarted(k, conv) /\ UNCHANGED history
         \/ (Fault \/ UNCHANGED history) /\ UNCHANGED commandVars
  BY <1>1 DEF Confirm, LaunchInv, HeldLock, Stores
<1>3. sends' = sends /\ halfCleared' = halfCleared /\ faults' \in 0 .. MaxFaults
  BY <1>2, FaultBound DEF history
<1>4. LockStep
  BY <1>2, <1>3, FreeStep
<1>5. k \in LaunchKey /\ conv \in Worker
  BY <1>1, <1>2, KeyFacts DEF KnownKey
<1>6. QP!IInv' /\ Quiet
  <2>1. CASE Q!ConfirmWorkerStarted(k, conv)
    <3>1. QP!ConfirmWorkerStarted(k, conv)
      BY <2>1, Confirms
    <3>2. QP!IInv' /\ QP!Settles({dedupe[k]})
      BY <1>2, <1>5, <3>1, QP!ConfirmStep, QP!ConfirmSettles, QAssumed
    <3> QED
      BY <1>2, <1>3, <3>2, SettlesQuiet
  <2>2. CASE UNCHANGED commandVars
    BY <1>2, <1>3, <2>2, CommandsStay
  <2> QED
    BY <1>2, <2>1, <2>2
<1> QED
  BY <1>2, <1>4, <1>6, CommandStep

LEMMA FinishKeeps ==
  ASSUME LaunchInv, NEW w \in Worker, Finish(w) PROVE LaunchInv'
<1>1. /\ lock = Free /\ lock' = Free /\ UNCHANGED <<faults, halfCleared>> /\ sends' = sends
      /\ UNCHANGED commandVars /\ S!FinishTask(w)
  BY DEF Finish, history
<1>2. /\ OnlyWorker(w) /\ workers[w].state = "Running"
      /\ workers'[w].state = "Idle" /\ workers'[w].current = None
      /\ workers'[w].command = workers[w].command
  BY <1>1, FinishMoves DEF LaunchInv, Stores
<1>3. RecordRight(workers[w])' /\ KeepsLink(w) /\ StillWaits(w)
  BY <1>2 DEF RecordRight, KeepsLink, StillWaits, Pending
<1>4. LockStep
  BY <1>1, FreeStays DEF LaunchInv
<1> QED
  BY <1>1, <1>2, <1>3, <1>4, OneWorkerStep

\* What passes with time: a launch that was sent may end, and nothing else.
Aged(w) ==
  \/ workers'[w].state = workers[w].state /\ workers'[w].current = workers[w].current
     /\ workers'[w].command = workers[w].command
  \/ /\ Pending(w) /\ sends[workers[w].current] # {}
     /\ workers'[w].current = None /\ workers'[w].command = workers[w].command

\* Nothing the handler at work counts on is lost to time.
LEMMA HeldStays ==
  ASSUME LaunchInv, SP!StoreInv', SP!Inherits, QP!Settles({}), lock' = lock, sends' = sends,
         \A w \in Worker : Aged(w),
         \A t \in Task : tasks[t].state = "Running" => tasks'[t].state = "Running"
  PROVE  HeldLock(lock)'
<1>1. PICK k, i : k = lock.key /\ i = lock.id
  OBVIOUS
<1>2. QP!IInv /\ SP!StoreInv /\ HeldLock(lock) /\ lock \in Lock
  BY DEF LaunchInv, Stores, Ghosts
<1>3. Quiet /\ \A j \in Id : Present(j) => commands'[j].state # "Absent"
  BY <1>2, SettlesQuiet
<1>4. /\ \A x \in LaunchKey : dedupe'[x] = dedupe[x]
      /\ \A j \in Id : QP!Calm(j)
  BY Names DEF QP!Settles
<1>5. \A j \in Id : commands'[j].state # "Absent" =>
        /\ Present(j) /\ commands'[j].key = commands[j].key
        /\ commands'[j].ready <=> commands[j].ready
        /\ Unsent(j)' => Unsent(j)
  BY <1>4 DEF QP!Calm, Present, Unsent
<1>6. lock.step \notin {"free", "sync", "clear"} =>
        /\ KnownKey(k) /\ KnownKey(k)' /\ k \in LaunchKey
        /\ k.worker \in Worker /\ k.task \in Task /\ k.task # None
  <2> SUFFICES ASSUME lock.step \notin {"free", "sync", "clear"}
               PROVE  /\ KnownKey(k) /\ KnownKey(k)' /\ k \in LaunchKey
                      /\ k.worker \in Worker /\ k.task \in Task /\ k.task # None
    OBVIOUS
  <2>1. KnownKey(k)
    BY <1>1, <1>2 DEF HeldLock
  <2>2. k \in LaunchKey /\ k.worker \in Worker /\ k.task \in Task /\ k.task # None
    BY <1>2, <2>1, KeyFacts, TaskFacts DEF KnownKey
  <2>3. KnownKey(k)'
    BY <1>2, <2>1, KeyStays
  <2> QED
    BY <2>1, <2>2, <2>3
<1>7. KnownKey(lock.key)' <=> KnownKey(k)'
  BY <1>1 DEF KnownKey
<1>8. lock.step = "activate" =>
        /\ i \in Id /\ Present(i)' /\ commands'[i].key = k
        /\ Offered(k.task)' \subseteq {i}
        /\ workers'[k.worker].current = k.task => Linked(k.worker, i)'
        /\ \/ sends'[k.task] # {}
           \/ Pending(k.worker)' /\ workers'[k.worker].current = k.task
  <2> SUFFICES ASSUME lock.step = "activate"
               PROVE  /\ i \in Id /\ Present(i)' /\ commands'[i].key = k
                      /\ Offered(k.task)' \subseteq {i}
                      /\ workers'[k.worker].current = k.task => Linked(k.worker, i)'
                      /\ \/ sends'[k.task] # {}
                         \/ Pending(k.worker)' /\ workers'[k.worker].current = k.task
    OBVIOUS
  <2>1. /\ i \in Id /\ Present(i) /\ commands[i].key = k
        /\ Offered(k.task) \subseteq {i}
        /\ workers[k.worker].current = k.task => Linked(k.worker, i)
        /\ \/ sends[k.task] # {}
           \/ Pending(k.worker) /\ workers[k.worker].current = k.task
    BY <1>1, <1>2 DEF HeldLock
  <2>2. Present(i)' /\ commands'[i].key = k
    BY <1>3, <1>5, <2>1 DEF Present
  <2>3. Offered(k.task)' \subseteq {i}
    BY <1>3, <2>1, OfferedShrinks
  <2>4. Aged(k.worker)
    BY <1>6
  <2>5. workers'[k.worker].current = k.task => Linked(k.worker, i)'
    BY <1>6, <2>1, <2>4 DEF Aged, Linked
  <2>6. \/ sends'[k.task] # {}
        \/ Pending(k.worker)' /\ workers'[k.worker].current = k.task
    BY <2>1, <2>4 DEF Aged, Pending
  <2> QED
    BY <2>1, <2>2, <2>3, <2>5, <2>6
<1>9. lock.step \in {"retireSent", "retireUnsent"} =>
        /\ workers'[k.worker].current \in {None, k.task}
        /\ \A j \in Id : Unsent(j)' => commands'[j].key.task # k.task
  <2>1. lock.step \in {"retireSent", "retireUnsent"} =>
          /\ workers[k.worker].current \in {None, k.task} /\ Aged(k.worker)
          /\ \A j \in Id : Unsent(j) => commands[j].key.task # k.task
    BY <1>1, <1>2, <1>6 DEF HeldLock
  <2> QED
    BY <1>5, <2>1 DEF Aged, Unsent, Present
<1>10. lock.step \in {"cancelLinked", "rollbackLinked"} =>
         i \in Id /\ i \notin sends'[k.task] /\ (Present(i)' => ~commands'[i].ready)
  BY <1>1, <1>2, <1>5 DEF HeldLock, Present
<1>11. /\ lock.step # "sync" => lock.todo = {}
       /\ lock.step = "sync" => \A j \in lock.todo : Present(j)'
       /\ lock.step \in {"link", "cancelUnlinked"} => i \in Id /\ dedupe'[k] = i
       /\ lock.step = "confirm" => tasks'[k.task].state = "Running"
  <2>1. lock.todo \subseteq Id
    BY <1>2 DEF Lock
  <2> QED
    BY <1>1, <1>2, <1>3, <1>4, <1>6, <2>1 DEF HeldLock, Present
<1> HIDE <1>2
<1>12. lock'.key = k /\ lock'.id = i /\ lock'.step = lock.step /\ lock'.todo = lock.todo
  BY <1>1
<1> QED
  BY <1>6, <1>7, <1>8, <1>9, <1>10, <1>11, <1>12 DEF HeldLock, Id, Q!Id

LEMMA AgedKeeps ==
  ASSUME LaunchInv, QP!IInv', SP!StoreInv', SP!Inherits, QP!Settles({}),
         UNCHANGED <<lock, sends, faults, halfCleared, batches, families>>,
         \A w \in Worker : Aged(w) /\ RecordRight(workers[w])',
         \A t \in Task : tasks[t].state = "Running" => tasks'[t].state = "Running"
  PROVE  LaunchInv'
<1>1. HeldLock(lock)'
  BY HeldStays
<1>2. Quiet
  BY SettlesQuiet DEF LaunchInv, Stores
<1>3. ASSUME NEW w \in Worker PROVE KeepsLink(w) /\ StillWaits(w)
  <2>1. CASE workers'[w].state = workers[w].state /\ workers'[w].current = workers[w].current
             /\ workers'[w].command = workers[w].command
    BY <2>1 DEF KeepsLink, StillWaits, Pending
  <2>2. CASE /\ Pending(w) /\ sends[workers[w].current] # {}
             /\ workers'[w].current = None /\ workers'[w].command = workers[w].command
    <3>1. workers[w].current \in Task
      BY <2>2, WorkerFacts DEF Pending, LaunchInv, Stores
    <3>2. \A i \in Id : Unsent(i) => commands[i].key.task # workers[w].current
      BY <2>2, <3>1, SentHasNoUnsent DEF LaunchInv
    <3> QED
      BY <2>2, <3>2 DEF KeepsLink, StillWaits
  <2> QED
    BY <2>1, <2>2 DEF Aged
<1>4. /\ batches' = <<>> /\ families' \subseteq {TheCore} /\ lock' \in Lock
      /\ faults' \in 0 .. MaxFaults /\ halfCleared' \in BOOLEAN
      /\ halfCleared \/ lock.step = "clear" => halfCleared' \/ lock'.step = "clear"
  BY DEF LaunchInv, Stores, Ghosts
<1> QED
  BY <1>1, <1>2, <1>3, <1>4, StepKeeps

LEMMA TimeKeeps ==
  ASSUME LaunchInv, Time PROVE LaunchInv'
<1>1. UNCHANGED <<lock, sends, faults, halfCleared>> /\ QP!IInv /\ SP!StoreInv
  BY DEF Time, history, LaunchInv, Stores
<1>2. UNCHANGED commandVars => QP!IInv' /\ QP!Settles({})
  <2> SUFFICES ASSUME UNCHANGED commandVars PROVE QP!IInv' /\ QP!Settles({})
    OBVIOUS
  <2>1. QP!IInv'
    BY <1>1, CommandsStay
  <2>2. \A i : QP!Calm(i)
    BY DEF QP!Calm, commandVars
  <2> QED
    BY <2>1, <2>2 DEF QP!Settles, commandVars
<1>3. ASSUME NEW w \in Worker, S!GraceEnds(w), UNCHANGED commandVars PROVE LaunchInv'
  <2>1. /\ OnlyWorker(w) /\ tasks' = tasks
        /\ workers'[w].state = workers[w].state /\ workers'[w].current = workers[w].current
        /\ workers'[w].command = workers[w].command /\ workers'[w].chat = workers[w].chat
        /\ workers'[w].launch = workers[w].launch /\ workers'[w].url = workers[w].url
    BY <1>1, <1>3, GraceMoves
  <2>2. ASSUME NEW v \in Worker PROVE Aged(v) /\ RecordRight(workers[v])'
    <3>1. /\ workers'[v].state = workers[v].state /\ workers'[v].current = workers[v].current
          /\ workers'[v].command = workers[v].command /\ workers'[v].chat = workers[v].chat
          /\ workers'[v].launch = workers[v].launch /\ workers'[v].url = workers[v].url
      BY <2>1 DEF OnlyWorker
    <3>2. RecordRight(workers[v])
      BY DEF LaunchInv, Together
    <3> QED
      BY <1>1, <3>1, <3>2 DEF Aged, RecordRight
  <2> QED
    BY <1>1, <1>2, <1>3, <2>1, <2>2, AgedKeeps DEF OnlyWorker
<1>4. CASE S!ExpireWaitingClaims(Core) /\ UNCHANGED commandVars
  <2>1. /\ SP!StoreInv' /\ SP!Inherits /\ UNCHANGED <<families, batches, made>>
        /\ \A w \in Worker :
             \/ workers'[w] = workers[w]
             \/ /\ workers[w].launch = "WaitingClaim" /\ workers[w].chat = None
                /\ Pending(w) /\ workers'[w].current = None
                /\ workers'[w].state = "Retired"
                /\ workers'[w].command = workers[w].command
        /\ \A t \in Task : tasks[t].state = "Running" => tasks'[t].state = "Running"
    BY <1>1, <1>4, ExpiryMoves
  <2>2. ASSUME NEW v \in Worker PROVE Aged(v) /\ RecordRight(workers[v])'
    <3>1. RecordRight(workers[v])
      BY DEF LaunchInv, Together
    <3>2. CASE workers'[v] = workers[v]
      BY <1>1, <3>1, <3>2 DEF Aged, RecordRight
    <3>3. CASE /\ workers[v].launch = "WaitingClaim" /\ workers[v].chat = None
               /\ Pending(v) /\ workers'[v].current = None
               /\ workers'[v].state = "Retired"
               /\ workers'[v].command = workers[v].command
      BY <3>1, <3>3 DEF Aged, RecordRight, Pending
    <3> QED
      BY <2>1, <3>2, <3>3
  <2> QED
    BY <1>1, <1>2, <1>4, <2>1, <2>2, AgedKeeps
<1>5. ASSUME NEW i \in Id, Q!LeaseExpires(i), UNCHANGED workerVars PROVE LaunchInv'
  <2>1. QP!LeaseExpires(i) /\ i \in QP!Id
    BY <1>5, Expires, Names
  <2>2. QP!IInv' /\ QP!Settles({})
    BY <1>1, <2>1, QP!LeaseExpiresStep, QP!ExpirySettles, QAssumed
  <2>3. SP!StoreInv' /\ SP!Inherits /\ \A w \in Worker : RecordRight(workers[w])'
    BY <1>1, <1>5, WorkersStay DEF LaunchInv
  <2>4. \A w \in Worker : Aged(w)
    BY <1>5 DEF Aged, workerVars
  <2> QED
    BY <1>1, <1>5, <2>2, <2>3, <2>4, AgedKeeps DEF workerVars
<1> QED
  BY <1>3, <1>4, <1>5 DEF Time

LEMMA ClearWorkersKeeps ==
  ASSUME LaunchInv, ClearWorkers PROVE LaunchInv'
<1>1. /\ lock = Free /\ lock' = At("clear", None, NoId) /\ UNCHANGED commandVars
      /\ UNCHANGED <<sends, faults, halfCleared>> /\ QP!IInv /\ SP!StoreInv /\ Ghosts
  BY DEF ClearWorkers, history, LaunchInv, Stores
<1>2. /\ lock' \in Lock /\ lock'.step = "clear" /\ lock'.todo = {}
  BY <1>1, AtLock DEF Step
<1>3. HeldLock(lock)'
  BY <1>2 DEF HeldLock
<1>4. faults' \in 0 .. MaxFaults
  BY <1>1, FaultBound
<1>5. CASE UNCHANGED workerVars
  <2>1. LockStep
    BY <1>1, <1>2, <1>3, <1>4 DEF LockStep
  <2> QED
    BY <1>1, <1>5, <2>1, NeitherStep
<1>6. CASE S!ClearAllWorkers
  <2>1. /\ SP!StoreInv' /\ UNCHANGED <<batches, made>> /\ families' = {}
        /\ \A w \in Worker : /\ workers'[w].state = "Absent"
                             /\ workers'[w].current = None
                             /\ workers'[w].command = None
        /\ \A t \in Task : tasks'[t].state = "Absent"
    BY <1>1, <1>6, Clears, SP!ClearEnds, SAssumed, Names
  <2>2. SP!Inherits
    BY <1>1, <2>1, TaskFacts, Names DEF SP!Inherits
  <2>3. QP!IInv' /\ Quiet
    BY <1>1, CommandsStay
  <2>4. \A w \in Worker : KeepsLink(w) /\ RecordRight(workers[w])'
    BY <2>1 DEF KeepsLink, RecordRight
  <2>5. Together'
    BY <1>1, <2>1, <2>2, <2>3, <2>4, QuietKeeps DEF LaunchInv, Ghosts
  <2>6. Owned'
    BY <1>2 DEF Owned
  <2>7. Stores' /\ Ghosts'
    BY <1>1, <1>2, <1>4, <2>1, <2>3
    DEF Stores, Ghosts, LaunchInv, Lock, Id, Q!Id, LaunchKey, Worker, Task
  <2> QED
    BY <1>3, <2>5, <2>6, <2>7 DEF LaunchInv
<1> QED
  BY <1>5, <1>6 DEF ClearWorkers

LEMMA ClearCommandsKeeps ==
  ASSUME LaunchInv, ClearCommands PROVE LaunchInv'
<1>1. /\ lock.step = "clear" /\ lock' = Free /\ halfCleared' = FALSE
      /\ UNCHANGED workerVars /\ UNCHANGED <<sends, faults>>
      /\ QP!IInv /\ SP!StoreInv /\ Ghosts
  BY DEF ClearCommands, LaunchInv, Stores
<1>2. /\ QP!IInv' /\ Quiet /\ \A i \in Id : commands'[i].state = "Absent"
  <2>1. CASE Q!ClearAllWorkerCommands
    <3>1. PICK X : X = Q!InStore(commands) /\ Q!RemoveCommands(X)
      BY <2>1 DEF Q!ClearAllWorkerCommands
    <3>2. QP!RemoveCommands(X)
      BY <3>1, Removes
    <3>3. /\ QP!IInv' /\ Quiet
          /\ \A i \in Id : i \in X => commands'[i].state = "Absent"
      BY <1>1, <3>2, RemovalQuiet
    <3>4. ASSUME NEW i \in Id, commands'[i].state # "Absent" PROVE FALSE
      <4>1. CASE Present(i)
        BY <3>1, <3>3, <3>4, <4>1, Names DEF Q!InStore, Present
      <4>2. CASE ~Present(i)
        <5>1. i \notin X
          BY <3>1, <4>2 DEF Q!InStore, Present
        <5>2. i \in Q!Id
          BY Names
        <5>3. commands'[i] = commands[i]
          BY <3>1, <5>1, <5>2 DEF Q!RemoveCommands, Q!Without
        <5> QED
          BY <3>4, <4>2, <5>3 DEF Present
      <4> QED
        BY <4>1, <4>2
    <3> QED
      BY <3>3, <3>4
  <2>2. CASE Q!InStore(commands) = {} /\ UNCHANGED commandVars
    <3>1. \A i \in Id : commands[i].state = "Absent"
      BY <2>2, Names DEF Q!InStore
    <3> QED
      BY <1>1, <2>2, <3>1, CommandsStay DEF commandVars
  <2> QED
    BY <2>1, <2>2 DEF ClearCommands
<1>3. lock' \in Lock /\ HeldLock(lock)'
  BY <1>1, FreeLock
<1>4. /\ SP!StoreInv' /\ SP!Inherits
      /\ \A w \in Worker : KeepsLink(w) /\ RecordRight(workers[w])'
  BY <1>1, WorkersStay DEF LaunchInv
<1>5. Together'
  BY <1>1, <1>2, <1>4, QuietKeeps DEF LaunchInv, Ghosts
<1>6. Owned'
  BY <1>2 DEF Owned, Unsent, Present, Id, Q!Id
<1>7. Stores' /\ Ghosts'
  BY <1>1, <1>2, <1>3, <1>4
  DEF Stores, Ghosts, LaunchInv, workerVars, Lock, Id, Q!Id, LaunchKey, Worker, Task
<1> QED
  BY <1>3, <1>5, <1>6, <1>7 DEF LaunchInv

LEMMA CrashKeeps ==
  ASSUME LaunchInv, Crash PROVE LaunchInv'
<1>1. /\ lock' = Free /\ faults < MaxFaults /\ faults' = faults + 1
      /\ halfCleared' = (halfCleared \/ lock.step = "clear")
      /\ UNCHANGED workerVars /\ UNCHANGED commandVars /\ sends' = sends
      /\ QP!IInv /\ SP!StoreInv /\ Ghosts
  BY DEF Crash, LaunchInv, Stores
<1>2. faults' \in 0 .. MaxFaults
  BY <1>1, LaunchConstantsOK DEF Ghosts, LaunchConstantsOK
<1>3. QP!IInv' /\ Quiet
  BY <1>1, CommandsStay
<1>4. SP!StoreInv' /\ SP!Inherits /\ \A w \in Worker : KeepsLink(w) /\ RecordRight(workers[w])'
  BY <1>1, WorkersStay DEF LaunchInv
<1>5. \A w \in Worker : StillWaits(w)
  BY <1>1 DEF StillWaits, Pending, workerVars
<1>6. lock' \in Lock /\ HeldLock(lock)'
  BY <1>1, FreeLock
<1>7. /\ halfCleared' \in BOOLEAN /\ batches' = <<>> /\ families' \subseteq {TheCore}
      /\ halfCleared \/ lock.step = "clear" => halfCleared' \/ lock'.step = "clear"
  BY <1>1 DEF LaunchInv, Stores, Ghosts, workerVars
<1> QED
  BY <1>2, <1>3, <1>4, <1>5, <1>6, <1>7, StepKeeps

-----------------------------------------------------------------------------
(* The invariant.                                                          *)

LEMMA LaunchInit == Init => LaunchInv
<1> SUFFICES ASSUME Init PROVE LaunchInv
  OBVIOUS
<1>1. S!Init /\ Q!Init /\ lock = Free /\ sends = [t \in Task |-> {}]
      /\ faults = 0 /\ halfCleared = FALSE
  BY DEF Init
<1>2. SP!Init
  BY <1>1 DEF S!Init, SP!Init, S!NoWorker, SP!NoWorker, S!NoTask, SP!NoTask, S!Worker, SP!Worker,
              S!Task, SP!Task
<1>3. SP!StoreInv
  BY <1>2, SP!StoreStart, SAssumed
<1>4. QP!Init
  BY <1>1 DEF Q!Init, QP!Init, Q!NoCommand, QP!NoCommand, Q!NoLease, QP!NoLease, Q!NoId, QP!NoId,
              Q!Id, QP!Id
<1>5. QP!IInv
  BY <1>4, QP!IInvInit, QAssumed
<1>6. \A i \in Id : ~Present(i)
  <2>1. \A i \in Id : commands[i] = Q!NoCommand
    BY <1>1, Names DEF Q!Init
  <2>2. Q!NoCommand.state = "Absent"
    BY DEF Q!NoCommand
  <2> QED
    BY <2>1, <2>2 DEF Present
<1>7. \A w \in Worker : /\ workers[w].current = None /\ workers[w].command = None
                        /\ workers[w].state = "Absent"
  <2>1. \A w \in Worker : workers[w] = S!NoWorker
    BY <1>1, Names DEF S!Init
  <2>2. S!NoWorker.current = None /\ S!NoWorker.command = None /\ S!NoWorker.state = "Absent"
    BY DEF S!NoWorker
  <2> QED
    BY <2>1, <2>2
<1>8. \A t \in Task : Offered(t) = {}
  BY <1>1, <1>6 DEF Offered
<1>9. Together
  <2>1. \A i \in Id : CommandRight(i)
    BY <1>6 DEF CommandRight
  <2>2. \A w \in Worker : LinkRight(w) /\ RecordRight(workers[w]) /\ OffersLinked(w)
    BY <1>7 DEF LinkRight, RecordRight, OffersLinked
  <2>3. \A t \in Task : TaskRight(t)
    BY <1>1, <1>8 DEF TaskRight
  <2> QED
    BY <2>1, <2>2, <2>3 DEF Together
<1>10. Owned
  BY <1>6 DEF Owned, Unsent
<1>11. lock \in Lock /\ HeldLock(lock)
  BY <1>1 DEF Free, Lock, Step, HeldLock
<1>12. Stores
  BY <1>1, <1>3, <1>5 DEF Stores, S!Init
<1>13. Ghosts
  <2>1. MaxFaults \in Nat
    BY LaunchConstantsOK DEF LaunchConstantsOK
  <2>2. faults \in 0 .. MaxFaults
    BY <1>1, <2>1
  <2> QED
    BY <1>1, <1>11, <2>2 DEF Ghosts
<1> QED
  BY <1>9, <1>10, <1>11, <1>12, <1>13 DEF LaunchInv

LEMMA NothingKeeps ==
  ASSUME LaunchInv, UNCHANGED vars PROVE LaunchInv'
<1>1. UNCHANGED workerVars /\ UNCHANGED commandVars
      /\ UNCHANGED <<lock, sends, faults, halfCleared>>
  BY DEF vars, history
<1>2. QP!IInv' /\ QP!Settles({})
  <2>1. QP!IInv' /\ \A i : QP!Calm(i)
    BY <1>1, CommandsStay DEF LaunchInv, Stores, QP!Calm, commandVars
  <2> QED
    BY <1>1, <2>1 DEF QP!Settles, commandVars
<1>3. SP!StoreInv' /\ SP!Inherits /\ \A w \in Worker : RecordRight(workers[w])'
  BY <1>1, WorkersStay DEF LaunchInv, Stores
<1>4. \A w \in Worker : Aged(w)
  BY <1>1 DEF Aged, workerVars
<1> QED
  BY <1>1, <1>2, <1>3, <1>4, AgedKeeps DEF workerVars

LEMMA LaunchStep == LaunchInv /\ [Next]_vars => LaunchInv'
<1> SUFFICES ASSUME LaunchInv, [Next]_vars PROVE LaunchInv'
  OBVIOUS
<1>1. ASSUME NEW w \in Worker, RecoverWorker(w) PROVE LaunchInv'
  BY <1>1, RecoverWorkerKeeps
<1>2. ASSUME NEW i \in Id, RecoverOrphan(i) PROVE LaunchInv'
  BY <1>2, RecoverOrphanKeeps
<1>3. ASSUME NEW op \in Op, Spawn(op) PROVE LaunchInv'
  BY <1>3, SpawnKeeps
<1>4. ASSUME NEW op \in Op, NEW w \in Worker, Reuse(w, op) PROVE LaunchInv'
  BY <1>4, ReuseKeeps
<1>5. CASE Enqueue \/ Link \/ Activate \/ Cancel \/ Rollback
  BY <1>5, EnqueueKeeps, LinkKeeps, ActivateKeeps, CancelKeeps, RollbackKeeps
<1>6. ASSUME NEW w \in Worker, Retire(w) PROVE LaunchInv'
  BY <1>6, RetireKeeps
<1>7. CASE RetireWorker
  BY <1>7, RetireWorkerKeeps
<1>8. ASSUME NEW i \in Id, Mirror(i) PROVE LaunchInv'
  BY <1>8, MirrorKeeps
<1>9. ASSUME NEW client \in Client, NEW e, Redeem(client, e) PROVE LaunchInv'
  BY <1>9, RedeemKeeps
<1>10. ASSUME NEW client \in Client, NEW i \in Id, NEW l \in 1 .. MaxLease,
              MarkSendStarted(i, l, client) \/ Acknowledge(i, l, client)
       PROVE  LaunchInv'
  BY <1>10, MarkKeeps, AcknowledgeKeeps
<1>11. ASSUME NEW client \in Client, Revoke(client) PROVE LaunchInv'
  BY <1>11, RevokeKeeps
<1>12. ASSUME NEW w \in Worker,
              RegisterClaim(w) \/ (\E h \in Chat : Claim(w, h)) \/ Start(w) \/ Finish(w)
       PROVE  LaunchInv'
  BY <1>12, RegisterClaimKeeps, ClaimKeeps, StartKeeps, FinishKeeps
<1>13. CASE Confirm \/ Time
  BY <1>13, ConfirmKeeps, TimeKeeps
<1>14. CASE ClearWorkers \/ ClearCommands \/ Crash
  BY <1>14, ClearWorkersKeeps, ClearCommandsKeeps, CrashKeeps
<1>15. CASE UNCHANGED vars
  BY <1>15, NothingKeeps
<1> QED
  BY <1>1, <1>2, <1>3, <1>4, <1>5, <1>6, <1>7, <1>8, <1>9, <1>10, <1>11, <1>12, <1>13, <1>14, <1>15
  DEF Next

\* Whatever is interleaved, crashes and is recovered, the two stores, the
\* ghosts and the handler at work fit together.
THEOREM LaunchInvariant == Spec => []LaunchInv
<1> QED
  BY LaunchInit, LaunchStep, PTL DEF Spec

LEMMA InvIsTyped == LaunchInv => TypeOK
BY WorkerTypes, CommandTypes DEF LaunchInv, Stores, Ghosts, TypeOK

LEMMA InvSendsOnce == LaunchInv => OneSendPerTask
<1> SUFFICES ASSUME LaunchInv, NEW t \in Task PROVE Cardinality(sends[t]) <= 1
  BY DEF OneSendPerTask
<1>1. \A i, j \in sends[t] : i = j
  BY DEF LaunchInv, Together, TaskRight, Offered
<1>2. CASE sends[t] = {}
  BY <1>2, FS_EmptySet
<1>3. ASSUME NEW i \in sends[t] PROVE Cardinality(sends[t]) <= 1
  <2>1. sends[t] = {i}
    BY <1>1, <1>3
  <2> QED
    BY <2>1, FS_Singleton
<1> QED
  BY <1>2, <1>3

\* Whatever is replayed, recovered, compacted or rolled back, at most one
\* command per task is ever told to press Send.
THEOREM SendsOnce == Spec => []OneSendPerTask
<1> QED
  BY LaunchInvariant, InvSendsOnce, PTL

LEMMA InvMirrorLags == LaunchInv => MirrorNeverLeads
BY DEF LaunchInv, Together, RecordRight, MirrorNeverLeads, Pending

\* An unclaimed worker only counts as sent when its assignment may have been.
THEOREM MirrorLags == Spec => []MirrorNeverLeads
<1> QED
  BY LaunchInvariant, InvMirrorLags, PTL

LEMMA InvRefuses == LaunchInv => RefusalIsHarmless
<1> SUFFICES ASSUME LaunchInv, NEW w \in Worker, RecoveryRefuses(w)
             PROVE  /\ workers[w].command # None
                    /\ commands[workers[w].command[2] - 1].state = "Absent"
                    /\ Held(Found(w)) /\ commands[Found(w)].state = "Queued"
  BY DEF RefusalIsHarmless
<1>1. Pending(w) /\ RecordRight(workers[w]) /\ LinkRight(w) /\ OffersLinked(w)
      /\ QP!IInv /\ SP!StoreInv
  BY DEF RecoveryRefuses, LaunchInv, Together, Stores
<1>2. CASE Found(w) # NoId /\ workers[w].command # None /\ ~Linked(w, Found(w))
  <2>1. PICK m \in S!Command, j \in Id : m = workers[w].command /\ j = m[2] - 1
    BY <1>1, <1>2, WorkerFacts, LinkFacts
  <2>2. m[2] = j + 1
    BY <2>1, LinkFacts
  <2>3. ~Present(j)
    <3> SUFFICES ASSUME Present(j) PROVE FALSE
      OBVIOUS
    <3>1. w \in LinkedTo(j)
      BY <1>2, <2>1, <2>2 DEF LinkedTo
    <3>2. Linked(w, j) /\ Found(w) = j
      BY <1>1, <3>1, LinkedCommand DEF Pending, Found
    <3> QED
      BY <1>2, <3>2
  <2>4. PICK i \in Id : i = Found(w) /\ Present(i) /\ commands[i].key.task = workers[w].current
    BY <1>1, <1>2, FoundFacts
  <2>5. ~commands[i].ready
    BY <1>1, <1>2, <2>4 DEF OffersLinked, Offered, Pending
  <2>6. commands[i].state = "Queued"
    BY <1>1, <2>4, <2>5, CommandFacts
  <2> QED
    BY <1>2, <2>1, <2>3, <2>4, <2>5, <2>6 DEF Held, Present
<1>3. ~(Found(w) # NoId /\ Held(Found(w)) /\ commands[Found(w)].state # "Queued")
  BY <1>1, FoundFacts, CommandFacts DEF Held
<1>4. ~(workers[w].command = None
        /\ (workers[w].state = "Provisioning") # (workers[w].chat = None))
  BY <1>1, WorkerFacts DEF RecordRight, Pending
<1> QED
  BY <1>2, <1>3, <1>4 DEF RecoveryRefuses

\* Recovery refuses only for a launch whose own command is gone, and what it
\* found instead is a duplicate that no browser was, or will be, offered.
THEOREM RefusesHarmlessly == Spec => []RefusalIsHarmless
<1> QED
  BY LaunchInvariant, InvRefuses, PTL

-----------------------------------------------------------------------------
(* What was sent has its owner.                                            *)

\* Only mark_send_started tells a browser to press Send.
LEMMA OnlyMarkSends ==
  ASSUME [Next]_vars
  PROVE  \/ sends' = sends
         \/ \E i \in Id, l \in 1 .. MaxLease, client \in Client :
              MarkSendStarted(i, l, client) /\ Q!MarkSendStarted(i, l, client)
BY DEF Next, vars, history, Fault, RecoverWorker, RecoverOrphan, Spawn, Reuse, Enqueue, Link, Activate,
       Cancel, Rollback, Retire, RetireWorker, Mirror, Redeem, MarkSendStarted, Acknowledge, Revoke,
       RegisterClaim, Claim, Start, Confirm, Finish, Time, ClearWorkers, ClearCommands, Crash

LEMMA OwnedStep ==
  ASSUME LaunchInv, [Next]_vars, NEW t \in Task, NEW i \in sends'[t] \ sends[t], ~halfCleared
  PROVE  \E w \in Worker : /\ Pending(w) /\ workers[w].current = t
                           /\ tasks[t].state = "Pending" /\ Linked(w, i)
<1>1. PICK j \in Id, l \in 1 .. MaxLease, client \in Client :
        MarkSendStarted(j, l, client) /\ Q!MarkSendStarted(j, l, client)
  BY OnlyMarkSends
<1>2. /\ lock = Free /\ QP!MarkSendStarted(j, l, client) /\ QP!IInv /\ SP!StoreInv
      /\ j \in QP!Id /\ l \in QP!LeaseId
  BY <1>1, Marks, Names DEF MarkSendStarted, LaunchInv, Stores
<1>3. commands[j].state = "Leased" /\ commands[j].ready /\ ~commands[j].history
  BY <1>2, QP!MarkTells, QAssumed
<1>4. Unsent(j) /\ Owner(j) /\ Present(j)
  BY <1>2, <1>3 DEF Unsent, Present, LaunchInv, Owned, Free
<1>5. PICK k \in LaunchKey : k = commands[j].key
  BY <1>2, <1>4, CommandFacts
<1>6. sends \in [Task -> SUBSET Id]
  BY DEF LaunchInv, Ghosts
<1>7. i = j /\ t = k.task
  <2>1. sends' = [sends EXCEPT ![k.task] = @ \cup {j}]
    BY <1>1, <1>5, <1>3 DEF MarkSendStarted
  <2>2. \A u \in Task : sends'[u] = IF u = k.task THEN sends[u] \cup {j} ELSE sends[u]
    BY <1>6, <2>1
  <2> QED
    BY <2>2
<1>8. k.worker \in Worker /\ Pending(k.worker) /\ workers[k.worker].current = t /\ Linked(k.worker, i)
  BY <1>4, <1>5, <1>7, KeyFacts DEF Owner
<1>9. tasks[t].state = "Pending"
  BY <1>2, <1>8, WorkerFacts DEF Pending
<1> QED
  BY <1>8, <1>9

\* A task that was sent is not undone.
Kept == \A t \in Task : sends[t] # {} /\ tasks[t].state # "Absent" => tasks'[t].state # "Absent"

LEMMA TasksKept ==
  \/ UNCHANGED workerVars
  \/ tasks' = tasks
  \/ \A t \in Task : tasks'[t].state = "Absent" <=> tasks[t].state = "Absent"
  \/ \E w \in Worker : Ends(w) \/ Begins(w)
  => Kept
BY DEF Kept, workerVars, Ends, Begins

LEMMA UndoneWasUnsent ==
  ASSUME NEW w \in Worker, Undoes(w), Offered(workers[w].current) = {} PROVE Kept
BY DEF Kept, Undoes, Offered

LEMMA RecoverWorkerKept ==
  ASSUME LaunchInv, NEW w \in Worker, RecoverWorker(w) PROVE Kept
<1>1. Pending(w) /\ SP!StoreInv /\ sends \in [Task -> SUBSET Id] /\ Together
  BY DEF RecoverWorker, LaunchInv, Stores, Ghosts
<1>2. ASSUME NEW launch, S!LinkLaunchCommand(w, launch) PROVE Kept
  BY <1>2, TasksKept DEF S!LinkLaunchCommand, S!SetWorker
<1>3. CASE S!RollbackUnlinkedSpawn(w) \/ S!RollbackUnlinkedReuse(w)
  <2>1. workers[w].command = None /\ (S!ForgetSpawn(w) \/ S!ForgetReuse(w))
    BY <1>3 DEF S!RollbackUnlinkedSpawn, S!RollbackUnlinkedReuse
  <2>2. Undoes(w)
    BY <1>1, <2>1, ForgetUndoes
  <2>3. Offered(workers[w].current) = {}
    BY <1>1, <2>1, UnlinkedOffersNothing DEF Pending
  <2> QED
    BY <2>2, <2>3, UndoneWasUnsent
<1>4. CASE S!UpdateLaunchByCommand(w, "Paused", FALSE)
  BY <1>4, TasksKept DEF S!UpdateLaunchByCommand, S!SetWorker
<1>5. CASE UNCHANGED workerVars
  BY <1>5, TasksKept
<1> QED
  BY <1>2, <1>3, <1>4, <1>5 DEF RecoverWorker

LEMMA RollbackKept ==
  ASSUME LaunchInv, Rollback PROVE Kept
<1>1. PICK k, m : k = lock.key
        /\ m = IF lock.step = "rollbackLinked" THEN <<lock.key.task, lock.id + 1>> ELSE None
  OBVIOUS
<1>2. CASE /\ CanRollback(k, m)
           /\ S!ForgetReuse(k.worker) \/ S!ForgetSpawn(k.worker)
  <2>1. PICK w \in Worker : w = k.worker /\ Offered(workers[w].current) = {}
    BY <1>1, <1>2, UndoneIsUnoffered DEF Rollback
  <2>2. Undoes(w)
    BY <1>2, <2>1, ForgetUndoes DEF LaunchInv, Stores
  <2> QED
    BY <2>1, <2>2, UndoneWasUnsent
<1>3. CASE UNCHANGED workerVars
  BY <1>3, TasksKept
<1> QED
  BY <1>1, <1>2, <1>3 DEF Rollback

LEMMA KeptStep ==
  ASSUME LaunchInv, [Next]_vars, lock'.step # "clear" PROVE Kept
<1> USE TasksKept
<1>1. SP!StoreInv /\ batches = <<>> /\ families \subseteq {TheCore}
  BY DEF LaunchInv, Stores
<1>2. ASSUME NEW w \in Worker, RecoverWorker(w) PROVE Kept
  BY <1>2, RecoverWorkerKept
<1>3. ASSUME NEW i \in Id, RecoverOrphan(i) PROVE Kept
  BY <1>3 DEF RecoverOrphan, workerVars
<1>4. ASSUME NEW op \in Op, Spawn(op) PROVE Kept
  BY <1>1, <1>4, SpawnBegins DEF Spawn, Begins
<1>5. ASSUME NEW op \in Op, NEW w \in Worker, Reuse(w, op) PROVE Kept
  BY <1>1, <1>5, ReuseBegins DEF Reuse
<1>6. CASE Enqueue \/ Activate \/ Cancel
  BY <1>6 DEF Enqueue, Activate, Cancel
<1>7. CASE Link
  BY <1>7 DEF Link, S!LinkLaunchCommand, S!SetWorker
<1>8. CASE Rollback
  BY <1>8, RollbackKept
<1>9. ASSUME NEW w \in Worker, Retire(w) PROVE Kept
  BY <1>9 DEF Retire, S!RetireIdle, S!SetWorker
<1>10. CASE RetireWorker
  <2>1. lock.key.worker \in Worker
    BY <1>10, KeyFacts DEF RetireWorker, LaunchInv, HeldLock, KnownKey
  <2> QED
    BY <1>1, <1>10, <2>1, CancelEnds, RetireEnds DEF RetireWorker
<1>11. ASSUME NEW i \in Id, Mirror(i) PROVE Kept
  BY <1>1, <1>11, SettleEnds DEF Mirror, LinkedTo, S!UpdateLaunchByCommand, S!SetWorker
<1>12. ASSUME NEW client \in Client, NEW e, Redeem(client, e) PROVE Kept
  BY <1>12 DEF Redeem
<1>13. ASSUME NEW client \in Client, NEW i \in Id, NEW l \in 1 .. MaxLease,
              MarkSendStarted(i, l, client) \/ Acknowledge(i, l, client)
       PROVE  Kept
  BY <1>13 DEF MarkSendStarted, Acknowledge
<1>14. ASSUME NEW client \in Client, Revoke(client) PROVE Kept
  BY <1>14 DEF Revoke
<1>15. ASSUME NEW w \in Worker, RegisterClaim(w) PROVE Kept
  BY <1>15 DEF RegisterClaim, S!UpdateLaunchByCommand, S!SetWorker
<1>16. ASSUME NEW w \in Worker, NEW h \in Chat, Claim(w, h) PROVE Kept
  BY <1>1, <1>16, ClaimMoves DEF Claim
<1>17. ASSUME NEW w \in Worker, Start(w) \/ Finish(w) PROVE Kept
  BY <1>1, <1>17, StartMoves, FinishMoves DEF Start, Finish
<1>18. CASE Confirm \/ ClearCommands \/ Crash
  BY <1>18 DEF Confirm, ClearCommands, Crash
<1>19. CASE Time
  BY <1>1, <1>19, ExpiryMoves DEF Time, S!GraceEnds, S!SetWorker
<1>20. CASE ClearWorkers
  BY <1>20 DEF ClearWorkers, At
<1>21. CASE UNCHANGED vars
  BY <1>21 DEF vars
<1> QED
  BY <1>2, <1>3, <1>4, <1>5, <1>6, <1>7, <1>8, <1>9, <1>10, <1>11, <1>12, <1>13, <1>14, <1>15, <1>16,
     <1>17, <1>18, <1>19, <1>20, <1>21 DEF Next

\* A browser is told to press Send only for a task its worker waits to start,
\* unless a Clear Workers was caught between its two stores; and no rollback,
\* recovery or expiry takes away a task that may have been sent as if it had
\* not been asked for: only the step of Clear Workers itself does.
THEOREM SentKeepsOwner == Spec => SentHasItsOwner
<1>1. LaunchInv /\ [Next]_vars =>
        [\A t \in Task : \A i \in sends'[t] \ sends[t] :
           \/ halfCleared
           \/ \E w \in Worker : /\ Pending(w) /\ workers[w].current = t
                                /\ tasks[t].state = "Pending"
                                /\ Linked(w, i)]_vars
  BY OwnedStep
<1>2. LaunchInv /\ [Next]_vars =>
        [\A t \in Task : sends[t] # {} /\ tasks[t].state # "Absent" =>
           tasks'[t].state # "Absent" \/ lock'.step = "clear"]_vars
  BY KeptStep DEF Kept
<1> QED
  BY <1>1, <1>2, LaunchInvariant, PTL DEF Spec, SentHasItsOwner, SendIsOwned, SentIsKept

=============================================================================
