---------------------------- MODULE WorkerLaunch ----------------------------
(***************************************************************************)
(* The launch transactions that span both durable stores                   *)
(* (workers/protocol.rs, server.rs, mcp.rs): a spawn or a reuse creates a   *)
(* task in the Worker store, enqueues a held command in the command store, *)
(* links the two and only then releases the command to the browsers.  Each *)
(* of these is a commit of its own, so the host may stop, or a commit may  *)
(* fail, between any two of them.  Every handler here runs under           *)
(* WORKER_LIFECYCLE_LOCK; what a handler has yet to do is in `lock'.  The   *)
(* claim deadline and lease expiry do not wait for it.                     *)
(*                                                                         *)
(* One Core, one workspace, every conversation seen under one identity.  A *)
(* Worker's conversation is named like the Worker.  Commands are linked as *)
(* <<task, sequence number + 1>>.                                          *)
(***************************************************************************)
EXTENDS Integers, FiniteSets, Sequences

CONSTANTS
  Core,         \* the Core conversation, in a set
  Chat,         \* the Core's and the Workers' conversations
  Client,       \* paired browsers
  Op,           \* operation ids
  None,
  NumWorkers, NumTasks, MaxSeq, MaxLease, \* what is ever created
  MaxCommands, MaxHistory, MaxAffinity,   \* limits of the command store
  MaxFaults     \* crashes and failed commits (model checking only)

VARIABLES
  families, workers, tasks, reports, receipts, fences, plan, made, batches,
  commands, dedupe, nextSequence, issued, grants,
  lock,         \* what the holder of WORKER_LIFECYCLE_LOCK does next
  sends,        \* history: commands of each task that were told to press Send
  faults,       \* crashes and failed commits so far
  halfCleared   \* a Clear Workers was cut short and not retried

workerVars == <<families, workers, tasks, reports, receipts, fences, plan,
                made, batches>>
commandVars == <<commands, dedupe, nextSequence, issued, grants>>
history == <<sends, faults, halfCleared>>
vars == <<workerVars, commandVars, lock, history>>

Worker == 1 .. NumWorkers
Task == 1 .. NumTasks
LaunchKey == [worker : Worker, task : Task, reuse : BOOLEAN]
TheCore == CHOOSE c \in Core : TRUE

S == INSTANCE WorkerBroker WITH
       Session <- Chat, SessionOf <- [h \in Chat |-> h],
       Subject <- {}, SubjectOf <- [h \in Chat |-> None],
       NumMessages <- 0, NumReports <- 0, NumBatches <- 0, NumGuards <- 0,
       NumPlans <- 0, Mirrored <- {}, CommandsPerTask <- MaxSeq,
       MaxFamilies <- 1, MaxRecords <- NumWorkers, MaxActive <- NumWorkers,
       MaxInbox <- 0, MaxQueued <- 0, MaxUpdates <- 0,
       MaxReceipts <- NumTasks, MaxCollects <- 1, KeptTasks <- NumTasks,
       MaxTasks <- NumTasks

Q == INSTANCE ManagedChat WITH
       Key <- LaunchKey, Conv <- Worker, NoConv <- 0, NoClient <- None,
       NoKey <- None,
       ThreadOf <- [k \in LaunchKey |-> k.worker],
       BoundConv <- [k \in LaunchKey |-> IF k.reuse THEN k.worker ELSE 0],
       AnchorOf <- [k \in LaunchKey |-> TheCore],
       WorkspaceOf <- [k \in LaunchKey |-> TheCore]

\* The bounds are numbers, there is one Core, and None is nothing else.
ASSUME LaunchConstantsOK ==
  /\ {NumWorkers, NumTasks, MaxSeq, MaxLease, MaxCommands, MaxHistory,
      MaxAffinity, MaxFaults} \subseteq Nat
  /\ Core = {TheCore} /\ Core \subseteq Chat
  /\ None \notin Chat \cup Client \cup Nat
  /\ None \notin LaunchKey \cup S!Command

Id == Q!Id
NoId == Q!NoId

Step == {"free", "enqueue", "link", "activate", "cancelUnlinked",
         "cancelLinked", "rollbackUnlinked", "rollbackLinked", "retireSent",
         "retireUnsent", "sync", "confirm", "clear"}

Lock == [step : Step, key : LaunchKey \cup {None}, id : Id \cup {NoId},
         todo : SUBSET Id]

Free == [step |-> "free", key |-> None, id |-> NoId, todo |-> {}]
At(step, k, i) == [step |-> step, key |-> k, id |-> i, todo |-> {}]
Sync(S0) == IF S0 = {} THEN Free ELSE [Free EXCEPT !.step = "sync", !.todo = S0]

Init ==
  /\ S!Init
  /\ Q!Init
  /\ lock = Free
  /\ sends = [t \in Task |-> {}]
  /\ faults = 0
  /\ halfCleared = FALSE

\* A crash, or a commit that fails.
Fault == faults < MaxFaults /\ faults' = faults + 1 /\ UNCHANGED <<sends, halfCleared>>

-----------------------------------------------------------------------------
(* Both stores together.                                                   *)

\* A launch that is not over: recovery looks after these.
Pending(w) ==
  workers[w].state \in {"Provisioning", "Waking"} /\ workers[w].current # None

\* "worker:W:task:T", and whether the task came from reuse.
KeyOf(w, t) ==
  [worker |-> w, task |-> t,
   reuse |-> \E r \in receipts : r.kind = "reuse" /\ r.id = t]

\* The command indexed for the launch w waits for, or NoId.
Found(w) == dedupe[KeyOf(w, workers[w].current)]

\* What the command store knows of launch k.
CommandOf(k) == IF dedupe[k] = NoId THEN Q!NoCommand ELSE commands[dedupe[k]]

Linked(w, i) == workers[w].command = <<workers[w].current, i + 1>>
LinkedTo(i) ==
  {w \in Worker : workers[w].command # None /\ workers[w].command[2] = i + 1}

Held(i) == commands[i].state # "Absent" /\ ~commands[i].ready

-----------------------------------------------------------------------------
(* recover_incomplete_launch_transactions, at start-up and before every    *)
(* spawn, reuse and retire.  It may stop at any step, so it is its steps.  *)

\* "recovery found conflicting command links", and the other errors that end
\* every later spawn, reuse and retire of the workspace.
RecoveryRefuses(w) ==
  /\ Pending(w)
  /\ \/ /\ Found(w) # NoId
        /\ \/ workers[w].command # None /\ ~Linked(w, Found(w))
           \/ Held(Found(w)) /\ commands[Found(w)].state # "Queued"
     \/ /\ Found(w) = NoId /\ workers[w].command = None
        /\ (workers[w].state = "Provisioning") # (workers[w].chat = None)

\* The worker of a linked command that is missing needs no attention.
MissingIsSafe(w) ==
  \/ workers[w].launch \in {"WaitingClaim", "Paused", "Claimed"}
  \/ workers[w].url

\* Nothing is left for recovery to repair, and nothing stops it.
Recovered ==
  /\ \A w \in Worker : ~RecoveryRefuses(w)
  /\ \A w \in Worker : Pending(w) =>
       IF Found(w) # NoId THEN Linked(w, Found(w)) /\ ~Held(Found(w))
       ELSE workers[w].command # None /\ MissingIsSafe(w)
  /\ \A i \in Id : Held(i) => LinkedTo(i) # {}

RecoverWorker(w) ==
  /\ lock = Free
  /\ Pending(w)
  /\ \/ /\ Found(w) # NoId
        /\ S!LinkLaunchCommand(w, <<workers[w].current, Found(w) + 1>>)
        /\ UNCHANGED commandVars
     \/ /\ Found(w) # NoId /\ Linked(w, Found(w))
        /\ Q!ActivateDispatch(Found(w))
        /\ UNCHANGED workerVars
     \/ /\ Found(w) = NoId
        /\ S!RollbackUnlinkedSpawn(w) \/ S!RollbackUnlinkedReuse(w)
        /\ UNCHANGED commandVars
     \/ /\ Found(w) = NoId /\ workers[w].command # None /\ ~MissingIsSafe(w)
        /\ S!UpdateLaunchByCommand(w, "Paused", FALSE)
        /\ UNCHANGED commandVars
  /\ UNCHANGED <<lock, history>>

RecoverOrphan(i) ==
  /\ lock = Free
  /\ Held(i) /\ LinkedTo(i) = {}
  /\ Q!CancelPreSend(commands[i].key)
  /\ UNCHANGED <<workerVars, lock, history>>

-----------------------------------------------------------------------------
(* The spawn and reuse transactions.                                       *)

\* A retry is answered from its receipt and walks through the same steps.
Replayed(kind, op) ==
  {r \in receipts : r.kind = kind /\ r.op = op /\ tasks[r.id].worker # None}

Spawn(op) ==
  /\ lock = Free /\ Recovered
  /\ \/ /\ S!SpawnWorker(TheCore, op)
        /\ lock' = At("enqueue", [worker |-> made'.worker, task |-> made'.task,
                                  reuse |-> FALSE], NoId)
     \/ \E r \in Replayed("spawn", op) :
          /\ lock' = At("enqueue", KeyOf(tasks[r.id].worker, r.id), NoId)
          /\ UNCHANGED workerVars
  /\ UNCHANGED <<commandVars, history>>

Reuse(w, op) ==
  /\ lock = Free /\ Recovered
  /\ \/ /\ S!ReuseWorker(w, op)
        /\ lock' = At("enqueue", [worker |-> w, task |-> made'.task,
                                  reuse |-> TRUE], NoId)
     \/ \E r \in Replayed("reuse", op) :
          /\ tasks[r.id].worker = w /\ workers[w].url
          /\ lock' = At("enqueue", KeyOf(w, r.id), NoId)
          /\ UNCHANGED workerVars
  /\ UNCHANGED <<commandVars, history>>

\* A browserless spawn names no browser, a reuse always names one.
Requested(k) == IF k.reuse THEN Client ELSE Client \cup {None}

Enqueue ==
  LET k == lock.key IN
  /\ lock.step = "enqueue"
  /\ UNCHANGED workerVars
  /\ \/ /\ dedupe[k] # NoId
        /\ lock' = At("link", k, dedupe[k])
        /\ UNCHANGED <<commandVars, history>>
     \/ /\ \E r \in Requested(k) : Q!EnqueueHeld(k, r)
        /\ lock' = At("link", k, nextSequence)
        /\ UNCHANGED history
     \/ /\ dedupe[k] = NoId
        /\ \/ Fault
           \/ /\ ~Q!HasRoom(Q!Without(commands, Q!CompactedAway(commands)))
              /\ UNCHANGED history
        /\ lock' = At("rollbackUnlinked", k, NoId)
        /\ UNCHANGED commandVars

Link ==
  LET k == lock.key
      m == <<k.task, lock.id + 1>>
  IN  /\ lock.step = "link"
      /\ UNCHANGED commandVars
      /\ \/ /\ S!LinkLaunchCommand(k.worker, m)
            /\ lock' = At("activate", k, lock.id)
            /\ UNCHANGED history
         \/ /\ workers[k.worker].current = k.task
            /\ workers[k.worker].command = m
            /\ lock' = At("activate", k, lock.id)
            /\ UNCHANGED <<workerVars, history>>
         \/ /\ \/ /\ \/ workers[k.worker].current # k.task
                     \/ workers[k.worker].command \notin {None, m}
                  /\ UNCHANGED history
               \/ workers[k.worker].command = None /\ Fault
            /\ lock' = At("cancelUnlinked", k, lock.id)
            /\ UNCHANGED workerVars

Activate ==
  /\ lock.step = "activate"
  /\ UNCHANGED workerVars
  /\ \/ /\ Q!ActivateDispatch(lock.id)
        /\ lock' = Free
        /\ UNCHANGED history
     \/ /\ commands[lock.id].ready
        /\ lock' = Free
        /\ UNCHANGED <<commandVars, history>>
     \/ /\ Held(lock.id) /\ Fault
        /\ lock' = At("cancelLinked", lock.key, lock.id)
        /\ UNCHANGED commandVars

Cancellable(k) == Q!CancellablePreSend(CommandOf(k))

\* The cleanup of a failed step; its own errors are only reported.
Cancel ==
  /\ lock.step \in {"cancelUnlinked", "cancelLinked"}
  /\ lock' = [lock EXCEPT !.step =
       IF @ = "cancelLinked" THEN "rollbackLinked" ELSE "rollbackUnlinked"]
  /\ UNCHANGED workerVars
  /\ \/ Q!CancelPreSend(lock.key) /\ UNCHANGED history
     \/ ~Cancellable(lock.key) /\ UNCHANGED <<commandVars, history>>
     \/ Cancellable(lock.key) /\ Fault /\ UNCHANGED commandVars

\* Faulty CanRollback: does not compare the command link.
RollbackAnyLink(k, m) ==
  LET w == k.worker IN
  /\ workers[w].current = k.task
  /\ S!HasPending(w, {IF k.reuse THEN "Waking" ELSE "Provisioning"})
  /\ (workers[w].chat # None) = k.reuse

\* What the rollback of launch k would undo is still there.
CanRollback(k, m) ==
  LET w == k.worker IN
  /\ workers[w].current = k.task
  /\ workers[w].command = m
  /\ m # None => S!NotSent(w)
  /\ S!HasPending(w, {IF k.reuse THEN "Waking" ELSE "Provisioning"})
  /\ (workers[w].chat # None) = k.reuse

Rollback ==
  LET k == lock.key
      m == IF lock.step = "rollbackLinked" THEN <<k.task, lock.id + 1>> ELSE None
  IN  /\ lock.step \in {"rollbackUnlinked", "rollbackLinked"}
      /\ lock' = Free
      /\ UNCHANGED commandVars
      /\ IF CanRollback(k, m)
         THEN \/ /\ IF k.reuse THEN S!ForgetReuse(k.worker)
                               ELSE S!ForgetSpawn(k.worker)
                 /\ UNCHANGED history
              \/ Fault /\ UNCHANGED workerVars
         ELSE UNCHANGED <<workerVars, history>>

-----------------------------------------------------------------------------
(* Retirement.                                                             *)

\* Launch states of an unclaimed worker that may have been sent.
MaybeSent(w) ==
  /\ workers[w].state = "Provisioning" /\ workers[w].chat = None
  /\ workers[w].launch \in {"SendStarted", "Reconciling", "WaitingClaim",
                            "Paused"}

\* The fence and the settlement accept these commands as they are.
AlreadyFenced(k) ==
  \/ CommandOf(k).state \in {"Absent", "Paused"}
  \/ CommandOf(k).state = "Failed" /\ CommandOf(k).history

Retire(w) ==
  LET k == KeyOf(w, workers[w].current) IN
  /\ lock = Free /\ Recovered
  /\ UNCHANGED history
  /\ \/ /\ Pending(w) /\ MaybeSent(w)
        /\ \/ Q!FenceUnclaimedAfterSend(k)
           \/ /\ AlreadyFenced(k) \/ CommandOf(k).state = "Succeeded"
              /\ UNCHANGED commandVars
        /\ lock' = At("retireSent", k, NoId)
        /\ UNCHANGED workerVars
     \/ /\ Pending(w) /\ ~MaybeSent(w)
        /\ \/ Q!SettleForWorkerRetire(k)
           \/ AlreadyFenced(k) /\ UNCHANGED commandVars
        /\ lock' = At("retireUnsent", k, NoId)
        /\ UNCHANGED workerVars
     \/ /\ S!RetireIdle(w)
        /\ UNCHANGED <<commandVars, lock>>

\* The second commit; the claim deadline may have got there first.
RetireWorker ==
  LET w == lock.key.worker IN
  /\ lock.step \in {"retireSent", "retireUnsent"}
  /\ lock' = Free
  /\ UNCHANGED <<commandVars, history>>
  /\ IF S!HasPending(w, {"Provisioning", "Waking"})
     THEN IF lock.step = "retireSent" THEN S!CancelUnclaimedAfterSend(w)
                                      ELSE S!RetirePending(w)
     ELSE UNCHANGED workerVars

-----------------------------------------------------------------------------
(* The browsers, and the mirror of what they report.                       *)

\* Faulty MirrorOf: mirrors the command state as it is.
RawState(c) == c.state

\* Faulty MirrorOf: a lease is always a first attempt.
LeaseIsPreparing(c) ==
  CASE c.state = "Leased" -> "Preparing"
    [] c.state = "NeedsReconcile" -> "Reconciling"
    [] c.state = "Succeeded" -> "WaitingClaim"
    [] OTHER -> c.state

\* Faulty MirrorOf: a browser that was handed the launch counts as sent.
LeaseIsSent(c) ==
  CASE c.state = "Leased" -> "SendStarted"
    [] c.state = "NeedsReconcile" -> "Reconciling"
    [] c.state = "Succeeded" -> "WaitingClaim"
    [] OTHER -> c.state

MirrorOf(c) ==
  CASE c.state = "Leased" -> IF c.history THEN "Reconciling" ELSE "Preparing"
    [] c.state = "NeedsReconcile" -> "Reconciling"
    [] c.state = "Succeeded" -> "WaitingClaim"
    [] OTHER -> c.state

ProvenUnsent(c) == c.state = "Failed" /\ ~c.history

CanSettle(w) ==
  /\ workers[w].launch # "Claimed"
  /\ \/ S!HasPending(w, {"Provisioning"}) /\ workers[w].chat = None
     \/ S!HasPending(w, {"Waking"}) /\ workers[w].chat # None

\* sync_worker_launch_from_command for command i
Mirror(i) ==
  LET c == commands[i] IN
  /\ i \in lock.todo
  /\ lock' = Sync(lock.todo \ {i})
  /\ UNCHANGED <<commandVars, history>>
  /\ \/ /\ LinkedTo(i) = {} /\ UNCHANGED workerVars
     \/ \E w \in LinkedTo(i) :
          IF ProvenUnsent(c)
          THEN IF CanSettle(w) THEN S!SettlePreSendFailure(w)
                               ELSE UNCHANGED workerVars
          ELSE IF workers[w].launch # "Claimed"
               THEN S!UpdateLaunchByCommand(w, MirrorOf(c), c.conv # 0)
               ELSE UNCHANGED workerVars

Redeem(client, eligible) ==
  /\ lock = Free
  /\ Q!Redeem(client, eligible)
  /\ lock' = Sync({i \in Id : issued' # issued /\ commands'[i].lease = issued'})
  /\ UNCHANGED <<workerVars, history>>

\* A repeat for the same lease is answered, and mirrored, again.
MarkSendStarted(i, l, client) ==
  /\ lock = Free
  /\ \/ /\ Q!MarkSendStarted(i, l, client)
        /\ sends' = [sends EXCEPT ![commands[i].key.task] = @ \cup {i}]
     \/ /\ commands[i].state = "SendStarted" /\ Q!HoldsLease(i, l, client)
        /\ UNCHANGED <<commandVars, sends>>
  /\ lock' = Sync({i})
  /\ UNCHANGED <<workerVars, faults, halfCleared>>

Acknowledge(i, l, client) ==
  /\ lock = Free
  /\ \/ Q!AckSucceeded(i, l, client, commands[i].key.worker)
     \/ Q!AckFailed(i, l, client)
     \/ Q!AckNeedsReconcile(i, l, client)
     \/ Q!AckPaused(i, l, client)
  /\ lock' = Sync({i})
  /\ UNCHANGED <<workerVars, history>>

\* revoke_companion_client, up to the credential; a retry mirrors all again.
Revoke(client) ==
  /\ lock = Free
  /\ \/ Q!SettleRevokedClient(client)
     \/ (\A i \in Id : commands[i].target # client) /\ UNCHANGED commandVars
  /\ lock' = Sync({i \in Id : commands[i].state # "Absent"})
  /\ lock' # lock
  /\ UNCHANGED <<workerVars, history>>

-----------------------------------------------------------------------------
(* The Worker's conversation, and time.                                    *)

\* workers claim, first half (mcp.rs): the claim call was seen in the browser
\* before the launch was acknowledged.  The command was read before the lock.
RegisterClaim(w) ==
  /\ lock = Free
  /\ workers[w].current # None /\ workers[w].chat = None /\ workers[w].token
  /\ workers[w].launch \in {"Unknown", "Queued", "Preparing", "SendStarted",
                            "Reconciling"}
  /\ \E i \in Id : Linked(w, i) /\ commands[i].history
  /\ S!UpdateLaunchByCommand(w, "WaitingClaim", TRUE)
  /\ UNCHANGED <<commandVars, lock, history>>

Claim(w, h) ==
  /\ lock = Free
  /\ S!ClaimWorkerAttested(w, h)
  /\ UNCHANGED <<commandVars, lock, history>>

\* workers start; a repeat only confirms again.  A conversation learns the
\* task id from the prompt, so it starts only what was sent to it.
Start(w) ==
  /\ lock = Free
  /\ workers[w].current # None
  /\ \/ sends[workers[w].current] # {} /\ S!StartTask(w)
     \/ S!AtWork(w) /\ UNCHANGED workerVars
  /\ lock' = At("confirm", KeyOf(w, workers[w].current), NoId)
  /\ UNCHANGED <<commandVars, history>>

Confirmable(k) ==
  Q!AmbiguousPostSend(CommandOf(k)) \/ CommandOf(k).state = "Paused"

\* Errors of the confirmation are ignored.
Confirm ==
  LET k == lock.key IN
  /\ lock.step = "confirm"
  /\ lock' = Free
  /\ UNCHANGED workerVars
  /\ \/ Q!ConfirmWorkerStarted(k, k.worker) /\ UNCHANGED history
     \/ ~Confirmable(k) /\ UNCHANGED <<commandVars, history>>
     \/ Confirmable(k) /\ Fault /\ UNCHANGED commandVars

Finish(w) ==
  /\ lock = Free
  /\ S!FinishTask(w)
  /\ UNCHANGED <<commandVars, lock, history>>

\* Neither waits for the lifecycle lock.
Time ==
  /\ \/ \E w \in Worker : S!GraceEnds(w) /\ UNCHANGED commandVars
     \/ S!ExpireWaitingClaims(Core) /\ UNCHANGED commandVars
     \/ \E i \in Id : Q!LeaseExpires(i) /\ UNCHANGED workerVars
  /\ UNCHANGED <<lock, history>>

-----------------------------------------------------------------------------
(* Clear Workers, and what goes wrong.                                     *)

ClearWorkers ==
  /\ lock = Free
  /\ \/ S!ClearAllWorkers
     \/ families = {} /\ Q!InStore(commands) # {} /\ UNCHANGED workerVars
  /\ lock' = At("clear", None, NoId)
  /\ UNCHANGED <<commandVars, history>>

ClearCommands ==
  /\ lock.step = "clear"
  /\ \/ Q!ClearAllWorkerCommands
     \/ Q!InStore(commands) = {} /\ UNCHANGED commandVars
  /\ lock' = Free
  /\ halfCleared' = FALSE
  /\ UNCHANGED <<workerVars, sends, faults>>

\* The host stops, or a commit fails where the handler then returns.
Crash ==
  /\ lock # Free
  /\ faults < MaxFaults /\ faults' = faults + 1
  /\ lock' = Free
  /\ halfCleared' = (halfCleared \/ lock.step = "clear")
  /\ UNCHANGED <<workerVars, commandVars, sends>>

-----------------------------------------------------------------------------

Next ==
  \/ \E w \in Worker : RecoverWorker(w)
  \/ \E i \in Id : RecoverOrphan(i)
  \/ \E op \in Op : Spawn(op) \/ \E w \in Worker : Reuse(w, op)
  \/ Enqueue \/ Link \/ Activate \/ Cancel \/ Rollback
  \/ (\E w \in Worker : Retire(w)) \/ RetireWorker
  \/ \E i \in Id : Mirror(i)
  \/ \E client \in Client :
       \/ \E e \in SUBSET Core : Redeem(client, e)
       \/ \E i \in Id, l \in 1 .. MaxLease :
            MarkSendStarted(i, l, client) \/ Acknowledge(i, l, client)
       \/ Revoke(client)
  \/ \E w \in Worker :
       \/ RegisterClaim(w)
       \/ \E h \in Chat : Claim(w, h)
       \/ Start(w) \/ Finish(w)
  \/ Confirm
  \/ Time
  \/ ClearWorkers \/ ClearCommands
  \/ Crash

Spec == Init /\ [][Next]_vars

-----------------------------------------------------------------------------
(* Properties.                                                             *)

\* Both stores and the transaction in progress keep their types.
TypeOK ==
  /\ S!TypeOK
  /\ Q!TypeOK
  /\ lock \in Lock
  /\ sends \in [Task -> SUBSET Id]
  /\ faults \in 0 .. MaxFaults
  /\ halfCleared \in BOOLEAN

\* "Never blindly sends the assignment again" (README.md:269), across both
\* stores: whatever is replayed, recovered, compacted or rolled back, at most
\* one command per task is ever told to press Send.
OneSendPerTask == \A t \in Task : Cardinality(sends[t]) <= 1

\* A browser is only told to press Send for a task its worker still waits to
\* start, by the command that worker is linked to. Once a crash or a failing
\* write has left a Clear Workers between its two stores (halfCleared), a
\* command may still be told whose worker is gone (server.rs:1390).
SendIsOwned ==
  [][\A t \in Task : \A i \in sends'[t] \ sends[t] :
       \/ halfCleared
       \/ \E w \in Worker : /\ Pending(w) /\ workers[w].current = t
                            /\ tasks[t].state = "Pending"
                            /\ Linked(w, i)]_vars

\* A task whose assignment may have been sent is never undone, by a rollback
\* or by recovery, as if it had not been asked for; nor does a worker whose
\* mirror lags lose it. Only the step of Clear Workers removes it, as asked.
SentIsKept ==
  [][\A t \in Task : sends[t] # {} /\ tasks[t].state # "Absent" =>
       tasks'[t].state # "Absent" \/ lock'.step = "clear"]_vars

\* What was sent has its owner, from the click until the task is done, outside
\* half-cleared states and the clear's own step.
SentHasItsOwner == SendIsOwned /\ SentIsKept

\* An unclaimed worker only counts as sent (and may then be timed out, or
\* fenced and failed) when its assignment really may have been.
MirrorNeverLeads ==
  \A w \in Worker :
    /\ Pending(w) /\ workers[w].chat = None
    /\ workers[w].launch \in {"SendStarted", "Reconciling", "WaitingClaim"}
    => sends[workers[w].current] # {}

\* Without a fault, a launch that crossed the Send boundary is never taken
\* for unsent once its handler is done, and nothing is left half done.
CleanWithoutFaults ==
  faults = 0 /\ lock = Free =>
    /\ Recovered
    /\ \A w \in Worker :
         Pending(w) /\ Found(w) # NoId /\ commands[Found(w)].history =>
           workers[w].launch \notin {"Unknown", "Queued", "Preparing"}

\* The two stores agree as far as their separate commits allow: in every state
\* the mirror is behind the command, never ahead, and without a fault they
\* are level whenever no handler is at work.
StoresAgree == TypeOK /\ MirrorNeverLeads /\ CleanWithoutFaults

\* Recovery refuses, and so ends every later spawn, reuse and retire, only for
\* a launch whose own command is gone and whose retry was cut short: then what
\* it found is a duplicate that no browser was, or will be, offered.
RefusalIsHarmless ==
  \A w \in Worker :
    lock = Free /\ RecoveryRefuses(w) =>
      /\ workers[w].command # None
      /\ commands[workers[w].command[2] - 1].state = "Absent"
      /\ Held(Found(w)) /\ commands[Found(w)].state = "Queued"
=============================================================================
