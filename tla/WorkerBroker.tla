---------------------------- MODULE WorkerBroker ----------------------------
(***************************************************************************)
(* The durable store of Worker families (workers/broker.rs).  A Core, one  *)
(* ChatGPT conversation, owns a family of Workers; each Worker is another  *)
(* conversation that claims a one-time capability, then runs one task at   *)
(* a time.  Reports and task outcomes wait in the family until its Core    *)
(* collects them.                                                          *)
(*                                                                         *)
(* The store knows a conversation by its ChatIdentity: the digest of the   *)
(* session, and that of the account if the call told it.  One conversation *)
(* seen with its account and without it is two identities; only the fences *)
(* of cleared Workers go by the session alone.                             *)
(*                                                                         *)
(* Every public method works under one mutex on a candidate that is        *)
(* renamed into place on disk before memory is replaced, so a method is    *)
(* one step and a method that returns an error, or replays a receipt, is   *)
(* no step.  UUIDs are fresh: here the next number of their kind, which is *)
(* also their order of receipt sequence.  Commands are named by the task   *)
(* they launch, because the dedupe key is "worker:W:task:T".               *)
(***************************************************************************)
EXTENDS Integers, FiniteSets, Sequences

CONSTANTS
  Core,         \* identities that call spawn, reuse, collect, ...
  Chat,         \* all identities: Cores, and those that claim a Worker
  Session,      \* conversations
  SessionOf,    \* session_digest of an identity
  Subject,      \* OpenAI accounts
  SubjectOf,    \* subject_digest of an identity, or None when missing
  Op,           \* operation ids chosen by clients
  None,         \* Option::None
  NumWorkers, NumTasks, NumMessages, NumReports, NumBatches, NumGuards,
  NumPlans,     \* bounds on what is ever created (model checking only)
  Mirrored,     \* <<launch state, has conversation>> pairs commands report
  CommandsPerTask, \* bound on the commands enqueued for one task
  MaxFamilies,  \* MAX_WORKER_FAMILIES
  MaxRecords,   \* MAX_WORKER_RECORDS_PER_FAMILY
  MaxActive,    \* MAX_WORKERS_PER_FAMILY
  MaxInbox,     \* MAX_PENDING_MESSAGES_PER_WORKER
  MaxQueued,    \* MAX_REPORTS_PER_FAMILY
  MaxUpdates,   \* MAX_UPDATES_PER_COLLECT
  MaxReceipts,  \* MAX_IDEMPOTENCY_RECEIPTS_PER_FAMILY
  MaxCollects,  \* MAX_COLLECT_RECEIPTS_PER_FAMILY
  KeptTasks,    \* MAX_COLLECTED_TASK_HISTORY_PER_WORKER
  MaxTasks      \* MAX_TASK_RECORDS_PER_WORKER

\* sync_worker_launch_from_command: what a command's state is mirrored as; only
\* an answer from the browser carries a conversation.
Mirrorable ==
  ({"Queued", "Preparing", "SendStarted", "Reconciling"} \X {FALSE})
  \cup ({"Paused", "Failed"} \X BOOLEAN) \cup {<<"WaitingClaim", TRUE>>}

ASSUME ConstantsOK ==
  /\ {NumWorkers, NumTasks, NumMessages, NumReports, NumBatches, NumGuards,
      NumPlans, CommandsPerTask, MaxFamilies, MaxRecords, MaxActive, MaxInbox,
      MaxQueued, MaxUpdates, MaxReceipts, MaxCollects, KeptTasks, MaxTasks}
        \subseteq Nat
  /\ Core \subseteq Chat
  /\ SessionOf \in [Chat -> Session]
  /\ SubjectOf \in [Chat -> Subject \cup {None}]
  /\ \A g, h \in Chat :
       SessionOf[g] = SessionOf[h] /\ SubjectOf[g] = SubjectOf[h] => g = h
  /\ Mirrored \subseteq Mirrorable
  /\ None \notin Chat \cup Subject \cup Nat

\* The batch just delivered can be asked for again.
ASSUME ReplaysSome == MaxCollects > 0

Worker == 1 .. NumWorkers
Task == 1 .. NumTasks
Message == 1 .. NumMessages
Report == 1 .. NumReports
Batch == 1 .. NumBatches
Command == Task \X (1 .. CommandsPerTask)

VARIABLES
  families,  \* Cores with a family
  workers,   \* worker records by id
  tasks,     \* task records by id
  reports,   \* reports waiting for their Core
  receipts,  \* idempotency receipts of every kind
  fences,    \* retired_workers: sessions of Workers cleared recently
  plan,      \* a cleanup preview the host has shown, by Core
  made,      \* how many of each kind were ever created
  batches    \* history: what each collect batch delivered

vars == <<families, workers, tasks, reports, receipts, fences, plan, made,
          batches>>

Kind == {"spawn", "reuse", "message", "report", "collect"}
WorkerState == {"Provisioning", "Waking", "Idle", "Running", "Retired"}
LaunchState == {"Unknown", "Queued", "Preparing", "SendStarted",
                "Reconciling", "WaitingClaim", "Paused", "Failed", "Claimed"}
TaskState == {"Pending", "Running", "Completed", "Failed"}

Guard == [task : Task, id : 1 .. NumGuards, aged : BOOLEAN]

\* wait: waiting_claim_since_ms is None, set, or set two minutes ago.
WorkerRecord ==
  [core : Core \cup {None}, state : WorkerState \cup {"Absent"},
   launch : LaunchState, command : Command \cup {None}, url : BOOLEAN,
   chat : Chat \cup {None}, token : BOOLEAN,
   wait : {"No", "Waiting", "Overdue"}, current : Task \cup {None},
   guard : Guard \cup {None}, inbox : SUBSET Message]

NoWorker ==
  [core |-> None, state |-> "Absent", launch |-> "Unknown",
   command |-> None, url |-> FALSE, chat |-> None, token |-> FALSE,
   wait |-> "No", current |-> None, guard |-> None, inbox |-> {}]

TaskRecord ==
  [worker : Worker \cup {None}, state : TaskState \cup {"Absent"},
   outcome : {"none", "result", "failure"}, collected : BOOLEAN]

NoTask == [worker |-> None, state |-> "Absent", outcome |-> "none",
           collected |-> FALSE]

PendingTask(w) == [NoTask EXCEPT !.worker = w, !.state = "Pending"]
FailedTask(task) == [task EXCEPT !.state = "Failed", !.outcome = "failure"]

ReportRecord == [id : Report, core : Core, worker : Worker]
Receipt == [kind : Kind, core : Core, op : Op, id : Nat]

Init ==
  /\ families = {}
  /\ workers = [w \in Worker |-> NoWorker]
  /\ tasks = [t \in Task |-> NoTask]
  /\ reports = {}
  /\ receipts = {}
  /\ fences = {}
  /\ plan = [c \in Core |-> None]
  /\ made = [worker |-> 0, task |-> 0, message |-> 0, report |-> 0,
             guard |-> 0, plan |-> 0]
  /\ batches = <<>>

-----------------------------------------------------------------------------
(* Reading the store.                                                      *)

WorkersOf(ws, c) == {w \in Worker : ws[w].core = c}
TasksOf(ts, w) == {t \in Task : ts[t].worker = w}
FamilyTasks(ws, ts, c) == UNION {TasksOf(ts, w) : w \in WorkersOf(ws, c)}
ReceiptsOf(k, c) == {r \in receipts : r.kind = k /\ r.core = c}
Used(k, c, op) == \E r \in ReceiptsOf(k, c) : r.op = op

\* A settled task with something to tell, not yet told.
Undelivered(task) == task.outcome # "none" /\ ~task.collected

\* task_is_settled_and_delivered
SettledAndDelivered(task) ==
  \/ task.state \in {"Completed", "Failed"} /\ task.collected
  \/ task.state = "Failed" /\ task.outcome = "none"

\* family_is_safe_for_explicit_host_cleanup
SafeToRelease(c) ==
  /\ \A r \in reports : r.core # c
  /\ \A w \in WorkersOf(workers, c) :
       /\ workers[w].state \in {"Idle", "Retired"}
       /\ workers[w].launch \in {"Claimed", "Failed"}
       /\ workers[w].current = None
       /\ ~workers[w].token
       /\ workers[w].inbox = {}
       /\ \A t \in TasksOf(tasks, w) : SettledAndDelivered(tasks[t])

\* Faulty Reclaimable: forgets the replay window of collect.
ReclaimsReplayable(c) ==
  /\ SafeToRelease(c)
  /\ \A w \in WorkersOf(workers, c) : workers[w].state = "Retired"

\* retired_family_is_reclaimable; every retained collect receipt has a payload
Reclaimable(c) ==
  /\ SafeToRelease(c)
  /\ \A w \in WorkersOf(workers, c) : workers[w].state = "Retired"
  /\ ReceiptsOf("collect", c) = {}

\* Faulty Unbound: looks at the worker's own family only.
UnboundInFamily(h, w) ==
  \A v \in WorkersOf(workers, workers[w].core) \ {w} : workers[v].chat # h

\* ensure_worker_identity_unique_binding: no other worker of any family is
\* bound to identity h; one bound to its conversation under another is.
Unbound(h, w) == \A v \in Worker \ {w} : workers[v].chat # h

\* Accounts of the claimed workers of w's family other than w.
FamilySubjects(w) ==
  {SubjectOf[workers[v].chat] :
     v \in {v \in WorkersOf(workers, workers[w].core) \ {w} :
              workers[v].chat # None}} \ {None}

SameAccount(w, h) == FamilySubjects(w) \in {{}, {SubjectOf[h]}}

\* The n smallest members of S.
Oldest(S, n) == {i \in S : Cardinality({j \in S : j < i}) < n}
Newest(S, n) == {i \in S : Cardinality({j \in S : j > i}) < n}

-----------------------------------------------------------------------------
(* compact_family_history, run on the candidate of every operation that    *)
(* records a receipt.                                                      *)

\* Faulty Trimmable: counts undelivered outcomes as history.
TrimsUncollected(ws, ts, w) ==
  {t \in TasksOf(ts, w) : ts[t].outcome # "none" /\ t # ws[w].current}

\* Delivered tasks of w, other than the one it works on.
Trimmable(ws, ts, w) ==
  {t \in TasksOf(ts, w) : ts[t].collected /\ t # ws[w].current}

\* Faulty TrimmedTasks: the task goes but its worker still lists it.
TrimsHalfway(ws, ts, c) ==
  LET dropped == UNION {LET S == Trimmable(ws, ts, w)
                        IN  S \ Newest(S, KeptTasks) : w \in WorkersOf(ws, c)}
  IN  [t \in Task |-> IF t \in dropped
                      THEN [ts[t] EXCEPT !.state = "Absent"] ELSE ts[t]]

TrimmedTasks(ws, ts, c) ==
  LET dropped == UNION {LET S == Trimmable(ws, ts, w)
                        IN  S \ Newest(S, KeptTasks) : w \in WorkersOf(ws, c)}
  IN  [t \in Task |-> IF t \in dropped THEN NoTask ELSE ts[t]]

\* Ids whose receipts stay, because what they created is still there.
Protected(k, ws, ts, rp, c) ==
  CASE k \in {"spawn", "reuse"} -> FamilyTasks(ws, ts, c)
    [] k = "message" -> UNION {ws[w].inbox : w \in WorkersOf(ws, c)}
    [] k = "report" -> {r.id : r \in {r \in rp : r.core = c}}
    [] k = "collect" -> {}

\* Faulty Protected: no receipt is safe from pruning.
ProtectsNone(k, ws, ts, rp, c) == {}

ReceiptLimit(k) == IF k = "collect" THEN MaxCollects ELSE MaxReceipts

\* Faulty Pruned: keeps the oldest receipts.
PrunesNewest(R, protected, limit) ==
  LET ids == {r.id : r \in R} \ protected
      dropped == Newest(ids, Cardinality(R) - limit)
  IN  {r \in R : r.id \notin dropped}

\* prune_receipt_map: drop the oldest unprotected receipts above the limit.
Pruned(R, protected, limit) ==
  LET ids == {r.id : r \in R} \ protected
      dropped == Oldest(ids, Cardinality(R) - limit)
  IN  {r \in R : r.id \notin dropped}

\* Publish a candidate for family c, compacted; Err(Limit) when it cannot be.
Compacted(c, ws, ts, rp, rs) ==
  LET kept == TrimmedTasks(ws, ts, c)
      Mine(k) == {r \in rs : r.kind = k /\ r.core = c}
      PrunedKind(k) == Pruned(Mine(k), Protected(k, ws, kept, rp, c),
                              ReceiptLimit(k))
  IN  /\ \A w \in WorkersOf(ws, c) :
           Cardinality(TasksOf(kept, w)) <= MaxTasks
      /\ \A k \in Kind : Cardinality(PrunedKind(k)) <= ReceiptLimit(k)
      /\ workers' = ws
      /\ tasks' = kept
      /\ reports' = rp
      /\ receipts' = {r \in rs : r.core # c}
                       \cup UNION {PrunedKind(k) : k \in Kind}

Record(k, c, op, id) == [kind |-> k, core |-> c, op |-> op, id |-> id]

-----------------------------------------------------------------------------
(* Spawn, and the two ways its transaction is undone.                      *)

\* compact_inactive_families: which family makes room, if one must.
MakesRoom(c, gone) ==
  \/ c \in families /\ gone = {}
  \/ c \notin families /\ Cardinality(families) < MaxFamilies /\ gone = {}
  \/ /\ c \notin families
     /\ Cardinality(families) >= MaxFamilies
     /\ \E d \in families : Reclaimable(d) /\ gone = {d}

\* What is left of the store without the families in C.
WorkersWithout(C) ==
  [w \in Worker |-> IF workers[w].core \in C THEN NoWorker ELSE workers[w]]
TasksWithout(C) ==
  [t \in Task |-> IF \E w \in Worker : /\ workers[w].core \in C
                                       /\ tasks[t].worker = w
                  THEN NoTask ELSE tasks[t]]
\* Faulty Others: forgets to filter.
KeepsOrphans(S, C) == S
Others(S, C) == {r \in S : r.core \notin C}

\* spawn_worker: a new worker with its first task and its capability.
SpawnWorker(c, op) ==
  /\ SessionOf[c] \notin fences
  /\ ~(c \in families /\ Used("spawn", c, op))
  /\ made.worker < NumWorkers /\ made.task < NumTasks
  /\ Cardinality(WorkersOf(workers, c)) < MaxRecords
  /\ Cardinality({w \in WorkersOf(workers, c) : workers[w].state # "Retired"})
       < MaxActive
  /\ \E gone \in {{}} \cup {{d} : d \in families} :
       /\ MakesRoom(c, gone)
       /\ families' = (families \ gone) \cup {c}
       /\ LET w == made.worker + 1
              t == made.task + 1
          IN Compacted(c,
               [WorkersWithout(gone) EXCEPT ![w] =
                  [NoWorker EXCEPT !.core = c, !.state = "Provisioning",
                     !.launch = "Queued", !.token = TRUE, !.current = t]],
               [TasksWithout(gone) EXCEPT ![t] = PendingTask(w)],
               Others(reports, gone),
               Others(receipts, gone) \cup {Record("spawn", c, op, t)})
  /\ made' = [made EXCEPT !.worker = @ + 1, !.task = @ + 1]
  /\ UNCHANGED <<fences, plan, batches>>

\* The pending task w waits to start.
HasPending(w, S) ==
  /\ workers[w].state \in S
  /\ workers[w].current # None
  /\ tasks[workers[w].current].state = "Pending"

NotSent(w) == workers[w].launch \in {"Unknown", "Queued", "Preparing"}

\* Faulty WithoutReceipts: leaves the receipt to be replayed.
ReceiptsLeft(k, t) == receipts
WithoutReceipts(k, t) == receipts \ {r \in receipts : r.kind = k /\ r.id = t}

\* Undo a spawn: the worker, its task and the receipt go.
ForgetSpawn(w) ==
  /\ HasPending(w, {"Provisioning"})
  /\ workers[w].chat = None
  /\ workers' = [workers EXCEPT ![w] = NoWorker]
  /\ tasks' = [t \in Task |-> IF tasks[t].worker = w THEN NoTask ELSE tasks[t]]
  /\ receipts' = WithoutReceipts("spawn", workers[w].current)
  /\ UNCHANGED <<families, reports, fences, plan, made, batches>>

RollbackUnlinkedSpawn(w) == workers[w].command = None /\ ForgetSpawn(w)

RollbackLinkedSpawn(w, m) ==
  workers[w].command = m /\ NotSent(w) /\ ForgetSpawn(w)

-----------------------------------------------------------------------------
(* Reuse of an idle worker, and its rollbacks.                             *)

ReuseWorker(w, op) ==
  LET c == workers[w].core
      t == made.task + 1
  IN  /\ workers[w].state = "Idle"
      /\ ~Used("reuse", c, op)
      /\ workers[w].chat # None /\ workers[w].current = None /\ workers[w].url
      /\ made.task < NumTasks
      /\ Compacted(c,
           [workers EXCEPT ![w] =
              [@ EXCEPT !.state = "Waking", !.launch = "Queued",
                        !.command = None, !.current = t, !.guard = None]],
           [tasks EXCEPT ![t] = PendingTask(w)],
           reports,
           receipts \cup {Record("reuse", c, op, t)})
      /\ made' = [made EXCEPT !.task = t]
      /\ UNCHANGED <<families, fences, plan, batches>>

\* A worker that goes back to idle, as if its reuse had not been asked for.
Reidled(worker) ==
  [worker EXCEPT !.state = "Idle", !.launch = "Claimed", !.command = None,
                 !.current = None]

ForgetReuse(w) ==
  /\ HasPending(w, {"Waking"})
  /\ workers[w].chat # None
  /\ workers' = [workers EXCEPT ![w] = Reidled(workers[w])]
  /\ tasks' = [tasks EXCEPT ![workers[w].current] = NoTask]
  /\ receipts' = WithoutReceipts("reuse", workers[w].current)
  /\ UNCHANGED <<families, reports, fences, plan, made, batches>>

RollbackUnlinkedReuse(w) == workers[w].command = None /\ ForgetReuse(w)

RollbackLinkedReuse(w, m) ==
  workers[w].command = m /\ NotSent(w) /\ ForgetReuse(w)

-----------------------------------------------------------------------------
(* The launch command and its mirror in the worker record.                 *)

\* Only the worker record changes.
SetWorker(w, record) ==
  /\ workers' = [workers EXCEPT ![w] = record]
  /\ UNCHANGED <<families, tasks, reports, receipts, fences, plan, made,
                 batches>>

\* The worker and its current task change.
SetWorkerAndTask(w, record, task) ==
  /\ workers' = [workers EXCEPT ![w] = record]
  /\ tasks' = [tasks EXCEPT ![workers[w].current] = task]
  /\ UNCHANGED <<families, reports, receipts, fences, plan, made, batches>>

\* Faulty LinkLaunchCommand: a second command takes the place of the first.
RelinkLaunchCommand(w, m) ==
  /\ workers[w].current # None /\ m[1] = workers[w].current
  /\ workers[w].state = "Waking" => workers[w].url
  /\ SetWorker(w, [workers[w] EXCEPT
       !.command = m, !.launch = "Queued",
       !.url = @ /\ workers[w].state # "Provisioning"])

\* link_launch_command, m a command enqueued for w's current task
LinkLaunchCommand(w, m) ==
  /\ workers[w].current # None /\ m[1] = workers[w].current
  /\ workers[w].command = None
  /\ workers[w].state = "Waking" => workers[w].url
  /\ SetWorker(w, [workers[w] EXCEPT
       !.command = m, !.launch = "Queued",
       !.url = @ /\ workers[w].state # "Provisioning"])

\* update_launch_by_command: mirror the state a command reached.  url says
\* whether the command reported a conversation.
UpdateLaunchByCommand(w, launch, url) ==
  /\ workers[w].command # None
  /\ workers[w].launch # "Claimed"
  /\ launch = "WaitingClaim" => url
  /\ SetWorker(w, [workers[w] EXCEPT
       !.launch = launch,
       !.url = @ \/ url,
       !.wait = CASE launch = "WaitingClaim" /\ workers[w].chat = None ->
                       IF @ = "No" THEN "Waiting" ELSE @
                  [] launch \in {"Paused", "Failed"} -> "No"
                  [] OTHER -> @])

\* Faulty Gone: only the state says so.
GoneInName(worker) == [worker EXCEPT !.state = "Retired"]

\* A worker that leaves the pool; its capability dies with it.
Gone(worker) ==
  [worker EXCEPT !.state = "Retired", !.token = FALSE, !.current = None]

\* Faulty GaveUp: keeps the capability.
GaveUpButClaimable(worker) ==
  [worker EXCEPT !.state = "Retired", !.launch = "Failed", !.wait = "No"]

\* A fresh worker whose launch is over without a claim.
GaveUp(worker) == [Gone(worker) EXCEPT !.launch = "Failed", !.wait = "No"]

\* settle_pre_send_failure_by_command
SettlePreSendFailure(w) ==
  LET fresh == workers[w].state = "Provisioning" /\ workers[w].chat = None
      reuse == workers[w].state = "Waking" /\ workers[w].chat # None
  IN  /\ workers[w].command # None
      /\ workers[w].launch # "Claimed"
      /\ HasPending(w, {"Provisioning", "Waking"})
      /\ fresh \/ reuse
      /\ SetWorkerAndTask(w,
           IF fresh THEN GaveUp(workers[w])
                    ELSE [Reidled(workers[w]) EXCEPT !.wait = "No"],
           FailedTask(tasks[workers[w].current]))

\* cancel_unclaimed_after_send
CancelUnclaimedAfterSend(w) ==
  /\ HasPending(w, {"Provisioning"})
  /\ workers[w].launch \in {"SendStarted", "Reconciling", "WaitingClaim",
                            "Paused"}
  /\ workers[w].chat = None
  /\ SetWorkerAndTask(w, GaveUp(workers[w]),
                      FailedTask(tasks[workers[w].current]))

\* The two minutes of WORKER_CLAIM_TIMEOUT_MS pass.
GraceEnds(w) ==
  /\ workers[w].wait = "Waiting"
  /\ SetWorker(w, [workers[w] EXCEPT !.wait = "Overdue"])

AwaitsClaim(w) ==
  /\ workers[w].state = "Provisioning"
  /\ workers[w].launch = "WaitingClaim"
  /\ workers[w].chat = None

\* expire_waiting_claims_in_data: sweep the families in C.
ExpireWaitingClaims(C) ==
  LET late == {w \in Worker : /\ AwaitsClaim(w) /\ workers[w].core \in C
                              /\ workers[w].wait = "Overdue"}
  IN  /\ late # {}
      /\ workers' = [w \in Worker |->
           IF w \in late THEN GaveUp(workers[w]) ELSE workers[w]]
      /\ tasks' = [t \in Task |->
           IF /\ tasks[t].state = "Pending"
              /\ \E w \in late : t = workers[w].current
           THEN FailedTask(tasks[t]) ELSE tasks[t]]
      /\ UNCHANGED <<families, reports, receipts, fences, plan, made, batches>>

-----------------------------------------------------------------------------
(* What the Worker's own conversation does.                                *)

\* claim_worker_attested, by a call with identity h and the capability of w
ClaimWorkerAttested(w, h) ==
  /\ workers[w].current # None
  /\ h # workers[w].core
  /\ Unbound(h, w)
  /\ workers[w].chat = None
  /\ SameAccount(w, h)
  /\ workers[w].launch = "WaitingClaim" /\ workers[w].url
  /\ workers[w].token
  /\ SetWorkerAndTask(w,
       [workers[w] EXCEPT !.chat = h, !.token = FALSE, !.wait = "No",
                          !.state = "Provisioning", !.launch = "Claimed"],
       [tasks[workers[w].current] EXCEPT !.state = "Pending"])

\* start_task
StartTask(w) ==
  /\ workers[w].chat # None
  /\ HasPending(w, WorkerState)
  /\ SetWorkerAndTask(w,
       [workers[w] EXCEPT !.state = "Running", !.launch = "Claimed"],
       [tasks[workers[w].current] EXCEPT !.state = "Running"])

AtWork(w) ==
  /\ workers[w].state = "Running"
  /\ workers[w].current # None
  /\ tasks[workers[w].current].state = "Running"

\* report_worker
ReportWorker(w, op) ==
  LET c == workers[w].core
      r == made.report + 1
  IN  /\ workers[w].chat # None
      /\ AtWork(w)
      /\ ~Used("report", c, op)
      /\ Cardinality({q \in reports : q.core = c}) < MaxQueued
      /\ made.report < NumReports
      /\ Compacted(c, workers, tasks,
           reports \cup {[id |-> r, core |-> c, worker |-> w]},
           receipts \cup {Record("report", c, op, r)})
      /\ made' = [made EXCEPT !.report = r]
      /\ UNCHANGED <<families, fences, plan, batches>>

\* Faulty FinishTask: any conversation bound to w may settle its last task.
FinishesPending(w) ==
  /\ workers[w].chat # None
  /\ workers[w].current # None
  /\ SetWorkerAndTask(w,
       [workers[w] EXCEPT !.state = "Idle"],
       [tasks[workers[w].current] EXCEPT !.state = "Completed",
                                         !.outcome = "result"])

\* finish_task
FinishTask(w) ==
  LET t == workers[w].current
      guard == workers[w].guard
  IN  /\ workers[w].chat # None
      /\ AtWork(w)
      /\ SetWorkerAndTask(w,
           [workers[w] EXCEPT !.current = None, !.state = "Idle",
              !.guard = IF guard # None /\ guard.task = t THEN None ELSE @],
           [tasks[t] EXCEPT !.state = "Completed", !.outcome = "result"])

\* acknowledge_message
AcknowledgeMessage(w, m) ==
  /\ workers[w].chat # None
  /\ m \in workers[w].inbox
  /\ SetWorker(w, [workers[w] EXCEPT !.inbox = @ \ {m}])

-----------------------------------------------------------------------------
(* What the Core does with its workers.                                    *)

\* retire_worker(None) of an idle worker
RetireIdle(w) ==
  /\ workers[w].state = "Idle" /\ workers[w].current = None
  /\ SetWorker(w, Gone(workers[w]))

\* retire_worker(Some(task)) after a proven pre-Send cancellation
RetirePending(w) ==
  /\ HasPending(w, {"Provisioning", "Waking"})
  /\ SetWorkerAndTask(w, Gone(workers[w]),
       [tasks[workers[w].current] EXCEPT !.state = "Failed"])

\* message_worker
MessageWorker(w, op) ==
  LET c == workers[w].core
      m == made.message + 1
  IN  /\ workers[w].state \in WorkerState \ {"Retired"}
      /\ ~Used("message", c, op)
      /\ Cardinality(workers[w].inbox) < MaxInbox
      /\ made.message < NumMessages
      /\ Compacted(c, [workers EXCEPT ![w].inbox = @ \cup {m}], tasks, reports,
                   receipts \cup {Record("message", c, op, m)})
      /\ made' = [made EXCEPT !.message = m]
      /\ UNCHANGED <<families, fences, plan, batches>>

\* begin_recovery_guard
BeginRecoveryGuard(w) ==
  LET t == workers[w].current
      guard == workers[w].guard
  IN  /\ workers[w].state = "Running" /\ t # None
      /\ guard # None => guard.task # t \/ guard.aged
      /\ made.guard < NumGuards
      /\ workers' = [workers EXCEPT ![w].guard =
                       [task |-> t, id |-> made.guard + 1, aged |-> FALSE]]
      /\ made' = [made EXCEPT !.guard = @ + 1]
      /\ UNCHANGED <<families, tasks, reports, receipts, fences, plan, batches>>

\* clear_recovery_guard, by the recovery that took guard g
ClearRecoveryGuard(w, g) ==
  /\ workers[w].guard # None /\ workers[w].guard.id = g
  /\ SetWorker(w, [workers[w] EXCEPT !.guard = None])

\* The guard period passes.
GuardAges(w) ==
  /\ workers[w].guard # None /\ ~workers[w].guard.aged
  /\ SetWorker(w, [workers[w] EXCEPT !.guard.aged = TRUE])

-----------------------------------------------------------------------------
(* Collecting updates.                                                     *)

OutcomesOf(S, kind) == {t \in S : tasks[t].outcome = kind}

\* The loop over tasks stops as soon as either list is full; task ids are
\* random, so any outcomes may come first.
DueOutcomes(c) ==
  LET all == {t \in FamilyTasks(workers, tasks, c) : Undelivered(tasks[t])}
      Full(S, kind) == Cardinality(OutcomesOf(S, kind)) = MaxUpdates
      Fits(S, kind) == Cardinality(OutcomesOf(S, kind)) <= MaxUpdates
  IN  {S \in SUBSET all :
         /\ Fits(S, "result") /\ Fits(S, "failure")
         /\ ~(Full(S, "result") /\ Full(S, "failure"))
         /\ S = all \/ Full(S, "result") \/ Full(S, "failure")}

DueReports(c) == Oldest({r.id : r \in {r \in reports : r.core = c}}, MaxUpdates)

\* Faulty Told: only results count as delivered.
ToldResults(S) ==
  [t \in Task |-> IF t \in OutcomesOf(S, "result")
                  THEN [tasks[t] EXCEPT !.collected = TRUE] ELSE tasks[t]]

Told(S) ==
  [t \in Task |-> IF t \in S THEN [tasks[t] EXCEPT !.collected = TRUE]
                  ELSE tasks[t]]

\* collect_updates_for_operation: one batch, remembered for replay.
CollectUpdates(c, op) ==
  /\ c \in families
  /\ ~Used("collect", c, op)
  /\ Len(batches) < NumBatches
  /\ \E outcomes \in DueOutcomes(c) :
       LET due == DueReports(c)
           batch == Len(batches) + 1
       IN  /\ due # {} \/ outcomes # {}
           /\ Compacted(c, workers, Told(outcomes),
                {r \in reports : r.id \notin due},
                receipts \cup {Record("collect", c, op, batch)})
           /\ batches' = Append(batches,
                [core |-> c, reports |-> due, tasks |-> outcomes])
  /\ UNCHANGED <<families, fences, plan, made>>

-----------------------------------------------------------------------------
(* Destroying families.                                                    *)

\* The family of c as a cleanup preview remembers it.
FamilyView(c) ==
  [workers |-> {<<w, workers[w]>> : w \in WorkersOf(workers, c)},
   tasks |-> {<<t, tasks[t]>> : t \in FamilyTasks(workers, tasks, c)},
   reports |-> {r \in reports : r.core = c},
   receipts |-> {r \in receipts : r.core = c}]

RemoveFamilies(C) ==
  /\ families' = families \ C
  /\ workers' = WorkersWithout(C)
  /\ tasks' = TasksWithout(C)
  /\ reports' = Others(reports, C)
  /\ receipts' = Others(receipts, C)
  /\ UNCHANGED <<made, batches>>

SessionsOf(C) ==
  {SessionOf[workers[w].chat] :
     w \in {w \in Worker : workers[w].core \in C /\ workers[w].chat # None}}

\* clear_all_workers, clear_family_for_anchor
ClearFamilies(C) ==
  /\ C # {}
  /\ fences' = fences \cup SessionsOf(C)
  /\ RemoveFamilies(C)
  /\ UNCHANGED plan

ClearAllWorkers == ClearFamilies(families)
ClearFamilyForAnchor(c) == c \in families /\ ClearFamilies({c})

\* purge_workspace: every family of the workspace, without fences
PurgeWorkspace ==
  /\ families # {}
  /\ RemoveFamilies(families)
  /\ UNCHANGED <<fences, plan>>

\* RETIRED_WORKER_FENCE_TTL_MS passes.
FenceLapses(s) ==
  /\ s \in fences
  /\ fences' = fences \ {s}
  /\ UNCHANGED <<families, workers, tasks, reports, receipts, plan, made,
                 batches>>

\* inactive_cleanup_preview_for_workspace
PreviewCleanup ==
  /\ made.plan < NumPlans
  /\ plan' = [c \in Core |-> IF c \in families /\ SafeToRelease(c)
                             THEN FamilyView(c) ELSE None]
  /\ made' = [made EXCEPT !.plan = @ + 1]
  /\ UNCHANGED <<families, workers, tasks, reports, receipts, fences, batches>>

\* Faulty PlanMatches: a confirmed preview is good for ever.
TrustsPreview(c) == c \in families

\* ensure_cleanup_plan_matches
PlanMatches(c) ==
  c \in families /\ plan[c] = FamilyView(c) /\ SafeToRelease(c)

\* cleanup_inactive_families_for_plan; the plan is used once
CleanupInactiveFamilies ==
  LET planned == {c \in Core : plan[c] # None}
  IN  /\ planned # {}
      /\ \A c \in planned : PlanMatches(c)
      /\ RemoveFamilies(planned)
      /\ plan' = [c \in Core |-> None]
      /\ UNCHANGED fences

-----------------------------------------------------------------------------

CoreStep ==
  \/ \E c \in Core, op \in Op : SpawnWorker(c, op) \/ CollectUpdates(c, op)
  \/ \E w \in Worker, op \in Op : ReuseWorker(w, op) \/ MessageWorker(w, op)
  \/ \E w \in Worker : RetireIdle(w) \/ RetirePending(w)
  \/ \E w \in Worker : RollbackUnlinkedSpawn(w) \/ RollbackUnlinkedReuse(w)
  \/ \E w \in Worker, m \in Command :
       \/ RollbackLinkedSpawn(w, m) \/ RollbackLinkedReuse(w, m)
       \/ LinkLaunchCommand(w, m)
  \/ \E w \in Worker : CancelUnclaimedAfterSend(w)

LaunchStep ==
  \E w \in Worker :
     \/ \E m \in Mirrored : UpdateLaunchByCommand(w, m[1], m[2])
     \/ SettlePreSendFailure(w)
     \/ GraceEnds(w)

WorkerStep ==
  \E w \in Worker :
     \/ \E h \in Chat : ClaimWorkerAttested(w, h)
     \/ StartTask(w) \/ FinishTask(w)
     \/ \E op \in Op : ReportWorker(w, op)
     \/ \E m \in Message : AcknowledgeMessage(w, m)

RecoveryStep ==
  \E w \in Worker :
     \/ BeginRecoveryGuard(w)
     \/ \E g \in 1 .. NumGuards : ClearRecoveryGuard(w, g)
     \/ GuardAges(w)

HostStep ==
  \/ ExpireWaitingClaims(Core)
  \/ \E c \in Core : ExpireWaitingClaims({c}) \/ ClearFamilyForAnchor(c)
  \/ ClearAllWorkers
  \/ PurgeWorkspace
  \/ \E s \in Session : FenceLapses(s)
  \/ PreviewCleanup
  \/ CleanupInactiveFamilies

Next == CoreStep \/ LaunchStep \/ WorkerStep \/ RecoveryStep \/ HostStep

Spec == Init /\ [][Next]_vars

-----------------------------------------------------------------------------
(* Properties.                                                             *)

\* Every variable keeps its type, and a removed record leaves nothing behind.
TypeOK ==
  /\ families \subseteq Core
  /\ workers \in [Worker -> WorkerRecord]
  /\ \A w \in Worker : workers[w].state = "Absent" <=> workers[w] = NoWorker
  /\ tasks \in [Task -> TaskRecord]
  /\ \A t \in Task : tasks[t].state = "Absent" <=> tasks[t] = NoTask
  /\ reports \subseteq ReportRecord
  /\ receipts \subseteq Receipt
  /\ fences \subseteq Session
  /\ DOMAIN plan = Core
  /\ made \in [worker : Nat, task : Nat, message : Nat, report : Nat,
               guard : Nat, plan : Nat]
  /\ batches \in Seq([core : Core, reports : SUBSET Report,
                      tasks : SUBSET Task])

OpenTask(t) == tasks[t].state \in {"Pending", "Running"}

\* A worker that is launching or running has exactly one open task, the one
\* it is on, and the two agree on whether work started; an idle or retired
\* worker has none.  start, finish, report and the rollbacks all rely on it,
\* across spawn, reuse, claim timeouts, cancellations and failures.
OneOpenTask ==
  \A w \in Worker :
    LET worker == workers[w] IN
    /\ {t \in TasksOf(tasks, w) : OpenTask(t)}
         = IF worker.current = None THEN {} ELSE {worker.current}
    /\ worker.state \in {"Provisioning", "Waking", "Running"}
         <=> worker.current # None
    /\ worker.current # None =>
         (worker.state = "Running" <=> tasks[worker.current].state = "Running")

\* The store never refuses its own commit (WorkerStoreData::validate): a
\* recovery guard names a task that compaction has kept, every report has its
\* worker, every worker its family, and the configured limits hold.
ValidateAccepts ==
  /\ \A w \in Worker :
       /\ workers[w].state # "Absent" => workers[w].core \in families
       /\ workers[w].guard # None => tasks[workers[w].guard.task].worker = w
       /\ Cardinality(TasksOf(tasks, w)) <= MaxTasks
       /\ Cardinality(workers[w].inbox) <= MaxInbox
  /\ \A r \in reports : workers[r.worker].core = r.core
  /\ Cardinality(families) <= MaxFamilies
  /\ \A c \in Core :
       /\ Cardinality({r \in reports : r.core = c}) <= MaxQueued
       /\ \A k \in Kind : Cardinality(ReceiptsOf(k, c)) <= ReceiptLimit(k)

\* An identity is bound to at most one worker of all families, never to a
\* worker of the family it is the Core of, and the claimed workers of one
\* family belong to one account, as far as the calls told it.  It is per
\* identity: one conversation seen with its account and without it may hold
\* two workers, or one of the family it is the Core of.
BindingIsExclusive ==
  \A v, w \in Worker :
    workers[v].chat # None =>
      /\ workers[v].chat # workers[v].core
      /\ v # w => workers[w].chat # workers[v].chat
      /\ workers[w].chat # None /\ workers[w].core = workers[v].core =>
           Cardinality({SubjectOf[workers[v].chat],
                        SubjectOf[workers[w].chat]} \ {None}) <= 1

\* The one-time claim capability lives exactly as long as its launch is
\* undecided: claim, timeout, cancellation, failure and retirement all end it.
CapabilityIsOneTime ==
  \A w \in Worker :
    workers[w].token <=>
      workers[w].state = "Provisioning" /\ workers[w].chat = None

\* Each task in the store has exactly one spawn or reuse receipt, so a retry
\* of the call that created it cannot create it twice; and a receipt whose
\* task is gone names one that was delivered, so a retry of a call that was
\* rolled back starts over.
ReceiptsMatchTasks ==
  LET created == {r \in receipts : r.kind \in {"spawn", "reuse"}} IN
  /\ \A t \in Task : tasks[t].state # "Absent" =>
       /\ Cardinality({r \in created : r.id = t}) = 1
       /\ \A r \in created : r.id = t => r.core = workers[tasks[t].worker].core
  /\ \A r \in created : \/ tasks[r.id].state # "Absent"
                        \/ \E b \in DOMAIN batches : r.id \in batches[b].tasks

\* What the store keeps always fits together: types, the checks of validate,
\* and each task with the one receipt of the call that created it.
StoreValid == TypeOK /\ ValidateAccepts /\ ReceiptsMatchTasks

PendingUpdates ==
  [c \in Core |->
     {<<"report", r.id>> : r \in {r \in reports : r.core = c}}
     \cup {<<"task", t>> : t \in {t \in FamilyTasks(workers, tasks, c) :
                                    Undelivered(tasks[t])}}]
DeliveredUpdates ==
  UNION {({"report"} \X batches[b].reports) \cup ({"task"} \X batches[b].tasks) :
           b \in DOMAIN batches}

Mailbox == INSTANCE UpdateMailbox WITH pending <- PendingUpdates,
                                       delivered <- DeliveredUpdates

\* The broker implements UpdateMailbox: compaction, reuse, timeouts and
\* automatic reclaiming neither lose a report or an outcome that waits nor
\* deliver one twice.
ImplementsMailbox == Mailbox!Spec

\* Nothing that retires a worker is undone, and a settled task keeps its
\* outcome: a late finish, mirror update or failure changes neither.
EndsAreFinal ==
  [][/\ \A w \in Worker : workers[w].state = "Retired" =>
          /\ workers'[w].state \in {"Retired", "Absent"}
          /\ workers'[w].chat \in {workers[w].chat, None}
     /\ \A t \in Task : tasks[t].state \in {"Completed", "Failed"} =>
          \/ tasks'[t] = NoTask
          \/ /\ tasks'[t].state = tasks[t].state
             /\ tasks'[t].outcome = tasks[t].outcome
             /\ tasks[t].collected => tasks'[t].collected]_vars

\* A collect batch is replayable from the step that delivers it until
\* MaxCollects newer ones of its family exist; no spawn of another Core
\* reclaims it early, only an explicit clear, purge or cleanup does.
ReplayWindow ==
  [][/\ batches' # batches =>
          \E r \in receipts' : r.kind = "collect" /\ r.id = Len(batches')
     /\ \A r \in receipts \ receipts' : r.kind = "collect" =>
          \/ Cardinality({q \in receipts' : /\ q.kind = "collect"
                                            /\ q.core = r.core
                                            /\ q.id > r.id}) >= MaxCollects
          \/ r.core \notin families' /\ made' = made]_vars

\* Making room for others is lossless: neither a host cleanup confirmed on an
\* older preview nor a reclaim by another Core's spawn destroys an update its
\* Core has not collected, an unread message or a worker that is not done.
ReclaimIsLossless ==
  [][plan' # plan \/ made'.worker # made.worker =>
       \A c \in families \ families' :
         /\ PendingUpdates[c] = {}
         /\ \A w \in WorkersOf(workers, c) :
              workers[w].current = None /\ workers[w].inbox = {}]_vars

\* No limit costs a Core what it still counts on: neither what it has yet to
\* collect nor a batch it may have to ask for again.
CapacityIsLossless == ReclaimIsLossless /\ ReplayWindow

\* README: an assignment not claimed "within two minutes" has its claim
\* capability invalidated (README.md:272).
LateClaimRefused ==
  [][\A w \in Worker : workers[w].wait = "Overdue" =>
       workers'[w].chat = None]_vars

\* The limit message tells a Core to "finish active work and collect pending
\* worker results" to make its family releasable (workers/broker.rs).
DrainedIsReleasable ==
  \A c \in families :
    (/\ \A w \in WorkersOf(workers, c) :
          workers[w].state \in {"Idle", "Retired"} /\ workers[w].inbox = {}
     /\ PendingUpdates[c] = {})
    => SafeToRelease(c)
=============================================================================
