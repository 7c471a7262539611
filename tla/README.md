# MoonDesk in TLA+

MoonDesk is a Rust desktop host that serves workspaces to ChatGPT over MCP,
with a set of browser extensions.  One chat (the *Core*) can launch other chats
(*workers*) through a paired extension (the *Companion*), give them tasks and
collect what they report.  Every chat may run commands in the background, drive
an isolated browser or, through the Companion, the user's own, and leave handoff
checkpoints.  What has to survive a restart is in JSON files of the host and in
the extension's storage; the one effect that cannot be taken back is a click on
Send in somebody's browser.

The project models the two stores of the worker system, the transactions that
span them and the browser side of a launch in most detail; and beside them the
other parts of the host that keep state of their own: background commands, the
workspace registry, pairing, the request brokers, the isolated browser,
handoffs and the self-update.

Paths below are relative to the repository's `src/` directory unless they name
`npm/`, `extensions/`, `docs/` or `README.md`; there are two `broker.rs`, always
named with their directory.

## The system

| component | code | state it keeps | operations | modelled by |
|---|---|---|---|---|
| command broker | `managed_chat/` | commands, dedupe index, sequence number, leases (durable) | enqueue, activate, cancel, settle, fence, confirm, redeem, send-started, acknowledge, revoke, clear, purge | `ManagedChat` |
| worker broker | `workers/broker.rs`, `types.rs`, `store.rs` | families, workers, tasks, reports, messages, receipts, fences (durable) | spawn, link, mirror, claim, start, report, message, collect, finish, reuse, rollback, retire, recovery guards, cleanup, clear, purge | `WorkerBroker`, `CollectWait` |
| launch transactions | `workers/protocol.rs`, `mcp.rs`, `server.rs` | none of their own: `WORKER_LIFECYCLE_LOCK` and where its holder stands | spawn, reuse, retire, claim, browser answers, recovery, Clear Workers | `WorkerLaunch` |
| Companion launch pump | `extensions/moondesk-worker-companion/background.js`, `content.js` | launch records, blocked commands, reset epoch (`chrome.storage`); jobs (memory); pending click (tab) | connect, redeem, prepare, send-started, commit, observe, acknowledge, reconcile, clear, apply a reset | `CompanionPump` |
| pairing, reset | `companion.rs` | clients, tombstones, origins, reset epoch (durable) | pair, repair, revoke, begin and acknowledge a reset, wait for it | `CompanionAuth`; the reset's effect on launches in `CompanionPump` |
| user browser and recovery brokers | `user_browser.rs`, `worker_recovery.rs`, `user-browser-control.js` | pending requests, epoch (memory) | poll, claim, check, result, execute | `RequestBroker` |
| recovery of a worker | `mcp.rs` (`recover_worker_for_core`), `content.js` | where each attempt stands (memory); recovery guard (durable) | begin, inspect, continue, clear the guard | `WorkerRecovery`; the guard also in `WorkerBroker` |
| command jobs | `command_jobs.rs`, `process_runner.rs` | jobs, request keys, closing workspaces, shutdown flag; each job's events and archive | start, poll, cancel, finish, cleanup, begin and finalize a removal, cancel all | `CommandJobs`, `CommandOutput` |
| workspace registry | `workspaces.rs`, `state.rs` | workspaces, request leases, configuration file | add, rename, rotate, remove, acquire, revoke, drain, flush | `WorkspaceRegistry`, `WorkspaceLeases` |
| handoffs | `handoff.rs` | checkpoint and marker files | create, resume, complete, prune | `Handoff` |
| isolated browser | `browser_runtime.rs`, `browser_cdp.rs` | transport, contexts, owners of pages, lease of the trace | run, release, stop | `BrowserRouting` |
| npm update | `npm/update-manager.js`, `npm/moondesk.js` | lock file, installed version | acquire, release, update, relaunch | `NpmUpdate` |
| managed Chromium | `browser_manager.rs` | cache directory, marker, install lock (files) | verify, lock, download, extract, publish | `BrowserInstall` |
| MCP tools, TUI, tunnel, approval extension, installers | `mcp.rs`, `main.rs`, `ngrok.rs`, ... | files and display state | parsing, drawing, file tools | not modelled |

How they interact:

* A Core calls `workers` through MCP.  A spawn commits a Worker record, then a
  *held* command, then the link between them, then releases the command
  (`workers/protocol.rs:467-643`).  Each of these is its own rename on disk.
* A paired browser polls `redeem`, which gives it a command and a lease.  It
  prepares a tab, asks `send-started`, and only on the answer clicks Send; then
  it acknowledges.  The host mirrors each command state into the Worker record
  (`server.rs`, `sync_worker_launch_from_command`).
* The launched chat calls `claim` with its one-time token, `start` with its
  task, then `report` and `finish`.  `start` confirms the command from the
  other side, in case the browser's answer was lost.
* The Core calls `collect` for reports and outcomes, then `reuse` or `retire`.
* Clear Workers, revocation of a browser, workspace removal, claim timeouts and
  host restarts may come between any two of these.
* The removal of a workspace revokes its request leases and drains them, saves
  the registry without it, and then purges both stores, stops its jobs and
  releases its part of the isolated browser; what fails is retried later.
* A Core that finds a worker silent calls `recover`, which asks the worker's
  browser to inspect the conversation and then to continue it, behind a guard in
  the Worker store.
* Otherwise commands, handoffs, browser requests, the isolated browser, its
  installation and the update keep their state to themselves: they share no
  variable with each other.

What is hard: several browsers and tabs, each restartable, act on one launch;
requests are delayed and answers lost; leases run out while their holder works;
two stores cannot be committed together; receipts and history are bounded, so a
retry may find its first attempt forgotten.  Handlers are futures that the server
drops when the caller hangs up, at any await, while blocking tasks, processes and
Chromium carry on what they were told.  These places are listed under
`hazards` in `PROJECT.json`, each at its line, with the properties that cover it.

## The modules

| module | what it is |
|---|---|
| `SendLedger` | the promise of the command broker, per dedupe key |
| `ManagedChat` | the command broker; `Spec` implements `SendLedger` |
| `ManagedChat_proofs` | theorems about `ManagedChat` |
| `CompanionPump` | EXTENDS `ManagedChat`: browsers, tabs, requests in flight, resets |
| `CompanionAuth` | pairing, revocation and the worker reset |
| `Companions_proofs` | theorems about `CompanionPump`, over those of `ManagedChat`, and about `CompanionAuth` |
| `UpdateMailbox` | the promise of the worker broker about reports and outcomes |
| `WorkerBroker` | the worker broker; `Spec` implements `UpdateMailbox` |
| `WorkerBroker_proofs` | theorems about `WorkerBroker` |
| `WorkerLaunch` | instances of both brokers, and the transactions between them |
| `WorkerLaunch_proofs`, `LaunchOrder_proofs` | theorems about `WorkerLaunch`, over those of both brokers |
| `CommandJobs` | the manager of background commands and their processes |
| `CommandOutput` | the readers, archive, events and pollers of one command |
| `CollectWait` | the waiting of `collect` |
| `AskService` | what a request broker promises its callers |
| `RequestBroker` | requests to a browser, of the user or of a recovery; implements `AskService` |
| `WorkerRecovery` | EXTENDS `AskService`: the recovery of a silent worker |
| `Requests_proofs` | theorems about these three |
| `RequestGate` | what a workspace's runtime promises its removal |
| `WorkspaceLeases` | its atomics and its drain; implements `RequestGate` |
| `Wakeups` | EXTENDS `CollectWait`, `WorkspaceLeases` and `CommandOutput`: what they share as sleepers |
| `WorkspaceRegistry` | changes, flushes and removals of workspaces |
| `Handoff` | checkpoint and marker files |
| `BrowserRouting` | pages and traces of the chats that share one Chromium |
| `Runtimes_proofs` | theorems about `Wakeups`, `CommandJobs` and `BrowserRouting` |
| `BrowserInstall` | the installation of the managed Chromium by several processes |
| `NpmUpdate` | the self-update by several processes |
| `Files_proofs` | theorems about `NpmUpdate`, `Handoff`, `BrowserInstall` and `WorkspaceRegistry` |
| `MC*` | instances for TLC |

### ManagedChat

A command is named by its sequence number.  Every public method of
`managed_chat/broker.rs` is one action, because it holds the mutex from its
first read to the publication of the candidate it renamed into place
(`commit_candidate`); a method that returns an error changes neither disk nor
memory and is no step.  Expiry of a lease is an action that marks the lease
(`expired`); the change it causes is made by the next redeem, as in the code.
`Redeem` enumerates which anchors' conversations the browser has open.
`grants` is a history variable: the leases whose holder was told it may press
Send.  Text, models, projects and the reasons of failures are left out.

### CompanionPump

A job is one call of `processCommand`; its phase is the `await` it stands at.
A request is handled when some `Handle` step takes it, possibly after its sender
gave up; an answer may be lost (a fault).  `record`, `bound` and `seen` are in
`chrome.storage` and survive `Restart`; `jobs`, `session` and `pump` do not; the
tab lives on.  The host's handlers wait for `WORKER_LIFECYCLE_LOCK`, which Clear
Workers holds while it waits for other browsers (`LockFree`).  `clicks`,
`marker` and `fenced` are history variables: clicks by the extension, prompts
that are in the conversation, and what a successful clear covers.

Simplified: a raised `workerClearGeneration` drops the jobs at once instead of
at their next check; authorization comes before the lifecycle lock; a reset
works on the records present when it starts; a revoked browser does not pair
again; only a Clear whose requester hears of its success promises anything; a
client that is not freshly present or holds no send-started lease is not waited
for, as in the code.  The expiry of a lease its job still works on counts as a
fault.

### WorkerBroker

Workers, tasks, messages, reports and batches are numbered in order of
creation, which is also the order of their receipts.  A command is named by
the task it launches.  What the command broker tells it is an input (`Mirrored`,
the launch states `sync_worker_launch_from_command` can produce).  `wait` is the
claim deadline: not set, set, or passed; passing is an action of its own and
only the sweep looks at it.  `plan` is a cleanup preview already shown.
`batches` is a history variable.

Who calls is a `ChatIdentity`: the digest of the session and, if the call told
it, that of the account (`workers/types.rs:75`).  `Core` and `Chat` are such
identities; `SessionOf` and `SubjectOf` take them apart.  One conversation seen
with its account and without it is two identities to every comparison of the
broker (`workers/broker.rs:2116`, 2130, 2753, 2797), so `BindingIsExclusive` is per identity: the
same conversation may be bound to two workers, or to one of the family it is
itself the Core of, if it was seen both ways.  Only the fences of cleared
workers are kept per session.

Left out: the text of tasks and reports, display ids, `attachment_state` and
the activity log (shown to people, never decided on), input fingerprints (a
replay with other input is an error, so no step), `TaskState::Blocked` (never
assigned), `clear_session_digest` (`clear_family_for_anchor` over all
workspaces), and workspaces other than one.

### WorkerLaunch

Both brokers' actions, called by handlers that hold the lifecycle lock; `lock`
says what its holder does next.  `Crash` may come at any step and a commit may
fail instead of being made (`MaxFaults` of both together), after which the
handler takes the code's error path.  `recover_incomplete_launch_transactions`
may be cut short, so each of its repairs is a step, and spawn, reuse and retire
are guarded by there being nothing left to repair and no conflict
(`RecoveryRefuses`).  A reused worker can only `start` if its assignment was
sent, since it learns its task id from the prompt.  `sends` records the
commands of each task that were told to press Send; `halfCleared` marks a Clear
Workers cut short between the two stores and not repeated.

One Core, one workspace, and every conversation seen under one identity
(`SessionOf` is the identity function there); messages, reports, collect and recovery guards are left
to `WorkerBroker`; an error of the confirmation by `start` is ignored, as in the
code; the revocation of a browser stops at its credential.  A claim reads a
snapshot of the command store before it takes the lock (`mcp.rs:2953`) and decides
on it; here its check and its effect are one step.

### CollectWait

The long poll: a call enables its future, collects under the store's lock and
sleeps until a change notifies it.  What a batch delivers is `WorkerBroker`'s
subject; here an update is one of a count.  A Core whose drained family is
reclaimed by another Core's spawn is not notified and hears of it at its
deadline, when there is nothing left to deliver.

### CommandJobs and CommandOutput

A job is a record of the manager and a task.  `job[j].task` is the await of
`run_job` the task stands at; `root`, `group` and `holder` are its processes: the
shell, the others of its process group, and a descendant that left the group
(`setsid`) and so survives the kill (`process_runner.rs:63-66`).  `start` holds
`start_lock` from its checks to the registration, hence one step with its
clean-up.  Time is abstracted: the windows of a request key and of a finished
job pass at any moment.  `CommandOutput` is one job seen closer, without the
lock: its two readers share the archive budget through a compare-and-exchange,
and callers page through events that are dropped behind them.

Left out: decoding, reading an archive back, `run_command`, the shells, and the
notices the host itself appends to stderr (`command_jobs.rs:1420`, 1441, 1482, 1500):
for a failed read, a command that did not start, a failed wait or a timeout, through
the same `append_output`.  The one for a timeout or a failed wait comes while the
readers still run, from a third writer of the archive and the events.

### RequestBroker

`service` says which of the two brokers a behaviour is about.  An ask goes
through `pending` (queued, claimed, gone), the caller's channel and the
browser's pump; a caller's timeout and the lock it takes afterwards are two
steps.  Dropped callers, lost answers, restarts of either side, revocation and
pairing again are faults.

`AskService` is what remains of it for a caller: handed out once and before the
deadline, acted on once and only if handed out, and answered by the report, by
the removal of the browser, or after the deadline by what the broker still knew.
The mapping leaves out queued requests past their deadline (`LivePending`), which
stay in the queue of one broker and are pruned from the other's.

### WorkerRecovery

A call of `recover_worker_for_core` makes two requests of `AskService`.  `fence` is
the recovery guard; `started_at_ms` tells whose it is.  The page is its number of
turns and whether one is generated; what its script decides follows
`continueWorkerRecovery` in order.  Other checks that only refuse a call (no online
browser, a tab that reports a turn of an active worker) are left out: a call may
come when none of them refuses.

### CompanionAuth

A change is a copy of the state made under the lock, saved by a blocking task
and published when the task is awaited.  `change` is the one that holds the
lock; `loose` are saves whose handler was dropped.  A browser applies a reset by
dropping its launches and acknowledges the epoch; Clear Workers waits for all
that are present.  Tokens, digests and the freshness of presence are left out:
a request is authorized before the lock and handled under it.

### WorkspaceLeases and WorkspaceRegistry

`WorkspaceLeases` takes each atomic access and each step of `drain` (look,
enable, look again, sleep) by itself and implements `RequestGate`.  It orders all
accesses in one sequence; the code uses acquire and release, and the barriers of
`notify_waiters` and of the timeout stand between the store of `revoke` and the
load of `drain`.  `WorkspaceRegistry` takes the drain as waiting for the leases;
`op` and `flush` stand where a change or a flush of the settings holds
`workspace_mutation_lock`.  `promised` and `removed` are what callers were told;
`cutOff` are the workspaces that a removal took out of the file without telling
so, because the host stopped in the middle of it or the write failed past its
rename.  `ReportedIsDone` keeps every other reported workspace both in memory and in
the file until its removal is reported; the second case is noted under Findings.

Left out: parsing and migration of the configuration, statistics, paths.

### Handoff

A file per checkpoint and an empty file for each of resumed, superseded and
completed, published by renames in the code's order, any of which may fail or be
followed by a crash.  `created_at` is a wall clock compared as text, and may step
back.  The content and `list` (a read) are left out.

### BrowserRouting

`turn` is the call that holds the operation mutex and the await it stands at.
`tabs` says of each page whose call or page opened it (`by`), whose call was to
claim what was new just then (`during`), whether it is the work of a call that was
dropped before (`late`), and whose it is (`owner`); of these the host knows the
owners only, which with `used` and `active` are the routing state.  A dropped caller
lets the mutex go; what it had sent (open a page, start or end a recording) is in
`afloat` and may still be carried out.  Chromium may die under any call, and the
next one starts it anew with no pages.

`ChatsStayApart` says that a chat owns only what opened during a call of its own,
and that a recording shows only the chat that has the lease and its unclaimed
pages.  Whose page opened during the call it does not say: what another chat's
page, or a dropped call's command, opens in the workspace while a call is about
to claim becomes that call's page (noted under Findings).  A recording may also have
in sight what a call of another chat, dropped before the trace, opens late; nobody
owns that page.  A dropped start of a trace keeps the lease and keeps other
chats out until its owner acts or its page goes; of a restart only the chat is told
whose call caused it.  Left out: what commands do in a page, staging of files, the
steps of `fill_form`.  An interrupted shutdown is taken to kill Chromium.

### BrowserInstall

Several processes (or calls of one) over one cache directory.  The check without
the lock reads a marker and then file by file; publishing runs without an await,
so only a crash comes between its renames.  A dropped call lets go of the lock
while its extraction goes on in its own staging directory.  `mixed` are the calls
whose check spans a change of the directory: they may take the new directory for
verified by the old marker, and `ToldKeepsItsBrowser` leaves them out.

### NpmUpdate

Every wrapper is a process; they share the lock file, the installed package and
the registry.  The lock file is made empty and named in a second step, and
removed by its path.  A killed wrapper may leave its npm running.

### The instances

`MCParts` holds ten components that share no state; `part` picks the one a
behaviour is about, and the others stay at their start; in its recovery part the second attempt makes no
requests, since all it does to the first it does through the fence.
`MCCompanions` (a launch, or pairing) and `MCSettling` (a launch, or command jobs)
are put together in the same way.  `MCManagedChat` and
`MCWorkerShapes` run several instances of one module at once: a behaviour keeps
to the shape it starts with, and a shape only forbids what exceeds its bounds.

## The runs

| run | instance | what it shows |
|---|---|---|
| `managed_chat` | "race": the launch and the reuse of one thread, 2 browsers, 2 conversations, 3 sequence numbers, 3 leases; "history": 3 launches of 2 threads, 1 browser, history limit 1 | the store stays sound, Send is granted once, a route past Send is pinned, compaction drops only old settled commands, and the broker implements `SendLedger` |
| `companion_pump` | 2 browsers and either 1 launch, 2 leases, 1 Clear Workers, 1 fault and after it 2 requests at a time; or their pairing, 2 events | one click per command, no click forgotten, revocation and Clear Workers effective; `ResetIsExact`, `OnlyLateSavesRestore` |
| `settling` | either 1 browser reusing a thread, 8 leases, 3 attempts, 2 faults; or 2 workspaces of which one is removed, 2 jobs, 1 key, room for 1 active and 1 finished job; fair | a launch past Send is settled in the end, success only for a delivered prompt; no running job escapes registration or a stop, an ended job left nothing behind, a key starts one job, jobs end |
| `worker_lifecycle` | "lives": 2 workers, 3 tasks, 2 operation ids, every mirrored state; "bindings": 2 Cores, 2 workers, 2 conversations of different accounts, each also seen without its account | one open task per worker, a capability used once, an identity serves one worker and a family one account, ends are final |
| `worker_delivery` | "deliveries": 1 worker, 3 tasks, 2 reports, 1 message, 3 batches of one, window 1; "cleanups": 2 Cores, room for one family, 1 recovery guard, a preview confirmed late | the refinement of `UpdateMailbox`, `validate` never refuses, making room destroys nothing anybody waits for |
| `worker_launch` | 2 workers, 2 tasks, retries, 3 commands, 2 leases, 2 faults with one task and 1 with two | across crashes between the stores: one Send per task, no Send without owner, no sent task undone, the mirror never ahead, clean without faults, refusals harmless |
| `parts` | ten small components, see below | 13 properties, listed below |
| `worker_late_claim` | 1 worker | finding: a claim after the two minutes is accepted |
| `worker_releasable` | 1 worker | finding: a drained family that can never be released |
| `request_broker` | 1 pending request of 2, no fault | finding: "not dispatched" said of what was carried out |
| `recovery_fence` | 1 attempt, 1 loss | finding: the fence of a claimed continuation is cleared |
| `late_save` | 2 browsers, 2 events | finding: a revoked browser is paired after a restart |

The parts, with their bounds and properties:

| part | bounds | properties |
|---|---|---|
| `CommandOutput` | reads of 1 or 2 bytes, archive 1, buffer 2, page 1, 2 events | `OutputIsComplete`: archive and events account for every byte, what is lost is said to be; `NoLostWakeup` |
| `CollectWait` | 2 families, 2 calls, batches of 1, 2 updates | `NoLostWakeup` |
| `WorkspaceLeases` | 3 requests | `ImplementsGate`, `NoLostWakeup` |
| `WorkspaceRegistry` | 2 workspaces, requests in one at a time, 1 retry, and two of: a fault, a change of the settings, a change of a workspace | `OpenOrRemoved`, `ReportedIsDone`: what was said to be added or changed stays in memory and in the file until it is removed, what was removed stays away, and a removal that returned left nothing it will not retry |
| `RequestBroker` | both services, 2 asks, room for 1, 1 fault | `ActsAsTold`: an ask is carried out once at most, and only the known race lets a caller hear otherwise; `ImplementsService` |
| `WorkerRecovery` | 2 attempts, and two of: a loss, a call of the worker, a turn | `PromptIsFenced` |
| `BrowserInstall` | 2 calls, 2 files, 2 failures | `ToldKeepsItsBrowser` |
| `Handoff` | 3 handoffs, 1 retained, 2 times, 2 faults | `OneCurrentHandoff` |
| `NpmUpdate` | 2 wrappers, 3 versions, 1 fault | `OnlyATearLetsTwoIn`, `NeverDowngrades` |
| `BrowserRouting` | 3 chats in 2 workspaces, 2 pages per Chromium, 1 command afloat, any number of restarts | `ChatsStayApart` |

Bounds.  Two of each actor are enough for every race of the code, which always
compares one lease, worker, family, job or file with one other; a third sequence
number, task, request, handoff or version is there so that something is
compacted, replayed, pruned or updated after the first two, and a third chat so
that a workspace has two and another exists.  What a bound keeps from meeting in
one behaviour (the third of three events, a second fault) meets in the theorems,
which have no bounds.  The code's limits (256 commands, 16
terminal, 32 affinities, 64 families, 16 collect receipts, ...) are constants, set
to one or two so that every limit is met.  `worker_launch` sets `MaxHistory` and
`MaxAffinity` to 0: a succeeded command is gone at the next launch, where the
program needs more than 48 newer ones (up to 512 workers may be live).  A limit
on what is ever created (`MaxSeq`, `NumTasks`, `Jobs`, the fault counters, ...)
ends the behaviours, so deadlock is not checked in any run.  Symmetry is used
only where no liveness is checked, over operation ids or browsers that appear in
nothing but equality.

Fairness.  `settling`, of a launch: the pump polls on an alarm, so a browser that
stays open connects and redeems again; handlers answer; a tab that was asked
answers; a lease runs out.  `PumpFairness` is weak fairness of these.  Restarts,
lost answers, closed tabs and what a person does are not fair, and are bounded.
The host is assumed to be up and the browser paired.  Of the jobs: weak
fairness of each job's task, which the runtime polls and whose timer fires.
Processes exit when they like and nobody has to cancel, so `JobEnds` rests on the
timeout and the kill; it leaves out a job whose pipe a detached descendant holds
for ever, which `command_jobs.rs:1497` waits for without a bound.

Each property has at least one mutant in `PROJECT.json`: a plausible slip in the
code, under which the property fails in its own run.

## Findings

1. `worker_late_claim`.  `README.md:272` says an assignment not claimed within
   two minutes has its claim capability invalidated.  `claim_worker_attested`
   (`workers/broker.rs:2138`) looks at the launch state and the token, not
   at the deadline; only a sweep (a presence post or a local status call) does.
2. `worker_releasable`.  A worker retired before its launch was sent keeps
   launch state Queued or Preparing, which
   `family_is_safe_for_explicit_host_cleanup` (`workers/broker.rs:2865`)
   refuses for ever, while the limit error tells the Core that finishing and
   collecting is enough.
3. `request_broker`.  `execute` says `USER_BROWSER_NOT_DISPATCHED`
   (`user_browser.rs:309-317`) whenever its entry is gone when it has the lock
   after its timeout; `result` may have removed the entry of a request that was
   carried out in between.  `worker_recovery.rs:201` does the same, against its
   own comment at line 242.  `BrokersActAsTold` proves that this race is the only way.
4. `recovery_fence`.  `remove_companion` answers a claimed recovery with a value
   that carries the error text (`worker_recovery.rs:232`) and not with an error;
   `recover_worker_for_core` looks for the error (`mcp.rs:2555`), takes the value for
   a failed continuation, clears the fence and says a retry is safe, while the
   browser may still press Send.  `PromptIsFenced` names the other two ways an
   attempt is misled, and `PromptsAreFenced` proves that there are no more.
5. `late_save`.  `companion.rs:689` says only Manual Repair removes a tombstone.
   The save of a dropped pairing handler may replace the file of the revocation
   that followed (`companion.rs:1036`), and the next start loads the browser as
   paired.  `RevokedStaysRevoked` proves that nothing else brings it back.

Noted without a run:

* `docs/WORKERS_RELIABILITY_RECOVERY_PLAN.md:118` says an idempotent spawn retry
  returns the same lifecycle.  Once its command was compacted
  (`managed_chat/broker.rs:1147`) the retry enqueues another held command, which
  the link refuses (`workers/broker.rs:498`); cut short there, the leftover makes
  recovery refuse every spawn, reuse and retire of the workspace
  (`workers/protocol.rs:277`).  `RefusalIsHarmless` shows the leftover is never
  offered to a browser.
* The same document (from line 135) wants a browser's authorization revoked
  before its commands are settled; `server.rs:835-889` settles first.
  `RevokedIsNotTold` proves that it is not told to press Send all the same.
* A wrapper that reads the lock file between its creation and its naming takes it
  for stale, removes it (`npm/update-manager.js:733`), and both run npm
  (`torn` in `NpmUpdate`); `acquireInstallLock` of `npm/install-binary.js` has the
  same window, behind a checksum.
* A dropped tool call leaves its entry in `user_browser.rs:279` pending, and the
  broker answers BUSY once enough of them stay until a restart.  A poll that
  was authorized before a revocation and handled after it binds the browser
  again, for up to 75 seconds.
* `revoke()` and a change of epoch call `.map(release)` in
  `user-browser-control.js` (244, 679), which hands the array index on as
  `removeOverlay`.
* Any error of the save makes a removal answer that it "was not persisted and the
  workspace was re-enabled" (`state.rs:2494`).  The save can fail past its rename, in
  `set_permissions` (`state.rs:442`): the workspace is then in memory only, nothing
  marks the configuration as unsaved, and without a later save the next start
  has lost it.  `cutOff` names this case; `ReportedStaysDone` proves that apart from a
  stop in the middle of a removal it is the only way to lose what was reported.
* `docs/BROWSER_RUNTIME_ARCHITECTURE_HARDENING.md:111` says that new pages are
  attributed "to the conversation that initiated the action".  `reconcile_pages`
  (`browser_runtime.rs:1225`) gives the acting chat whatever is new in the
  workspace's context since its list, also what another chat's page, or its
  dropped call, opened.  `ChatsKeepApart` proves that it has to open during the call.

## The proofs

Eight modules prove, for every value of the constants their assumptions allow,
all 38 safety properties the passing runs check; the other two are liveness.  The
argument is the same each time: the property is not inductive, an invariant is
that also says what holds while an operation is under way, one lemma per action
keeps it, and the property follows.

`ManagedChat_proofs`, over `IInv`:

* `Invariant`, and from it `Typing`, `SendOnce`, `StoreStaysValid`, `IndexStaysExact`,
  `HistoryIsExact`, `HeldNeverSent`, `LeasesAreExclusive`, `ReuseIsBound` and
  `StoreStaysSound`.  "At most one lease is told to press Send" survives a new
  grant only if a command that was granted before is never leased as fresh
  again.  So `IInv` ties, per command (`StateOK`), the state to the lease, the
  lease to its holder, `history` to the grants, and adds that numbers not handed
  out yet are blank, that the dedupe map and the commands point at each other,
  and that no two commands hold one lease.  Operations that change one command
  in place share `OneCommand`, those that remove commands share `Removal`.
* `RoutesAreKept`: a pinned command keeps its browser and its pin in every step but the
  revocation of that browser and the fencing of that launch; and
  `RoomCostsOldSettled`: what enqueueing drops is settled, with `MaxHistory` newer ones
  that are settled too.
* `Refinement` (`Spec => ImplementsLedger`): each operation, seen per key, is a
  step of `SendLedger` or a stutter, using `IInv` to know which command a key means.

`Companions_proofs`, over `IInv` and `PumpInv`:

* `PumpInvariant`.  A job holds a lease of its own, and past the boundary the
  one that was granted (`JobLeases`), so an old job or a delayed answer cannot
  pass for a new one.  The right to press Send, in a job, as a pending prompt in
  a tab or used up, exists once, after a grant, and while it exists no job that
  could still be granted is left (`OneRight`).  What a revoked browser asked
  under, it does not hold (`RevokedOut`).  A browser that clears starts nothing
  (`ClearingIsQuiet`), and what a clear covers is gone from the store and silent
  in every browser that applied its epoch, acknowledged it or is not waited for
  (`ClearIsSound`, then `FencedIsSilent`).  An ambiguous outcome is counted below
  the limit (`AttemptsOK`).  Two lemmas say what the broker's operations may do
  to a command (`Fades`, `CommandGoes`), and serve all actions that reach it.
* `OneClick`, `SuccessIsDelivered`, `RevokedIsNotTold` and `ClearedStaysSilent` from it,
  and `PumpIsABroker` (`PumpSpec => Spec`): browsers, tabs and user do to the store
  only what the broker's specification has, so its theorems hold here too.
* `AuthInvariant`, `RevokedStaysRevoked`: memory, the file, every save under way and
  every save not overtaken respect the tombstones.  `ResetInvariant`, `ClearIsExact`:
  epochs grow and each acknowledgement on its way is of an epoch that was applied,
  until a late save has replaced a later one, from where on nothing is claimed of
  acknowledgements; and a waiter is told, or about to be.

`WorkerBroker_proofs`, over `StoreInv`:

* `StoreInvariant`.  A worker is on its current task and a task with its worker
  (`Life`), identities and accounts are bound once (`Binding`), a task has the
  receipt of the call that made it until it was delivered (`Receipts`), and every
  limit holds (`WithinLimits`).  `compact_family_history` runs inside most
  operations, so the invariant speaks of the maps an operation has built and one
  lemma says what compaction does to them.
* `TasksAreOwned`, `CapabilityEnds`, `BindingsAreExclusive`, `StoreIsValid` (so
  `validate` never refuses a commit) and `RetiredAndSettledAreFinal`.
* `UpdatesAreKept`: `Spec` implements `UpdateMailbox`; each update is delivered to its
  Core once, over `MailInv`.  `RoomLosesNothing`: making room costs nobody what it
  waits for or may ask for again, over `ReplayInv`.

`WorkerLaunch_proofs`, over `LaunchInv`.  Both stores are instances there, so the
theorems of `ManagedChat_proofs` and `WorkerBroker_proofs` are instantiated too (`QP`,
`SP`), and what a commit does to its own store is cited from them:

* `LaunchInvariant`.  Beside the invariants of the two stores (`Stores`) it says what no
  store can: a command's `history` is what was sent for its task (`CommandRight`), a
  worker is linked to a command of the task it is on (`LinkRight`), counts as sent only
  when its assignment was (`RecordRight`), and nothing but the linked command, and no
  second one, was or may yet be offered for a task (`OffersLinked`, `TaskRight`); what
  may still be sent has a worker that waits for it (`Owned`, but for a Clear Workers
  under way or cut short); and for each await what the handler that holds the
  lock may count on before its next commit (`HeldLock`).
* `SendsOnce`, `MirrorLags`, `RefusesHarmlessly` and `SentKeepsOwner` from it. The last
  leaves out the states of a Clear Workers that was cut short and not repeated
  (`halfCleared`), where a released command may have lost its worker, and the step of
  Clear Workers itself, which removes sent tasks because it was told to.
* `StoresStayLevel` (`LaunchOrder_proofs`), over a second invariant,
  `OrderlyUnlessFault`: as long as no commit failed and the host did not stop, no
  handler is on the error path of a launch already linked (`Orderly`), a held
  command belongs to the handler at work (`HeldAtHand`), and every launch that waits
  is either level with its command (`Settled`) or the one at hand and no further than
  its handler (`UnderWay`).  It needs `LaunchInv` in every step, and gives that recovery
  then finds nothing to do.
* `LaunchesAreBrokerSteps` (`LaunchOrder_proofs`): `Spec => QP!Spec /\ SP!Spec`.  With
  `LaunchInv` for the arguments (the key of the handler at work, the command behind
  a link, what a command may be mirrored as) each step is, to each store, an operation
  of its broker or none.  So every theorem about either broker holds of launches,
  and `LaunchesKeepPromises` cites the two refinements: the composed system
  implements `SendLedger` and `UpdateMailbox`.

`Requests_proofs`:

* `ServiceActsAsTold`: `AskService` keeps `ActsAsTold`, which excepts the answer taken
  just before its caller's timeout looks (finding 3); `BrokersImplementService`: both
  brokers implement it.  A claim that was granted is on the wire, in the
  hands of the pump or spent (`Standing`), so a request is not acted on twice.
  `BrokersActAsTold` follows from the two.
* `PromptsAreFenced`: over the service, whose promises are all it needs, an
  attempt that prompted the worker holds the fence until its grace is over, or was
  misled in one of the ways `PromptIsFenced` names (one is finding 4).

`Files_proofs`:

* `NpmInvariant`, `LockSerialises`, `VersionsOnlyGrow`.  Unless a lock was torn or a
  wrapper died, whoever works under the lock is the living owner the file
  names, and the one npm under way is awaited and newer.
* `OneHandoffIsCurrent`.  Between its renames a creation has the active checkpoints
  among those it still supersedes (`MutationOK`).
* `ToldKeepTheirBrowser`.  Whoever works towards a new directory has seen under the
  lock that there is no sound one (`CallOK`), so a sound one is not replaced.  Of a
  call whose check spanned a change of the directory (`mixed`) nothing is claimed.
* `RegistryInvariant`, `OpenUntilRemoved`, `ReportedStaysDone`.  What an operation is about
  to write is the registry in memory with its own change, a failed save leaves the
  settings dirty, a removal past its drain keeps its workspace closed, and what was
  promised is missing only where a removal was cut off (`ReportedIsThere`).

`Runtimes_proofs`, about the jobs, the browser, and three that look at the state and
then sleep:

* `LeasesInvariant`, `LeasesTyping`, `DrainAlwaysWoken`, `LeasesImplementGate`.  The
  counter is the number of requests between their addition and their
  subtraction; from that, a drain that saw zero after the refusal saw every lease.
* `CollectInvariant`, `CollectorAlwaysWoken`.  It has to speak of calls that are
  still deciding, not only of those asleep: the change may come in between.
* `OutputInvariant`, `NothingPrintedIsLost`.  What both readers archived and
  reserved is within the budget in use (`BudgetInv`), the events kept are
  the last ones without a gap (`EventsInv`), and a page ends at an event
  (`PagesInv`; the least event past a caller's is `LeastNat`, from the library's
  well-founded order of the naturals).
* `NoWakeupIsLost`, from all three.
* `JobsInvariant`, `JobsTyping`, `JobsNeverEscape`, `EndedLeavesNothing`, `KeyStartsOnce`.  The
  invariant adds that a key names jobs of its own workspace (`KeysStayHome`) and
  what a job's record and processes are at each await of its task (`TaskShape`).
* `RoutingInvariant`, `ChatsKeepApart`.  What is new to a call that is about to
  claim opened during it (`ClaimsAreOwn`), and while Chromium records, or a start is afloat, the
  lease names the chat and no call of another is past the gate (`LeaseGuards`).  The
  lemmas follow the ways pages change (`ReconcilesPages`, `PagesShut`, `PageOpens`) and
  then the actions.

Assumptions.  They are the ASSUMEs of the models: limits and bounds are natural
numbers, some of them at least 1 as in the code (`PumpAssumption`: an ambiguous launch is
reconciled at least once; `ReplaysSome`: a collect receipt is kept), a chunk that is
read fits the event buffer (`OutputAssumption`), and what stands for "none" is not
one of the things (`NoClient`, `NoFence`, `Nobody`, `NoJob`).  Sets are finite only where
members are counted or where the model's bound needs it; nothing bounds them.

Only model-checked: liveness (`CrossedSettles`, `JobEnds`), which is beyond the
backends.  Nothing in the proved modules is recursive, and no theorem needs
induction over data.

## Not modelled, and why

* Drawing, key handling, tool schemas, the tunnel, installers, themes: no state that
  another component decides on.  The file tools of `mcp.rs` and
  `workspace_tools.rs` are sequential functions over the file system.
* DOM heuristics (`chatgpt-dom.js`, the approval extension): what ChatGPT's page
  does is not in this repository; `CompanionPump` takes their verdicts as inputs.
* Provider correlations observed by the pages, and the freshness of presence.
* fsync and file permissions: the models trust that a rename is atomic.

## Plan

Done: everything in the tables above.  What is worth
modelling next: correlations (`companion.rs:890`), the claim's early snapshot
(`mcp.rs:2953`) in `WorkerLaunch`, and which tab a user browser operation is given.
