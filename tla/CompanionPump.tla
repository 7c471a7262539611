--------------------------- MODULE CompanionPump ---------------------------
(***************************************************************************)
(* The browser side of a launch: the Companion's service worker            *)
(* (background.js), its content script in the ChatGPT tab (content.js) and *)
(* the host handlers they call (server.rs, companion.rs), around the       *)
(* command broker of ManagedChat.                                          *)
(*                                                                         *)
(* A request may be handled late, after its sender stopped waiting, and    *)
(* its answer may be lost.  A service worker may be restarted, which wipes *)
(* everything but chrome.storage; a tab keeps running meanwhile.  Handlers *)
(* that touch commands hold WORKER_LIFECYCLE_LOCK, and Clear Workers holds *)
(* it while it waits for other browsers.                                   *)
(*                                                                         *)
(* A raised workerClearGeneration makes every running job of the browser   *)
(* return at its next check, so jobs are dropped at once; only a commit    *)
(* already sent to a tab stays, as "abandoned", until the tab answers.     *)
(***************************************************************************)
EXTENDS ManagedChat

CONSTANTS
  MaxAttempts,  \* MAX_RECONCILE_ATTEMPTS
  MaxEpoch,     \* bound on Clear Workers requests (model checking only)
  MaxFaults     \* bound on restarts, lost answers and failures of the tabs

\* A launch may be reconciled at least once before it is paused (the code
\* allows three attempts); the other two are bounds of the model.
ASSUME PumpAssumption ==
  /\ MaxAttempts \in Nat \ {0}
  /\ MaxEpoch \in Nat
  /\ MaxFaults \in Nat

VARIABLES
  paired,     \* browsers whose credential the host accepts
  epoch,      \* worker_reset_epoch
  awaited,    \* worker_reset_pending_clients
  clear,      \* the Clear Workers handler holding the lock, or NoClear
  requests,   \* HTTP requests not yet handled (some never will be)
  pump,       \* per browser: idle, connected (collecting offers), redeeming
  jobs,       \* per browser and command: the processCommand call
  session,    \* sessionReconcileCommandIds
  record,     \* launchRecords: reconcileAttempts, or NoRecord (durable)
  bound,      \* launchRecords: is conversationUrl known (durable)
  seen,       \* state.workerResetEpoch (durable)
  resetting,  \* epoch whose reset is being applied, or NoReset
  clearing,   \* progress of the browser's own clearWorkers call
  tab,        \* what the ChatGPT tab of the launch is doing
  clicks,     \* history: Send clicks by the extension
  marker,     \* commands whose task marker is in the worker's conversation
  fenced,     \* history: (browser, command) pairs a successful clear covers
  faults

hostVars == <<paired, epoch, awaited, clear>>
diskVars == <<record, bound, seen>>
tabVars == <<tab, clicks, marker>>
jobVars == <<pump, jobs, session>>
resetVars == <<resetting, clearing, fenced>>
pumpVars == <<hostVars, requests, jobVars, diskVars, resetVars, tabVars, faults>>
allVars == <<vars, pumpVars>>

NoClear == [by |-> NoClient, covers |-> {}]
NoReset == 0
NoRecord == -1

Phase == {"none", "offered", "inheriting", "prepared", "asking", "askingAgain",
          "granted", "synced", "committing", "abandoned", "observing", "acking"}
NoLaunch == [phase |-> "none", lease |-> NoLease, reconcile |-> FALSE,
          existing |-> FALSE, found |-> FALSE]
Idle == [i \in Id |-> NoLaunch]

PumpInit ==
  /\ Init
  /\ paired = Client
  /\ epoch = 0
  /\ awaited = {}
  /\ clear = NoClear
  /\ requests = {}
  /\ pump = [c \in Client |-> "idle"]
  /\ jobs = [c \in Client |-> Idle]
  /\ session = [c \in Client |-> {}]
  /\ record = [c \in Client |-> [i \in Id |-> NoRecord]]
  /\ bound = [c \in Client |-> {}]
  /\ seen = [c \in Client |-> 0]
  /\ resetting = [c \in Client |-> NoReset]
  /\ clearing = [c \in Client |-> "no"]
  /\ tab = [c \in Client |-> [i \in Id |-> "none"]]
  /\ clicks = [c \in Client |-> [i \in Id |-> 0]]
  /\ marker = {}
  /\ fenced = {}
  /\ faults = 0

-----------------------------------------------------------------------------
(* Requests, jobs and tabs.                                                *)

LockFree == clear = NoClear

Request(kind, c, i, lease, arg) ==
  [kind |-> kind, from |-> c, id |-> i, lease |-> lease, arg |-> arg]

Fault == faults < MaxFaults /\ faults' = faults + 1

InPhase(c, i, S) == jobs[c][i].phase \in S
JobTo(c, i, phase) == jobs' = [jobs EXCEPT ![c][i].phase = phase]
JobOver(c, i) == jobs' = [jobs EXCEPT ![c][i] = NoLaunch]

\* processCommand runs once the whole batch of offers was collected.
Processing(c, i) == pump[c] = "idle" /\ InPhase(c, i, {"offered"})

\* workerClearGeneration += 1: running jobs return at their next check.
AfterBump(c) ==
  [i \in Id |-> IF InPhase(c, i, {"committing", "abandoned"})
                THEN [jobs[c][i] EXCEPT !.phase = "abandoned"] ELSE NoLaunch]

Bump(c) ==
  /\ jobs' = [jobs EXCEPT ![c] = AfterBump(c)]
  /\ session' = [session EXCEPT ![c] = {}]
  /\ pump' = [pump EXCEPT ![c] = "idle"]

\* Faulty ClearedTabs: leaves a pending click in the tab.
KeepsTabs(c) == tab[c]

\* MOONDESK_CLEAR_WORKER_LAUNCHES: the tab forgets the launch and cancels a
\* pending click.
ClearedTabs(c) ==
  [i \in Id |-> IF tab[c][i] = "sent" THEN "sent" ELSE "none"]

\* workerSendCommitInFlight = 0
NoCommitInFlight(c) ==
  \A i \in Id : ~InPhase(c, i, {"committing", "abandoned"})

\* Erases launchRecords, threadRecords and blockedCommands.
EraseRecords(c) ==
  /\ record' = [record EXCEPT ![c] = [i \in Id |-> NoRecord]]
  /\ bound' = [bound EXCEPT ![c] = {}]

-----------------------------------------------------------------------------
(* The pump: connect, redeem a batch, process it.                          *)

\* ensureConnected: a status read that finds no newer reset epoch.
Connect(c) ==
  /\ pump[c] = "idle" /\ clearing[c] = "no" /\ c \in paired
  /\ seen[c] >= epoch
  /\ \A i \in Id : InPhase(c, i, {"none"})
  /\ pump' = [pump EXCEPT ![c] = "connected"]
  /\ UNCHANGED <<vars, hostVars, requests, jobs, session, diskVars, resetVars,
                 tabVars, faults>>

\* One redeem of redeemCommandBatch.
AskRedeem(c) ==
  /\ pump[c] = "connected" /\ clearing[c] = "no" /\ c \in paired
  /\ \A i \in Id : ~InPhase(c, i, {"inheriting"})
  /\ pump' = [pump EXCEPT ![c] = "redeeming"]
  /\ requests' = requests \cup {Request("redeem", c, NoId, NoLease, "")}
  /\ UNCHANGED <<vars, hostVars, jobs, session, diskVars, resetVars, tabVars,
                 faults>>

\* The offer starts a job; a reconciliation this session did not begin is
\* paused at once (pauseInheritedReconciliation).
Offered(c, i) ==
  LET reconcile == commands'[i].history
      inherited == reconcile /\ i \notin session[c]
  IN  /\ jobs' = [jobs EXCEPT ![c][i] =
                    [phase |-> IF inherited THEN "inheriting" ELSE "offered",
                     lease |-> commands'[i].lease, reconcile |-> reconcile,
                     existing |-> ExistingThread(commands'[i].key),
                     found |-> FALSE]]
      /\ pump' = [pump EXCEPT ![c] = "connected"]

\* redeem_companion_command: the offer is heard, or lost on its way back.
HandleRedeem(c, eligible) ==
  LET m == Request("redeem", c, NoId, NoLease, "")
  IN  /\ LockFree /\ m \in requests
      /\ Redeem(c, eligible)
      /\ \/ \E i \in Id :
              /\ commands'[i].lease = issued + 1
              /\ pump[c] = "redeeming"
              /\ Offered(c, i)
              /\ requests' = (requests \ {m}) \cup
                   IF jobs'[c][i].phase = "inheriting" /\ c \in paired
                   THEN {Request("ack", c, i, issued + 1, "paused")} ELSE {}
              /\ UNCHANGED session
         \/ /\ requests' = requests \ {m}
            /\ pump[c] = "redeeming" => issued' = issued
            /\ pump' = [pump EXCEPT ![c] = "idle"]
            /\ UNCHANGED <<jobs, session>>
      /\ UNCHANGED <<hostVars, diskVars, resetVars, tabVars, faults>>

\* redeem_companion_command with nothing to offer: the batch is complete.
HandleRedeemEmpty(c, eligible) ==
  LET m == Request("redeem", c, NoId, NoLease, "")
  IN  /\ LockFree /\ m \in requests
      /\ Offer(commands, c, eligible) = {}
      /\ \A i \in Id : ~commands[i].expired
      /\ requests' = requests \ {m}
      /\ pump' = [pump EXCEPT ![c] = IF @ = "redeeming" THEN "idle" ELSE @]
      /\ UNCHANGED <<vars, hostVars, jobs, session, diskVars, resetVars,
                     tabVars, faults>>

\* A redeem, or the ack of an inherited reconciliation, that fails throws out
\* of redeemCommandBatch: offers already collected are not processed.
BatchFails(c) ==
  /\ IF c \in paired THEN Fault ELSE UNCHANGED faults
  /\ \/ pump[c] = "redeeming"
     \/ \E i \in Id : InPhase(c, i, {"inheriting"})
  /\ pump' = [pump EXCEPT ![c] = "idle"]
  /\ jobs' = [jobs EXCEPT ![c] = Idle]
  /\ UNCHANGED <<vars, hostVars, requests, session, diskVars, resetVars,
                 tabVars>>

-----------------------------------------------------------------------------
(* processCommand, before the Send boundary.                               *)

\* Starts an acknowledgement and waits for its answer; without a credential
\* the request is refused and the job throws.
Report(c, i, outcome) ==
  IF c \in paired
  THEN /\ requests' = requests \cup
            {Request("ack", c, i, jobs[c][i].lease, outcome)}
       /\ JobTo(c, i, "acking")
  ELSE UNCHANGED requests /\ JobOver(c, i)

\* failBeforeSend: placement, record, account, tab or preparation failed.
FailBeforeSend(c, i) ==
  /\ Processing(c, i) /\ ~jobs[c][i].reconcile
  /\ Report(c, i, "failed")
  /\ UNCHANGED <<vars, hostVars, pump, session, diskVars, resetVars, tabVars,
                 faults>>

\* recordForCommand and MOONDESK_PREPARE_WORKER: the durable record exists
\* and the tab remembers the launch, or already shows its marker.
Prepare(c, i) ==
  /\ Processing(c, i) /\ ~jobs[c][i].reconcile
  /\ record' = [record EXCEPT ![c][i] = IF @ = NoRecord THEN 0 ELSE @]
  /\ bound' = IF jobs[c][i].existing
              THEN [bound EXCEPT ![c] = @ \cup {i}] ELSE bound
  /\ LET found == tab[c][i] = "sent" \/ (i \in bound'[c] /\ i \in marker)
     IN  /\ tab' = [tab EXCEPT ![c][i] = IF found THEN "sent" ELSE "ready"]
         /\ jobs' = [jobs EXCEPT ![c][i].phase = "prepared",
                                 ![c][i].found = found]
  /\ UNCHANGED <<vars, hostVars, requests, pump, session, seen, resetVars,
                 clicks, marker, faults>>

\* markSendStarted: at most one repeat, and only after a transport failure.
AskSendStarted(c, i, try) ==
  /\ \/ try = 1 /\ InPhase(c, i, {"prepared"}) /\ UNCHANGED faults
     \/ try = 2 /\ InPhase(c, i, {"asking"}) /\ Fault
  /\ IF c \in paired
     THEN /\ requests' = requests \cup
               {Request("sendStarted", c, i, jobs[c][i].lease, "")}
          /\ JobTo(c, i, IF try = 1 THEN "asking" ELSE "askingAgain")
     ELSE UNCHANGED requests /\ JobOver(c, i)
  /\ UNCHANGED <<vars, hostVars, pump, session, diskVars, resetVars, tabVars>>

\* The request is for the job that waits now.
Awaiting(m, phases) ==
  /\ m.id \in Id /\ InPhase(m.from, m.id, phases)
  /\ jobs[m.from][m.id].lease = m.lease

\* mark_companion_send_started.  An error may also follow the durable commit:
\* the worker store refused the mirrored launch state.
HandleSendStarted(m) ==
  /\ LockFree /\ m.kind = "sendStarted"
  /\ requests' = requests \ {m}
  /\ LET again == commands[m.id].state = "SendStarted"
                  /\ HoldsLease(m.id, m.lease, m.from)
         fresh == commands[m.id].state = "Leased" /\ ~commands[m.id].history
                  /\ HoldsLease(m.id, m.lease, m.from)
         waiting == Awaiting(m, {"asking", "askingAgain"})
     IN  \/ /\ MarkSendStarted(m.id, m.lease, m.from)
            /\ IF waiting THEN \/ JobTo(m.from, m.id, "granted")
                               \/ JobOver(m.from, m.id)
                          ELSE UNCHANGED jobs
         \/ /\ again
            /\ IF waiting THEN JobTo(m.from, m.id, "granted")
                          ELSE UNCHANGED jobs
            /\ UNCHANGED vars
         \/ /\ ~again /\ ~fresh
            /\ IF waiting THEN JobOver(m.from, m.id) ELSE UNCHANGED jobs
            /\ UNCHANGED vars
  /\ UNCHANGED <<hostVars, pump, session, diskVars, resetVars, tabVars, faults>>

-----------------------------------------------------------------------------
(* processCommand, from the Send boundary on.                              *)

\* syncHostWorkerResetEpoch before the click: the status answer shows no
\* newer reset.  (A newer one is BeginReset, which drops the job.)
SyncBeforeCommit(c, i) ==
  /\ InPhase(c, i, {"granted"}) /\ ~jobs[c][i].found
  /\ c \in paired /\ seen[c] >= epoch
  /\ JobTo(c, i, "synced")
  /\ UNCHANGED <<vars, hostVars, requests, pump, session, diskVars, resetVars,
                 tabVars, faults>>

\* The status request fails, or the browser was revoked: the job throws.
SyncFails(c, i) ==
  /\ InPhase(c, i, {"granted"}) /\ ~jobs[c][i].found
  /\ IF c \in paired THEN Fault ELSE UNCHANGED faults
  /\ JobOver(c, i)
  /\ UNCHANGED <<vars, hostVars, requests, pump, session, diskVars, resetVars,
                 tabVars>>

\* The single MOONDESK_COMMIT_WORKER_SEND reaches the tab; commitWorkerSend
\* goes on only if the tab still remembers this launch.
SendCommit(c, i) ==
  /\ InPhase(c, i, {"synced"})
  /\ JobTo(c, i, "committing")
  /\ tab' = [tab EXCEPT ![c][i] = IF @ = "ready" THEN "pending" ELSE @]
  /\ UNCHANGED <<vars, hostVars, requests, pump, session, diskVars, resetVars,
                 clicks, marker, faults>>

\* What the tab's answer makes of the job, if it still waits for one.
CommitAnswered(c, i, phase) ==
  IF InPhase(c, i, {"committing"}) THEN JobTo(c, i, phase)
  ELSE IF InPhase(c, i, {"abandoned"}) THEN JobOver(c, i) ELSE UNCHANGED jobs

\* commitSendOnce presses Send, possibly long after the job stopped waiting.
TabClicks(c, i) ==
  /\ tab[c][i] = "pending"
  /\ tab' = [tab EXCEPT ![c][i] = "sent"]
  /\ clicks' = [clicks EXCEPT ![c][i] = @ + 1]
  /\ marker' = marker \cup {i}
  /\ CommitAnswered(c, i, "observing")
  /\ UNCHANGED <<vars, hostVars, requests, pump, session, diskVars, resetVars,
                 faults>>

\* The tab refuses: another launch, a changed page or draft, no Send button.
TabRefuses(c, i) ==
  /\ InPhase(c, i, {"committing", "abandoned"})
  /\ tab' = [tab EXCEPT ![c][i] = IF @ = "pending" THEN "ready" ELSE @]
  /\ IF InPhase(c, i, {"committing"}) THEN Report(c, i, "paused")
     ELSE UNCHANGED requests /\ JobOver(c, i)
  /\ UNCHANGED <<vars, hostVars, pump, session, diskVars, resetVars, clicks,
                 marker, faults>>

\* Faulty ReconcileOrBlock: off by one at the limit.
ReconcileOnceMore(c, i) ==
  LET attempts == record[c][i] + 1
      exhausted == attempts > MaxAttempts
  IN  /\ record' = [record EXCEPT ![c][i] = attempts]
      /\ session' = [session EXCEPT ![c] =
                       IF exhausted THEN @ \ {i} ELSE @ \cup {i}]
      /\ Report(c, i, IF exhausted THEN "paused" ELSE "needs_reconcile")

\* Faulty ReconcileOrBlock: attempts are not counted.
ReconcileForever(c, i) ==
  /\ session' = [session EXCEPT ![c] = @ \cup {i}]
  /\ Report(c, i, "needs_reconcile")
  /\ UNCHANGED record

\* reconcileOrBlock: the attempt is counted on disk before it is reported.
ReconcileOrBlock(c, i) ==
  LET attempts == record[c][i] + 1
      exhausted == attempts >= MaxAttempts
  IN  /\ record' = [record EXCEPT ![c][i] = attempts]
      /\ session' = [session EXCEPT ![c] =
                       IF exhausted THEN @ \ {i} ELSE @ \cup {i}]
      /\ Report(c, i, IF exhausted THEN "paused" ELSE "needs_reconcile")

\* The 12 s for the commit pass, or the tab's message port breaks.
CommitTimesOut(c, i) ==
  /\ Fault
  /\ \/ InPhase(c, i, {"committing"}) /\ ReconcileOrBlock(c, i)
     \/ /\ InPhase(c, i, {"abandoned"}) /\ JobOver(c, i)
        /\ UNCHANGED <<requests, record, session>>
  /\ UNCHANGED <<vars, hostVars, pump, bound, seen, resetVars, tabVars>>

\* Faulty Accept: takes the tab's word for it.
AcceptBlindly(c, i) ==
  /\ bound' = [bound EXCEPT ![c] = @ \cup {i}]
  /\ Report(c, i, "succeeded")
  /\ UNCHANGED <<vars, hostVars, pump, session, record, seen, resetVars,
                 tabVars, faults>>

\* The conversation shows the launch's task marker.
Accept(c, i) ==
  /\ i \in marker
  /\ bound' = [bound EXCEPT ![c] = @ \cup {i}]
  /\ Report(c, i, "succeeded")
  /\ UNCHANGED <<vars, hostVars, pump, session, record, seen, resetVars,
                 tabVars, faults>>

\* observeWorkerAcceptance gives up, or the page found already sent does not
\* show the launch.
Unsure(c, i) ==
  /\ ReconcileOrBlock(c, i)
  /\ UNCHANGED <<vars, hostVars, pump, bound, seen, resetVars, tabVars, faults>>

Observe(c, i) ==
  /\ \/ InPhase(c, i, {"observing"})
     \/ InPhase(c, i, {"granted"}) /\ jobs[c][i].found
  /\ Accept(c, i) \/ Unsure(c, i)

\* A leased reconciliation only reads: without a confirmed conversation, or
\* when the page cannot be read as this launch, it is paused.
ReconcilePauses(c, i) ==
  /\ Processing(c, i) /\ jobs[c][i].reconcile
  /\ Report(c, i, "paused")
  /\ UNCHANGED <<vars, hostVars, pump, session, diskVars, resetVars, tabVars,
                 faults>>

ReconcileReads(c, i) ==
  /\ Processing(c, i) /\ jobs[c][i].reconcile
  /\ record[c][i] # NoRecord /\ i \in bound[c]
  /\ Accept(c, i) \/ Unsure(c, i)

AckApplies(m) ==
  CASE m.arg = "succeeded" ->
         \E conv \in Conv : AckSucceeded(m.id, m.lease, m.from, conv)
    [] m.arg = "failed" -> AckFailed(m.id, m.lease, m.from)
    [] m.arg = "needs_reconcile" -> AckNeedsReconcile(m.id, m.lease, m.from)
    [] m.arg = "paused" -> AckPaused(m.id, m.lease, m.from)

\* The acknowledge method would accept m.
AckAccepted(m) ==
  LET c == commands[m.id]
  IN  /\ c.state \in {"Leased", "SendStarted"}
      /\ HoldsLease(m.id, m.lease, m.from)
      /\ IF m.arg = "failed" THEN c.state = "Leased" /\ ~c.history ELSE c.history

\* ack_companion_command.  Repeats and stale leases change nothing.
HandleAck(m) ==
  /\ LockFree /\ m.kind = "ack"
  /\ requests' = requests \ {m}
  /\ IF AckAccepted(m) THEN AckApplies(m) ELSE UNCHANGED vars
  /\ IF Awaiting(m, {"acking"})
     THEN /\ JobOver(m.from, m.id)
          /\ session' = IF m.arg \in {"paused", "succeeded"} /\ AckAccepted(m)
                        THEN [session EXCEPT ![m.from] = @ \ {m.id}] ELSE session
          /\ UNCHANGED pump
     ELSE IF Awaiting(m, {"inheriting"})
          THEN /\ \/ AckAccepted(m) /\ JobOver(m.from, m.id) /\ UNCHANGED pump
                  \/ /\ ~AckAccepted(m)
                     /\ jobs' = [jobs EXCEPT ![m.from] = Idle]
                     /\ pump' = [pump EXCEPT ![m.from] = "idle"]
               /\ UNCHANGED session
          ELSE UNCHANGED <<jobs, session, pump>>
  /\ UNCHANGED <<hostVars, diskVars, resetVars, tabVars, faults>>

\* A request of the job fails for good: the job throws.
JobGivesUp(c, i) ==
  /\ InPhase(c, i, {"askingAgain", "acking"})
  /\ Fault
  /\ JobOver(c, i)
  /\ UNCHANGED <<vars, hostVars, requests, pump, session, diskVars, resetVars,
                 tabVars>>

-----------------------------------------------------------------------------
(* Clear Workers: a reset epoch fences every other browser.                *)

\* applyHostWorkerResetEpoch finds a newer epoch; also inside the sync that
\* precedes a commit.
BeginReset(c) ==
  /\ c \in paired /\ seen[c] < epoch /\ resetting[c] = NoReset
  /\ Bump(c)
  /\ resetting' = [resetting EXCEPT ![c] = epoch]
  /\ UNCHANGED <<vars, hostVars, requests, diskVars, clearing, fenced, tabVars,
                 faults>>

\* Every tab with launch authority confirmed; records go before the epoch.
FinishReset(c) ==
  /\ resetting[c] # NoReset
  /\ tab' = [tab EXCEPT ![c] = ClearedTabs(c)]
  /\ EraseRecords(c)
  /\ seen' = [seen EXCEPT ![c] = resetting[c]]
  /\ resetting' = [resetting EXCEPT ![c] = NoReset]
  /\ UNCHANGED <<vars, hostVars, requests, jobVars, clearing, fenced, clicks,
                 marker, faults>>

\* An open tab did not confirm: the epoch stays old, the next status retries.
ResetFails(c) ==
  /\ Fault
  /\ resetting[c] # NoReset
  /\ resetting' = [resetting EXCEPT ![c] = NoReset]
  /\ UNCHANGED <<vars, hostVars, requests, jobVars, diskVars, clearing, fenced,
                 tabVars>>

\* The browser confirms the epoch once it applied it and no commit runs.
AskResetAck(c) ==
  /\ c \in paired /\ c \in awaited
  /\ seen[c] = epoch /\ NoCommitInFlight(c)
  /\ requests' = requests \cup {Request("resetAck", c, NoId, NoLease, epoch)}
  /\ requests' # requests
  /\ UNCHANGED <<vars, hostVars, jobVars, diskVars, resetVars, tabVars, faults>>

\* acknowledge_worker_reset takes no lifecycle lock; a stale epoch is refused.
HandleResetAck(m) ==
  /\ m.kind = "resetAck"
  /\ requests' = requests \ {m}
  /\ awaited' = IF m.from \in paired /\ m.arg = epoch
                THEN awaited \ {m.from} ELSE awaited
  /\ UNCHANGED <<vars, paired, epoch, clear, jobVars, diskVars, resetVars,
                 tabVars, faults>>

\* clearWorkers: the browser fences itself first.
ClearStart(c) ==
  /\ c \in paired /\ clearing[c] = "no"
  /\ epoch < MaxEpoch
  /\ Bump(c)
  /\ clearing' = [clearing EXCEPT ![c] = "tabs"]
  /\ UNCHANGED <<vars, hostVars, requests, diskVars, resetting, fenced, tabVars,
                 faults>>

ClearPost(c) ==
  /\ clearing[c] = "tabs"
  /\ IF c \in paired
     THEN /\ clearing' = [clearing EXCEPT ![c] = "posted"]
          /\ requests' = requests \cup {Request("clear", c, NoId, NoLease, "")}
     ELSE /\ clearing' = [clearing EXCEPT ![c] = "no"]
          /\ UNCHANGED requests
  /\ tab' = [tab EXCEPT ![c] = ClearedTabs(c)]
  /\ UNCHANGED <<vars, hostVars, jobVars, diskVars, resetting, fenced, clicks,
                 marker, faults>>

\* Browsers a clear has to wait for: holders of a send-started lease that
\* were seen recently.
MustConfirm(by) ==
  {c \in paired \ {by} : \E i \in InState(commands, {"SendStarted"}) :
                           commands[i].holder = c}

\* clear_companion_workers up to the wait: the epoch is published and every
\* command removed.
HandleClear(m) ==
  /\ LockFree /\ m.kind = "clear"
  /\ epoch < MaxEpoch
  /\ requests' = requests \ {m}
  /\ epoch' = epoch + 1
  /\ \E fresh \in SUBSET MustConfirm(m.from) :
       /\ awaited' = awaited \cup fresh
       /\ clear' = [by |-> m.from,
                    covers |-> (fresh \cup {m.from}) \X InStore(commands)]
  /\ \/ ClearAllWorkerCommands
     \/ InStore(commands) = {} /\ UNCHANGED vars
  /\ UNCHANGED <<paired, jobVars, diskVars, resetVars, tabVars, faults>>

\* The browser hears the outcome, unless it stopped waiting.
ClearHeard(c) == clearing' = [clearing EXCEPT ![c] = "no"]

\* Every awaited browser confirmed: the clear is reported done.
ClearSucceeds ==
  /\ clear # NoClear /\ awaited = {}
  /\ clear' = NoClear
  /\ LET c == clear.by
     IN  IF clearing[c] = "posted"
         THEN /\ fenced' = fenced \cup clear.covers
              /\ ClearHeard(c)
              /\ EraseRecords(c)
              /\ seen' = [seen EXCEPT ![c] = epoch]
         ELSE UNCHANGED <<clearing, fenced, diskVars>>
  /\ UNCHANGED <<vars, paired, epoch, awaited, requests, jobVars, resetting,
                 tabVars, faults>>

\* wait_for_worker_reset_acknowledgements gives up after five seconds.
ClearConflicts ==
  /\ clear # NoClear /\ awaited # {}
  /\ clear' = NoClear
  /\ ClearHeard(clear.by)
  /\ UNCHANGED <<vars, paired, epoch, awaited, requests, jobVars, diskVars,
                 resetting, fenced, tabVars, faults>>

\* A tab did not confirm, or the request timed out in the browser.
ClearFails(c) ==
  /\ Fault
  /\ clearing[c] # "no"
  /\ ClearHeard(c)
  /\ UNCHANGED <<vars, hostVars, requests, jobVars, diskVars, resetting, fenced,
                 tabVars>>

-----------------------------------------------------------------------------
(* The host's own steps, the user and the browser.                         *)

\* revoke_companion_client: settle, then remove the credential.
Revoke(c) ==
  /\ LockFree /\ c \in paired /\ Cardinality(paired) > 1
  /\ \/ SettleRevokedClient(c)
     \/ (\A i \in Id : commands[i].target # c) /\ UNCHANGED vars
  /\ paired' = paired \ {c}
  /\ awaited' = awaited \ {c}
  /\ UNCHANGED <<epoch, clear, requests, jobVars, diskVars, resetVars, tabVars,
                 faults>>

\* The worker that received the prompt calls start.
WorkerStarts(k, conv) ==
  /\ LockFree
  /\ dedupe[k] \in marker
  /\ ConfirmWorkerStarted(k, conv)
  /\ UNCHANGED pumpVars

HostStep ==
  /\ LockFree
  /\ \/ \E k \in Key, r \in Client \cup {NoClient} :
          r \in paired \cup {NoClient} /\ EnqueueHeld(k, r)
     \/ \E i \in Id : ActivateDispatch(i)
     \/ \E k \in Key : SettleForWorkerRetire(k)
     \/ \E k \in Key : FenceUnclaimedAfterSend(k)
  /\ UNCHANGED pumpVars

\* Nobody works under the lease any more, or its two minutes are too short.
Expire(i) ==
  /\ LeaseExpires(i)
  /\ IF \E c \in Client : jobs[c][i].lease = commands[i].lease
     THEN Fault ELSE UNCHANGED faults
  /\ UNCHANGED <<hostVars, requests, jobVars, diskVars, resetVars, tabVars>>

\* Chrome stops the service worker; tabs and chrome.storage survive.
Restart(c) ==
  /\ Fault
  /\ pump' = [pump EXCEPT ![c] = "idle"]
  /\ jobs' = [jobs EXCEPT ![c] = Idle]
  /\ session' = [session EXCEPT ![c] = {}]
  /\ resetting' = [resetting EXCEPT ![c] = NoReset]
  /\ clearing' = [clearing EXCEPT ![c] = "no"]
  /\ UNCHANGED <<vars, hostVars, requests, diskVars, fenced, tabVars>>

\* The user presses Send on the prepared draft himself.
UserSends(c, i) ==
  /\ Fault
  /\ tab[c][i] \in {"ready", "pending"}
  /\ tab' = [tab EXCEPT ![c][i] = "sent"]
  /\ marker' = marker \cup {i}
  /\ UNCHANGED <<vars, hostVars, requests, jobVars, diskVars, resetVars, clicks>>

\* The user closes the tab.
TabCloses(c, i) ==
  /\ Fault
  /\ tab[c][i] # "none"
  /\ tab' = [tab EXCEPT ![c][i] = "none"]
  /\ UNCHANGED <<vars, hostVars, requests, jobVars, diskVars, resetVars, clicks,
                 marker>>

-----------------------------------------------------------------------------
JobStep(c, i) ==
  \/ FailBeforeSend(c, i) \/ Prepare(c, i)
  \/ AskSendStarted(c, i, 1) \/ AskSendStarted(c, i, 2)
  \/ SyncBeforeCommit(c, i) \/ SyncFails(c, i) \/ SendCommit(c, i)
  \/ TabClicks(c, i) \/ TabRefuses(c, i) \/ CommitTimesOut(c, i)
  \/ Observe(c, i) \/ ReconcilePauses(c, i) \/ ReconcileReads(c, i)
  \/ JobGivesUp(c, i)

PumpStep(c) ==
  \/ Connect(c) \/ AskRedeem(c) \/ BatchFails(c)
  \/ \E e \in SUBSET Anchors : HandleRedeem(c, e) \/ HandleRedeemEmpty(c, e)

ResetStep(c) ==
  \/ BeginReset(c) \/ FinishReset(c) \/ ResetFails(c) \/ AskResetAck(c)
  \/ ClearStart(c) \/ ClearPost(c) \/ ClearFails(c)

Handle(m) ==
  HandleSendStarted(m) \/ HandleAck(m) \/ HandleResetAck(m) \/ HandleClear(m)

PumpNext ==
  \/ \E c \in Client : PumpStep(c) \/ ResetStep(c) \/ Revoke(c) \/ Restart(c)
  \/ \E c \in Client, i \in Id :
       JobStep(c, i) \/ UserSends(c, i) \/ TabCloses(c, i)
  \/ \E m \in requests : Handle(m)
  \/ ClearSucceeds \/ ClearConflicts
  \/ \E k \in Key, conv \in Conv : WorkerStarts(k, conv)
  \/ \E i \in Id : Expire(i)
  \/ HostStep

PumpSpec == PumpInit /\ [][PumpNext]_allVars

\* What a running browser, its tabs and the host get done without a fault.
JobProgress(c, i) ==
  \/ FailBeforeSend(c, i) \/ Prepare(c, i) \/ AskSendStarted(c, i, 1)
  \/ SyncBeforeCommit(c, i) \/ SendCommit(c, i)
  \/ TabClicks(c, i) \/ TabRefuses(c, i) \/ Observe(c, i)
  \/ ReconcilePauses(c, i) \/ ReconcileReads(c, i)

PollProgress(c) ==
  \/ Connect(c) \/ AskRedeem(c)
  \/ \E e \in SUBSET Anchors : HandleRedeem(c, e) \/ HandleRedeemEmpty(c, e)

\* The pump polls on a timer, handlers and tabs answer, leases run out.
PumpFairness ==
  /\ \A c \in Client : WF_allVars(PollProgress(c))
  /\ \A c \in Client, i \in Id : WF_allVars(JobProgress(c, i))
  /\ \A kind \in {"sendStarted", "ack"} :
       WF_allVars(\E m \in requests : m.kind = kind /\ Handle(m))
  /\ \A i \in Id : WF_allVars(Expire(i))

FairPumpSpec == PumpSpec /\ PumpFairness
-----------------------------------------------------------------------------
(* Properties.                                                             *)

\* Every variable has its type.
PumpTypeOK ==
  /\ TypeOK
  /\ paired \subseteq Client /\ awaited \subseteq paired
  /\ epoch \in 0 .. MaxEpoch
  /\ pump \in [Client -> {"idle", "connected", "redeeming"}]
  /\ \A c \in Client, i \in Id : jobs[c][i].phase \in Phase
  /\ session \in [Client -> SUBSET Id]
  /\ record \in [Client -> [Id -> NoRecord .. MaxAttempts]]
  /\ seen \in [Client -> 0 .. epoch]
  /\ tab \in [Client -> [Id -> {"none", "ready", "pending", "sent"}]]
  /\ faults \in 0 .. MaxFaults

\* However requests are delayed, answers lost, service workers restarted and
\* launches reconciled or moved to another browser, the extension presses Send
\* at most once for a command.
ClickedOnce ==
  \A c, d \in Client, i \in Id :
    clicks[c][i] > 0 /\ clicks[d][i] > 0 => c = d /\ clicks[c][i] = 1

\* A command whose Send was pressed is never again one the host may cancel,
\* requeue or record as failed before Send.
ClickIsNeverFresh ==
  \A c \in Client, i \in InStore(commands) :
    clicks[c][i] > 0 => ~CancellablePreSend(commands[i])

\* The one effect that cannot be taken back happens once and is not forgotten:
\* a command is clicked once, and from then on the host treats it as sent.
SendClickedOnce == ClickedOnce /\ ClickIsNeverFresh

\* Success is recorded only for a prompt that is in the conversation.
SuccessWasSeen ==
  \A i \in InState(commands, {"Succeeded"}) : i \in marker

\* In states of the right type, a launch the host records as succeeded is one
\* the launched conversation has read.
SuccessWasDelivered == PumpTypeOK /\ SuccessWasSeen

\* A launch that crossed the Send boundary does not stay open: while its
\* browser keeps polling it is confirmed, or paused for the user to look at.
CrossedSettles ==
  \A i \in Id :
    commands[i].history ~>
      commands[i].state \in {"Absent", "Succeeded", "Failed", "Paused"}

\* A browser whose revocation returned is never told to press Send, not even
\* by a request that was authorized before and waited for the lock.
RevokedNeverGranted ==
  [][\A i \in Id : grants'[i] # grants[i] => commands[i].holder \in paired]_allVars

\* Once a browser hears that its Clear Workers succeeded, neither it nor a
\* browser the host waited for presses Send for a command the clear removed.
NoClickAfterClear ==
  [][\A p \in fenced : clicks'[p[1]][p[2]] = clicks[p[1]][p[2]]]_allVars

=============================================================================
