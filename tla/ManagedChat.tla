---------------------------- MODULE ManagedChat ----------------------------
(***************************************************************************)
(* The durable launch-command broker (managed_chat/broker.rs).             *)
(*                                                                         *)
(* A command asks a paired browser Companion to open (or revisit) a        *)
(* ChatGPT conversation and press Send once.  The broker keeps every       *)
(* command behind one mutex and publishes a mutation in memory only after  *)
(* the same candidate was renamed into place on disk, so each public       *)
(* method is one step here and a method that returns an error is no step.  *)
(*                                                                         *)
(* A command's UUID is fresh and its sequence number is too, so commands   *)
(* are indexed by sequence number; lease UUIDs are numbered likewise.      *)
(* Wall-clock time is abstracted to the moment a lease becomes expired.    *)
(***************************************************************************)
EXTENDS Integers, FiniteSets

CONSTANTS
  Key,          \* dedupe keys, one per "worker:W:task:T"
  Client,       \* paired browser Companions
  Conv,         \* canonical ChatGPT conversation URLs
  ThreadOf,     \* thread_key of the launch with this dedupe key
  BoundConv,    \* existing_conversation_url; NoConv for a NewThread launch
  AnchorOf,     \* Core session that owns the launch (digest and chat)
  WorkspaceOf,  \* workspace of the launch
  NoClient,     \* target_client_id = None
  NoConv,       \* conversation_url = None
  NoKey,        \* key of an absent command
  MaxSeq,       \* sequence numbers: the u64 range in the code
  MaxLease,     \* bound on leases ever issued (model checking only)
  MaxCommands,  \* MAX_MANAGED_CHAT_COMMANDS
  MaxHistory,   \* MAX_MANAGED_CHAT_TERMINAL_HISTORY
  MaxAffinity   \* MAX_MANAGED_CHAT_THREAD_AFFINITIES

ASSUME ConstantsOK ==
  /\ MaxSeq \in Nat
  /\ MaxLease \in Nat
  /\ MaxCommands \in Nat
  /\ MaxHistory \in Nat
  /\ NoClient \notin Client
  /\ NoConv \notin Conv
  /\ NoKey \notin Key
  /\ BoundConv \in [Key -> Conv \cup {NoConv}]

VARIABLES
  commands,      \* commands by sequence number
  dedupe,        \* dedupe key -> sequence number of its command, or NoId
  nextSequence,  \* next_sequence
  issued,        \* number of lease ids handed out
  grants         \* history: leases whose holder was told it may press Send

vars == <<commands, dedupe, nextSequence, issued, grants>>

Id == 0 .. MaxSeq - 1
NoId == -1
LeaseId == 1 .. MaxLease
NoLease == 0

State == {"Queued", "Leased", "SendStarted", "NeedsReconcile",
          "Paused", "Succeeded", "Failed"}

Command ==
  [key : Key \cup {NoKey}, state : State \cup {"Absent"}, ready : BOOLEAN,
   history : BOOLEAN, lease : LeaseId \cup {NoLease},
   holder : Client \cup {NoClient}, expired : BOOLEAN,
   target : Client \cup {NoClient}, pinned : BOOLEAN,
   conv : Conv \cup {NoConv}]

\* A sequence number not in use, or whose command was removed.
NoCommand ==
  [key |-> NoKey, state |-> "Absent", ready |-> FALSE, history |-> FALSE,
   lease |-> NoLease, holder |-> NoClient, expired |-> FALSE,
   target |-> NoClient, pinned |-> FALSE, conv |-> NoConv]

Init ==
  /\ commands = [i \in Id |-> NoCommand]
  /\ dedupe = [k \in Key |-> NoId]
  /\ nextSequence = 0
  /\ issued = 0
  /\ grants = [i \in Id |-> {}]

-----------------------------------------------------------------------------
(* Reading the store.                                                      *)

InStore(cs) == {i \in Id : cs[i].state # "Absent"}
InState(cs, S) == {i \in Id : cs[i].state \in S}

\* ExistingThread launches revisit a bound conversation.
ExistingThread(k) == BoundConv[k] # NoConv

\* Faulty AmbiguousPostSend: counts settled commands in.
AnySent(c) == c.history /\ c.state # "Paused"

\* A command that may have crossed the Send boundary but is not settled.
AmbiguousPostSend(c) ==
  \/ c.state \in {"SendStarted", "NeedsReconcile"}
  \/ c.state = "Leased" /\ c.history

\* A command that certainly never crossed it.
CancellablePreSend(c) ==
  \/ c.state = "Queued"
  \/ c.state \in {"Leased", "Failed"} /\ ~c.history

\* The newest success of each thread keeps its route for later launches.
NewestSuccesses(cs) ==
  {i \in InState(cs, {"Succeeded"}) :
     \A j \in InState(cs, {"Succeeded"}) :
        ThreadOf[cs[j].key] = ThreadOf[cs[i].key] => j <= i}

\* The members of S with fewer than n larger members.
Newest(S, n) == {i \in S : Cardinality({j \in S : j > i}) < n}

\* Faulty CompactedAway: counts live commands as history.
DropsOldest(cs) == InStore(cs) \ Newest(InStore(cs), MaxHistory)

\* Settled commands dropped when a launch is enqueued: all but the MaxHistory
\* newest that no thread affinity protects.
CompactedAway(cs) ==
  LET protected == Newest(NewestSuccesses(cs), MaxAffinity)
      terminal == InState(cs, {"Succeeded", "Failed"}) \ protected
  IN  terminal \ Newest(terminal, MaxHistory)

Without(cs, S) == [i \in Id |-> IF i \in S THEN NoCommand ELSE cs[i]]
\* Faulty Unindexed: forgets the dedupe map.
StaleIndex(d, S) == d
Unindexed(d, S) == [k \in Key |-> IF d[k] \in S THEN NoId ELSE d[k]]

\* Faulty Unleased: forgets the lease id.
LeaseKept(c) == [c EXCEPT !.holder = NoClient, !.expired = FALSE]

\* command.lease = None
Unleased(c) == [c EXCEPT !.lease = NoLease, !.holder = NoClient,
                         !.expired = FALSE]

\* Routed to no browser: target_client_id = None and not pinned.
Unrouted(c) == [c EXCEPT !.target = NoClient, !.pinned = FALSE]

RemoveCommands(S) ==
  /\ commands' = Without(commands, S)
  /\ dedupe' = Unindexed(dedupe, S)
  /\ UNCHANGED <<nextSequence, issued, grants>>

Become(i, c) ==
  /\ commands' = [commands EXCEPT ![i] = c]
  /\ UNCHANGED <<dedupe, nextSequence, issued, grants>>

-----------------------------------------------------------------------------
(* Host-side operations.                                                   *)

\* The command whose route a launch on thread t inherits.
PriorOnThread(cs, k) ==
  {i \in NewestSuccesses(cs) : ExistingThread(k)
                               /\ ThreadOf[cs[i].key] = ThreadOf[k]}

\* An inherited route wins over the requested one.
Routes(cs, k, requested) ==
  LET inherited == {cs[i].target : i \in PriorOnThread(cs, k)} \ {NoClient}
  IN  IF inherited = {} THEN {requested} ELSE inherited

QueuedLaunch(k, target) ==
  [NoCommand EXCEPT !.key = k, !.state = "Queued", !.target = target,
                    !.pinned = (target # NoClient)]

\* Faulty HasRoom: unchecked sequence arithmetic.
RoomUnchecked(kept) == Cardinality(InStore(kept)) < MaxCommands

\* The capacity check and next_sequence's checked_add.
HasRoom(kept) ==
  Cardinality(InStore(kept)) < MaxCommands /\ nextSequence < MaxSeq

\* Faulty EnqueueHeld: the launch is not held until it is linked.
EnqueueReady(k, requested) ==
  LET dropped == CompactedAway(commands)
      kept    == Without(commands, dropped)
  IN  /\ dedupe[k] = NoId
      /\ HasRoom(kept)
      /\ \E target \in Routes(kept, k, requested) :
           commands' = [kept EXCEPT ![nextSequence] =
                          [QueuedLaunch(k, target) EXCEPT !.ready = TRUE]]
      /\ dedupe' = [Unindexed(dedupe, dropped) EXCEPT ![k] = nextSequence]
      /\ nextSequence' = nextSequence + 1
      /\ UNCHANGED <<issued, grants>>

\* enqueue_held_with_route: a key already indexed is answered from the store.
EnqueueHeld(k, requested) ==
  LET dropped == CompactedAway(commands)
      kept    == Without(commands, dropped)
  IN  /\ dedupe[k] = NoId
      /\ HasRoom(kept)
      /\ \E target \in Routes(kept, k, requested) :
           commands' = [kept EXCEPT ![nextSequence] = QueuedLaunch(k, target)]
      /\ dedupe' = [Unindexed(dedupe, dropped) EXCEPT ![k] = nextSequence]
      /\ nextSequence' = nextSequence + 1
      /\ UNCHANGED <<issued, grants>>

\* activate_dispatch: the launch transaction is linked, browsers may see it.
ActivateDispatch(i) ==
  /\ commands[i].state = "Queued"
  /\ ~commands[i].ready
  /\ Become(i, [commands[i] EXCEPT !.ready = TRUE])

\* cancel_pre_send_by_dedupe
CancelPreSend(k) ==
  /\ dedupe[k] # NoId
  /\ CancellablePreSend(commands[dedupe[k]])
  /\ RemoveCommands({dedupe[k]})

\* settle_for_worker_retire_by_dedupe: fenced commands stay, others must cancel.
SettleForWorkerRetire(k) ==
  /\ dedupe[k] # NoId
  /\ LET c == commands[dedupe[k]]
     IN  c.state # "Paused" /\ ~(c.state = "Failed" /\ c.history)
  /\ CancelPreSend(k)

\* fence_unclaimed_worker_after_send_by_dedupe
FenceUnclaimedAfterSend(k) ==
  /\ dedupe[k] # NoId
  /\ LET i == dedupe[k]
     IN  /\ AmbiguousPostSend(commands[i])
         /\ Become(i, [Unleased(Unrouted(commands[i])) EXCEPT
                         !.state = "Failed", !.history = TRUE])

\* confirm_worker_started_by_dedupe: the worker's own start proves delivery.
ConfirmWorkerStarted(k, conv) ==
  /\ dedupe[k] # NoId
  /\ ExistingThread(k) => conv = BoundConv[k]
  /\ LET i == dedupe[k]
     IN  /\ AmbiguousPostSend(commands[i]) \/ commands[i].state = "Paused"
         /\ Become(i, [Unleased(commands[i]) EXCEPT
                         !.state = "Succeeded", !.history = TRUE,
                         !.conv = conv])

\* Faulty AfterRevoke: the browser keeps its leases.
RevokeKeepsLeases(c) == Unrouted(c)

\* What settle_revoked_client makes of a command routed to the revoked browser.
AfterRevoke(c) ==
  IF c.state = "Leased" /\ ~c.history
  THEN [Unleased(Unrouted(c)) EXCEPT !.state = "Queued"]
  ELSE IF AmbiguousPostSend(c)
       THEN [Unleased(Unrouted(c)) EXCEPT !.state = "Paused", !.history = TRUE]
       ELSE Unrouted(c)

SettleRevokedClient(client) ==
  /\ \E i \in Id : commands[i].target = client
  /\ commands' = [i \in Id |-> IF commands[i].target = client
                               THEN AfterRevoke(commands[i])
                               ELSE commands[i]]
  /\ UNCHANGED <<dedupe, nextSequence, issued, grants>>

\* clear_all_worker_commands
ClearAllWorkerCommands ==
  /\ InStore(commands) # {}
  /\ RemoveCommands(InStore(commands))

\* The launches of one Core session in one workspace.
OwnedBy(workspace, anchor) ==
  {i \in InStore(commands) : /\ WorkspaceOf[commands[i].key] = workspace
                             /\ AnchorOf[commands[i].key] = anchor}

\* clear_worker_commands_for_anchor
ClearWorkerCommandsForAnchor(workspace, anchor) ==
  /\ OwnedBy(workspace, anchor) # {}
  /\ RemoveCommands(OwnedBy(workspace, anchor))

\* purge_terminal_matching, refused by ensure_commands_clearable
PurgeTerminalForAnchor(workspace, anchor) ==
  /\ OwnedBy(workspace, anchor) # {}
  /\ \A i \in OwnedBy(workspace, anchor) :
       \/ commands[i].state = "Succeeded"
       \/ commands[i].state = "Failed" /\ ~commands[i].history
  /\ RemoveCommands(OwnedBy(workspace, anchor))

\* purge_workspace
PurgeWorkspace(workspace) ==
  LET mine == {i \in InStore(commands) :
                 WorkspaceOf[commands[i].key] = workspace}
  IN  mine # {} /\ RemoveCommands(mine)

-----------------------------------------------------------------------------
(* Browser-side operations.                                                *)

\* The wall clock passes the expiry of a lease.
LeaseExpires(i) ==
  /\ commands[i].lease # NoLease
  /\ ~commands[i].expired
  /\ Become(i, [commands[i] EXCEPT !.expired = TRUE])

\* Faulty AfterExpiry: every expired lease goes back to the queue.
RequeuesAll(c) ==
  IF ~c.expired THEN c
  ELSE [Unleased(c) EXCEPT !.state = "Queued", !.history = FALSE]

\* Faulty AfterExpiry: the route of a requeued launch is always released.
ForgetsPin(c) ==
  IF ~c.expired THEN c
  ELSE IF c.state = "Leased" /\ ~c.history
       THEN [Unleased(c) EXCEPT !.state = "Queued", !.target = NoClient]
       ELSE [Unleased(c) EXCEPT !.state = "NeedsReconcile", !.history = TRUE]

\* The first loop of redeem_for_anchors: expired leases fall back.
AfterExpiry(c) ==
  IF ~c.expired THEN c
  ELSE IF c.state = "Leased" /\ ~c.history
       THEN [Unleased(c) EXCEPT !.state = "Queued",
               !.target = IF c.pinned THEN c.target ELSE NoClient]
       ELSE [Unleased(c) EXCEPT !.state = "NeedsReconcile", !.history = TRUE]

\* Faulty Offerable: ignores dispatch_ready.
OfferableHeld(cs, client, eligible, state) ==
  {i \in InState(cs, {state}) :
     \/ cs[i].target = client
     \/ cs[i].target = NoClient /\ AnchorOf[cs[i].key] \in eligible}

\* Commands this browser may be offered; an unrouted one needs its Core's
\* chat open in the browser (anchor_is_eligible).
Offerable(cs, client, eligible, state) ==
  {i \in InState(cs, {state}) :
     /\ cs[i].ready
     /\ \/ cs[i].target = client
        \/ cs[i].target = NoClient /\ AnchorOf[cs[i].key] \in eligible}

\* Reconciliation is offered before fresh work; within each, oldest first.
Offer(cs, client, eligible) ==
  LET reconcile == Offerable(cs, client, eligible, "NeedsReconcile")
      fresh == Offerable(cs, client, eligible, "Queued")
      pool == IF reconcile # {} THEN reconcile ELSE fresh
  IN  {i \in pool : \A j \in pool : i <= j}

\* redeem_for_anchors
Redeem(client, eligible) ==
  LET settled == [i \in Id |-> AfterExpiry(commands[i])]
      offer == Offer(settled, client, eligible)
  IN  /\ \/ /\ offer = {}
            /\ settled # commands
            /\ commands' = settled
            /\ issued' = issued
         \/ \E i \in offer :
              /\ issued < MaxLease
              /\ issued' = issued + 1
              /\ commands' = [settled EXCEPT ![i] =
                   [settled[i] EXCEPT !.state = "Leased",
                      !.lease = issued + 1, !.holder = client,
                      !.target = client]]
      /\ UNCHANGED <<dedupe, nextSequence, grants>>

HoldsLease(i, lease, client) ==
  /\ commands[i].lease = lease
  /\ commands[i].holder = client

\* mark_send_started; the repeat for the same lease is answered without change.
MarkSendStarted(i, lease, client) ==
  /\ commands[i].state = "Leased"
  /\ ~commands[i].history
  /\ HoldsLease(i, lease, client)
  /\ commands' = [commands EXCEPT ![i] =
       [commands[i] EXCEPT !.state = "SendStarted", !.history = TRUE]]
  /\ grants' = [grants EXCEPT ![i] = @ \cup {lease}]
  /\ UNCHANGED <<dedupe, nextSequence, issued>>

\* acknowledge, common part: the exact lease is required and then released.
Acknowledge(i, lease, client, state, history, conv) ==
  /\ commands[i].state \in {"Leased", "SendStarted"}
  /\ HoldsLease(i, lease, client)
  /\ Become(i, [Unleased(commands[i]) EXCEPT
                  !.state = state, !.history = history, !.conv = conv])

\* Faulty AckSucceeded: accepts any conversation.
AckSucceededAnywhere(i, lease, client, conv) ==
  /\ AmbiguousPostSend(commands[i])
  /\ Acknowledge(i, lease, client, "Succeeded", commands[i].history, conv)

AckSucceeded(i, lease, client, conv) ==
  /\ AmbiguousPostSend(commands[i])
  /\ ExistingThread(commands[i].key) => conv = BoundConv[commands[i].key]
  /\ Acknowledge(i, lease, client, "Succeeded", commands[i].history, conv)

AckFailed(i, lease, client) ==
  /\ commands[i].state = "Leased" /\ ~commands[i].history
  /\ Acknowledge(i, lease, client, "Failed", FALSE, NoConv)

\* Faulty AckNeedsReconcile: also before the Send boundary.
AckReconcileEarly(i, lease, client) ==
  Acknowledge(i, lease, client, "NeedsReconcile", TRUE, NoConv)

AckNeedsReconcile(i, lease, client) ==
  /\ AmbiguousPostSend(commands[i])
  /\ Acknowledge(i, lease, client, "NeedsReconcile", TRUE, NoConv)

AckPaused(i, lease, client) ==
  /\ AmbiguousPostSend(commands[i])
  /\ Acknowledge(i, lease, client, "Paused", TRUE, NoConv)

-----------------------------------------------------------------------------
Anchors == {AnchorOf[k] : k \in Key}
Places == {WorkspaceOf[k] : k \in Key}

Host ==
  \/ \E k \in Key, r \in Client \cup {NoClient} : EnqueueHeld(k, r)
  \/ \E i \in Id : ActivateDispatch(i)
  \/ \E k \in Key : CancelPreSend(k)
  \/ \E k \in Key : SettleForWorkerRetire(k)
  \/ \E k \in Key : FenceUnclaimedAfterSend(k)
  \/ \E k \in Key, conv \in Conv : ConfirmWorkerStarted(k, conv)
  \/ \E client \in Client : SettleRevokedClient(client)

Clear ==
  \/ ClearAllWorkerCommands
  \/ \E w \in Places, a \in Anchors : ClearWorkerCommandsForAnchor(w, a)
  \/ \E w \in Places, a \in Anchors : PurgeTerminalForAnchor(w, a)
  \/ \E w \in Places : PurgeWorkspace(w)

Browser ==
  \/ \E i \in Id : LeaseExpires(i)
  \/ \E client \in Client, e \in SUBSET Anchors : Redeem(client, e)
  \/ \E i \in Id, l \in LeaseId, client \in Client :
       \/ MarkSendStarted(i, l, client)
       \/ \E conv \in Conv : AckSucceeded(i, l, client, conv)
       \/ AckFailed(i, l, client)
       \/ AckNeedsReconcile(i, l, client)
       \/ AckPaused(i, l, client)

Next == Host \/ Clear \/ Browser

Spec == Init /\ [][Next]_vars
-----------------------------------------------------------------------------
(* Properties.                                                             *)

\* Every variable has its type; ids not yet allocated name no command.
TypeOK ==
  /\ commands \in [Id -> Command]
  /\ dedupe \in [Key -> Id \cup {NoId}]
  /\ nextSequence \in 0 .. MaxSeq
  /\ issued \in 0 .. MaxLease
  /\ grants \in [Id -> SUBSET LeaseId]

\* ManagedChatStoreData::validate, per command: every commit and every load
\* refuses a store in which a state and its lease or history disagree, so a
\* reachable violation would wedge the broker for good.
StoreValid ==
  \A i \in InStore(commands) :
    LET c == commands[i]
    IN  /\ i < nextSequence
        /\ (c.lease # NoLease) <=> (c.state \in {"Leased", "SendStarted"})
        /\ c.state \in {"SendStarted", "NeedsReconcile", "Paused"} => c.history

\* validate, the index: the dedupe map and the commands are in bijection, so
\* a replayed launch finds its command and a removed command frees its key.
DedupeIsIndex ==
  /\ \A i \in InStore(commands) :
       commands[i].key \in Key /\ dedupe[commands[i].key] = i
  /\ \A k \in Key : dedupe[k] # NoId =>
       dedupe[k] \in InStore(commands) /\ commands[dedupe[k]].key = k

\* One command authorizes at most one lease to press Send, whatever expires,
\* is revoked, reconciled, re-leased, retried or acknowledged in between.
SendGrantedAtMostOnce ==
  \A i \in Id : \A l, m \in grants[i] : l = m

\* reconcile_history is exactly "some lease was told to press Send": neither a
\* sent command treated as fresh nor a fresh one sent to reconciliation.
HistoryRecordsSend ==
  \A i \in InStore(commands) : commands[i].history <=> grants[i] # {}

\* A lease belongs to the browser the command is routed to and to one command
\* only; nothing else may acknowledge it or cross the Send boundary with it.
LeaseIsExclusive ==
  \A i \in InStore(commands) : commands[i].lease # NoLease =>
    /\ commands[i].holder = commands[i].target
    /\ commands[i].holder # NoClient
    /\ \A j \in InStore(commands) :
         commands[j].lease = commands[i].lease => j = i

\* A launch into an existing conversation only ever succeeds in that
\* conversation, by the browser's word or by the worker's own start.
ReuseStaysInThread ==
  \A i \in InStore(commands) :
    commands[i].state = "Succeeded" /\ ExistingThread(commands[i].key) =>
      commands[i].conv = BoundConv[commands[i].key]

\* Only commands released by activate_dispatch ever reach a browser: a launch
\* whose worker link was never committed cannot be sent.
HeldStaysQueued ==
  \A i \in InStore(commands) :
    ~commands[i].ready => commands[i].state = "Queued" /\ grants[i] = {}

\* The store is sound: types and validate hold, the index is exact, history
\* remembers every Send, a lease is exclusive, a reuse stays in its thread and
\* a held command is nobody's.  The operations count on all of it at once.
StoreIsSound ==
  /\ TypeOK /\ StoreValid /\ DedupeIsIndex
  /\ HistoryRecordsSend /\ LeaseIsExclusive
  /\ ReuseStaysInThread /\ HeldStaysQueued

\* This step revokes the browser: all that was routed to it is released at
\* once, with its leases, and nothing else is touched.
RevokesBrowser(client) ==
  /\ SettleRevokedClient(client)
  /\ \A j \in Id : IF commands[j].target = client
                   THEN /\ commands'[j].target = NoClient
                        /\ commands'[j].lease = NoLease
                   ELSE commands'[j] = commands[j]

\* This step fences the launch: it may have been sent, and ends failed with
\* its history, which no browser is ever offered again.
FencesLaunch(i) ==
  /\ FenceUnclaimedAfterSend(commands[i].key)
  /\ AmbiguousPostSend(commands[i])
  /\ commands'[i].state = "Failed" /\ commands'[i].history

\* A route asked for by the Core (or inherited from the worker's thread) stays
\* pinned to that browser, through leases, expiries, requeueing, reconciling
\* and settling, as long as the launch is stored: only revoking that very
\* browser or fencing that very launch gives the route up.
PinnedRouteIsKept ==
  [][\A i \in Id :
       commands[i].pinned /\ commands'[i].state # "Absent" =>
         \/ commands'[i].pinned /\ commands'[i].target = commands[i].target
         \/ RevokesBrowser(commands[i].target)
         \/ FencesLaunch(i)]_vars

\* Enqueueing a launch makes room only by dropping settled commands, and never
\* one of the newest MaxHistory of them.
CompactionDropsOldSettled ==
  [][nextSequence' # nextSequence =>
       \A i \in InStore(commands) \ InStore(commands') :
         /\ commands[i].state \in {"Succeeded", "Failed"}
         /\ Cardinality({j \in InState(commands, {"Succeeded", "Failed"}) :
                           j > i}) >= MaxHistory]_vars

-----------------------------------------------------------------------------
(* The abstract promise and its refinement mapping.                        *)

\* How far the launch of a command has come, as its caller may count on it.
PhaseOf(c) ==
  CASE c.state = "Succeeded" -> "delivered"
    [] c.state = "Failed" -> "failed"
    [] c.state \notin {"Succeeded", "Failed"} /\ c.history -> "crossed"
    [] OTHER -> "pending"

Ledger == [k \in Key |-> IF dedupe[k] = NoId THEN "none"
                         ELSE PhaseOf(commands[dedupe[k]])]

SL == INSTANCE SendLedger WITH ledger <- Ledger

\* Whatever the broker does to a launch, seen through Ledger, is a step its
\* callers were promised: cross at most once, never fresh again.
ImplementsLedger == SL!Spec

-----------------------------------------------------------------------------
(* The inductive invariant behind the theorems of ManagedChat_proofs.      *)

\* State, lease, history and result of one stored command agree, given the
\* leases told to press Send and the number of the newest lease.
StateOK(c, told, newest) ==
  /\ (c.lease # NoLease) <=> (c.state \in {"Leased", "SendStarted"})
  /\ c.lease <= newest
  /\ c.lease # NoLease => c.holder = c.target /\ c.holder # NoClient
  /\ c.expired => c.lease # NoLease
  /\ c.state \in {"SendStarted", "NeedsReconcile", "Paused"} => c.history
  /\ c.state = "Queued" => ~c.history
  /\ c.history <=> told # {}
  /\ ~c.ready => c.state = "Queued"
  /\ c.state = "Succeeded" /\ ExistingThread(c.key) => c.conv = BoundConv[c.key]

\* A command is either blank or indexed under its key and right.
CommandOK(i) ==
  IF commands[i].state = "Absent" THEN commands[i] = NoCommand
  ELSE /\ commands[i].key \in Key
       /\ dedupe[commands[i].key] = i
       /\ StateOK(commands[i], grants[i], issued)

\* Sequence numbers not handed out yet are blank.
UnusedBlank ==
  \A i \in Id : i >= nextSequence => commands[i] = NoCommand /\ grants[i] = {}

\* The dedupe map points only at commands that carry the key.
DedupePoints ==
  \A k \in Key : dedupe[k] # NoId =>
    commands[dedupe[k]].state # "Absent" /\ commands[dedupe[k]].key = k

\* No two commands hold the same lease.
LeasesDiffer ==
  \A i, j \in Id : commands[i].lease # NoLease
                   /\ commands[i].lease = commands[j].lease => i = j

IInv ==
  /\ TypeOK
  /\ \A i \in Id : CommandOK(i)
  /\ UnusedBlank
  /\ DedupePoints
  /\ LeasesDiffer
  /\ SendGrantedAtMostOnce
=============================================================================
