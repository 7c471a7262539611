-------------------------- MODULE LaunchOrder_proofs -------------------------
(***************************************************************************)
(* More proofs about the launch transactions: without a fault every        *)
(* handler finishes what it began, so between two handlers each launch     *)
(* that waits is linked to its indexed command, or to one that was dropped *)
(* when it no longer mattered, and the mirror is level with it.  Inside a  *)
(* handler that holds of every other launch, and of the launch at hand as  *)
(* far as the handler has got.  At the end: each step of the composed      *)
(* system is, to each store, a step of that store's own broker, or none.   *)
(***************************************************************************)
EXTENDS WorkerLaunch_proofs

\* The mirror of w knows what w's command tells, or is about to be told.
Level(w) ==
  LET c == commands[Found(w)]
      r == workers[w]
  IN
  \/ r.launch = "Claimed"
  \/ /\ c.state = "Failed" => ~c.history
     /\ \/ Found(w) \in lock.todo
        \/ /\ c.state # "Failed"
           /\ c.history => r.launch \notin {"Unknown", "Queued", "Preparing"}
           /\ c.state = "Succeeded" => MissingIsSafe(w)

\* Nothing about the launch of w is left for recovery.
Settled(w) ==
  /\ workers[w].command # None
  /\ Found(w) # NoId => Linked(w, Found(w)) /\ Level(w)
  /\ Found(w) = NoId => MissingIsSafe(w)

\* The launch of w is linked to an older command than the one at hand.
LinkedBefore(w) ==
  /\ workers[w].command \notin {None, <<lock.key.task, lock.id + 1>>}
  /\ MissingIsSafe(w)

AtHand(w) == lock.key = KeyOf(w, workers[w].current)

\* What the handler at work may have left of the launch at hand.
UnderWay(w) ==
  \/ lock.step \in {"retireSent", "retireUnsent"}
  \/ lock.step = "enqueue" /\ workers[w].command = None /\ Found(w) = NoId
  \/ lock.step = "link" /\ (workers[w].command = None \/ LinkedBefore(w))
  \/ lock.step = "cancelUnlinked" /\ LinkedBefore(w)
  \/ /\ lock.step = "rollbackUnlinked" /\ Found(w) = NoId
     /\ workers[w].command = None \/ MissingIsSafe(w)

Accounted(w) ==
  \/ AtHand(w) /\ UnderWay(w)
  \/ Settled(w) /\ (AtHand(w) => lock.step # "cancelUnlinked")

\* A held command is the one the handler at work is about to release, or to
\* cancel.
HeldAtHand ==
  /\ \A i \in Id : Held(i) =>
       lock.step \in {"link", "activate", "cancelUnlinked"} /\ lock.id = i
  /\ LET w == lock.key.worker IN
     lock.step = "cancelUnlinked" /\ Pending(w) /\ workers[w].current = lock.key.task
       => Held(lock.id)

Orderly ==
  /\ lock.step \notin {"cancelLinked", "rollbackLinked"}
  /\ HeldAtHand
  /\ lock.step = "clear" => \A w \in Worker : ~Pending(w)
  /\ \A w \in Worker : Pending(w) => Accounted(w)

\* The host commits everything, and never stops, until the first fault.
OrderlyUnlessFault == faults = 0 => Orderly

-----------------------------------------------------------------------------
(* What a step leaves as it was.                                           *)

SameLaunch(v) ==
  /\ workers'[v].state = workers[v].state /\ workers'[v].current = workers[v].current
  /\ workers'[v].command = workers[v].command /\ workers'[v].launch = workers[v].launch
  /\ workers'[v].url <=> workers[v].url

\* Command j tells the mirror nothing new, or the mirror will be told.
Follows(j) ==
  LET c == commands[j]
      d == commands'[j]
  IN
  \/ j \in lock'.todo /\ (d.state = "Failed" => ~d.history)
  \/ /\ d.state \in {"Succeeded", "Failed"} => d.state = c.state
     /\ d.history <=> c.history
     /\ j \in lock.todo => j \in lock'.todo

TasksStored ==
  \A w \in Worker : workers[w].current # None => tasks[workers[w].current].state # "Absent"

LEMMA OpenTasks == SP!StoreInv => TasksStored
BY WorkerFacts DEF TasksStored

LEMMA SameKey ==
  ASSUME LaunchInv, SP!StoreInv', SP!Inherits, NEW v \in Worker, workers[v].current # None,
         workers'[v].current = workers[v].current
  PROVE  KeyOf(v, workers[v].current)' = KeyOf(v, workers[v].current)
<1>1. PICK t \in Task : t = workers[v].current /\ t <= made.task
  BY WorkerFacts, TaskFacts DEF LaunchInv, Stores
<1>2. tasks'[t].state # "Absent"
  <2>1. (SP!StoreInv => TasksStored)'
    BY OpenTasks, PTL
  <2> QED
    BY <1>1, <2>1 DEF TasksStored
<1>3. SP!Reused(receipts', t) <=> SP!Reused(receipts, t)
  BY <1>1, <1>2, Names DEF SP!Inherits
<1> QED
  BY <1>1, <1>3 DEF KeyOf, SP!Reused

LEMMA SettledKept ==
  ASSUME LaunchInv, SP!StoreInv', SP!Inherits, NEW v \in Worker, Pending(v), Settled(v),
         SameLaunch(v), dedupe'[KeyOf(v, workers[v].current)] = Found(v),
         Found(v) # NoId => Follows(Found(v))
  PROVE  Settled(v)'
<1>1. workers[v].current # None
  BY DEF Pending
<1>2. PICK k, i : k = KeyOf(v, workers[v].current) /\ i = dedupe[k]
  OBVIOUS
<1>3. KeyOf(v, workers[v].current)' = k
  BY <1>1, <1>2, SameKey DEF SameLaunch
<1>4. Found(v) = i /\ Found(v)' = i
  <2>1. Found(v) = i
    BY <1>2 DEF Found
  <2> QED
    BY <1>2, <1>3, <2>1 DEF Found
<1>5. MissingIsSafe(v)' <=> MissingIsSafe(v)
  BY DEF MissingIsSafe, SameLaunch
<1>6. Linked(v, i) => Linked(v, i)'
  BY DEF Linked, SameLaunch
<1>7. i # NoId /\ Level(v) => Level(v)'
  BY <1>4, <1>5 DEF Level, Follows, SameLaunch
<1> QED
  BY <1>4, <1>5, <1>6, <1>7 DEF Settled, SameLaunch, Linked

LEMMA SettledStays ==
  ASSUME LaunchInv, SP!StoreInv', SP!Inherits, NEW v \in Worker, Pending(v), Settled(v),
         SameLaunch(v), dedupe' = dedupe, Found(v) # NoId => Follows(Found(v))
  PROVE  Settled(v)'
BY SettledKept DEF Found

LEMMA NoFault == ASSUME LaunchInv, faults' = 0 PROVE ~Fault
BY DEF LaunchInv, Ghosts, Fault

\* A handler is done, or only has the mirror left to do.
LEMMA DoneIsOrderly ==
  ASSUME lock'.step \in {"free", "sync", "confirm"}, \A i \in Id : ~Held(i)',
         \A v \in Worker : Pending(v)' => Settled(v)'
  PROVE  Orderly'
BY DEF Orderly, HeldAtHand, Accounted, Id, Q!Id

LEMMA NoneHeld ==
  ASSUME Orderly, lock.step \notin {"link", "activate", "cancelUnlinked"}
  PROVE  \A i \in Id : ~Held(i)
BY DEF Orderly, HeldAtHand

LEMMA WasSettled ==
  ASSUME Orderly, NEW v \in Worker, Pending(v),
         \/ ~AtHand(v)
         \/ lock.step \in {"free", "sync", "clear", "activate", "confirm"}
  PROVE  Settled(v)
BY DEF Orderly, Accounted, UnderWay

LEMMA StoresHold ==
  ASSUME LaunchInv PROVE QP!IInv /\ SP!StoreInv /\ Together /\ Ghosts /\ HeldLock(lock)
BY DEF LaunchInv, Stores

LEMMA NoTodo == ASSUME LaunchInv, lock.step # "sync" PROVE lock.todo = {}
BY DEF LaunchInv, HeldLock

LEMMA StaysPut ==
  ASSUME NEW v, workers'[v] = workers[v]
  PROVE  SameLaunch(v) /\ (Pending(v)' <=> Pending(v))
BY DEF SameLaunch, Pending

LEMMA SettledFollows ==
  ASSUME NEW X, QP!Settles(X), NEW j \in Id, j \notin X, Present(j), lock.todo = {}
  PROVE  Follows(j)
<1>1. /\ commands'[j].state # "Absent"
      /\ commands'[j].state \in {"Succeeded", "Failed"} => commands'[j].state = commands[j].state
      /\ QP!Calm(j)
  BY Names DEF QP!Settles, Present
<1>2. commands'[j].history <=> commands[j].history
  BY <1>1 DEF QP!Calm
<1> QED
  BY <1>1, <1>2 DEF Follows

LEMMA UnmovedFollows ==
  ASSUME NEW j, commands'[j] = commands[j], j \in lock.todo => j \in lock'.todo
  PROVE  Follows(j)
BY DEF Follows

LEMMA CalmHolds ==
  ASSUME NEW i, QP!Calm(i), ~Held(i) PROVE ~Held(i)'
BY DEF QP!Calm, Held

\* The command of a launch that waits is in the store under its name.
LEMMA FoundIsStored ==
  ASSUME LaunchInv, NEW v \in Worker, Pending(v), Found(v) # NoId
  PROVE  /\ Found(v) \in Id /\ Present(Found(v))
         /\ commands[Found(v)].key = KeyOf(v, workers[v].current)
BY FoundFacts

\* Steps of the Worker store that end a handler.
LEMMA WorkersDone ==
  ASSUME LaunchInv, Orderly, SP!StoreInv', SP!Inherits, UNCHANGED commandVars,
         lock.step \notin {"link", "activate", "cancelUnlinked", "sync"},
         lock'.step \in {"free", "confirm"},
         \A v \in Worker : Pending(v)' =>
           Settled(v)' \/ (Pending(v) /\ Settled(v) /\ SameLaunch(v))
  PROVE  Orderly'
<1>1. \A i \in Id : ~Held(i)'
  BY NoneHeld DEF Held, commandVars
<1>2. lock.todo = {} /\ dedupe' = dedupe
  BY NoTodo DEF commandVars
<1>3. \A v \in Worker : Pending(v)' => Settled(v)'
  <2> SUFFICES ASSUME NEW v \in Worker, Pending(v), Settled(v), SameLaunch(v) PROVE Settled(v)'
    OBVIOUS
  <2>1. Follows(Found(v))
    BY <1>2 DEF Follows, commandVars
  <2> QED
    BY <1>2, <2>1, SettledStays
<1> QED
  BY <1>1, <1>3, DoneIsOrderly

\* Steps of the command store that end a handler, or leave it the mirror.
LEMMA CommandsDone ==
  ASSUME LaunchInv, Orderly, UNCHANGED workerVars, dedupe' = dedupe,
         lock'.step \in {"free", "sync"}, \A i \in Id : ~Held(i)',
         \A v \in Worker : Pending(v) =>
           Settled(v) /\ (Found(v) # NoId => Follows(Found(v)))
  PROVE  Orderly'
<1>1. SP!StoreInv' /\ SP!Inherits
  BY StoresHold, WorkersStay
<1>2. ASSUME NEW v \in Worker, Pending(v)' PROVE Settled(v)'
  <2>1. SameLaunch(v) /\ Pending(v)
    BY <1>2, StaysPut DEF workerVars
  <2> QED
    BY <1>1, <2>1, SettledStays
<1> QED
  BY <1>2, DoneIsOrderly

\* Recovery finds nothing to do.
LEMMA NothingToRecover ==
  ASSUME LaunchInv, Orderly, NEW w \in Worker PROVE ~RecoverWorker(w)
<1> SUFFICES ASSUME RecoverWorker(w) PROVE FALSE
  OBVIOUS
<1>1. lock.step = "free" /\ Pending(w)
  BY DEF RecoverWorker, Free
<1>2. Settled(w)
  BY <1>1, WasSettled
<1>3. workers[w].command # None
  BY <1>2 DEF Settled
<1>4. ~S!LinkLaunchCommand(w, <<workers[w].current, Found(w) + 1>>)
  BY <1>3 DEF S!LinkLaunchCommand
<1>5. Found(w) # NoId => ~Q!ActivateDispatch(Found(w))
  <2> SUFFICES ASSUME Found(w) # NoId, Q!ActivateDispatch(Found(w)) PROVE FALSE
    OBVIOUS
  <2>1. Found(w) \in Id /\ Held(Found(w))
    BY <1>1, FoundIsStored DEF Q!ActivateDispatch, Held
  <2> QED
    BY <1>1, <2>1, NoneHeld
<1>6. ~S!RollbackUnlinkedSpawn(w) /\ ~S!RollbackUnlinkedReuse(w)
  BY <1>3 DEF S!RollbackUnlinkedSpawn, S!RollbackUnlinkedReuse
<1>7. Found(w) = NoId => MissingIsSafe(w)
  BY <1>2 DEF Settled
<1> QED
  BY <1>4, <1>5, <1>6, <1>7 DEF RecoverWorker

LEMMA NoOrphans ==
  ASSUME LaunchInv, Orderly, NEW i \in Id PROVE ~RecoverOrphan(i)
<1> SUFFICES ASSUME RecoverOrphan(i) PROVE FALSE
  OBVIOUS
<1>1. lock.step = "free" /\ Held(i)
  BY DEF RecoverOrphan, Free
<1> QED
  BY <1>1, NoneHeld

LEMMA BeginsOrderly ==
  ASSUME LaunchInv, Orderly, SP!StoreInv', SP!Inherits, UNCHANGED commandVars,
         lock.step = "free", lock'.step = "enqueue",
         \A v \in Worker : Pending(v)' =>
           (Pending(v) /\ SameLaunch(v)) \/ (AtHand(v)' /\ UnderWay(v)')
  PROVE  Orderly'
<1>1. HeldAtHand'
  BY NoneHeld DEF HeldAtHand, Held, commandVars, Id, Q!Id
<1>2. lock.todo = {} /\ dedupe' = dedupe
  BY NoTodo DEF commandVars
<1>3. ASSUME NEW v \in Worker, Pending(v), SameLaunch(v) PROVE Settled(v)'
  <2>1. Settled(v)
    BY <1>3, WasSettled
  <2>2. Follows(Found(v))
    BY <1>2 DEF Follows, commandVars
  <2> QED
    BY <1>2, <1>3, <2>1, <2>2, SettledStays
<1>4. \A v \in Worker : Pending(v)' => Accounted(v)'
  BY <1>3 DEF Accounted
<1> QED
  BY <1>1, <1>4 DEF Orderly

\* No command has the name of a launch that was just asked for.
LEMMA NewNameIsFree ==
  ASSUME LaunchInv, NEW k \in LaunchKey, k.task > made.task
  PROVE  dedupe[k] = NoId
<1> SUFFICES ASSUME dedupe[k] # NoId PROVE FALSE
  OBVIOUS
<1>1. PICK i \in Id : i = dedupe[k] /\ Present(i) /\ commands[i].key = k
  BY StoresHold, IndexFacts
<1>2. KnownKey(k)
  BY <1>1, StoresHold DEF Together, CommandRight
<1>3. k.task \in Nat /\ made.task \in Nat
  BY StoresHold, KeyFacts, TaskFacts
<1> QED
  BY <1>2, <1>3 DEF KnownKey

LEMMA BegunOrderly ==
  ASSUME LaunchInv, Orderly, NEW w \in Worker, Begins(w), NEW k, KnownKey(k)',
         k.worker = w, k.task = made'.task, lock.step = "free",
         lock' = At("enqueue", k, NoId), UNCHANGED commandVars
  PROVE  Orderly'
<1>1. PICK t \in Task :
        /\ t = made.task + 1 /\ made'.task = t /\ workers'[w].current = t
        /\ workers'[w].command = None /\ tasks'[t].state = "Pending"
        /\ \A v \in Worker : v # w => workers'[v] = workers[v]
        /\ SP!StoreInv' /\ SP!Inherits
  BY DEF Begins
<1>2. k \in LaunchKey
  BY DEF KnownKey, LaunchKey, Worker, Task
<1>3. lock'.step = "enqueue" /\ lock'.key = k
  BY <1>2, AtLock DEF Step
<1>4. dedupe[k] = NoId
  <2>1. made.task \in Nat
    BY StoresHold, TaskFacts
  <2> QED
    BY <1>1, <1>2, <2>1, NewNameIsFree
<1>5. KeyOf(w, workers[w].current)' = k
  <2>1. tasks'[k.task].state # "Absent"
    BY <1>1
  <2>2. k = KeyOf(k.worker, k.task)'
    BY <2>1 DEF KnownKey
  <2> QED
    BY <1>1, <2>2 DEF KeyOf
<1>6. AtHand(w)' /\ Found(w)' = NoId
  BY <1>3, <1>4, <1>5 DEF AtHand, Found, commandVars, NoId, Q!NoId
<1>7. UnderWay(w)'
  BY <1>1, <1>3, <1>6 DEF UnderWay, NoId, Q!NoId
<1>8. \A v \in Worker : v # w => SameLaunch(v) /\ (Pending(v)' <=> Pending(v))
  BY <1>1, StaysPut
<1> QED
  BY <1>1, <1>3, <1>6, <1>7, <1>8, BeginsOrderly

LEMMA ReplayOrderly ==
  ASSUME LaunchInv, Orderly, lock.step = "free", lock'.step = "enqueue",
         UNCHANGED workerVars, UNCHANGED commandVars
  PROVE  Orderly'
<1>1. SP!StoreInv' /\ SP!Inherits
  BY StoresHold, WorkersStay
<1>2. \A v \in Worker : SameLaunch(v) /\ (Pending(v)' <=> Pending(v))
  BY StaysPut DEF workerVars
<1> QED
  BY <1>1, <1>2, BeginsOrderly

LEMMA SpawnOrderly ==
  ASSUME LaunchInv, Orderly, NEW op \in Op, Spawn(op) PROVE Orderly'
<1>1. lock.step = "free" /\ UNCHANGED commandVars
  BY DEF Spawn, Free
<1>2. CASE /\ S!SpawnWorker(TheCore, op)
           /\ lock' = At("enqueue", [worker |-> made'.worker, task |-> made'.task,
                                     reuse |-> FALSE], NoId)
  <2>1. PICK w \in Worker : w = made'.worker /\ Begins(w) /\ workers'[w].state = "Provisioning"
    BY <1>2, SpawnBegins DEF LaunchInv, Stores, Begins
  <2>2. PICK k : k = [worker |-> w, task |-> made'.task, reuse |-> FALSE]
    OBVIOUS
  <2>3. KnownKey(k)' /\ k.worker = w /\ k.task = made'.task
    BY <2>1, <2>2, BegunKey DEF LaunchInv, Stores
  <2> QED
    BY <1>1, <1>2, <2>1, <2>2, <2>3, BegunOrderly
<1>3. ASSUME NEW k, lock' = At("enqueue", k, NoId), UNCHANGED workerVars PROVE Orderly'
  BY <1>1, <1>3, ReplayOrderly DEF At
<1> QED
  BY <1>2, <1>3 DEF Spawn

LEMMA ReuseOrderly ==
  ASSUME LaunchInv, Orderly, NEW w \in Worker, NEW op \in Op, Reuse(w, op) PROVE Orderly'
<1>1. lock.step = "free" /\ UNCHANGED commandVars
  BY DEF Reuse, Free
<1>2. CASE /\ S!ReuseWorker(w, op)
           /\ lock' = At("enqueue", [worker |-> w, task |-> made'.task, reuse |-> TRUE], NoId)
  <2>1. Begins(w) /\ workers'[w].state = "Waking"
    BY <1>2, ReuseBegins DEF LaunchInv, Stores
  <2>2. PICK k : k = [worker |-> w, task |-> made'.task, reuse |-> TRUE]
    OBVIOUS
  <2>3. KnownKey(k)' /\ k.worker = w /\ k.task = made'.task
    BY <2>1, <2>2, BegunKey DEF LaunchInv, Stores
  <2> QED
    BY <1>1, <1>2, <2>1, <2>2, <2>3, BegunOrderly
<1>3. ASSUME NEW k, lock' = At("enqueue", k, NoId), UNCHANGED workerVars PROVE Orderly'
  BY <1>1, <1>3, ReplayOrderly DEF At
<1> QED
  BY <1>2, <1>3 DEF Reuse

IndexStored == \A k \in LaunchKey : dedupe[k] # NoId => Present(dedupe[k])

LEMMA Indexed == QP!IInv => IndexStored
BY IndexFacts DEF IndexStored

\* Another launch that needs room only drops commands that are settled.
LEMMA EnqueuedSettled ==
  ASSUME LaunchInv, QP!IInv', SP!StoreInv', SP!Inherits, lock.step # "sync",
         NEW k \in LaunchKey, NEW r \in Client \cup {None}, QP!EnqueueHeld(k, r),
         NEW v \in Worker, Pending(v), Settled(v), SameLaunch(v), ~(KeyOf(v, workers[v].current) = k)
  PROVE  Settled(v)'
<1>1. PICK x \in LaunchKey : x = KeyOf(v, workers[v].current)
  BY CurrentKey DEF Pending
<1>2. x # k /\ Found(v) = dedupe[x]
  BY <1>1 DEF Found
<1>3. \/ dedupe'[x] = dedupe[x]
      \/ /\ dedupe'[x] = NoId /\ dedupe[x] # NoId
         /\ commands[dedupe[x]].state \in {"Succeeded", "Failed"}
  BY <1>2, StoresHold, QP!EnqueueHolds, QAssumed, Names
<1>4. CASE dedupe'[x] = dedupe[x]
  <2>1. ASSUME Found(v) # NoId PROVE Follows(Found(v))
    <3>1. PICK i \in Id : i = dedupe[x] /\ Present(i)
      BY <1>2, <2>1, FoundIsStored
    <3>2. (QP!IInv => IndexStored)'
      BY Indexed, PTL
    <3>3. commands'[i].state # "Absent"
      BY <1>2, <1>4, <2>1, <3>1, <3>2 DEF IndexStored, Present, NoId, Q!NoId, LaunchKey, Worker, Task
    <3>4. commands[nextSequence].state = "Absent"
      BY StoresHold, QP!EnqueueHolds, QAssumed, Names
    <3>5. i # nextSequence
      BY <3>1, <3>4 DEF Present
    <3>6. commands'[i] = commands[i]
      BY <3>3, <3>5, StoresHold, QP!EnqueueHolds, QAssumed, Names
    <3> QED
      BY <1>2, <3>1, <3>6, NoTodo, UnmovedFollows
  <2> QED
    BY <1>1, <1>2, <1>4, <2>1, SettledKept
<1>5. CASE dedupe'[x] = NoId /\ dedupe[x] # NoId /\ commands[dedupe[x]].state \in {"Succeeded", "Failed"}
  <2>1. MissingIsSafe(v)
    BY <1>2, <1>5, NoTodo DEF Settled, Level, MissingIsSafe
  <2>2. MissingIsSafe(v)' /\ workers'[v].command # None
    BY <2>1 DEF MissingIsSafe, SameLaunch, Settled
  <2>3. KeyOf(v, workers[v].current)' = x
    BY <1>1, SameKey DEF Pending, SameLaunch
  <2>4. Found(v)' = NoId
    BY <1>5, <2>3 DEF Found
  <2> QED
    BY <2>2, <2>4 DEF Settled, NoId, Q!NoId
<1> QED
  BY <1>3, <1>4, <1>5

LEMMA EnqueueOrderly ==
  ASSUME LaunchInv, Orderly, faults' = 0, Enqueue PROVE Orderly'
<1>1. PICK k : k = lock.key
  OBVIOUS
<1>2. lock.step = "enqueue" /\ UNCHANGED workerVars /\ KnownKey(k)
  BY <1>1, StoresHold DEF Enqueue, HeldLock
<1>3. k \in LaunchKey /\ (\A i \in Id : ~Held(i)) /\ lock.todo = {}
  BY <1>2, NoneHeld, NoTodo DEF KnownKey
<1>4. SP!StoreInv' /\ SP!Inherits
  BY <1>2, StoresHold, WorkersStay
<1>5. ASSUME NEW v \in Worker, Pending(v)'
      PROVE  /\ Pending(v) /\ SameLaunch(v) /\ workers'[v] = workers[v]
             /\ KeyOf(v, workers[v].current)' = KeyOf(v, workers[v].current)
             /\ Settled(v) \/ (AtHand(v) /\ workers[v].command = None /\ Found(v) = NoId)
  <2>1. Pending(v) /\ SameLaunch(v) /\ workers'[v] = workers[v]
    BY <1>2, <1>5, StaysPut DEF workerVars
  <2>2. KeyOf(v, workers[v].current)' = KeyOf(v, workers[v].current)
    BY <1>4, <2>1, SameKey DEF Pending
  <2>3. Settled(v) \/ (AtHand(v) /\ workers[v].command = None /\ Found(v) = NoId)
    BY <1>2, <2>1 DEF Orderly, Accounted, UnderWay
  <2> QED
    BY <2>1, <2>2, <2>3
<1>6. CASE UNCHANGED commandVars /\ dedupe[k] # NoId /\ lock' = At("link", k, dedupe[k])
  <2>1. lock'.step = "link"
    BY <1>6 DEF At
  <2>2. HeldAtHand'
    BY <1>3, <1>6, <2>1 DEF HeldAtHand, Held, commandVars, Id, Q!Id
  <2>3. ASSUME NEW v \in Worker, Pending(v)' PROVE Settled(v)'
    <3>1. Settled(v)
      BY <1>1, <1>5, <1>6, <2>3 DEF AtHand, Found
    <3>2. Follows(Found(v)) /\ dedupe' = dedupe
      BY <1>3, <1>6 DEF Follows, commandVars
    <3> QED
      BY <1>4, <1>5, <2>3, <3>1, <3>2, SettledStays
  <2> QED
    BY <2>1, <2>2, <2>3 DEF Orderly, Accounted
<1>7. CASE UNCHANGED commandVars /\ lock' = At("rollbackUnlinked", k, NoId)
  <2>1. lock'.step = "rollbackUnlinked" /\ lock'.key = k
    BY <1>7 DEF At
  <2>2. HeldAtHand'
    BY <1>3, <1>7, <2>1 DEF HeldAtHand, Held, commandVars, Id, Q!Id
  <2>3. ASSUME NEW v \in Worker, Pending(v)' PROVE Accounted(v)'
    <3>1. CASE Settled(v)
      <4>1. Follows(Found(v)) /\ dedupe' = dedupe
        BY <1>3, <1>7 DEF Follows, commandVars
      <4>2. Settled(v)'
        BY <1>4, <1>5, <2>3, <3>1, <4>1, SettledStays
      <4> QED
        BY <2>1, <4>2 DEF Accounted
    <3>2. CASE AtHand(v) /\ workers[v].command = None /\ Found(v) = NoId
      <4>1. AtHand(v)' /\ Found(v)' = NoId /\ workers'[v].command = None
        BY <1>1, <1>5, <1>7, <2>1, <2>3, <3>2 DEF AtHand, Found, commandVars, NoId, Q!NoId
      <4>2. UnderWay(v)'
        BY <2>1, <4>1 DEF UnderWay, NoId, Q!NoId
      <4> QED
        BY <4>1, <4>2 DEF Accounted
    <3> QED
      BY <1>5, <2>3, <3>1, <3>2
  <2> QED
    BY <2>1, <2>2, <2>3 DEF Orderly
<1>8. ASSUME NEW r \in Requested(k), Q!EnqueueHeld(k, r), lock' = At("link", k, nextSequence)
      PROVE  Orderly'
  <2>1. r \in Client \cup {None} /\ QP!EnqueueHeld(k, r)
    BY <1>8, Enqueues DEF Requested
  <2>2. QP!IInv'
    BY <1>3, <2>1, StoresHold, QP!EnqueueStep, QAssumed
  <2>3. /\ dedupe[k] = NoId /\ nextSequence \in Nat
        /\ \A i \in Id : i # nextSequence => commands'[i] = commands[i] \/ commands'[i].state = "Absent"
    BY <1>3, <2>1, StoresHold, IndexFacts, QP!EnqueueHolds, QAssumed, Names
  <2>4. lock'.step = "link" /\ lock'.key = k /\ lock'.id = nextSequence
    BY <1>8 DEF At
  <2>5. HeldAtHand'
    BY <1>3, <2>3, <2>4 DEF HeldAtHand, Held, Id, Q!Id
  <2>6. ASSUME NEW v \in Worker, Pending(v)' PROVE Accounted(v)'
    <3>1. CASE Settled(v) /\ ~AtHand(v)
      <4>1. Settled(v)'
        BY <1>1, <1>2, <1>3, <1>4, <1>5, <2>1, <2>2, <2>6, <3>1, EnqueuedSettled DEF AtHand
      <4> QED
        BY <2>4, <4>1 DEF Accounted
    <3>2. CASE AtHand(v)
      <4>1. AtHand(v)' /\ Found(v) = NoId
        BY <1>1, <1>5, <2>3, <2>4, <2>6, <3>2 DEF AtHand, Found
      <4>2. workers[v].command # None =>
              /\ workers[v].command # <<k.task, nextSequence + 1>>
              /\ MissingIsSafe(v)
        <5>1. workers[v].command # None => workers[v].command[2] <= nextSequence
          BY StoresHold DEF Together, LinkRight
        <5>2. <<k.task, nextSequence + 1>>[2] = nextSequence + 1
          OBVIOUS
        <5> QED
          BY <1>5, <2>3, <2>6, <4>1, <5>1, <5>2 DEF Settled
      <4>3. MissingIsSafe(v) => MissingIsSafe(v)'
        BY <1>5, <2>6 DEF MissingIsSafe
      <4>4. UnderWay(v)'
        BY <1>5, <2>4, <2>6, <4>2, <4>3 DEF UnderWay, LinkedBefore
      <4> QED
        BY <4>1, <4>4 DEF Accounted
    <3> QED
      BY <1>5, <2>6, <3>1, <3>2
  <2> QED
    BY <2>4, <2>5, <2>6 DEF Orderly
<1> QED
  BY <1>1, <1>6, <1>7, <1>8, NoFault DEF Enqueue

\* The launch at hand is the worker's, if the worker is on its task.
LEMMA CurrentAtHand ==
  ASSUME LaunchInv, NEW v \in Worker, workers[v].current # None
  PROVE  /\ AtHand(v) => lock.key.worker = v /\ lock.key.task = workers[v].current
         /\ KnownKey(lock.key) /\ lock.key.worker = v /\ lock.key.task = workers[v].current
              => AtHand(v)
<1>1. AtHand(v) => lock.key.worker = v /\ lock.key.task = workers[v].current
  BY KeyOfFacts DEF AtHand
<1>2. tasks[workers[v].current].state # "Absent"
  BY StoresHold, OpenTasks DEF TasksStored
<1>3. KnownKey(lock.key) /\ lock.key.worker = v /\ lock.key.task = workers[v].current => AtHand(v)
  BY <1>2 DEF KnownKey, AtHand
<1> QED
  BY <1>1, <1>3

\* A command that an unlinked worker would be linked to is still held.
LEMMA UnlinkedIsHeld ==
  ASSUME LaunchInv, NEW w \in Worker, workers[w].current # None, NEW i \in Id, Present(i),
         commands[i].key.task = workers[w].current, ~Linked(w, i)
  PROVE  Held(i) /\ commands[i].state = "Queued" /\ ~commands[i].history
<1>1. ASSUME commands[i].ready PROVE FALSE
  <2>1. i \in Offered(workers[w].current)
    BY <1>1 DEF Offered
  <2> QED
    BY <2>1, StoresHold DEF Together, OffersLinked
<1> QED
  BY <1>1, StoresHold, CommandFacts DEF Held

LEMMA LinkOrderly ==
  ASSUME LaunchInv, Orderly, faults' = 0, Link PROVE Orderly'
<1>1. PICK k, i : k = lock.key /\ i = lock.id
  OBVIOUS
<1>2. /\ lock.step = "link" /\ UNCHANGED commandVars /\ KnownKey(k) /\ i \in Id /\ dedupe[k] = i
  BY <1>1, StoresHold DEF Link, HeldLock
<1>3. /\ k \in LaunchKey /\ k.worker \in Worker /\ k.task \in Task /\ lock.todo = {}
      /\ i # NoId /\ dedupe' = dedupe /\ \A j : Follows(j)
  BY <1>2, StoresHold, KeyFacts, NoTodo, IndexFacts DEF KnownKey, Follows, commandVars
<1>4. PICK w \in Worker, m \in S!Command : w = k.worker /\ m = <<k.task, i + 1>> /\ m # None
  BY <1>2, <1>3, LinkFacts
<1>5. Present(i) /\ commands[i].key = k
  BY <1>2, <1>3, StoresHold, IndexFacts
<1>6. ASSUME NEW v \in Worker, Pending(v)
      PROVE  /\ workers[v].current # None
             /\ AtHand(v) => v = w /\ workers[v].current = k.task /\ Found(v) = i
             /\ \/ Settled(v)
                \/ AtHand(v) /\ (workers[v].command = None \/ LinkedBefore(v))
  <2>1. workers[v].current # None
    BY <1>6 DEF Pending
  <2>2. AtHand(v) => v = w /\ workers[v].current = k.task /\ Found(v) = i
    BY <1>1, <1>2, <1>4, <2>1, CurrentAtHand DEF AtHand, Found
  <2>3. \/ Settled(v)
        \/ AtHand(v) /\ (workers[v].command = None \/ LinkedBefore(v))
    BY <1>2, <1>6 DEF Orderly, Accounted, UnderWay
  <2> QED
    BY <2>1, <2>2, <2>3
<1>7. ASSUME lock'.step \in {"activate", "cancelUnlinked"}, lock'.id = i, NEW j \in Id, Held(j)'
      PROVE  j = lock'.id
  BY <1>1, <1>2, <1>7 DEF Orderly, HeldAtHand, Held, commandVars
<1>8. CASE S!LinkLaunchCommand(k.worker, <<k.task, i + 1>>) /\ lock' = At("activate", k, i)
  <2>1. /\ OnlyWorker(w)
        /\ workers[w].current # None /\ m[1] = workers[w].current
        /\ workers[w].command = None /\ workers'[w].command = m
        /\ workers'[w].current = workers[w].current /\ workers'[w].launch = "Queued"
    BY <1>4, <1>8, StoresHold, LinkMoves
  <2>2. lock'.step = "activate" /\ lock'.id = i
    BY <1>8 DEF At
  <2>3. HeldAtHand'
    BY <1>7, <2>2 DEF HeldAtHand, Id, Q!Id
  <2>4. ASSUME NEW v \in Worker, v # w, Pending(v)' PROVE Settled(v)'
    <3>1. Pending(v) /\ SameLaunch(v)
      BY <2>1, <2>4, StaysPut DEF OnlyWorker
    <3>2. Settled(v)
      BY <1>6, <2>4, <3>1
    <3> QED
      BY <1>3, <2>1, <3>1, <3>2, SettledStays DEF OnlyWorker
  <2>5. Settled(w)'
    <3>1. workers[w].current = k.task
      BY <1>4, <2>1
    <3>2. KeyOf(w, workers[w].current) = k
      BY <1>1, <1>2, <1>4, <2>1, <3>1, CurrentAtHand DEF AtHand
    <3>3. KeyOf(w, workers[w].current)' = k
      BY <2>1, <3>2, SameKey DEF OnlyWorker
    <3>4. Found(w)' = i
      BY <1>2, <1>3, <3>3 DEF Found
    <3>5. ~Linked(w, i)
      BY <1>4, <2>1, <3>1 DEF Linked
    <3>6. commands[i].state = "Queued" /\ ~commands[i].history
      BY <1>2, <1>5, <2>1, <3>1, <3>5, UnlinkedIsHeld
    <3>7. Linked(w, i)'
      BY <1>4, <2>1, <3>1 DEF Linked
    <3>8. commands'[i].state = "Queued" /\ ~commands'[i].history /\ i \in Id
      BY <1>2, <3>6 DEF commandVars
    <3>9. Level(w)'
      BY <2>1, <3>4, <3>8 DEF Level
    <3> QED
      BY <1>3, <1>4, <2>1, <3>4, <3>7, <3>9 DEF Settled, Linked, NoId, Q!NoId
  <2> QED
    BY <2>2, <2>3, <2>4, <2>5 DEF Orderly, Accounted
<1>9. CASE /\ workers[k.worker].current = k.task /\ workers[k.worker].command = <<k.task, i + 1>>
           /\ lock' = At("activate", k, i) /\ UNCHANGED workerVars
  <2>1. lock'.step = "activate" /\ lock'.id = i
    BY <1>9 DEF At
  <2>2. HeldAtHand'
    BY <1>7, <2>1 DEF HeldAtHand, Id, Q!Id
  <2>3. SP!StoreInv' /\ SP!Inherits
    BY <1>9, StoresHold, WorkersStay
  <2>4. ASSUME NEW v \in Worker, Pending(v)' PROVE Settled(v)'
    <3>1. Pending(v) /\ SameLaunch(v)
      BY <1>9, <2>4, StaysPut DEF workerVars
    <3>2. Settled(v)
      BY <1>1, <1>4, <1>6, <1>9, <3>1 DEF LinkedBefore
    <3> QED
      BY <1>3, <2>3, <3>1, <3>2, SettledStays
  <2> QED
    BY <2>1, <2>2, <2>4 DEF Orderly, Accounted
<1>10. CASE /\ \/ workers[k.worker].current # k.task
               \/ workers[k.worker].command \notin {None, <<k.task, i + 1>>}
            /\ lock' = At("cancelUnlinked", k, i) /\ UNCHANGED workerVars
  <2>1. lock'.step = "cancelUnlinked" /\ lock'.id = i /\ lock'.key = k
    BY <1>10 DEF At
  <2>2. SP!StoreInv' /\ SP!Inherits /\ workers' = workers
    BY <1>10, StoresHold, WorkersStay DEF workerVars
  <2>3. ASSUME Pending(w), workers[w].current = k.task PROVE Held(i)
    <3>1. ~Linked(w, i)
      BY <1>4, <1>10, <2>3 DEF Linked
    <3> QED
      BY <1>2, <1>5, <2>3, <3>1, UnlinkedIsHeld DEF Pending
  <2>4. HeldAtHand'
    <3>1. \A j \in Id : Held(j)' => j = i
      BY <1>7, <2>1
    <3>2. Pending(w)' /\ workers'[w].current = k.task => Held(i)'
      BY <1>2, <2>2, <2>3 DEF Pending, Held, commandVars
    <3> QED
      BY <1>4, <2>1, <3>1, <3>2 DEF HeldAtHand, Id, Q!Id
  <2>5. ASSUME NEW v \in Worker, Pending(v)' PROVE Accounted(v)'
    <3>1. Pending(v) /\ SameLaunch(v)
      BY <2>2, <2>5, StaysPut
    <3>2. KeyOf(v, workers[v].current)' = KeyOf(v, workers[v].current)
      BY <2>2, <3>1, SameKey DEF Pending, SameLaunch
    <3>3. AtHand(v)' <=> AtHand(v)
      BY <1>1, <2>1, <3>2 DEF AtHand
    <3>4. CASE AtHand(v)
      <4>1. v = w /\ workers[v].current = k.task /\ Found(v) = i
        BY <1>6, <3>1, <3>4
      <4>2. workers[v].command \notin {None, <<k.task, i + 1>>}
        BY <1>4, <1>10, <4>1
      <4>3. ~Settled(v)
        BY <1>3, <4>1, <4>2 DEF Settled, Linked
      <4>4. LinkedBefore(v)
        BY <1>6, <3>1, <4>2, <4>3
      <4>5. LinkedBefore(v)'
        BY <1>1, <2>1, <2>2, <4>4 DEF LinkedBefore, MissingIsSafe
      <4> QED
        BY <2>1, <3>3, <3>4, <4>5 DEF Accounted, UnderWay
    <3>5. CASE ~AtHand(v)
      <4>1. Settled(v)
        BY <1>6, <3>1, <3>5
      <4>2. Settled(v)'
        BY <1>3, <2>2, <3>1, <4>1, SettledStays
      <4> QED
        BY <3>3, <3>5, <4>2 DEF Accounted
    <3> QED
      BY <3>4, <3>5
  <2> QED
    BY <2>1, <2>4, <2>5 DEF Orderly
<1> QED
  BY <1>1, <1>8, <1>9, <1>10, NoFault DEF Link

LEMMA ActivateOrderly ==
  ASSUME LaunchInv, Orderly, faults' = 0, Activate PROVE Orderly'
<1>1. PICK i : i = lock.id
  OBVIOUS
<1>2. /\ lock.step = "activate" /\ UNCHANGED workerVars /\ i \in Id
      /\ Q!ActivateDispatch(i) \/ (commands[i].ready /\ UNCHANGED commandVars)
      /\ lock' = Free
  BY <1>1, NoFault, StoresHold DEF Activate, HeldLock
<1>3. lock'.step = "free" /\ lock.todo = {}
  BY <1>2, NoTodo DEF Free
<1>4. ASSUME NEW v \in Worker, Pending(v) PROVE Settled(v)
  BY <1>2, <1>4, WasSettled
<1>5. \A j \in Id : Held(j) => j = i
  BY <1>1 DEF Orderly, HeldAtHand
<1>6. CASE Q!ActivateDispatch(i)
  <2>1. /\ commands[i].state = "Queued" /\ ~commands[i].history
        /\ commands'[i].state = "Queued" /\ commands'[i].ready /\ ~commands'[i].history
        /\ \A j \in Id : j # i => commands'[j] = commands[j]
        /\ UNCHANGED <<dedupe, nextSequence>>
    BY <1>2, <1>6, Releases, StoresHold, QP!ActivateReleases, QAssumed, Names
  <2>2. \A j \in Id : Follows(j)
    BY <1>3, <2>1 DEF Follows
  <2>3. \A j \in Id : ~Held(j)'
    BY <1>5, <2>1 DEF Held
  <2> QED
    BY <1>2, <1>3, <1>4, <2>1, <2>2, <2>3, FoundIsStored, CommandsDone
<1>7. CASE commands[i].ready /\ UNCHANGED commandVars
  <2>1. \A j \in Id : ~Held(j)'
    BY <1>5, <1>7 DEF Held, commandVars
  <2>2. \A j \in Id : Follows(j)
    BY <1>3, <1>7, UnmovedFollows DEF commandVars
  <2> QED
    BY <1>2, <1>3, <1>4, <1>7, <2>1, <2>2, FoundIsStored, CommandsDone DEF commandVars
<1> QED
  BY <1>2, <1>6, <1>7

LEMMA CancelOrderly ==
  ASSUME LaunchInv, LaunchInv', Orderly, faults' = 0, Cancel PROVE Orderly'
<1>1. PICK k, i : k = lock.key /\ i = lock.id
  OBVIOUS
<1>2. /\ lock.step = "cancelUnlinked" /\ UNCHANGED workerVars /\ KnownKey(k)
      /\ i \in Id /\ dedupe[k] = i /\ k \in LaunchKey /\ lock.todo = {}
  BY <1>1, StoresHold DEF Cancel, HeldLock, Orderly, KnownKey
<1>3. lock'.step = "rollbackUnlinked" /\ lock'.key = k /\ lock'.todo = {}
  BY <1>1, <1>2, StoresHold DEF Cancel, Ghosts, Lock
<1>4. Q!CancelPreSend(k) \/ (~Cancellable(k) /\ UNCHANGED commandVars)
  BY <1>1, NoFault DEF Cancel
<1>5. Present(i) /\ commands[i].key = k /\ i # NoId
  BY <1>2, StoresHold, IndexFacts
<1>6. SP!StoreInv' /\ SP!Inherits
  BY <1>2, StoresHold, WorkersStay
<1>7. ASSUME NEW v \in Worker, Pending(v)'
      PROVE  /\ Pending(v) /\ SameLaunch(v) /\ workers[v].current # None /\ workers'[v] = workers[v]
             /\ KeyOf(v, workers[v].current)' = KeyOf(v, workers[v].current)
             /\ AtHand(v)' <=> AtHand(v)
             /\ AtHand(v) => LinkedBefore(v) /\ Held(i)
             /\ ~AtHand(v) => Settled(v)
  <2>1. /\ Pending(v) /\ SameLaunch(v) /\ workers[v].current # None
        /\ workers'[v] = workers[v]
    BY <1>2, <1>7, StaysPut DEF workerVars, Pending
  <2>2. KeyOf(v, workers[v].current)' = KeyOf(v, workers[v].current)
    BY <1>6, <2>1, SameKey DEF SameLaunch
  <2>3. AtHand(v)' <=> AtHand(v)
    BY <1>1, <1>3, <2>2 DEF AtHand
  <2>4. /\ AtHand(v) => LinkedBefore(v)
        /\ ~AtHand(v) => Settled(v)
    BY <1>2, <2>1 DEF Orderly, Accounted, UnderWay
  <2>5. AtHand(v) => Held(i)
    <3>1. AtHand(v) => lock.key.worker = v /\ lock.key.task = workers[v].current
      BY <2>1, CurrentAtHand
    <3> QED
      BY <1>1, <1>2, <2>1, <3>1 DEF Orderly, HeldAtHand
  <2> QED
    BY <2>1, <2>2, <2>3, <2>4, <2>5
<1>8. \A j \in Id : Held(j) => j = i
  BY <1>1 DEF Orderly, HeldAtHand
<1>9. ASSUME Q!CancelPreSend(k) PROVE Orderly'
  <2>1. QP!RemoveCommands({i})
    BY <1>2, <1>9, Cancels
  <2>2. /\ QP!Settles({i}) /\ commands'[i].state = "Absent"
    BY <1>2, <2>1, StoresHold, QP!RemovalSettles, QAssumed, Names
  <2>3. \A j \in Id : ~Held(j)'
    <3>1. \A j \in Id : QP!Calm(j)
      BY <2>2, Names DEF QP!Settles
    <3> QED
      BY <1>8, <2>2, <3>1, CalmHolds DEF Held
  <2>4. \A x \in LaunchKey : dedupe'[x] = dedupe[x] \/ (dedupe[x] = i /\ dedupe'[x] = NoId)
    BY <2>2, Names DEF QP!Settles
  <2>5. dedupe'[k] = NoId
    <3>1. (QP!IInv => IndexStored)' /\ QP!IInv'
      BY Indexed, PTL DEF LaunchInv, Stores
    <3>2. dedupe'[k] # NoId => commands'[dedupe'[k]].state # "Absent"
      BY <1>2, <3>1 DEF IndexStored, Present, NoId, Q!NoId, LaunchKey, Worker, Task
    <3> QED
      BY <1>2, <2>2, <2>4, <3>2
  <2>6. ASSUME NEW v \in Worker, Pending(v)' PROVE Accounted(v)'
    <3>1. CASE AtHand(v)
      <4>1. MissingIsSafe(v)'
        BY <1>7, <2>6, <3>1 DEF LinkedBefore, MissingIsSafe
      <4>2. KeyOf(v, workers[v].current)' = k
        BY <1>1, <1>7, <2>6, <3>1 DEF AtHand
      <4>3. Found(v)' = NoId
        BY <2>5, <4>2 DEF Found
      <4> QED
        BY <1>3, <1>7, <2>6, <3>1, <4>1, <4>3 DEF Accounted, UnderWay, NoId, Q!NoId
    <3>2. CASE ~AtHand(v)
      <4>1. PICK x \in LaunchKey : x = KeyOf(v, workers[v].current)
        BY <1>7, <2>6, CurrentKey
      <4>2. Found(v) = dedupe[x] /\ x # k
        BY <1>1, <3>2, <4>1 DEF Found, AtHand
      <4>3. Found(v) # NoId => /\ Found(v) \in Id /\ Present(Found(v)) /\ Found(v) # i
        BY <1>5, <1>7, <2>6, <4>1, <4>2, FoundIsStored
      <4>4. dedupe'[x] = dedupe[x]
        BY <1>5, <2>4, <4>2, <4>3
      <4>5. Found(v) # NoId => Follows(Found(v))
        BY <1>2, <2>2, <4>3, SettledFollows
      <4>6. Settled(v)'
        BY <1>6, <1>7, <2>6, <3>2, <4>1, <4>2, <4>4, <4>5, SettledKept
      <4> QED
        BY <1>3, <4>6 DEF Accounted
    <3> QED
      BY <3>1, <3>2
  <2> QED
    BY <1>3, <2>3, <2>6 DEF Orderly, HeldAtHand, Id, Q!Id
<1>10. CASE ~Cancellable(k) /\ UNCHANGED commandVars
  <2>1. ~Held(i)
    <3>1. Held(i) => commands[i].state = "Queued"
      BY <1>2, <1>5, StoresHold, CommandFacts DEF Held
    <3>2. CommandOf(k) = commands[i]
      BY <1>2, <1>5 DEF CommandOf
    <3> QED
      BY <1>10, <3>1, <3>2 DEF Cancellable, Q!CancellablePreSend
  <2>2. \A j \in Id : ~Held(j)'
    BY <1>8, <1>10, <2>1 DEF Held, commandVars
  <2>3. ASSUME NEW v \in Worker, Pending(v)' PROVE Settled(v)'
    <3>1. Follows(Found(v)) /\ dedupe' = dedupe
      BY <1>2, <1>10 DEF Follows, commandVars
    <3> QED
      BY <1>6, <1>7, <2>1, <2>3, <3>1, SettledStays
  <2> QED
    BY <1>3, <2>2, <2>3 DEF Orderly, HeldAtHand, Accounted, Id, Q!Id
<1> QED
  BY <1>4, <1>9, <1>10

\* A launch waits for a rollback as it was asked for, until it is linked.
LEMMA UnlinkedRollsBack ==
  ASSUME LaunchInv, NEW v \in Worker, Pending(v), workers[v].command = None, AtHand(v)
  PROVE  CanRollback(lock.key, None)
<1>1. PICK k, t : k = lock.key /\ t = workers[v].current
  OBVIOUS
<1>2. t # None /\ workers[v].state \in {"Provisioning", "Waking"} /\ SP!StoreInv
  BY <1>1, StoresHold DEF Pending
<1>3. k.worker = v /\ k.task = t /\ (k.reuse <=> SP!Reused(receipts, t))
  BY <1>1, KeyOfFacts DEF AtHand
<1>4. k.reuse \in BOOLEAN
  BY <1>1 DEF AtHand, KeyOf
<1>5. SP!Life(workers, tasks) /\ SP!Receipts(workers, tasks, receipts, batches)
  BY <1>2 DEF SP!StoreInv
<1>6. /\ workers[v].state = "Provisioning" => ~SP!Reused(receipts, t)
      /\ workers[v].state = "Waking" => SP!Reused(receipts, t)
  BY <1>1, <1>2, <1>5, SP!LaunchKind, SAssumed, Names
<1>7. /\ workers[v].state = "Waking" => workers[v].chat # None
      /\ workers[v].state = "Provisioning" => workers[v].chat = None
  BY <1>1, <1>2, WorkerFacts, StoresHold DEF Together, RecordRight
<1>8. tasks[t].state = "Pending"
  BY <1>1, <1>2, WorkerFacts
<1>9. S!HasPending(v, {IF k.reuse THEN "Waking" ELSE "Provisioning"})
  BY <1>1, <1>2, <1>3, <1>6, <1>8 DEF S!HasPending
<1>10. (workers[v].chat # None) = k.reuse
  BY <1>2, <1>3, <1>4, <1>6, <1>7
<1> QED
  BY <1>1, <1>3, <1>9, <1>10 DEF CanRollback

LEMMA RollbackOrderly ==
  ASSUME LaunchInv, Orderly, faults' = 0, Rollback PROVE Orderly'
<1>1. PICK k : k = lock.key
  OBVIOUS
<1>2. /\ lock.step = "rollbackUnlinked" /\ lock' = Free /\ UNCHANGED commandVars /\ KnownKey(k)
      /\ \/ S!ForgetReuse(k.worker) \/ S!ForgetSpawn(k.worker)
         \/ ~CanRollback(k, None) /\ UNCHANGED workerVars
  BY <1>1, NoFault, StoresHold DEF Rollback, HeldLock, Orderly
<1>3. lock'.step = "free"
  BY <1>2 DEF Free
<1>4. PICK w \in Worker : w = k.worker
  BY <1>2, KeyFacts DEF KnownKey
<1>5. CASE S!ForgetReuse(w) \/ S!ForgetSpawn(w)
  <2>1. OnlyWorker(w) /\ workers'[w].current = None
    BY <1>5, StoresHold, ForgetUndoes DEF Undoes
  <2>2. ASSUME NEW v \in Worker, Pending(v)' PROVE Pending(v) /\ Settled(v) /\ SameLaunch(v)
    <3>1. v # w
      BY <2>1, <2>2 DEF Pending
    <3>2. Pending(v) /\ SameLaunch(v)
      BY <2>1, <2>2, <3>1, StaysPut DEF OnlyWorker
    <3>3. ~AtHand(v)
      BY <1>1, <1>4, <3>1, <3>2, CurrentAtHand DEF Pending
    <3> QED
      BY <3>2, <3>3, WasSettled
  <2> QED
    BY <1>2, <1>3, <2>1, <2>2, WorkersDone DEF OnlyWorker
<1>6. CASE ~CanRollback(k, None) /\ UNCHANGED workerVars
  <2>1. SP!StoreInv' /\ SP!Inherits
    BY <1>6, StoresHold, WorkersStay
  <2>2. ASSUME NEW v \in Worker, Pending(v)' PROVE Pending(v) /\ Settled(v) /\ SameLaunch(v)
    <3>1. Pending(v) /\ SameLaunch(v)
      BY <1>6, <2>2, StaysPut DEF workerVars
    <3>2. AtHand(v) => workers[v].command # None
      BY <1>1, <1>6, <3>1, UnlinkedRollsBack
    <3>3. Settled(v) \/ (AtHand(v) /\ Found(v) = NoId /\ (workers[v].command = None \/ MissingIsSafe(v)))
      BY <1>2, <3>1 DEF Orderly, Accounted, UnderWay
    <3> QED
      BY <3>1, <3>2, <3>3 DEF Settled
  <2> QED
    BY <1>2, <1>3, <2>1, <2>2, WorkersDone
<1> QED
  BY <1>2, <1>4, <1>5, <1>6

LEMMA NothingSettles == ASSUME NEW X, UNCHANGED commandVars PROVE QP!Settles(X)
<1>1. \A i : QP!Calm(i)
  BY DEF QP!Calm, commandVars
<1> QED
  BY <1>1 DEF QP!Settles, commandVars

\* What is done to the command of one launch leaves the others as they were.
LEMMA OthersSettled ==
  ASSUME LaunchInv, UNCHANGED workerVars, lock.todo = {}, NEW k \in LaunchKey,
         QP!Settles({dedupe[k]}),
         NEW v \in Worker, Pending(v), Settled(v), ~(KeyOf(v, workers[v].current) = k)
  PROVE  Settled(v)'
<1>1. SP!StoreInv' /\ SP!Inherits /\ SameLaunch(v)
  BY StoresHold, WorkersStay, StaysPut DEF workerVars
<1>2. PICK x \in LaunchKey : x = KeyOf(v, workers[v].current)
  BY CurrentKey DEF Pending
<1>3. Found(v) = dedupe[x] /\ x # k
  BY <1>2 DEF Found
<1>4. Found(v) # NoId =>
        /\ Found(v) \in Id /\ Present(Found(v)) /\ commands[Found(v)].key = x
  BY <1>2, FoundIsStored
<1>5. Found(v) # NoId => Found(v) # dedupe[k]
  BY <1>3, <1>4, StoresHold, IndexFacts
<1>6. dedupe'[x] = dedupe[x] \/ (dedupe[x] = dedupe[k] /\ dedupe'[x] = NoId)
  BY Names DEF QP!Settles
<1>7. dedupe'[x] = dedupe[x]
  BY <1>3, <1>5, <1>6
<1>8. Found(v) # NoId => Follows(Found(v))
  BY <1>4, <1>5, SettledFollows
<1> QED
  BY <1>1, <1>2, <1>3, <1>7, <1>8, SettledKept

LEMMA RetireOrderly ==
  ASSUME LaunchInv, Orderly, NEW w \in Worker, Retire(w) PROVE Orderly'
<1>1. PICK k : k = KeyOf(w, workers[w].current)
  OBVIOUS
<1>2. lock = Free /\ lock.step = "free" /\ lock.todo = {}
  BY DEF Retire, Free
<1>3. Pending(w) => k \in LaunchKey
  BY <1>1, CurrentKey DEF Pending
<1>4. ASSUME NEW step \in {"retireSent", "retireUnsent"}, Pending(w), QP!Settles({dedupe[k]}),
             lock' = At(step, k, NoId), UNCHANGED workerVars
      PROVE  Orderly'
  <2>1. lock'.step = step /\ lock'.key = k
    BY <1>4 DEF At
  <2>2. \A j \in Id : ~Held(j)'
    <3>1. \A j \in Id : QP!Calm(j)
      BY <1>4, Names DEF QP!Settles
    <3> QED
      BY <1>2, <3>1, NoneHeld, CalmHolds
  <2>3. ASSUME NEW v \in Worker, Pending(v)' PROVE Accounted(v)'
    <3>1. Pending(v) /\ SameLaunch(v)
      BY <1>4, <2>3, StaysPut DEF workerVars
    <3>2. CASE KeyOf(v, workers[v].current) = k
      <4>1. SP!StoreInv' /\ SP!Inherits
        BY <1>4, StoresHold, WorkersStay
      <4>2. KeyOf(v, workers[v].current)' = k
        BY <3>1, <3>2, <4>1, SameKey DEF Pending, SameLaunch
      <4> QED
        BY <2>1, <4>2 DEF Accounted, AtHand, UnderWay
    <3>3. CASE KeyOf(v, workers[v].current) # k
      <4>1. Settled(v)
        BY <1>2, <3>1, WasSettled
      <4>2. Settled(v)'
        BY <1>2, <1>3, <1>4, <3>1, <3>3, <4>1, OthersSettled
      <4> QED
        BY <1>4, <2>1, <4>2 DEF Accounted
    <3> QED
      BY <3>2, <3>3
  <2> QED
    BY <2>1, <2>2, <2>3 DEF Orderly, HeldAtHand, Id, Q!Id
<1>5. ASSUME Q!FenceUnclaimedAfterSend(k), Pending(w) PROVE QP!Settles({dedupe[k]})
  BY <1>3, <1>5, Fences, StoresHold, QP!FenceSettles, QAssumed
<1>6. ASSUME Q!SettleForWorkerRetire(k), Pending(w) PROVE QP!Settles({dedupe[k]})
  BY <1>6, RetireSettles, StoresHold, QP!RemovalSettles, QAssumed
<1>7. UNCHANGED commandVars => QP!Settles({dedupe[k]})
  BY NothingSettles
<1>8. CASE S!RetireIdle(w) /\ UNCHANGED <<commandVars, lock>>
  <2>1. OnlyWorker(w) /\ workers'[w].current = None
    BY <1>8, StoresHold, RetireIdleMoves
  <2>2. ASSUME NEW v \in Worker, Pending(v)' PROVE Pending(v) /\ Settled(v) /\ SameLaunch(v)
    <3>1. v # w
      BY <2>1, <2>2 DEF Pending
    <3>2. Pending(v) /\ SameLaunch(v)
      BY <2>1, <2>2, <3>1, StaysPut DEF OnlyWorker
    <3> QED
      BY <1>2, <3>2, WasSettled
  <2> QED
    BY <1>2, <1>8, <2>1, <2>2, WorkersDone DEF OnlyWorker
<1> QED
  BY <1>1, <1>4, <1>5, <1>6, <1>7, <1>8 DEF Retire

\* A launch that waits has a task that waits.
LEMMA PendingHasPending ==
  ASSUME SP!StoreInv, NEW w \in Worker, Pending(w)
  PROVE  S!HasPending(w, {"Provisioning", "Waking"})
BY WorkerFacts DEF Pending, S!HasPending

LEMMA RetireWorkerOrderly ==
  ASSUME LaunchInv, Orderly, RetireWorker PROVE Orderly'
<1>1. PICK k : k = lock.key
  OBVIOUS
<1>2. /\ lock.step \in {"retireSent", "retireUnsent"} /\ lock' = Free
      /\ UNCHANGED commandVars /\ KnownKey(k)
  BY <1>1, StoresHold DEF RetireWorker, HeldLock
<1>3. PICK w \in Worker : w = k.worker
  BY <1>2, KeyFacts DEF KnownKey
<1>4. lock'.step = "free"
  BY <1>2 DEF Free
<1>5. ASSUME SP!StoreInv', SP!Inherits, ~Pending(w)',
             \A v \in Worker : v # w => workers'[v] = workers[v]
      PROVE  Orderly'
  <2>1. ASSUME NEW v \in Worker, Pending(v)' PROVE Pending(v) /\ Settled(v) /\ SameLaunch(v)
    <3>1. v # w
      BY <1>5, <2>1
    <3>2. Pending(v) /\ SameLaunch(v)
      BY <1>5, <2>1, <3>1, StaysPut
    <3>3. ~AtHand(v)
      BY <1>1, <1>3, <3>1, <3>2, CurrentAtHand DEF Pending
    <3> QED
      BY <3>2, <3>3, WasSettled
  <2> QED
    BY <1>2, <1>4, <1>5, <2>1, WorkersDone
<1>6. CASE S!CancelUnclaimedAfterSend(w) \/ S!RetirePending(w)
  <2>1. Ends(w)
    BY <1>6, StoresHold, CancelEnds, RetireEnds
  <2> QED
    BY <1>5, <2>1 DEF Ends, OnlyWorker, Pending
<1>7. CASE ~S!HasPending(w, {"Provisioning", "Waking"}) /\ UNCHANGED workerVars
  <2>1. ~Pending(w)
    BY <1>7, StoresHold, PendingHasPending
  <2>2. SP!StoreInv' /\ SP!Inherits
    BY <1>7, StoresHold, WorkersStay
  <2> QED
    BY <1>5, <1>7, <2>1, <2>2 DEF Pending, workerVars
<1> QED
  BY <1>1, <1>3, <1>6, <1>7 DEF RetireWorker

\* What the mirror is told of a command that may have been sent.
LEMMA MirrorOfSent ==
  ASSUME LaunchInv, NEW i \in Id, Present(i), commands[i].state # "Failed"
  PROVE  LET c == commands[i] IN
         /\ c.history => MirrorOf(c) \notin {"Unknown", "Queued", "Preparing"}
         /\ c.state = "Succeeded" => MirrorOf(c) = "WaitingClaim"
<1>1. commands[i].state \in {"Queued", "Leased", "SendStarted", "NeedsReconcile",
                             "Paused", "Succeeded"}
  BY StoresHold, CommandFacts DEF Q!Command, Q!State, Present
<1>2. commands[i].state = "Queued" => ~commands[i].history
  BY StoresHold, CommandFacts
<1> QED
  BY <1>1, <1>2 DEF MirrorOf

\* A failed launch that is left alone was claimed.
LEMMA LeftAloneIsClaimed ==
  ASSUME LaunchInv, NEW w \in Worker, Pending(w), ~CanSettle(w)
  PROVE  workers[w].launch = "Claimed"
<1>1. S!HasPending(w, {"Provisioning", "Waking"})
  BY StoresHold, PendingHasPending
<1>2. /\ workers[w].state = "Waking" => workers[w].chat # None
      /\ workers[w].state = "Provisioning" /\ workers[w].chat # None => workers[w].launch = "Claimed"
  BY StoresHold, WorkerFacts DEF Together, RecordRight
<1>3. /\ workers[w].state = "Waking" => S!HasPending(w, {"Waking"})
      /\ workers[w].state = "Provisioning" => S!HasPending(w, {"Provisioning"})
  BY <1>1 DEF S!HasPending
<1> QED
  BY <1>2, <1>3 DEF CanSettle, Pending

LEMMA MirrorOrderly ==
  ASSUME LaunchInv, Orderly, NEW i \in Id, Mirror(i) PROVE Orderly'
<1>1. /\ lock.step = "sync" /\ i \in lock.todo /\ Present(i) /\ UNCHANGED commandVars
      /\ lock' = Sync(lock.todo \ {i}) /\ dedupe' = dedupe /\ commands' = commands
  BY StoresHold DEF Mirror, HeldLock, commandVars
<1>2. lock'.step \in {"free", "sync"} /\ lock'.todo = lock.todo \ {i}
  BY <1>1 DEF Sync, Free
<1>3. \A j \in Id : ~Held(j)'
  BY <1>1, NoneHeld DEF Held
<1>4. ASSUME NEW v \in Worker, Pending(v) PROVE Settled(v)
  BY <1>1, <1>4, WasSettled
<1>5. ASSUME NEW w \in LinkedTo(i), NEW v \in Worker, Pending(v), Found(v) = i PROVE v = w
  <2>1. commands[i].key.worker = v
    BY <1>5, FoundFacts, IndexFacts, StoresHold
  <2>2. w \in Worker /\ workers[w].command # None /\ workers[w].command[2] = i + 1 /\ i \in Nat
    BY <1>5, StoresHold, CommandFacts DEF LinkedTo
  <2>3. workers[w].command[2] - 1 = i
    BY <2>2
  <2>4. commands[i].key.worker = w
    BY <1>1, <2>2, <2>3, StoresHold DEF Together, LinkRight
  <2> QED
    BY <2>1, <2>4
<1>6. ASSUME SP!StoreInv', SP!Inherits, NEW v \in Worker, Pending(v)', workers'[v] = workers[v],
             Pending(v) => Found(v) # i
      PROVE  Settled(v)'
  <2>1. Pending(v) /\ SameLaunch(v)
    BY <1>6, StaysPut
  <2>2. Follows(Found(v))
    BY <1>1, <1>2, <1>6, <2>1, UnmovedFollows
  <2> QED
    BY <1>1, <1>4, <1>6, <2>1, <2>2, SettledStays
<1>7. CASE LinkedTo(i) = {} /\ UNCHANGED workerVars
  <2>1. SP!StoreInv' /\ SP!Inherits
    BY <1>7, StoresHold, WorkersStay
  <2>2. ASSUME NEW v \in Worker, Pending(v), Found(v) = i PROVE FALSE
    <3>1. Linked(v, i) /\ workers[v].command # None
      BY <1>4, <2>2, StoresHold, IndexFacts DEF Settled
    <3>2. workers[v].command[2] = i + 1
      BY <3>1 DEF Linked
    <3> QED
      BY <1>7, <3>1, <3>2 DEF LinkedTo
  <2> QED
    BY <1>2, <1>3, <1>6, <1>7, <2>1, <2>2, DoneIsOrderly DEF workerVars
\* The worker the command is mirrored to is level with it.
<1>8. ASSUME NEW w \in LinkedTo(i), OnlyWorker(w), Pending(w)' => Pending(w) /\ Level(w)',
             workers'[w].current \in {workers[w].current, None},
             workers'[w].command \in {workers[w].command, None},
             Pending(w)' => workers'[w].command = workers[w].command
      PROVE  Orderly'
  <2>1. w \in Worker /\ SP!StoreInv' /\ SP!Inherits
    BY <1>8 DEF LinkedTo, OnlyWorker
  <2>2. ASSUME Pending(w)' PROVE Settled(w)'
    <3>1. /\ Pending(w) /\ workers[w].current # None
          /\ workers'[w].current = workers[w].current /\ workers'[w].command = workers[w].command
      BY <1>8, <2>2 DEF Pending
    <3>2. Linked(w, i) /\ dedupe[KeyOf(w, workers[w].current)] = i /\ workers[w].command # None
      BY <1>1, <1>8, <3>1, LinkedCommand DEF LinkedTo
    <3>3. KeyOf(w, workers[w].current)' = KeyOf(w, workers[w].current)
      BY <2>1, <3>1, SameKey
    <3>4. Found(w)' = i /\ Linked(w, i)' /\ i # NoId
      BY <1>1, <3>1, <3>2, <3>3, StoresHold, IndexFacts DEF Found, Linked
    <3> QED
      BY <1>8, <2>2, <3>1, <3>2, <3>4 DEF Settled, Linked, NoId, Q!NoId
  <2>3. ASSUME NEW v \in Worker, v # w, Pending(v)' PROVE Settled(v)'
    BY <1>5, <1>6, <1>8, <2>1, <2>3 DEF OnlyWorker
  <2> QED
    BY <1>2, <1>3, <2>2, <2>3, DoneIsOrderly
<1>9. ASSUME NEW w \in LinkedTo(i), ProvenUnsent(commands[i]), S!SettlePreSendFailure(w)
      PROVE  Orderly'
  <2>1. Ends(w)
    BY <1>9, StoresHold, SettleEnds DEF LinkedTo
  <2> QED
    BY <1>8, <1>9, <2>1 DEF Ends, Pending
<1>10. ASSUME NEW w \in LinkedTo(i), UNCHANGED workerVars, Pending(w) => workers[w].launch = "Claimed"
       PROVE  Orderly'
  <2>1. OnlyWorker(w) /\ workers' = workers
    BY <1>10, StoresHold, WorkersStay DEF OnlyWorker, workerVars
  <2>2. Pending(w)' => Pending(w) /\ Level(w)'
    BY <1>10, <2>1 DEF Pending, Level
  <2> QED
    BY <1>8, <1>10, <2>1, <2>2
<1>11. ASSUME NEW w \in LinkedTo(i), ~ProvenUnsent(commands[i]), workers[w].launch # "Claimed",
              S!UpdateLaunchByCommand(w, MirrorOf(commands[i]), commands[i].conv # 0)
       PROVE  Orderly'
  <2>1. PICK launch, url : launch = MirrorOf(commands[i]) /\ url = (commands[i].conv # 0)
    OBVIOUS
  <2>2. <<launch, url>> \in S!Mirrorable /\ w \in Worker
    BY <1>1, <1>11, <2>1, MirrorOfFacts DEF LinkedTo
  <2>3. /\ OnlyWorker(w)
        /\ workers'[w].state = workers[w].state /\ workers'[w].current = workers[w].current
        /\ workers'[w].command = workers[w].command /\ workers'[w].launch = launch
    BY <1>11, <2>1, <2>2, StoresHold, MirrorMoves
  <2>4. ASSUME Pending(w)' PROVE Pending(w) /\ Level(w)'
    <3>1. Pending(w) /\ workers[w].current # None
      BY <2>3, <2>4 DEF Pending
    <3>2. dedupe[KeyOf(w, workers[w].current)] = i
      BY <1>1, <1>11, <3>1, LinkedCommand
    <3>3. Found(w) = i /\ i # NoId
      BY <3>2, StoresHold, IndexFacts DEF Found
    <3>4. Level(w)
      BY <1>4, <2>2, <3>1, <3>3 DEF Settled
    <3>5. commands[i].state = "Failed" => ~commands[i].history
      BY <1>11, <3>3, <3>4 DEF Level
    <3>6. commands[i].state # "Failed"
      BY <1>11, <3>5 DEF ProvenUnsent
    <3>7. /\ commands[i].history => launch \notin {"Unknown", "Queued", "Preparing"}
          /\ commands[i].state = "Succeeded" => launch = "WaitingClaim"
      BY <1>1, <2>1, <3>6, MirrorOfSent
    <3>8. KeyOf(w, workers[w].current)' = KeyOf(w, workers[w].current)
      BY <2>2, <2>3, <3>1, SameKey DEF OnlyWorker
    <3>9. Found(w)' = i
      BY <1>1, <3>2, <3>8 DEF Found
    <3> QED
      BY <1>1, <2>3, <3>1, <3>6, <3>7, <3>9 DEF Level, MissingIsSafe
  <2> QED
    BY <1>8, <1>11, <2>3, <2>4
<1>12. ASSUME NEW w \in LinkedTo(i), UNCHANGED workerVars,
              \/ ProvenUnsent(commands[i]) /\ ~CanSettle(w)
              \/ workers[w].launch = "Claimed"
       PROVE  Orderly'
  BY <1>10, <1>12, LeftAloneIsClaimed DEF LinkedTo
<1> QED
  BY <1>7, <1>9, <1>11, <1>12 DEF Mirror

\* A step of the browsers leaves at most the mirror to do.
LEMMA BrowsersDone ==
  ASSUME LaunchInv, Orderly, UNCHANGED workerVars, lock = Free, lock'.step \in {"free", "sync"},
         NEW X, QP!Settles(X), \A k \in LaunchKey : dedupe'[k] = dedupe[k],
         \A j \in X : Follows(j)
  PROVE  Orderly'
<1>1. lock.step = "free" /\ lock.todo = {}
  BY DEF Free
<1>2. \A j \in Id : ~Held(j)'
  BY <1>1, NoneHeld, CalmHolds, Names DEF QP!Settles
<1>3. SP!StoreInv' /\ SP!Inherits
  BY StoresHold, WorkersStay
<1>4. ASSUME NEW v \in Worker, Pending(v)' PROVE Settled(v)'
  <2>1. Pending(v) /\ SameLaunch(v)
    BY <1>4, StaysPut DEF workerVars
  <2>2. Settled(v)
    BY <1>1, <2>1, WasSettled
  <2>3. Found(v) # NoId => Follows(Found(v))
    BY <1>1, <2>1, FoundIsStored, SettledFollows
  <2>4. PICK x \in LaunchKey : x = KeyOf(v, workers[v].current)
    BY <2>1, CurrentKey DEF Pending
  <2>5. dedupe'[KeyOf(v, workers[v].current)] = Found(v)
    BY <2>4 DEF Found
  <2> QED
    BY <1>3, <2>1, <2>2, <2>3, <2>5, SettledKept
<1> QED
  BY <1>2, <1>4, DoneIsOrderly

LEMMA SyncSteps ==
  ASSUME NEW T, lock' = Sync(T) PROVE lock'.step \in {"free", "sync"} /\ lock'.todo = T
BY DEF Sync, Free

LEMMA RedeemOrderly ==
  ASSUME LaunchInv, Orderly, NEW client \in Client, NEW e, Redeem(client, e) PROVE Orderly'
<1>1. QP!Redeem(client, e) /\ lock = Free /\ UNCHANGED workerVars
  BY Redeems DEF Redeem
<1>2. QP!Settles({})
  BY <1>1, StoresHold, QP!RedeemSettles, QAssumed
<1>3. lock'.step \in {"free", "sync"}
  BY SyncSteps DEF Redeem
<1>4. \A k \in LaunchKey : dedupe'[k] = dedupe[k]
  BY <1>2, Names DEF QP!Settles
<1> QED
  BY <1>1, <1>2, <1>3, <1>4, BrowsersDone

LEMMA RevokeOrderly ==
  ASSUME LaunchInv, Orderly, NEW client \in Client, Revoke(client) PROVE Orderly'
<1>1. /\ QP!SettleRevokedClient(client) \/ UNCHANGED commandVars
      /\ lock = Free /\ UNCHANGED workerVars
  BY Revokes DEF Revoke
<1>2. QP!Settles({})
  BY <1>1, StoresHold, NothingSettles, QP!RevokeSettles, QAssumed
<1>3. lock'.step \in {"free", "sync"}
  BY SyncSteps DEF Revoke
<1>4. \A k \in LaunchKey : dedupe'[k] = dedupe[k]
  BY <1>2, Names DEF QP!Settles
<1> QED
  BY <1>1, <1>2, <1>3, <1>4, BrowsersDone

LEMMA MarkOrderly ==
  ASSUME LaunchInv, Orderly, NEW i \in Id, NEW l \in 1 .. MaxLease, NEW client \in Client,
         MarkSendStarted(i, l, client)
  PROVE  Orderly'
<1>1. /\ lock = Free /\ UNCHANGED workerVars
      /\ lock'.step \in {"free", "sync"} /\ lock'.todo = {i}
      /\ Q!MarkSendStarted(i, l, client) \/ UNCHANGED commandVars
  BY SyncSteps DEF MarkSendStarted
<1>2. lock.step = "free" /\ lock.todo = {}
  BY <1>1 DEF Free
<1>3. ASSUME NEW v \in Worker, Pending(v)
      PROVE  Settled(v) /\ (Found(v) # NoId => Found(v) \in Id)
  BY <1>2, <1>3, WasSettled, FoundIsStored
<1>4. CASE Q!MarkSendStarted(i, l, client)
  <2>1. /\ commands'[i].state = "SendStarted" /\ commands'[i].ready
        /\ \A j \in Id : j # i => commands'[j] = commands[j]
        /\ UNCHANGED <<dedupe, nextSequence>>
    BY <1>4, Marks, StoresHold, QP!MarkTells, QAssumed, Names
  <2>2. \A j \in Id : Follows(j)
    BY <1>1, <1>2, <2>1 DEF Follows
  <2>3. \A j \in Id : ~Held(j)'
    BY <1>2, <2>1, NoneHeld DEF Held
  <2> QED
    BY <1>1, <1>3, <2>1, <2>2, <2>3, CommandsDone
<1>5. CASE UNCHANGED commandVars
  <2>1. \A j \in Id : Follows(j)
    BY <1>2, <1>5, UnmovedFollows DEF commandVars
  <2>2. \A j \in Id : ~Held(j)'
    BY <1>2, <1>5, NoneHeld DEF Held, commandVars
  <2> QED
    BY <1>1, <1>3, <1>5, <2>1, <2>2, CommandsDone DEF commandVars
<1> QED
  BY <1>1, <1>4, <1>5

LEMMA AcknowledgeOrderly ==
  ASSUME LaunchInv, Orderly, NEW i \in Id, NEW l \in 1 .. MaxLease, NEW client \in Client,
         Acknowledge(i, l, client)
  PROVE  Orderly'
<1>1. PICK conv : conv = commands[i].key.worker
  OBVIOUS
<1>2. /\ lock = Free /\ UNCHANGED workerVars
      /\ lock'.step \in {"free", "sync"} /\ lock'.todo = {i}
      /\ \/ Q!AckSucceeded(i, l, client, conv) \/ Q!AckFailed(i, l, client)
         \/ Q!AckNeedsReconcile(i, l, client) \/ Q!AckPaused(i, l, client)
  BY <1>1, SyncSteps DEF Acknowledge
<1>3. Present(i)
  BY <1>2 DEF Q!AckSucceeded, Q!AckFailed, Q!AckNeedsReconcile, Q!AckPaused, Q!Acknowledge, Present
<1>4. conv \in Worker
  BY <1>1, <1>3, StoresHold, CommandFacts, KeyFacts
<1>5. \/ \E x \in Worker : QP!AckSucceeded(i, l, client, x)
      \/ QP!AckFailed(i, l, client)
      \/ QP!AckNeedsReconcile(i, l, client) \/ QP!AckPaused(i, l, client)
  BY <1>2, <1>4, Acks
<1>6. QP!Settles({i})
  BY <1>5, StoresHold, Names, QP!AcksSettle, QAssumed
<1>7. dedupe' = dedupe
  BY <1>2 DEF Q!AckSucceeded, Q!AckFailed, Q!AckNeedsReconcile, Q!AckPaused, Q!Acknowledge, Q!Become
<1>8. ASSUME commands'[i].state = "Failed" PROVE ~commands'[i].history
  <2>1. commands[i] \in Q!Command
    BY StoresHold, CommandFacts
  <2>2. CASE Q!AckFailed(i, l, client)
    <3>1. QP!Calm(i) /\ ~commands[i].history
      BY <1>6, <2>2, Names DEF QP!Settles, Q!AckFailed
    <3> QED
      BY <1>8, <3>1 DEF QP!Calm
  <2>3. ASSUME NEW state \in {"Succeeded", "NeedsReconcile", "Paused"}, NEW history0, NEW conv0,
               Q!Acknowledge(i, l, client, state, history0, conv0)
        PROVE  FALSE
    <3>1. /\ commands' = [commands EXCEPT ![i] =
               [Q!Unleased(commands[i]) EXCEPT !.state = state, !.history = history0, !.conv = conv0]]
          /\ DOMAIN commands = Id
      BY <2>3, StoresHold, CommandTypes, Names DEF Q!Acknowledge, Q!Become, Q!TypeOK
    <3>2. [Q!Unleased(commands[i]) EXCEPT !.state = state, !.history = history0, !.conv = conv0].state = state
      BY <2>1 DEF Q!Unleased, Q!Command
    <3> QED
      BY <1>8, <2>3, <3>1, <3>2
  <2> QED
    BY <1>2, <2>2, <2>3 DEF Q!AckSucceeded, Q!AckNeedsReconcile, Q!AckPaused
<1>9. \A j \in {i} : Follows(j)
  BY <1>2, <1>8 DEF Follows
<1> QED
  BY <1>2, <1>6, <1>7, <1>9, BrowsersDone

\* A step of the worker's conversation: a launch that goes on was found sent.
LEMMA ConversationDone ==
  ASSUME LaunchInv, Orderly, NEW w \in Worker, OnlyWorker(w), UNCHANGED commandVars,
         lock.step = "free", lock'.step \in {"free", "confirm"},
         Pending(w)' =>
           /\ Pending(w) /\ workers'[w].current = workers[w].current
           /\ workers'[w].command = workers[w].command
           /\ workers[w].launch # "Claimed"
           /\ workers'[w].launch \in {"WaitingClaim", "Claimed"}
  PROVE  Orderly'
<1>1. lock.todo = {} /\ dedupe' = dedupe /\ commands' = commands
  BY NoTodo DEF commandVars
<1>2. SP!StoreInv' /\ SP!Inherits
  BY DEF OnlyWorker
<1>3. ASSUME Pending(w)' PROVE Settled(w)'
  <2>1. /\ Pending(w) /\ workers[w].current # None
        /\ workers'[w].current = workers[w].current
        /\ workers'[w].command = workers[w].command
        /\ workers[w].launch # "Claimed"
        /\ workers'[w].launch \in {"WaitingClaim", "Claimed"}
    BY <1>3 DEF Pending
  <2>2. Settled(w)
    BY <2>1, WasSettled
  <2>3. KeyOf(w, workers[w].current)' = KeyOf(w, workers[w].current)
    BY <1>2, <2>1, SameKey
  <2>4. Found(w)' = Found(w)
    BY <1>1, <2>3 DEF Found
  <2>5. MissingIsSafe(w)'
    BY <2>1 DEF MissingIsSafe
  <2>6. Linked(w, Found(w)) => Linked(w, Found(w))'
    BY <2>1, <2>4 DEF Linked
  <2>7. Level(w) => Level(w)'
    BY <1>1, <2>1, <2>4, <2>5 DEF Level
  <2> QED
    BY <2>1, <2>2, <2>4, <2>5, <2>6, <2>7 DEF Settled, NoId, Q!NoId
<1>4. ASSUME NEW v \in Worker, Pending(v)'
      PROVE  Settled(v)' \/ (Pending(v) /\ Settled(v) /\ SameLaunch(v))
  <2>1. CASE v = w
    BY <1>3, <1>4, <2>1
  <2>2. CASE v # w
    <3>1. Pending(v) /\ SameLaunch(v)
      BY <1>4, <2>2, StaysPut DEF OnlyWorker
    <3> QED
      BY <3>1, WasSettled
  <2> QED
    BY <2>1, <2>2
<1> QED
  BY <1>2, <1>4, WorkersDone

LEMMA RegisterClaimOrderly ==
  ASSUME LaunchInv, Orderly, NEW w \in Worker, RegisterClaim(w) PROVE Orderly'
<1>1. /\ lock.step = "free" /\ lock'.step = "free" /\ UNCHANGED commandVars
      /\ S!UpdateLaunchByCommand(w, "WaitingClaim", TRUE)
  BY DEF RegisterClaim, Free
<1>2. PICK launch, url : launch = "WaitingClaim" /\ url = TRUE
  OBVIOUS
<1>3. <<launch, url>> \in S!Mirrorable /\ S!UpdateLaunchByCommand(w, launch, url)
  BY <1>1, <1>2 DEF S!Mirrorable
<1>4. /\ OnlyWorker(w) /\ workers[w].launch # "Claimed"
      /\ workers'[w].state = workers[w].state /\ workers'[w].current = workers[w].current
      /\ workers'[w].command = workers[w].command /\ workers'[w].launch = launch
  BY <1>3, StoresHold, MirrorMoves
<1> QED
  BY <1>1, <1>2, <1>4, ConversationDone DEF Pending

LEMMA ClaimOrderly ==
  ASSUME LaunchInv, Orderly, NEW w \in Worker, NEW h \in Chat, Claim(w, h) PROVE Orderly'
<1>1. /\ lock.step = "free" /\ lock'.step = "free" /\ UNCHANGED commandVars
      /\ S!ClaimWorkerAttested(w, h)
  BY DEF Claim, Free
<1>2. /\ OnlyWorker(w) /\ workers[w].current # None /\ workers[w].chat = None
      /\ workers[w].launch = "WaitingClaim" /\ workers'[w].launch = "Claimed"
      /\ workers'[w].current = workers[w].current
      /\ workers'[w].command = workers[w].command
  BY <1>1, StoresHold, ClaimMoves
<1>3. Pending(w)
  BY <1>2, StoresHold, WorkerFacts DEF Pending
<1> QED
  BY <1>1, <1>2, <1>3, ConversationDone

LEMMA StartOrderly ==
  ASSUME LaunchInv, Orderly, NEW w \in Worker, Start(w) PROVE Orderly'
<1>1. /\ lock.step = "free" /\ lock'.step = "confirm" /\ UNCHANGED commandVars
      /\ S!StartTask(w) \/ (S!AtWork(w) /\ UNCHANGED workerVars)
  BY DEF Start, Free, At
<1>2. OnlyWorker(w) /\ workers'[w].state = "Running"
  <2>1. CASE S!StartTask(w)
    BY <2>1, StoresHold, StartMoves
  <2>2. CASE S!AtWork(w) /\ UNCHANGED workerVars
    BY <2>2, StoresHold, WorkersStay DEF OnlyWorker, workerVars, S!AtWork
  <2> QED
    BY <1>1, <2>1, <2>2
<1> QED
  BY <1>1, <1>2, ConversationDone DEF Pending

LEMMA FinishOrderly ==
  ASSUME LaunchInv, Orderly, NEW w \in Worker, Finish(w) PROVE Orderly'
<1>1. /\ lock.step = "free" /\ lock'.step = "free" /\ UNCHANGED commandVars /\ S!FinishTask(w)
  BY DEF Finish, Free
<1>2. OnlyWorker(w) /\ workers'[w].state = "Idle"
  BY <1>1, StoresHold, FinishMoves
<1> QED
  BY <1>1, <1>2, ConversationDone DEF Pending

LEMMA ConfirmOrderly ==
  ASSUME LaunchInv, Orderly, faults' = 0, Confirm PROVE Orderly'
<1>1. PICK k, conv : k = lock.key /\ conv = k.worker
  OBVIOUS
<1>2. /\ lock.step = "confirm" /\ lock' = Free /\ UNCHANGED workerVars /\ KnownKey(k)
      /\ tasks[k.task].state = "Running"
      /\ Q!ConfirmWorkerStarted(k, conv) \/ UNCHANGED commandVars
  BY <1>1, NoFault, StoresHold DEF Confirm, HeldLock
<1>3. k \in LaunchKey /\ conv \in Worker /\ lock.todo = {} /\ lock'.step = "free"
  BY <1>1, <1>2, NoTodo, KeyFacts DEF KnownKey, Free
<1>4. QP!Settles({dedupe[k]})
  <2>1. Q!ConfirmWorkerStarted(k, conv) => QP!ConfirmWorkerStarted(k, conv)
    BY Confirms
  <2>2. QP!ConfirmWorkerStarted(k, conv) => QP!Settles({dedupe[k]})
    BY <1>3, StoresHold, QP!ConfirmSettles, QAssumed
  <2> QED
    BY <1>2, <2>1, <2>2, NothingSettles
<1>5. \A j \in Id : ~Held(j)'
  BY <1>2, <1>4, NoneHeld, CalmHolds, Names DEF QP!Settles
<1>6. ASSUME NEW v \in Worker, Pending(v)' PROVE Settled(v)'
  <2>1. Pending(v) /\ workers[v].current # None
    BY <1>2, <1>6, StaysPut DEF workerVars, Pending
  <2>2. Settled(v)
    BY <1>2, <2>1, WasSettled
  <2>3. tasks[workers[v].current].state = "Pending"
    BY <2>1, StoresHold, PendingHasPending DEF S!HasPending
  <2>4. KeyOf(v, workers[v].current) # k
    BY <1>2, <2>3, KeyOfFacts
  <2> QED
    BY <1>2, <1>3, <1>4, <2>1, <2>2, <2>4, OthersSettled
<1> QED
  BY <1>3, <1>5, <1>6, DoneIsOrderly

\* What a cleared store has left, if it had a family or not.
LEMMA ClearedWaitsForNothing ==
  ASSUME LaunchInv, ClearWorkers PROVE \A w \in Worker : ~Pending(w)'
<1>1. CASE S!ClearAllWorkers
  <2>1. \A w \in Worker : workers'[w].state = "Absent"
    BY <1>1, StoresHold, Clears, SP!ClearEnds, SAssumed, Names
  <2> QED
    BY <2>1 DEF Pending
<1>2. CASE families = {} /\ UNCHANGED workerVars
  <2>1. ASSUME NEW w \in Worker PROVE workers[w].state = "Absent"
    <3>1. workers[w].core # None => workers[w].core \in families
      BY StoresHold, Names DEF SP!StoreInv, SP!WithinLimits, SP!StoreFits
    <3>2. SP!RecordOK(workers[w])
      BY StoresHold, Names, SP!KnownWorker, SAssumed
    <3> QED
      BY <1>2, <3>1, <3>2 DEF SP!RecordOK
  <2> QED
    BY <1>2, <2>1 DEF Pending, workerVars
<1> QED
  BY <1>1, <1>2 DEF ClearWorkers

LEMMA ClearWorkersOrderly ==
  ASSUME LaunchInv, Orderly, ClearWorkers PROVE Orderly'
<1>1. lock.step = "free" /\ lock'.step = "clear" /\ UNCHANGED commandVars
  BY DEF ClearWorkers, Free, At
<1>2. \A j \in Id : ~Held(j)'
  BY <1>1, NoneHeld DEF Held, commandVars
<1> QED
  BY <1>1, <1>2, ClearedWaitsForNothing DEF Orderly, HeldAtHand, Id, Q!Id

LEMMA ClearCommandsOrderly ==
  ASSUME LaunchInv, Orderly, ClearCommands PROVE Orderly'
<1>1. /\ lock.step = "clear" /\ lock'.step = "free" /\ UNCHANGED workerVars
      /\ Q!ClearAllWorkerCommands \/ UNCHANGED commandVars
  BY DEF ClearCommands, Free
<1>2. \A w \in Worker : ~Pending(w)'
  BY <1>1 DEF Orderly, Pending, workerVars
<1>3. \E X : QP!Settles(X)
  BY <1>1, StoresHold, Removes, QP!RemovalSettles, NothingSettles, QAssumed DEF Q!ClearAllWorkerCommands
<1>4. \A j \in Id : ~Held(j)'
  BY <1>1, <1>3, NoneHeld, CalmHolds, Names DEF QP!Settles
<1> QED
  BY <1>1, <1>2, <1>4, DoneIsOrderly

\* Time leaves each launch as it was, or ends it; a lease that expires leaves
\* the command where the mirror knows it to be.
LEMMA PassingOrderly ==
  ASSUME LaunchInv, Orderly, SP!StoreInv', SP!Inherits, QP!Settles({}), lock' = lock,
         \A v \in Worker : Pending(v)' => Pending(v) /\ SameLaunch(v)
  PROVE  Orderly'
<1>1. /\ \A k \in LaunchKey : dedupe'[k] = dedupe[k]
      /\ \A j \in Id : /\ QP!Calm(j)
                       /\ Present(j) =>
                            /\ commands'[j].state # "Absent"
                            /\ commands'[j].state \in {"Succeeded", "Failed"} =>
                                 commands'[j].state = commands[j].state
  BY Names DEF QP!Settles, Present
<1>2. \A j \in Id : Held(j)' <=> Held(j)
  BY <1>1 DEF QP!Calm, Held, Present
<1>3. ASSUME NEW j \in Id, Present(j) PROVE Follows(j)
  BY <1>1, <1>3 DEF Follows, QP!Calm
<1>4. ASSUME NEW v \in Worker, Pending(v)' PROVE Accounted(v)'
  <2>1. Pending(v) /\ SameLaunch(v) /\ Accounted(v) /\ workers[v].current # None
    BY <1>4 DEF Orderly, Pending
  <2>2. PICK x \in LaunchKey : x = KeyOf(v, workers[v].current)
    BY <2>1, CurrentKey
  <2>3. KeyOf(v, workers[v].current)' = x
    BY <2>1, <2>2, SameKey DEF SameLaunch
  <2>4. Found(v) = dedupe[x] /\ Found(v)' = dedupe[x]
    BY <1>1, <2>2, <2>3 DEF Found
  <2>5. AtHand(v)' <=> AtHand(v)
    BY <2>2, <2>3 DEF AtHand
  <2>6. UnderWay(v) => UnderWay(v)'
    <3>1. MissingIsSafe(v) => MissingIsSafe(v)'
      BY <2>1 DEF MissingIsSafe, SameLaunch
    <3>2. LinkedBefore(v) => LinkedBefore(v)'
      BY <2>1, <3>1 DEF LinkedBefore, SameLaunch
    <3>3. workers'[v].command = workers[v].command
      BY <2>1 DEF SameLaunch
    <3> QED
      BY <2>4, <3>1, <3>2, <3>3 DEF UnderWay, NoId, Q!NoId
  <2>7. Settled(v) => Settled(v)'
    <3>1. Found(v) # NoId => Follows(Found(v))
      BY <1>3, <2>1, FoundIsStored
    <3>2. dedupe'[KeyOf(v, workers[v].current)] = Found(v)
      BY <1>1, <2>2, <2>4
    <3> QED
      BY <2>1, <3>1, <3>2, SettledKept
  <2> QED
    BY <2>1, <2>5, <2>6, <2>7 DEF Accounted
<1>5. HeldAtHand'
  <2>1. PICK w, i, t : w = lock.key.worker /\ i = lock.id /\ t = lock.key.task
    OBVIOUS
  <2>2. \A j \in Id : Held(j)' => lock.step \in {"link", "activate", "cancelUnlinked"} /\ i = j
    BY <1>2, <2>1 DEF Orderly, HeldAtHand
  <2>3. lock.step = "cancelUnlinked" /\ Pending(w)' /\ workers'[w].current = t => Held(i)'
    <3> SUFFICES ASSUME lock.step = "cancelUnlinked", Pending(w)', workers'[w].current = t
                 PROVE  Held(i)'
      OBVIOUS
    <3>1. i \in Id /\ w \in Worker
      BY <2>1, StoresHold, KeyFacts DEF HeldLock, KnownKey
    <3>2. Pending(w) /\ workers[w].current = t
      BY <3>1 DEF SameLaunch
    <3> QED
      BY <1>2, <2>1, <3>1, <3>2 DEF Orderly, HeldAtHand
  <2>4. lock'.key.worker = w /\ lock'.id = i /\ lock'.key.task = t /\ lock'.step = lock.step
    BY <2>1
  <2> QED
    BY <2>2, <2>3, <2>4 DEF HeldAtHand, Id, Q!Id
<1> QED
  BY <1>4, <1>5 DEF Orderly

LEMMA TimeOrderly ==
  ASSUME LaunchInv, Orderly, Time PROVE Orderly'
<1>1. lock' = lock
  BY DEF Time
<1>2. ASSUME NEW w \in Worker, S!GraceEnds(w), UNCHANGED commandVars PROVE Orderly'
  <2>1. /\ OnlyWorker(w)
        /\ workers'[w].state = workers[w].state /\ workers'[w].current = workers[w].current
        /\ workers'[w].command = workers[w].command
        /\ workers'[w].launch = workers[w].launch /\ workers'[w].url = workers[w].url
    BY <1>2, StoresHold, GraceMoves
  <2>2. SP!StoreInv' /\ SP!Inherits
    BY <2>1 DEF OnlyWorker
  <2>3. \A v \in Worker : Pending(v)' => Pending(v) /\ SameLaunch(v)
    BY <2>1 DEF OnlyWorker, SameLaunch, Pending
  <2> QED
    BY <1>1, <1>2, <2>2, <2>3, NothingSettles, PassingOrderly
<1>3. CASE S!ExpireWaitingClaims(Core) /\ UNCHANGED commandVars
  <2>1. /\ SP!StoreInv' /\ SP!Inherits
        /\ \A v \in Worker : workers'[v] = workers[v] \/ workers'[v].current = None
    BY <1>3, StoresHold, ExpiryMoves
  <2>2. \A v \in Worker : Pending(v)' => Pending(v) /\ SameLaunch(v)
    BY <2>1, StaysPut DEF Pending
  <2> QED
    BY <1>1, <1>3, <2>1, <2>2, NothingSettles, PassingOrderly
<1>4. ASSUME NEW i \in Id, Q!LeaseExpires(i), UNCHANGED workerVars PROVE Orderly'
  <2>1. QP!Settles({})
    BY <1>4, Expires, Names, StoresHold, QP!ExpirySettles, QAssumed
  <2>2. SP!StoreInv' /\ SP!Inherits
    BY <1>4, StoresHold, WorkersStay
  <2>3. \A v \in Worker : Pending(v)' => Pending(v) /\ SameLaunch(v)
    BY <1>4, StaysPut DEF workerVars
  <2> QED
    BY <1>1, <2>1, <2>2, <2>3, PassingOrderly
<1> QED
  BY <1>2, <1>3, <1>4 DEF Time

LEMMA NothingOrderly ==
  ASSUME LaunchInv, Orderly, UNCHANGED vars PROVE Orderly'
<1>1. UNCHANGED workerVars /\ UNCHANGED commandVars /\ lock' = lock
  BY DEF vars
<1>2. SP!StoreInv' /\ SP!Inherits
  BY <1>1, StoresHold, WorkersStay
<1>3. \A v \in Worker : Pending(v)' => Pending(v) /\ SameLaunch(v)
  BY <1>1, StaysPut DEF workerVars
<1> QED
  BY <1>1, <1>2, <1>3, NothingSettles, PassingOrderly

LEMMA OrderlyStart == Init => Orderly
<1> SUFFICES ASSUME Init PROVE Orderly
  OBVIOUS
<1>1. lock.step = "free"
  BY DEF Init, Free
<1>2. \A i \in Id : ~Held(i)
  BY Names DEF Init, Q!Init, Q!NoCommand, Held
<1>3. \A w \in Worker : ~Pending(w)
  BY Names DEF Init, S!Init, S!NoWorker, Pending
<1> QED
  BY <1>1, <1>2, <1>3 DEF Orderly, HeldAtHand

\* Faults are only ever added up.
LEMMA FaultsGrow ==
  ASSUME LaunchInv, LaunchInv', [Next]_vars, faults' = 0 PROVE faults = 0
<1>1. faults \in Nat
  BY StoresHold DEF Ghosts
<1>2. faults' \in {faults, faults + 1}
  BY DEF Next, vars, history, RecoverWorker, RecoverOrphan, Spawn, Reuse, Enqueue, Link, Activate,
         Cancel, Rollback, Retire, RetireWorker, Mirror, Redeem, MarkSendStarted, Acknowledge,
         Revoke, RegisterClaim, Claim, Start, Confirm, Finish, Time, ClearWorkers, ClearCommands,
         Crash, Fault
<1> QED
  BY <1>1, <1>2

LEMMA OrderlyStep ==
  ASSUME LaunchInv, LaunchInv', Orderly, [Next]_vars, faults' = 0 PROVE Orderly'
<1>1. \A w \in Worker : ~RecoverWorker(w)
  BY NothingToRecover
<1>2. \A i \in Id : ~RecoverOrphan(i)
  BY NoOrphans
<1>3. ASSUME NEW op \in Op, Spawn(op) \/ \E w \in Worker : Reuse(w, op) PROVE Orderly'
  BY <1>3, SpawnOrderly, ReuseOrderly
<1>4. CASE Enqueue \/ Link \/ Activate \/ Cancel \/ Rollback
  BY <1>4, EnqueueOrderly, LinkOrderly, ActivateOrderly, CancelOrderly, RollbackOrderly
<1>5. CASE (\E w \in Worker : Retire(w)) \/ RetireWorker
  BY <1>5, RetireOrderly, RetireWorkerOrderly
<1>6. ASSUME NEW i \in Id, Mirror(i) PROVE Orderly'
  BY <1>6, MirrorOrderly
<1>7. ASSUME NEW client \in Client, (\E e \in SUBSET Core : Redeem(client, e)) \/ Revoke(client)
      PROVE  Orderly'
  BY <1>7, RedeemOrderly, RevokeOrderly
<1>8. ASSUME NEW client \in Client, NEW i \in Id, NEW l \in 1 .. MaxLease,
             MarkSendStarted(i, l, client) \/ Acknowledge(i, l, client)
      PROVE  Orderly'
  BY <1>8, MarkOrderly, AcknowledgeOrderly
<1>9. ASSUME NEW w \in Worker,
             RegisterClaim(w) \/ (\E h \in Chat : Claim(w, h)) \/ Start(w) \/ Finish(w)
      PROVE  Orderly'
  BY <1>9, RegisterClaimOrderly, ClaimOrderly, StartOrderly, FinishOrderly
<1>10. CASE Confirm \/ Time
  BY <1>10, ConfirmOrderly, TimeOrderly
<1>11. CASE ClearWorkers \/ ClearCommands
  BY <1>11, ClearWorkersOrderly, ClearCommandsOrderly
<1>12. ~Crash
  BY StoresHold DEF Crash, Ghosts
<1>13. CASE UNCHANGED vars
  BY <1>13, NothingOrderly
<1> QED
  BY <1>1, <1>2, <1>3, <1>4, <1>5, <1>6, <1>7, <1>8, <1>9, <1>10, <1>11, <1>12, <1>13 DEF Next

LEMMA OrderlyIsClean ==
  ASSUME LaunchInv, Orderly, lock = Free
  PROVE  /\ Recovered
         /\ \A w \in Worker :
              Pending(w) /\ Found(w) # NoId /\ commands[Found(w)].history =>
                workers[w].launch \notin {"Unknown", "Queued", "Preparing"}
<1>1. lock.step = "free" /\ lock.todo = {}
  BY DEF Free
<1>2. \A i \in Id : ~Held(i)
  BY <1>1, NoneHeld
<1>3. ASSUME NEW w \in Worker, Pending(w)
      PROVE  /\ workers[w].command # None
             /\ Found(w) # NoId => Linked(w, Found(w)) /\ ~Held(Found(w)) /\ Level(w)
             /\ Found(w) = NoId => MissingIsSafe(w)
  BY <1>1, <1>2, <1>3, WasSettled, FoundIsStored DEF Settled
<1>4. \A w \in Worker : ~RecoveryRefuses(w)
  BY <1>3 DEF RecoveryRefuses
<1>5. Recovered
  BY <1>2, <1>3, <1>4 DEF Recovered
<1>6. ASSUME NEW w \in Worker, Pending(w), Found(w) # NoId, commands[Found(w)].history
      PROVE  workers[w].launch \notin {"Unknown", "Queued", "Preparing"}
  BY <1>1, <1>3, <1>6 DEF Level
<1> QED
  BY <1>5, <1>6

LEMMA InvAgrees == LaunchInv /\ OrderlyUnlessFault => StoresAgree
BY InvIsTyped, InvMirrorLags, OrderlyIsClean DEF StoresAgree, CleanWithoutFaults, OrderlyUnlessFault

\* In every state the mirror in the Worker store is behind the command store,
\* never ahead of it; and without a fault, whenever no handler is at work,
\* nothing is left for recovery (server.rs), which then neither repairs nor
\* refuses anything, and no launch that crossed the Send boundary is taken for
\* unsent.
THEOREM StoresStayLevel == Spec => []StoresAgree
<1>1. Init => OrderlyUnlessFault
  BY OrderlyStart DEF OrderlyUnlessFault
<1>2. LaunchInv /\ LaunchInv' /\ OrderlyUnlessFault /\ [Next]_vars => OrderlyUnlessFault'
  <2> SUFFICES ASSUME LaunchInv, LaunchInv', OrderlyUnlessFault, [Next]_vars, faults' = 0
               PROVE  Orderly'
    BY DEF OrderlyUnlessFault
  <2>1. Orderly
    BY FaultsGrow DEF OrderlyUnlessFault
  <2> QED
    BY <2>1, OrderlyStep
<1> QED
  BY <1>1, <1>2, InvAgrees, LaunchInvariant, PTL DEF Spec

-----------------------------------------------------------------------------
(* Each launch step is, to each store, a step of its broker or none.  The  *)
(* operations of the brokers, each with the arguments launches give it.    *)

\* What the step is to the command store, and to the Worker store.
CommandsStep == QP!Next \/ UNCHANGED commandVars
WorkersStep == SP!Next \/ UNCHANGED workerVars

LEMMA KeyCancels ==
  ASSUME NEW k \in LaunchKey, Q!CancelPreSend(k) PROVE CommandsStep
<1>1. QP!CancelPreSend(k)
  BY Removes DEF Q!CancelPreSend, QP!CancelPreSend, Q!CancellablePreSend, QP!CancellablePreSend,
                 Q!NoId, QP!NoId
<1> QED
  BY <1>1 DEF CommandsStep, QP!Next, QP!Host

LEMMA KeySettles ==
  ASSUME NEW k \in LaunchKey, Q!SettleForWorkerRetire(k) PROVE CommandsStep
BY KeyCancels DEF Q!SettleForWorkerRetire

LEMMA KeyFences ==
  ASSUME NEW k \in LaunchKey, Q!FenceUnclaimedAfterSend(k) PROVE CommandsStep
<1>1. QP!FenceUnclaimedAfterSend(k)
  BY Fences
<1> QED
  BY <1>1 DEF CommandsStep, QP!Next, QP!Host

LEMMA KeyEnqueues ==
  ASSUME NEW k \in LaunchKey, NEW r \in Requested(k), Q!EnqueueHeld(k, r) PROVE CommandsStep
<1>1. QP!EnqueueHeld(k, r) /\ r \in Client \cup {None}
  BY Enqueues DEF Requested
<1> QED
  BY <1>1 DEF CommandsStep, QP!Next, QP!Host

LEMMA KeyConfirms ==
  ASSUME NEW k \in LaunchKey, Q!ConfirmWorkerStarted(k, k.worker) PROVE CommandsStep
<1>1. QP!ConfirmWorkerStarted(k, k.worker) /\ k.worker \in Worker
  BY Confirms, KeyFacts
<1> QED
  BY <1>1 DEF CommandsStep, QP!Next, QP!Host

LEMMA IdReleases ==
  ASSUME NEW i \in Id, Q!ActivateDispatch(i) PROVE CommandsStep
<1>1. QP!ActivateDispatch(i) /\ i \in QP!Id
  BY Releases, Names
<1> QED
  BY <1>1 DEF CommandsStep, QP!Next, QP!Host

LEMMA IdExpires ==
  ASSUME NEW i \in Id, Q!LeaseExpires(i) PROVE CommandsStep
<1>1. QP!LeaseExpires(i) /\ i \in QP!Id
  BY Expires, Names
<1> QED
  BY <1>1 DEF CommandsStep, QP!Next, QP!Browser

LEMMA ClientRevokes ==
  ASSUME NEW client \in Client, Q!SettleRevokedClient(client) PROVE CommandsStep
<1>1. QP!SettleRevokedClient(client)
  BY Revokes
<1> QED
  BY <1>1 DEF CommandsStep, QP!Next, QP!Host

LEMMA ClientMarks ==
  ASSUME NEW i \in Id, NEW l \in 1 .. MaxLease, NEW client \in Client,
         Q!MarkSendStarted(i, l, client)
  PROVE  CommandsStep
<1>1. QP!MarkSendStarted(i, l, client) /\ i \in QP!Id /\ l \in QP!LeaseId
  BY Marks, Names
<1> QED
  BY <1>1 DEF CommandsStep, QP!Next, QP!Browser

LEMMA ClientAcks ==
  ASSUME NEW i \in Id, NEW l \in 1 .. MaxLease, NEW client \in Client, NEW conv \in Worker,
         \/ Q!AckSucceeded(i, l, client, conv) \/ Q!AckFailed(i, l, client)
         \/ Q!AckNeedsReconcile(i, l, client) \/ Q!AckPaused(i, l, client)
  PROVE  CommandsStep
<1>1. /\ \/ QP!AckSucceeded(i, l, client, conv) \/ QP!AckFailed(i, l, client)
         \/ QP!AckNeedsReconcile(i, l, client) \/ QP!AckPaused(i, l, client)
      /\ i \in QP!Id /\ l \in QP!LeaseId
  BY Acks, Names
<1> QED
  BY <1>1 DEF CommandsStep, QP!Next, QP!Browser

LEMMA AllCleared == Q!ClearAllWorkerCommands => CommandsStep
<1>1. Q!ClearAllWorkerCommands => QP!ClearAllWorkerCommands
  BY Removes DEF Q!ClearAllWorkerCommands, QP!ClearAllWorkerCommands, Q!InStore, QP!InStore, Q!Id, QP!Id
<1> QED
  BY <1>1 DEF CommandsStep, QP!Next, QP!Clear

\* A browser redeems for the Core's chat, the one anchor there is; where there
\* is none, there is nothing to redeem.
LEMMA ClientRedeems ==
  ASSUME QP!IInv, NEW client \in Client, NEW e \in SUBSET Core, Q!Redeem(client, e)
  PROVE  CommandsStep
<1>1. QP!Redeem(client, e)
  BY Redeems
<1>2. PICK i \in Id : Present(i)
  <2> SUFFICES ASSUME \A i \in Id : ~Present(i) PROVE FALSE
    OBVIOUS
  <2>1. \A i \in QP!Id : commands[i] = QP!NoCommand
    BY Names DEF QP!IInv, QP!CommandOK, Present
  <2>2. ~QP!NoCommand.expired /\ QP!NoCommand.state = "Absent"
    BY DEF QP!NoCommand
  <2>3. commands = [i \in QP!Id |-> commands[i]]
    BY DEF QP!IInv, QP!TypeOK
  <2>4. commands = [i \in QP!Id |-> QP!AfterExpiry(commands[i])]
    BY <2>1, <2>2, <2>3 DEF QP!AfterExpiry
  <2>5. QP!Offer(commands, client, e) = {}
    BY <2>1, <2>2 DEF QP!Offer, QP!Offerable, QP!InState
  <2> QED
    BY <1>1, <2>4, <2>5 DEF QP!Redeem
<1>3. commands[i].key \in LaunchKey
  BY <1>2, CommandFacts
<1>4. TheCore \in QP!Anchors
  BY <1>3 DEF QP!Anchors
<1>5. e \in SUBSET QP!Anchors
  BY <1>4, LaunchConstantsOK DEF LaunchConstantsOK
<1> QED
  BY <1>1, <1>5 DEF CommandsStep, QP!Next, QP!Browser

(* The Worker store's side.                                                *)

LEMMA CoreSpawns ==
  ASSUME NEW op \in Op, S!SpawnWorker(TheCore, op) PROVE WorkersStep
<1>1. TheCore \in Core
  BY LaunchConstantsOK DEF LaunchConstantsOK
<1>2. SP!SpawnWorker(TheCore, op)
  BY <1>1, Spawns
<1> QED
  BY <1>1, <1>2 DEF WorkersStep, SP!Next, SP!CoreStep

LEMMA CoreReuses ==
  ASSUME NEW w \in Worker, NEW op \in Op, S!ReuseWorker(w, op) PROVE WorkersStep
<1>1. SP!ReuseWorker(w, op) /\ w \in SP!Worker
  BY Reuses, Names
<1> QED
  BY <1>1 DEF WorkersStep, SP!Next, SP!CoreStep

LEMMA WorkerLinks ==
  ASSUME NEW w \in Worker, NEW m \in S!Command, S!LinkLaunchCommand(w, m) PROVE WorkersStep
<1>1. SP!LinkLaunchCommand(w, m) /\ w \in SP!Worker /\ m \in SP!Command
  BY Links, Names DEF S!Command, SP!Command
<1> QED
  BY <1>1 DEF WorkersStep, SP!Next, SP!CoreStep

LEMMA WorkerUndone ==
  ASSUME NEW w \in Worker, workers[w].command = None, S!ForgetSpawn(w) \/ S!ForgetReuse(w)
  PROVE  WorkersStep
<1>1. /\ SP!RollbackUnlinkedSpawn(w) \/ SP!RollbackUnlinkedReuse(w)
      /\ w \in SP!Worker
  BY ForgetsSpawn, ForgetsReuse, Names DEF SP!RollbackUnlinkedSpawn, SP!RollbackUnlinkedReuse
<1> QED
  BY <1>1 DEF WorkersStep, SP!Next, SP!CoreStep

LEMMA WorkerUndoneLinked ==
  ASSUME NEW w \in Worker, NEW m \in S!Command, workers[w].command = m, S!NotSent(w),
         S!ForgetSpawn(w) \/ S!ForgetReuse(w)
  PROVE  WorkersStep
<1>1. SP!NotSent(w)
  BY DEF S!NotSent, SP!NotSent
<1>2. /\ SP!RollbackLinkedSpawn(w, m) \/ SP!RollbackLinkedReuse(w, m)
      /\ w \in SP!Worker /\ m \in SP!Command
  BY <1>1, ForgetsSpawn, ForgetsReuse, Names
  DEF SP!RollbackLinkedSpawn, SP!RollbackLinkedReuse, S!Command, SP!Command
<1> QED
  BY <1>2 DEF WorkersStep, SP!Next, SP!CoreStep

LEMMA WorkerMirrors ==
  ASSUME NEW w \in Worker, NEW launch, NEW url, <<launch, url>> \in S!Mirrorable,
         S!UpdateLaunchByCommand(w, launch, url)
  PROVE  WorkersStep
<1>1. SP!UpdateLaunchByCommand(w, launch, url) /\ w \in SP!Worker
  BY Mirrors, Names
<1>2. SP!LaunchStep
  BY <1>1 DEF SP!LaunchStep
<1> QED
  BY <1>2 DEF WorkersStep, SP!Next

LEMMA WorkerEnds ==
  ASSUME NEW w \in Worker,
         \/ S!CancelUnclaimedAfterSend(w) \/ S!RetirePending(w) \/ S!RetireIdle(w)
         \/ S!SettlePreSendFailure(w) \/ S!GraceEnds(w)
  PROVE  WorkersStep
<1>1. w \in SP!Worker
  BY Names
<1>2. SP!CoreStep \/ SP!LaunchStep
  BY <1>1, CancelsSent, RetiresPending, RetiresIdle, GivesUp, Ages DEF SP!CoreStep, SP!LaunchStep
<1> QED
  BY <1>2 DEF WorkersStep, SP!Next

LEMMA WorkerActs ==
  ASSUME NEW w \in Worker,
         (\E h \in Chat : S!ClaimWorkerAttested(w, h)) \/ S!StartTask(w) \/ S!FinishTask(w)
  PROVE  WorkersStep
<1>1. w \in SP!Worker
  BY Names
<1>2. SP!WorkerStep
  BY <1>1, Claims, Starts, Finishes DEF SP!WorkerStep
<1> QED
  BY <1>2 DEF WorkersStep, SP!Next

LEMMA HostActs == S!ExpireWaitingClaims(Core) \/ S!ClearAllWorkers => WorkersStep
BY TimesOut, Clears DEF WorkersStep, SP!Next, SP!HostStep

(* The two sides of one step of the composed system.                       *)

BothStep == CommandsStep /\ WorkersStep

LEMMA RecoverWorkerBoth ==
  ASSUME LaunchInv, NEW w \in Worker, RecoverWorker(w) PROVE BothStep
<1>1. /\ QP!IInv /\ SP!StoreInv /\ Pending(w)
      /\ workers[w].current \in Task
  BY OnTasks DEF RecoverWorker, Pending, LaunchInv, Stores
<1>2. Found(w) # NoId => Found(w) \in Id
  BY <1>1, KeyOfFacts, IndexFacts DEF Found
<1>3. CASE /\ Found(w) # NoId /\ UNCHANGED commandVars
           /\ S!LinkLaunchCommand(w, <<workers[w].current, Found(w) + 1>>)
  <2>1. <<workers[w].current, Found(w) + 1>> \in S!Command
    BY <1>1, <1>2, <1>3, LinkFacts
  <2> QED
    BY <1>3, <2>1, WorkerLinks DEF BothStep, CommandsStep
<1>4. CASE Found(w) # NoId /\ Q!ActivateDispatch(Found(w)) /\ UNCHANGED workerVars
  BY <1>2, <1>4, IdReleases DEF BothStep, WorkersStep
<1>5. CASE (S!RollbackUnlinkedSpawn(w) \/ S!RollbackUnlinkedReuse(w)) /\ UNCHANGED commandVars
  BY <1>5, WorkerUndone DEF S!RollbackUnlinkedSpawn, S!RollbackUnlinkedReuse, BothStep, CommandsStep
<1>6. CASE S!UpdateLaunchByCommand(w, "Paused", FALSE) /\ UNCHANGED commandVars
  <2>1. <<"Paused", FALSE>> \in S!Mirrorable
    BY DEF S!Mirrorable
  <2> QED
    BY <1>6, <2>1, WorkerMirrors DEF BothStep, CommandsStep
<1> QED
  BY <1>3, <1>4, <1>5, <1>6 DEF RecoverWorker

LEMMA RecoverOrphanBoth ==
  ASSUME LaunchInv, NEW i \in Id, RecoverOrphan(i) PROVE BothStep
<1>1. commands[i].key \in LaunchKey
  BY CommandFacts DEF RecoverOrphan, Held, Present, LaunchInv, Stores
<1> QED
  BY <1>1, KeyCancels DEF RecoverOrphan, BothStep, WorkersStep

LEMMA BeginBoth ==
  ASSUME NEW op \in Op, Spawn(op) \/ \E w \in Worker : Reuse(w, op) PROVE BothStep
BY CoreSpawns, CoreReuses DEF Spawn, Reuse, BothStep, CommandsStep, WorkersStep

\* The launch of the handler at work has a name.
LEMMA HeldKey ==
  LaunchInv /\ lock.step \notin {"free", "sync", "clear"} => lock.key \in LaunchKey
BY DEF LaunchInv, HeldLock, KnownKey

LEMMA EnqueueBoth == ASSUME LaunchInv, Enqueue PROVE BothStep
<1>1. lock.key \in LaunchKey /\ UNCHANGED workerVars
  BY HeldKey DEF Enqueue
<1> QED
  BY <1>1, KeyEnqueues DEF Enqueue, BothStep, CommandsStep, WorkersStep

LEMMA LinkBoth == ASSUME LaunchInv, Link PROVE BothStep
<1>1. lock.key.worker \in Worker /\ lock.key.task \in Task /\ lock.id \in Id
  BY HeldKey, KeyFacts DEF Link, LaunchInv, HeldLock
<1>2. <<lock.key.task, lock.id + 1>> \in S!Command
  BY <1>1, LinkFacts
<1> QED
  BY <1>1, <1>2, WorkerLinks DEF Link, BothStep, CommandsStep, WorkersStep

LEMMA ActivateBoth == ASSUME LaunchInv, Activate PROVE BothStep
<1>1. lock.id \in Id
  BY DEF Activate, LaunchInv, HeldLock
<1> QED
  BY <1>1, IdReleases DEF Activate, BothStep, CommandsStep, WorkersStep

LEMMA CancelBoth == ASSUME LaunchInv, Cancel PROVE BothStep
<1>1. lock.key \in LaunchKey
  BY HeldKey DEF Cancel
<1> QED
  BY <1>1, KeyCancels DEF Cancel, BothStep, CommandsStep, WorkersStep

LEMMA RollbackBoth == ASSUME LaunchInv, Rollback PROVE BothStep
<1>1. lock.key.worker \in Worker /\ lock.key.task \in Task /\ UNCHANGED commandVars
  BY HeldKey, KeyFacts DEF Rollback
<1>2. lock.step = "rollbackLinked" => <<lock.key.task, lock.id + 1>> \in S!Command
  BY <1>1, LinkFacts DEF LaunchInv, HeldLock
<1>3. CASE UNCHANGED workerVars
  BY <1>1, <1>3 DEF BothStep, CommandsStep, WorkersStep
<1>4. ASSUME NEW m \in S!Command \cup {None}, CanRollback(lock.key, m),
             S!ForgetReuse(lock.key.worker) \/ S!ForgetSpawn(lock.key.worker)
      PROVE  WorkersStep
  <2>1. workers[lock.key.worker].command = m /\ (m # None => S!NotSent(lock.key.worker))
    BY <1>4 DEF CanRollback
  <2> QED
    BY <1>1, <1>4, <2>1, WorkerUndone, WorkerUndoneLinked
<1> QED
  BY <1>1, <1>2, <1>3, <1>4 DEF Rollback, BothStep, CommandsStep

LEMMA RetireBoth ==
  ASSUME LaunchInv, NEW w \in Worker, Retire(w) PROVE BothStep
<1>1. Pending(w) => KeyOf(w, workers[w].current) \in LaunchKey
  BY OnTasks, KeyOfFacts DEF Pending, LaunchInv, Stores
<1> QED
  BY <1>1, KeyFences, KeySettles, WorkerEnds DEF Retire, BothStep, CommandsStep, WorkersStep

LEMMA RetireWorkerBoth == ASSUME LaunchInv, RetireWorker PROVE BothStep
<1>1. lock.key.worker \in Worker
  BY HeldKey, KeyFacts DEF RetireWorker
<1> QED
  BY <1>1, WorkerEnds DEF RetireWorker, BothStep, CommandsStep, WorkersStep

LEMMA MirrorBoth ==
  ASSUME LaunchInv, NEW i \in Id, Mirror(i) PROVE BothStep
<1>1. Present(i) /\ UNCHANGED commandVars
  BY DEF Mirror, LaunchInv, HeldLock
<1>2. ASSUME NEW w \in LinkedTo(i), ~ProvenUnsent(commands[i]),
             S!UpdateLaunchByCommand(w, MirrorOf(commands[i]), commands[i].conv # 0)
      PROVE  WorkersStep
  BY <1>1, <1>2, MirrorOfFacts, WorkerMirrors DEF LinkedTo
<1>3. ASSUME NEW w \in LinkedTo(i), S!SettlePreSendFailure(w) PROVE WorkersStep
  BY <1>3, WorkerEnds DEF LinkedTo
<1> QED
  BY <1>1, <1>2, <1>3 DEF Mirror, BothStep, CommandsStep, WorkersStep

LEMMA BrowserBoth ==
  ASSUME LaunchInv, NEW client \in Client,
         \/ \E e \in SUBSET Core : Redeem(client, e)
         \/ \E i \in Id, l \in 1 .. MaxLease : MarkSendStarted(i, l, client)
         \/ Revoke(client)
  PROVE  BothStep
BY ClientRedeems, ClientMarks, ClientRevokes
DEF Redeem, MarkSendStarted, Revoke, LaunchInv, Stores, BothStep, CommandsStep, WorkersStep

LEMMA AcknowledgeBoth ==
  ASSUME LaunchInv, NEW client \in Client, NEW i \in Id, NEW l \in 1 .. MaxLease,
         Acknowledge(i, l, client)
  PROVE  BothStep
<1>1. Present(i)
  BY DEF Acknowledge, Q!AckSucceeded, Q!AckFailed, Q!AckNeedsReconcile, Q!AckPaused, Q!Acknowledge, Present
<1>2. commands[i].key.worker \in Worker
  BY <1>1, CommandFacts, KeyFacts DEF LaunchInv, Stores
<1> QED
  BY <1>2, ClientAcks DEF Acknowledge, BothStep, WorkersStep

LEMMA WorkerBoth ==
  ASSUME NEW w \in Worker,
         RegisterClaim(w) \/ (\E h \in Chat : Claim(w, h)) \/ Start(w) \/ Finish(w)
  PROVE  BothStep
<1>1. UNCHANGED commandVars
  BY DEF RegisterClaim, Claim, Start, Finish
<1>2. CASE S!UpdateLaunchByCommand(w, "WaitingClaim", TRUE)
  <2>1. <<"WaitingClaim", TRUE>> \in S!Mirrorable
    BY DEF S!Mirrorable
  <2> QED
    BY <1>1, <1>2, <2>1, WorkerMirrors DEF BothStep, CommandsStep
<1>3. CASE \/ (\E h \in Chat : S!ClaimWorkerAttested(w, h)) \/ S!StartTask(w) \/ S!FinishTask(w)
           \/ UNCHANGED workerVars
  BY <1>1, <1>3, WorkerActs DEF BothStep, CommandsStep, WorkersStep
<1> QED
  BY <1>2, <1>3 DEF RegisterClaim, Claim, Start, Finish

LEMMA ConfirmBoth == ASSUME LaunchInv, Confirm PROVE BothStep
<1>1. lock.key \in LaunchKey
  BY HeldKey DEF Confirm
<1> QED
  BY <1>1, KeyConfirms DEF Confirm, BothStep, CommandsStep, WorkersStep

LEMMA TimeBoth == ASSUME Time PROVE BothStep
BY WorkerEnds, HostActs, IdExpires DEF Time, BothStep, CommandsStep, WorkersStep

LEMMA ClearBoth == ASSUME ClearWorkers \/ ClearCommands \/ Crash PROVE BothStep
BY HostActs, AllCleared DEF ClearWorkers, ClearCommands, Crash, BothStep, CommandsStep, WorkersStep

LEMMA StepsOfBoth == LaunchInv /\ [Next]_vars => BothStep
<1> SUFFICES ASSUME LaunchInv, [Next]_vars PROVE BothStep
  OBVIOUS
<1>1. CASE (\E w \in Worker : RecoverWorker(w)) \/ \E i \in Id : RecoverOrphan(i)
  BY <1>1, RecoverWorkerBoth, RecoverOrphanBoth
<1>2. ASSUME NEW op \in Op, Spawn(op) \/ \E w \in Worker : Reuse(w, op) PROVE BothStep
  BY <1>2, BeginBoth
<1>3. CASE Enqueue \/ Link \/ Activate \/ Cancel \/ Rollback
  BY <1>3, EnqueueBoth, LinkBoth, ActivateBoth, CancelBoth, RollbackBoth
<1>4. CASE (\E w \in Worker : Retire(w)) \/ RetireWorker
  BY <1>4, RetireBoth, RetireWorkerBoth
<1>5. ASSUME NEW i \in Id, Mirror(i) PROVE BothStep
  BY <1>5, MirrorBoth
<1>6. ASSUME NEW client \in Client, NEW i \in Id, NEW l \in 1 .. MaxLease,
             MarkSendStarted(i, l, client) \/ Acknowledge(i, l, client)
      PROVE  BothStep
  BY <1>6, BrowserBoth, AcknowledgeBoth
<1>7. ASSUME NEW client \in Client, (\E e \in SUBSET Core : Redeem(client, e)) \/ Revoke(client)
      PROVE  BothStep
  BY <1>7, BrowserBoth
<1>8. ASSUME NEW w \in Worker,
             RegisterClaim(w) \/ (\E h \in Chat : Claim(w, h)) \/ Start(w) \/ Finish(w)
      PROVE  BothStep
  BY <1>8, WorkerBoth
<1>9. CASE Confirm \/ Time
  BY <1>9, ConfirmBoth, TimeBoth
<1>10. CASE ClearWorkers \/ ClearCommands \/ Crash
  BY <1>10, ClearBoth
<1>11. CASE UNCHANGED vars
  BY <1>11 DEF vars, BothStep, CommandsStep, WorkersStep
<1> QED
  BY <1>1, <1>2, <1>3, <1>4, <1>5, <1>6, <1>7, <1>8, <1>9, <1>10, <1>11 DEF Next

LEMMA StartsOfBoth == Init => QP!Init /\ SP!Init
BY DEF Init, S!Init, SP!Init, S!NoWorker, SP!NoWorker, S!NoTask, SP!NoTask, S!Worker, SP!Worker,
       S!Task, SP!Task, Q!Init, QP!Init, Q!NoCommand, QP!NoCommand, Q!NoLease, QP!NoLease, Q!NoId,
       QP!NoId, Q!Id, QP!Id

\* To each store a launch, its recovery and every crash between its commits
\* are steps of that store's own broker: the composed system implements both.
THEOREM LaunchesAreBrokerSteps == Spec => QP!Spec /\ SP!Spec
<1>1. LaunchInv /\ [Next]_vars => [QP!Next]_(QP!vars) /\ [SP!Next]_(SP!vars)
  BY StepsOfBoth DEF BothStep, CommandsStep, WorkersStep, commandVars, workerVars, QP!vars, SP!vars
<1>2. Spec => QP!Init /\ [][QP!Next]_(QP!vars) /\ SP!Init /\ [][SP!Next]_(SP!vars)
  BY <1>1, StartsOfBoth, LaunchInvariant, PTL DEF Spec
<1> QED
  BY <1>2 DEF QP!Spec, SP!Spec

\* So the promises of both stores hold of whole launches: a launch crosses the
\* Send boundary at most once and is never fresh again, whatever is replayed
\* or recovered (managed_chat/broker.rs), and the Core's updates are neither
\* lost nor told twice by a rollback or a retirement (workers/broker.rs).
THEOREM LaunchesKeepPromises == Spec => QP!ImplementsLedger /\ SP!ImplementsMailbox
<1>1. QP!Spec => QP!ImplementsLedger
  BY QP!Refinement, QAssumed
<1>2. SP!Spec => SP!ImplementsMailbox
  BY SP!UpdatesAreKept, SAssumed
<1> QED
  BY <1>1, <1>2, LaunchesAreBrokerSteps, PTL
=============================================================================
