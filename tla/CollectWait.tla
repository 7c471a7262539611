------------------------------- MODULE CollectWait -------------------------------
(***************************************************************************)
(* The long poll of workers/broker.rs: a Core enables its future, collects *)
(* under the store's lock and, when there was nothing, sleeps until a      *)
(* change of the store notifies it or its deadline passes.  What a batch   *)
(* delivers and may be delivered again is WorkerBroker's subject; here an  *)
(* update is one of a count.  A handler that changes the store keeps the   *)
(* lock from its commit to its notification.                               *)
(***************************************************************************)
EXTENDS Naturals

CONSTANTS
    Families,       \* Core families of the store
    Callers,        \* collect calls under way at a time
    MaxBatch,       \* MAX_UPDATES_PER_COLLECT
    MaxUncollected  \* bound: updates nobody collected yet

ASSUME CollectAssumption ==
    Families # {} /\ MaxBatch \in Nat \ {0} /\ MaxUncollected \in Nat

VARIABLES
    stored,         \* each family: "kept", "cleared" or "reclaimed"
    uncollected,    \* its reports and outcomes nobody collected
    publishing,     \* a handler committed, has the lock and has yet to notify
    collector       \* each call: where it is, its family, and whether the
                    \* future it enabled was notified

collectVars == <<stored, uncollected, publishing, collector>>

CollectSteps == {"idle", "enabled", "deciding", "asleep"}
NoCollect == [at |-> "idle", family |-> CHOOSE f \in Families : TRUE, told |-> FALSE]

CollectInit ==
    /\ stored = [f \in Families |-> "kept"]
    /\ uncollected = [f \in Families |-> 0]
    /\ publishing = FALSE
    /\ collector = [c \in Callers |-> NoCollect]

(***************************************************************************)
(* The handlers that change what a Core waits for.                         *)
(***************************************************************************)

\* report_worker, finish_task, and the handlers that fail a task.
CommitsUpdate(f) ==
    /\ ~publishing
    /\ stored[f] = "kept"
    /\ uncollected[f] < MaxUncollected
    /\ uncollected' = [uncollected EXCEPT ![f] = @ + 1]
    /\ publishing' = TRUE
    /\ UNCHANGED <<stored, collector>>

\* Clear Workers, a purge of the workspace, a confirmed cleanup.
CommitsClear(f) ==
    /\ ~publishing
    /\ stored[f] = "kept"
    /\ stored' = [stored EXCEPT ![f] = "cleared"]
    /\ uncollected' = [uncollected EXCEPT ![f] = 0]
    /\ publishing' = TRUE
    /\ UNCHANGED collector

\* Slip: only a call that already sleeps is reached.
AsleepAlready(c) == collector[c].at = "asleep"

Listening(c) == collector[c].at # "idle"

\* notify_waiters reaches every future enabled so far.
NotifiesCollectors ==
    /\ publishing
    /\ publishing' = FALSE
    /\ collector' = [c \in Callers |-> [collector[c] EXCEPT !.told = @ \/ Listening(c)]]
    /\ UNCHANGED <<stored, uncollected>>

\* spawn_worker's compact_inactive_families notifies nobody.
ReclaimsFamily(f) ==
    /\ ~publishing
    /\ stored[f] = "kept" /\ uncollected[f] = 0
    /\ stored' = [stored EXCEPT ![f] = "reclaimed"]
    /\ UNCHANGED <<uncollected, publishing, collector>>

\* spawn_worker's new family for a Core that has none.
SpawnsFamily(f) ==
    /\ ~publishing
    /\ stored[f] # "kept"
    /\ stored' = [stored EXCEPT ![f] = "kept"]
    /\ UNCHANGED <<uncollected, publishing, collector>>

(***************************************************************************)
(* collect_updates_wait; wait_ms = 0 looks once and does not sleep.        *)
(***************************************************************************)
StepTo(c, at) == collector' = [collector EXCEPT ![c].at = at]
CallEnds(c) == collector' = [collector EXCEPT ![c] = NoCollect]
StoreKept == UNCHANGED <<stored, publishing>>

EnablesCollect(c, f) ==
    /\ collector[c].at = "idle"
    /\ collector' = [collector EXCEPT ![c] = [at |-> "enabled", family |-> f, told |-> FALSE]]
    /\ StoreKept /\ UNCHANGED uncollected

Taken(n) == IF n < MaxBatch THEN n ELSE MaxBatch

\* collect_updates_for_operation: NotFound, a replayed receipt or a failing
\* commit end the call as well.
CollectLooks(c) ==
    LET f == collector[c].family
    IN  /\ collector[c].at = "enabled"
        /\ ~publishing
        /\ \/ /\ stored[f] # "kept"
              /\ CallEnds(c)
              /\ UNCHANGED uncollected
           \/ /\ stored[f] = "kept" /\ uncollected[f] > 0
              /\ CallEnds(c)
              /\ \/ uncollected' = [uncollected EXCEPT ![f] = @ - Taken(@)]
                 \/ UNCHANGED uncollected
           \/ /\ stored[f] = "kept" /\ uncollected[f] = 0
              /\ StepTo(c, "deciding")
              /\ UNCHANGED uncollected
        /\ StoreKept

CollectSleeps(c) ==
    /\ collector[c].at = "deciding"
    /\ StepTo(c, "asleep")
    /\ StoreKept /\ UNCHANGED uncollected

CollectLoops(c) ==
    /\ collector[c].at = "asleep" /\ collector[c].told
    /\ collector' = [collector EXCEPT ![c].at = "enabled", ![c].told = FALSE]
    /\ StoreKept /\ UNCHANGED uncollected

\* Its deadline is over, before it sleeps or while it does; the caller may
\* also go away wherever it is.
CollectEnds(c) ==
    /\ collector[c].at # "idle"
    /\ CallEnds(c)
    /\ StoreKept /\ UNCHANGED uncollected

CollectNext ==
    \/ \E f \in Families :
           \/ CommitsUpdate(f)
           \/ CommitsClear(f)
           \/ ReclaimsFamily(f)
           \/ SpawnsFamily(f)
           \/ \E c \in Callers : EnablesCollect(c, f)
    \/ NotifiesCollectors
    \/ \E c \in Callers :
           \/ CollectLooks(c)
           \/ CollectSleeps(c)
           \/ CollectLoops(c)
           \/ CollectEnds(c)

CollectSpec == CollectInit /\ [][CollectNext]_collectVars

\* A Core never sleeps through an update of its family or through its being
\* cleared: it was notified, or the notification is on its way.
CollectorIsWoken ==
    \A c \in Callers :
        collector[c].at = "asleep" /\ ~collector[c].told
            => \/ publishing
               \/ /\ uncollected[collector[c].family] = 0
                  /\ stored[collector[c].family] # "cleared"
=============================================================================
