----------------------------- MODULE CompanionAuth -----------------------------
(***************************************************************************)
(* Pairing, revocation and the worker reset of the companion browsers,     *)
(* src/src/companion.rs, with Clear Workers (src/src/server.rs) that waits *)
(* for the browsers and the extension that applies a reset.                *)
(*                                                                         *)
(* Every change is a copy of the state under the lock, saved by a blocking *)
(* task and published when the task is awaited.  The handler of a request  *)
(* may be dropped at that await; the task goes on.                         *)
(***************************************************************************)
EXTENDS Naturals, FiniteSets

CONSTANTS
    Browsers,           \* companion clients
    MaxPaired,          \* MAX_PAIRED_COMPANION_CLIENTS
    MaxAuthEvents       \* bound: resets, restarts, dropped handlers, failing saves

ASSUME AuthAssumption ==
    /\ IsFiniteSet(Browsers)
    /\ MaxPaired \in Nat \ {0} /\ MaxAuthEvents \in Nat

VARIABLES
    auth,               \* the state in memory
    authDisk,           \* the state in the file
    change,             \* the change that holds the lock, and its save
    loose,              \* saves whose handler was dropped
    waiting,            \* the Clear Workers under way
    notifyDue,          \* an acknowledgement is published, its waiters not yet notified
    reset,              \* the reset each browser applied last: its epoch, the clears it covers
    reading,            \* the browser that reads its status, one at a time
    acks,               \* acknowledgements on their way
    clears,             \* resets published
    sentAway,           \* browsers reported as revoked, until a manual repair
    overtaken,          \* a save of a dropped handler replaced a later one
    authEvents

authVars == <<auth, authDisk, change, loose, waiting, notifyDue, reset, reading, acks,
              clears, sentAway, overtaken, authEvents>>

NoChange == [kind |-> "none"]
NoWait == [at |-> "none"]
NotReading == [at |-> "none"]

AuthInit ==
    /\ auth = [standing |-> [b \in Browsers |-> "unknown"], epoch |-> 0, awaited |-> {}]
    /\ authDisk = auth
    /\ change = NoChange
    /\ loose = {}
    /\ waiting = NoWait
    /\ notifyDue = FALSE
    /\ reset = [b \in Browsers |-> [epoch |-> 0, clears |-> 0]]
    /\ reading = NotReading
    /\ acks = {}
    /\ clears = 0
    /\ sentAway = {}
    /\ overtaken = FALSE
    /\ authEvents = 0

Paired == {b \in Browsers : auth.standing[b] = "paired"}

AuthLockFree == change = NoChange

AuthEvent == authEvents < MaxAuthEvents /\ authEvents' = authEvents + 1
NoAuthEvent == UNCHANGED authEvents

(***************************************************************************)
(* The changes, each from its checks to the spawn of its save.             *)
(***************************************************************************)
Standing(b, standing) == [auth EXCEPT !.standing[b] = standing]

Changes(kind, b, next) ==
    /\ AuthLockFree
    /\ change' = [kind |-> kind, browser |-> b, next |-> next]
    /\ UNCHANGED <<auth, authDisk, loose, notifyDue, reset, reading, clears, overtaken>>

RoomToPair(b) == b \in Paired \/ Cardinality(Paired) < MaxPaired

\* Slip: the tombstone is not looked at.
NotPaired(b) == b \notin Paired

MayAutoPair(b) == auth.standing[b] = "unknown"

AutoPairs(b) ==
    /\ MayAutoPair(b) /\ RoomToPair(b)
    /\ Changes("pair", b, Standing(b, "paired"))
    /\ NoAuthEvent /\ UNCHANGED <<waiting, acks, sentAway>>

\* auto_pair or authorize of a paired browser, the first time it tells an
\* origin: the rest of the state is saved as it is.
BindsOrigin(b) ==
    /\ b \in Paired
    /\ Changes("pair", b, auth)
    /\ NoAuthEvent /\ UNCHANGED <<waiting, acks, sentAway>>

\* Manual Repair, by a user who holds the pairing token.
Repairs(b) ==
    /\ RoomToPair(b)
    /\ Changes("pair", b, Standing(b, "paired"))
    /\ sentAway' = sentAway \ {b}
    /\ NoAuthEvent /\ UNCHANGED <<waiting, acks>>

\* Asked for by another paired browser, under the lifecycle lock.
Revokes(b) ==
    /\ waiting = NoWait
    /\ b \in Paired /\ Paired # {b}
    /\ Changes("revoke", b, [Standing(b, "revoked") EXCEPT !.awaited = @ \ {b}])
    /\ NoAuthEvent /\ UNCHANGED <<waiting, acks, sentAway>>

\* Slip: a reset that still awaits browsers keeps its epoch.
KeepsEpoch == IF auth.awaited = {} THEN auth.epoch + 1 ELSE auth.epoch

NextEpoch == auth.epoch + 1

\* begin_worker_reset, for the browsers that may have a Send under way.
BeginsReset(b, required) ==
    /\ AuthEvent
    /\ waiting = NoWait
    /\ b \in Paired
    /\ Changes("reset", b, [auth EXCEPT !.epoch = NextEpoch,
                                        !.awaited = @ \cup (required \cap Paired)])
    /\ waiting' = [at |-> "publish", epoch |-> NextEpoch, required |-> {}, told |-> FALSE]
    /\ UNCHANGED <<acks, sentAway>>

\* Slip: an acknowledgement of any reset will do.
AnyEpoch(epoch) == TRUE

Current(epoch) == epoch = auth.epoch

Acknowledges(ack) ==
    /\ ack.browser \in Paired /\ Current(ack.epoch) /\ ack.browser \in auth.awaited
    /\ Changes("ack", ack.browser, [auth EXCEPT !.awaited = @ \ {ack.browser}])
    /\ acks' = acks \ {ack}
    /\ NoAuthEvent /\ UNCHANGED <<waiting, sentAway>>

\* Refused, no longer awaited, or lost on its way.
AckComesToNothing(ack) ==
    /\ NoAuthEvent
    /\ acks' = acks \ {ack}
    /\ UNCHANGED <<auth, authDisk, change, loose, waiting, notifyDue, reset, reading, clears,
                   sentAway, overtaken>>

(***************************************************************************)
(* save_state, and what follows it under the same lock.                    *)
(***************************************************************************)
Saving == change # NoChange

\* A save is in the file before any that is still to land.
InFile(state) ==
    /\ authDisk' = state
    /\ loose' = {[s EXCEPT !.late = TRUE] : s \in loose}

ChangeSaved ==
    /\ Saving
    /\ InFile(change.next)
    /\ auth' = change.next
    /\ change' = NoChange
    /\ notifyDue' = (notifyDue \/ change.kind = "ack" \/
                     (change.kind = "revoke" /\ change.browser \in auth.awaited))
    /\ sentAway' = IF change.kind = "revoke" THEN sentAway \cup {change.browser} ELSE sentAway
    /\ IF change.kind = "reset"
       THEN /\ clears' = clears + 1
            /\ waiting' = IF change.next.awaited = {} THEN NoWait
                           ELSE [waiting EXCEPT !.at = "look", !.required = change.next.awaited]
       ELSE UNCHANGED <<clears, waiting>>
    /\ NoAuthEvent
    /\ UNCHANGED <<reset, reading, acks, overtaken>>

\* Before the rename, or after it.
SaveFails ==
    /\ Saving
    /\ AuthEvent
    /\ InFile(change.next) \/ UNCHANGED <<authDisk, loose>>
    /\ change' = NoChange
    /\ waiting' = IF change.kind = "reset" THEN NoWait ELSE waiting
    /\ UNCHANGED <<auth, notifyDue, reset, reading, acks, clears, sentAway, overtaken>>

\* The caller hangs up: the handler ends at its await, the blocking task does not.
HandlerDropped ==
    /\ Saving
    /\ AuthEvent
    /\ change' = NoChange
    /\ loose' = loose \cup {[state |-> change.next, late |-> FALSE]}
    /\ waiting' = IF change.kind = "reset" THEN NoWait ELSE waiting
    /\ UNCHANGED <<auth, authDisk, notifyDue, reset, reading, acks, clears, sentAway, overtaken>>

LooseSaveLands(s) ==
    /\ loose' = loose \ {s}
    /\ authDisk' = s.state
    /\ overtaken' = (overtaken \/ s.late)
    /\ NoAuthEvent
    /\ UNCHANGED <<auth, change, waiting, notifyDue, reset, reading, acks, clears, sentAway>>

LooseSaveFails(s) ==
    /\ loose' = loose \ {s}
    /\ NoAuthEvent
    /\ UNCHANGED <<auth, authDisk, change, waiting, notifyDue, reset, reading, acks, clears,
                   sentAway, overtaken>>

(***************************************************************************)
(* wait_for_worker_reset_acknowledgements.                                 *)
(***************************************************************************)
\* Slip: the Notified future is created after the look.
ToldOnlyAsleep == waiting.at = "asleep"

HearsNotice == waiting.at \in {"look", "looked", "asleep"}

Notifies ==
    /\ notifyDue
    /\ notifyDue' = FALSE
    /\ waiting' = IF HearsNotice THEN [waiting EXCEPT !.told = TRUE] ELSE waiting
    /\ NoAuthEvent
    /\ UNCHANGED <<auth, authDisk, change, loose, reset, reading, acks, clears, sentAway, overtaken>>

ClearLooks ==
    /\ waiting.at = "look"
    /\ AuthLockFree
    /\ waiting' = IF auth.epoch # waiting.epoch THEN NoWait
                   ELSE IF auth.awaited = {} THEN [waiting EXCEPT !.at = "acknowledged"]
                   ELSE [waiting EXCEPT !.at = "looked"]
    /\ NoAuthEvent
    /\ UNCHANGED <<auth, authDisk, change, loose, notifyDue, reset, reading, acks, clears,
                   sentAway, overtaken>>

\* A notice since it looked wakes it at once; then it starts again.
ClearWaits ==
    /\ \/ /\ waiting.at = "looked"
          /\ waiting' = [waiting EXCEPT !.at = "asleep"]
       \/ /\ waiting.at = "asleep" /\ waiting.told
          /\ waiting' = [waiting EXCEPT !.at = "look", !.told = FALSE]
    /\ NoAuthEvent
    /\ UNCHANGED <<auth, authDisk, change, loose, notifyDue, reset, reading, acks, clears,
                   sentAway, overtaken>>

\* The answer is sent, or its time is up, or its caller hangs up.
ClearEnds ==
    /\ waiting.at \in {"look", "looked", "asleep", "acknowledged"}
    /\ waiting' = NoWait
    /\ NoAuthEvent
    /\ UNCHANGED <<auth, authDisk, change, loose, notifyDue, reset, reading, acks, clears,
                   sentAway, overtaken>>

(***************************************************************************)
(* companion_status, read in two holds of the lock, and the extension's    *)
(* applyHostWorkerResetEpoch.                                              *)
(***************************************************************************)
ReadsEpoch(b) ==
    /\ reading = NotReading
    /\ b \in Paired /\ AuthLockFree
    /\ reading' = [at |-> "epoch", browser |-> b, epoch |-> auth.epoch, awaited |-> FALSE]
    /\ NoAuthEvent
    /\ UNCHANGED <<auth, authDisk, change, loose, waiting, notifyDue, reset, acks, clears,
                   sentAway, overtaken>>

ReadsAwaited ==
    /\ reading.at = "epoch"
    /\ AuthLockFree
    /\ reading' = [reading EXCEPT !.at = "read", !.awaited = reading.browser \in auth.awaited]
    /\ NoAuthEvent
    /\ UNCHANGED <<auth, authDisk, change, loose, waiting, notifyDue, reset, acks, clears,
                   sentAway, overtaken>>

AppliesReset ==
    /\ reading.at = "read"
    /\ LET b       == reading.browser
           applied == IF reading.epoch > reset[b].epoch
                      THEN [epoch |-> reading.epoch, clears |-> clears] ELSE reset[b]
       IN  /\ reset' = [reset EXCEPT ![b] = applied]
           /\ acks' = IF reading.awaited /\ applied.epoch = reading.epoch
                      THEN acks \cup {[browser |-> b, epoch |-> applied.epoch]} ELSE acks
    /\ reading' = NotReading
    /\ NoAuthEvent
    /\ UNCHANGED <<auth, authDisk, change, loose, waiting, notifyDue, clears, sentAway, overtaken>>

\* What lands in the file as the host goes down counts.
AuthRestarts ==
    /\ AuthEvent
    /\ authDisk' \in {authDisk} \cup {c.next : c \in {change} \ {NoChange}}
    /\ auth' = authDisk'
    /\ change' = NoChange /\ loose' = {} /\ waiting' = NoWait /\ notifyDue' = FALSE
    /\ UNCHANGED <<reset, reading, acks, clears, sentAway, overtaken>>

AuthNext ==
    \/ \E b \in Browsers :
           \/ AutoPairs(b) \/ BindsOrigin(b) \/ Repairs(b) \/ Revokes(b)
           \/ \E required \in SUBSET (Browsers \ {b}) : BeginsReset(b, required)
           \/ ReadsEpoch(b)
    \/ ReadsAwaited \/ AppliesReset
    \/ \E ack \in acks : Acknowledges(ack) \/ AckComesToNothing(ack)
    \/ ChangeSaved \/ SaveFails \/ HandlerDropped
    \/ \E s \in loose : LooseSaveLands(s) \/ LooseSaveFails(s)
    \/ Notifies \/ ClearLooks \/ ClearWaits \/ ClearEnds
    \/ AuthRestarts

AuthSpec == AuthInit /\ [][AuthNext]_authVars

(***************************************************************************)
(* Properties.                                                             *)
(***************************************************************************)
\* A Clear Workers that reports every browser as reset speaks the truth: each
\* browser it waited for has dropped its worker state after this reset was
\* published, whatever acknowledgement of an older reset was under way, unless
\* a late save had taken the host back to an older epoch.
ResetWasApplied ==
    (waiting.at = "acknowledged" /\ ~overtaken) =>
        \A b \in waiting.required : reset[b].clears >= clears

\* The waiter is never left asleep after the last acknowledgement.
ResetIsHeard ==
    (waiting.at = "asleep" /\ ~waiting.told) => (auth.awaited # {} \/ notifyDue)

\* Clear Workers ends when the last browser acknowledged its reset, and not
\* before each of them applied it.
ResetIsExact == ResetWasApplied /\ ResetIsHeard

\* Nothing but a manual repair brings a revoked browser back, across failing
\* saves and restarts, unless a dropped handler's save landed after a later one.
OnlyLateSavesRestore == overtaken \/ sentAway \cap Paired = {}

\* What the comment of revoke_client promises without that exception.
OnlyRepairRestores == sentAway \cap Paired = {}
=============================================================================
