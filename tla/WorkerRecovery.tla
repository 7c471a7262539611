----------------------------- MODULE WorkerRecovery -----------------------------
(***************************************************************************)
(* recover_worker_for_core of src/src/mcp.rs: a Core has the conversation  *)
(* of a worker that went quiet inspected and, if nothing moved meanwhile,  *)
(* told to continue.  Every attempt makes two requests of the recovery     *)
(* broker, of which it relies on what AskService promises (RequestBroker   *)
(* implements it), behind a fence in the Worker store                      *)
(* (begin_recovery_guard, clear_recovery_guard) that is to keep a second   *)
(* attempt from prompting the same task twice.                             *)
(*                                                                         *)
(* One worker and one task; the page is content.js and chatgpt-dom.js.     *)
(***************************************************************************)
EXTENDS AskService

CONSTANTS
    Recoveries,     \* the calls of recover_worker_for_core
    MaxActivity,    \* bound: tool calls of the worker during the attempts
    MaxTurns,       \* bound: turns of its conversation
    MaxLosses       \* bound: failing commits, dropped calls, lost hosts and browsers

NoFence == "none"

ASSUME RecoveryAssumption ==
    /\ Recoveries \X {"inspect", "continue"} \subseteq Asks
    /\ NoFence \notin Recoveries
    /\ MaxActivity \in Nat /\ MaxTurns \in Nat /\ MaxLosses \in Nat

VARIABLES
    recovery,       \* where each call stands
    fence,          \* WorkerRecord.recovery_guard: whose it is, or NoFence
    graceOver,      \* attempts begun more than guard_ms of wall clock ago
    before,         \* activity_before of each call
    activity,       \* the worker's tool calls so far
    running,        \* whether its task still runs
    page,           \* its conversation: turns, and whether one is generated
    outcome,        \* what the page answered to each request
    prompted,       \* attempts whose continuation was sent
    losses

caseVars     == <<recovery, before>>
workerVars   == <<fence, graceOver, activity, running>>
talkVars     == <<page, outcome, prompted>>
recoveryVars == <<caseVars, workerVars, talkVars, losses>>

Unanswered == [state |-> "none", turns |-> 0]
Look(r) == <<r, "inspect">>
Push(r) == <<r, "continue">>

RecoveryInit ==
    /\ ServiceInit
    /\ recovery = [r \in Recoveries |-> "new"]
    /\ before = [r \in Recoveries |-> 0]
    /\ fence = NoFence /\ graceOver = {} /\ activity = 0 /\ running = TRUE
    /\ page = [turns |-> 0, generating |-> FALSE]
    /\ outcome = [a \in Asks |-> Unanswered]
    /\ prompted = {} /\ losses = 0

Loss == losses < MaxLosses /\ losses' = losses + 1

(***************************************************************************)
(* The fence.                                                              *)
(***************************************************************************)
Fenced == fence # NoFence /\ fence \notin graceOver

\* Slip: whatever fence is there is cleared.
WithoutFence(r) == NoFence

\* started_at_ms tells whose fence it is.
FenceWithout(r) == IF fence = r THEN NoFence ELSE fence

End(r) == recovery' = [recovery EXCEPT ![r] = "done"]

KeepFence(r) == End(r) /\ UNCHANGED <<fence, losses>>

\* The commit may fail and leave the fence where it is.
ClearFence(r) ==
    /\ End(r)
    /\ \/ fence' = FenceWithout(r) /\ UNCHANGED losses
       \/ Loss /\ UNCHANGED fence

(***************************************************************************)
(* The call.  That a tab of the conversation reports a turn of a worker    *)
(* which was active lately refuses it too; but a tab need not be listed.   *)
(***************************************************************************)
BeginRecovery(r) ==
    /\ recovery[r] = "new" /\ running
    /\ IF Fenced
       THEN recovery' = [recovery EXCEPT ![r] = "refused"] /\ UNCHANGED <<fence, before>>
       ELSE /\ recovery' = [recovery EXCEPT ![r] = "fenced"]
            /\ fence' = r
            /\ before' = [before EXCEPT ![r] = activity]
    /\ UNCHANGED <<graceOver, activity, running, talkVars, losses, serviceVars>>

Inspect(r) ==
    /\ recovery[r] = "fenced"
    /\ recovery' = [recovery EXCEPT ![r] = "inspecting"]
    /\ Accept(Look(r)) \/ Decline(Look(r))
    /\ UNCHANGED <<before, workerVars, talkVars, losses>>

\* remove_companion answers a waiting request with a value, not an error: it
\* has no state, which counts as "failed".
Result(a) == IF heard[a] = "result" THEN outcome[a].state ELSE "failed"

\* Whether execute returned a value, and not an error.
Returned(a) == heard[a] = inbox[a]

MayContinue(r) ==
    /\ Returned(Look(r)) /\ Result(Look(r)) \in {"idle", "busy"}
    /\ activity = before[r]

Inspected(r) ==
    /\ recovery[r] = "inspecting" /\ heard[Look(r)] # "nothing"
    /\ IF MayContinue(r)
       THEN recovery' = [recovery EXCEPT ![r] = "inspected"] /\ UNCHANGED <<fence, losses>>
       ELSE ClearFence(r)
    /\ UNCHANGED <<before, graceOver, activity, running, talkVars, serviceVars>>

Continue(r) ==
    /\ recovery[r] = "inspected"
    /\ recovery' = [recovery EXCEPT ![r] = "continuing"]
    /\ Accept(Push(r)) \/ Decline(Push(r))
    /\ UNCHANGED <<before, workerVars, talkVars, losses>>

\* Slip: an error is taken for a continuation that was not sent.
StaysUnresolvedByState(a) == Returned(a) /\ Result(a) \in {"continued", "unconfirmed"}

\* Only the error that says RESULT_UNCONFIRMED, or such a state, keeps the fence.
StaysUnresolved(a) ==
    IF Returned(a) THEN Result(a) \in {"continued", "unconfirmed"} ELSE heard[a] = "unconfirmed"

Continued(r) ==
    /\ recovery[r] = "continuing" /\ heard[Push(r)] # "nothing"
    /\ IF StaysUnresolved(Push(r)) THEN KeepFence(r) ELSE ClearFence(r)
    /\ UNCHANGED <<before, graceOver, activity, running, talkVars, serviceVars>>

(***************************************************************************)
(* The worker and its page.                                                *)
(***************************************************************************)
WorkerActs ==
    /\ running /\ activity < MaxActivity
    /\ activity' = activity + 1
    /\ UNCHANGED <<caseVars, fence, graceOver, running, talkVars, losses, serviceVars>>

\* finish_worker, and whatever else ends the task, takes the fence with it.
TaskEnds ==
    /\ running
    /\ running' = FALSE /\ fence' = NoFence
    /\ UNCHANGED <<caseVars, graceOver, activity, talkVars, losses, serviceVars>>

\* The wall clock; a suspended host's timers lag behind it.
GraceEnds(r) ==
    /\ r \notin graceOver /\ recovery[r] \notin {"new", "refused"}
    /\ graceOver' = graceOver \cup {r}
    /\ UNCHANGED <<caseVars, fence, activity, running, talkVars, losses, serviceVars>>

PageMoves ==
    /\ \/ page.generating /\ page' = [page EXCEPT !.generating = FALSE]
       \/ page.turns < MaxTurns /\ page' = [page EXCEPT !.turns = @ + 1, !.generating = TRUE]
    /\ UNCHANGED <<caseVars, workerVars, outcome, prompted, losses, serviceVars>>

Answers(a, state) == outcome' = [outcome EXCEPT ![a] = [state |-> state, turns |-> page.turns]]

\* inspectWorkerRecovery; what is not ready is treated as what failed.
PageInspected(a) ==
    /\ \E state \in {IF page.generating THEN "busy" ELSE "idle", "failed"} :
           Answers(a, state)
    /\ UNCHANGED <<page, prompted>>

Expected(r) == outcome[Look(r)].turns
MayStop(r) == outcome[Look(r)].state = "busy"

\* continueWorkerRecovery up to the click: what can still hold it back.
HeldBack(r) ==
    \/ page.turns # Expected(r) /\ Answers(Push(r), "superseded") /\ UNCHANGED page
    \/ /\ page.turns = Expected(r) /\ page.generating /\ ~MayStop(r)
       /\ Answers(Push(r), "busy") /\ UNCHANGED page
    \/ /\ page.turns = Expected(r) /\ (page.generating => MayStop(r))
       /\ \E state \in {"failed", "unconfirmed"} : Answers(Push(r), state)
       /\ page' = [page EXCEPT !.generating = FALSE]

\* The click; ChatGPT may not take it, the conversation may be left, the
\* answer to the background script may be lost.
Clicked(r) ==
    /\ page.turns = Expected(r) /\ (page.generating => MayStop(r))
    /\ prompted' = prompted \cup {r}
    /\ \/ /\ page.turns < MaxTurns
          /\ page' = [turns |-> page.turns + 1, generating |-> TRUE]
          /\ \E state \in {"continued", "superseded", "unconfirmed"} : Answers(Push(r), state)
       \/ /\ page' = [page EXCEPT !.generating = FALSE]
          /\ \E state \in {"superseded", "unconfirmed"} : Answers(Push(r), state)

ActsOnPage(r) ==
    /\ \/ ActOn(Look(r)) /\ PageInspected(Look(r))
       \/ ActOn(Push(r)) /\ HeldBack(r) /\ UNCHANGED prompted
       \/ ActOn(Push(r)) /\ Clicked(r)
    /\ UNCHANGED <<caseVars, workerVars, losses>>

(***************************************************************************)
(* Faults: the call is dropped, the host restarts; the fence is on disk.   *)
(***************************************************************************)
AtWork(r) == recovery[r] \in {"fenced", "inspecting", "inspected", "continuing"}

RecoveryDropped(r) ==
    /\ AtWork(r) /\ Loss
    /\ recovery' = [recovery EXCEPT ![r] = "gone"]
    /\ \/ \E a \in {Look(r), Push(r)} : Drop(a)
       \/ recovery[r] \in {"fenced", "inspected"} /\ UNCHANGED serviceVars
    /\ UNCHANGED <<before, workerVars, talkVars>>

HostLost ==
    /\ Loss
    /\ Restart
    /\ recovery' = [r \in Recoveries |-> IF AtWork(r) THEN "gone" ELSE recovery[r]]
    /\ UNCHANGED <<before, workerVars, talkVars>>

BrowserLost ==
    /\ Loss
    /\ \E gone \in SUBSET Asks : gone # {} /\ Remove(gone)
    /\ UNCHANGED <<caseVars, workerVars, talkVars>>

\* What else happens to a request; what is reported of it was done.
ServiceSteps ==
    /\ \E a \in Asks :
           \/ Hear(a) \/ Expire(a) \/ TimeOut(a) \/ GiveUp(a) \/ HandOut(a)
           \/ acted[a] = 1 /\ a \notin expired /\ Report(a)
    /\ UNCHANGED recoveryVars

RecoveryNext ==
    \/ \E r \in Recoveries :
           \/ BeginRecovery(r) \/ Inspect(r) \/ Inspected(r) \/ Continue(r) \/ Continued(r)
           \/ ActsOnPage(r) \/ GraceEnds(r) \/ RecoveryDropped(r)
    \/ WorkerActs \/ TaskEnds \/ PageMoves
    \/ HostLost \/ BrowserLost
    \/ ServiceSteps

RecoverySpec == RecoveryInit /\ [][RecoveryNext]_<<recoveryVars, serviceVars>>

(***************************************************************************)
(* Properties.                                                             *)
(***************************************************************************)
StillFenced(r) == running /\ r \notin graceOver => fence = r

\* The ways a call learns less of its continuation than the browser did: its
\* browser was revoked after the claim, the answer came between its timeout
\* and its look at the queue, the conversation was left after the click.
Misled(r) ==
    \/ Returned(Push(r)) /\ heard[Push(r)] = "unconfirmed"
    \/ heard[Push(r)] = "not_dispatched" /\ inbox[Push(r)] # "empty"
    \/ Returned(Push(r)) /\ Result(Push(r)) = "superseded"

\* While the grace of a prompted attempt runs, its fence keeps the worker's
\* unfinished task from being prompted again, whatever was lost, dropped,
\* expired or restarted, unless its call was misled.
PromptIsFenced == \A r \in prompted : Misled(r) \/ StillFenced(r)

\* What recover_worker_for_core says of the error RESULT_UNCONFIRMED: the
\* fence of a continuation that a browser claimed, and whose result did not
\* arrive, "remains active".
UnconfirmedKeepsFence ==
    \A r \in Recoveries :
        /\ recovery[r] = "done" /\ Push(r) \in claimedEver /\ heard[Push(r)] # "result"
        => StillFenced(r)
=============================================================================
