---------------------------- MODULE WorkspaceLeases ----------------------------
(***************************************************************************)
(* The runtime of one workspace, src/src/workspaces.rs: requests take and  *)
(* return leases with two atomics and no lock, while the removal of the    *)
(* workspace (src/src/state.rs) revokes, drains and, when the drain takes  *)
(* too long or the registry cannot be saved, enables again.  A load, a     *)
(* store, an addition and a notification are one step each.                *)
(***************************************************************************)
EXTENDS Naturals, FiniteSets

CONSTANT Requests   \* requests under way at a time

ASSUME LeasesAssumption == IsFiniteSet(Requests)

VARIABLES
    accepting,      \* accepting_requests
    inFlight,       \* in_flight_requests
    request,        \* where each request is
    drain,          \* where the removal is: "none", "drain" (about to look),
                    \* "looked", "enabled" (its Notified future is registered),
                    \* "rechecked", "asleep", "drained"
    woken           \* the future was notified

leaseVars == <<accepting, inFlight, request, drain, woken>>

RequestSteps == {"idle", "checked", "counted", "refused", "leased", "notify"}
DrainSteps   == {"none", "drain", "looked", "enabled", "rechecked", "asleep", "drained"}

LeasesInit ==
    /\ accepting = TRUE
    /\ inFlight = 0
    /\ request = [r \in Requests |-> "idle"]
    /\ drain = "none"
    /\ woken = FALSE

(***************************************************************************)
(* try_acquire and release_request.                                        *)
(***************************************************************************)
Goes(r, from, to) == request[r] = from /\ request' = [request EXCEPT ![r] = to]

CheckAccepting(r) ==
    /\ accepting
    /\ Goes(r, "idle", "checked")
    /\ UNCHANGED <<accepting, inFlight, drain, woken>>

CountIn(r) ==
    /\ Goes(r, "checked", "counted")
    /\ inFlight' = inFlight + 1
    /\ UNCHANGED <<accepting, drain, woken>>

\* Slip: try_acquire looks only before it counts.
LooksOnce == TRUE

StillAccepting == accepting

Lease(r) ==
    /\ StillAccepting
    /\ Goes(r, "counted", "leased")
    /\ UNCHANGED <<accepting, inFlight, drain, woken>>

\* Whoever takes the count from one to zero notifies the drain.
CountOut(r, from) ==
    /\ Goes(r, from, IF inFlight = 1 THEN "notify" ELSE "idle")
    /\ inFlight' = inFlight - 1
    /\ UNCHANGED <<accepting, drain, woken>>

Refuse(r) ==
    /\ ~StillAccepting
    /\ Goes(r, "counted", "refused")
    /\ UNCHANGED <<accepting, inFlight, drain, woken>>

Undo(r)    == CountOut(r, "refused")
Release(r) == CountOut(r, "leased")

\* Slip: the drain's future counts only once it is awaited.
Sleeps == drain = "asleep"

\* The drain has a future that notify_waiters reaches.
Awaits == drain \in {"enabled", "rechecked", "asleep"}

Notify(r) ==
    /\ Goes(r, "notify", "idle")
    /\ woken' = (woken \/ Awaits)
    /\ UNCHANGED <<accepting, inFlight, drain>>

(***************************************************************************)
(* revoke, wait_for_drain, enable.                                         *)
(***************************************************************************)
Revoke ==
    /\ drain = "none"
    /\ accepting' = FALSE
    /\ drain' = "drain"
    /\ UNCHANGED <<inFlight, request, woken>>

Looks(from, found) ==
    /\ drain = from
    /\ IF inFlight = 0
       THEN drain' = "drained" /\ woken' = FALSE
       ELSE drain' = found /\ UNCHANGED woken
    /\ UNCHANGED <<accepting, inFlight, request>>

LooksFirst == Looks("drain", "looked")
LooksAgain == Looks("enabled", "rechecked")

EnablesFuture ==
    /\ drain = "looked"
    /\ drain' = "enabled"
    /\ UNCHANGED <<accepting, inFlight, request, woken>>

FallsAsleep ==
    /\ drain = "rechecked"
    /\ drain' = "asleep"
    /\ UNCHANGED <<accepting, inFlight, request, woken>>

Wakes ==
    /\ drain = "asleep" /\ woken
    /\ drain' = "drain"
    /\ woken' = FALSE
    /\ UNCHANGED <<accepting, inFlight, request>>

\* The drain timed out, or the registry was not saved.  A removal that goes
\* on never enables the runtime again.
Enable ==
    /\ drain # "none"
    /\ accepting' = TRUE
    /\ drain' = "none"
    /\ woken' = FALSE
    /\ UNCHANGED <<inFlight, request>>

LeasesNext ==
    \/ \E r \in Requests :
           \/ CheckAccepting(r) \/ CountIn(r) \/ Lease(r) \/ Refuse(r)
           \/ Undo(r) \/ Release(r) \/ Notify(r)
    \/ Revoke \/ LooksFirst \/ EnablesFuture \/ LooksAgain \/ FallsAsleep \/ Wakes \/ Enable

LeasesSpec == LeasesInit /\ [][LeasesNext]_leaseVars

(***************************************************************************)
(* Properties.                                                             *)
(***************************************************************************)

\* Every variable keeps its type; the counter counts who entered.
InCount == {r \in Requests : request[r] \in {"counted", "refused", "leased"}}

LeasesTypeOK ==
    /\ accepting \in BOOLEAN
    /\ inFlight = Cardinality(InCount)
    /\ request \in [Requests -> RequestSteps]
    /\ drain \in DrainSteps
    /\ woken \in BOOLEAN

\* The drain never sleeps with nothing left to wait for, unless the request
\* that left last is about to notify it.
DrainIsWoken ==
    drain = "asleep" /\ ~woken => inFlight > 0 \/ \E r \in Requests : request[r] = "notify"

\* No request holds a lease after the drain, whoever was between its two
\* looks at the flag when the workspace was revoked.
Gate == INSTANCE RequestGate WITH
    gate    <- IF accepting THEN "open" ELSE IF drain = "drained" THEN "drained" ELSE "closed",
    holders <- {r \in Requests : request[r] = "leased"}
ImplementsGate == Gate!GateSpec
=============================================================================
