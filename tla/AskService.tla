------------------------------- MODULE AskService -------------------------------
(***************************************************************************)
(* What the callers of a request broker (src/src/user_browser.rs,          *)
(* src/src/worker_recovery.rs) can rely on, whatever the extension, the    *)
(* network and the pairing do: a request is handed out at most once and    *)
(* never after its deadline, acted on at most once and only if handed out, *)
(* and answered by what was reported, by what its removal said, or after   *)
(* its deadline by what the broker still knew of it.                       *)
(***************************************************************************)
EXTENDS Naturals

CONSTANT Asks           \* the requests ever made

VARIABLES
    pending,        \* what the broker knows of each request it may still hand out or settle
    expired,        \* requests past their deadline
    caller,         \* where execute stands
    inbox,          \* what was sent to the caller
    heard,          \* what execute returned
    claimedEver,    \* requests that were handed out
    acted           \* how often each was acted on

serviceVars == <<pending, expired, caller, inbox, heard, claimedEver, acted>>

ServiceInit ==
    /\ pending = [a \in Asks |-> "none"]
    /\ expired = {}
    /\ caller = [a \in Asks |-> "new"]
    /\ inbox = [a \in Asks |-> "empty"]
    /\ heard = [a \in Asks |-> "nothing"]
    /\ claimedEver = {}
    /\ acted = [a \in Asks |-> 0]

Return(a, text) ==
    /\ caller' = [caller EXCEPT ![a] = "answered"]
    /\ heard' = [heard EXCEPT ![a] = text]

Accept(a) ==
    /\ caller[a] = "new"
    /\ caller' = [caller EXCEPT ![a] = "waiting"]
    /\ pending' = [pending EXCEPT ![a] = "open"]
    /\ UNCHANGED <<expired, inbox, heard, claimedEver, acted>>

Decline(a) ==
    /\ caller[a] = "new"
    /\ Return(a, "refused")
    /\ UNCHANGED <<pending, expired, inbox, claimedEver, acted>>

Hear(a) ==
    /\ caller[a] = "waiting" /\ inbox[a] # "empty"
    /\ Return(a, inbox[a])
    /\ UNCHANGED <<pending, expired, inbox, claimedEver, acted>>

\* From its deadline on a request is not handed out.
Expire(a) ==
    /\ caller[a] \in {"waiting", "dropped"} /\ a \notin expired
    /\ expired' = expired \cup {a}
    /\ pending' = [pending EXCEPT ![a] = IF @ = "open" THEN "none" ELSE @]
    /\ UNCHANGED <<caller, inbox, heard, claimedEver, acted>>

TimeOut(a) ==
    /\ caller[a] = "waiting" /\ a \in expired /\ inbox[a] = "empty"
    /\ caller' = [caller EXCEPT ![a] = "timed_out"]
    /\ UNCHANGED <<pending, expired, inbox, heard, claimedEver, acted>>

\* The caller takes the broker's lock only now.
GiveUp(a) ==
    /\ caller[a] = "timed_out"
    /\ Return(a, IF pending[a] = "claimed" THEN "unconfirmed" ELSE "not_dispatched")
    /\ pending' = [pending EXCEPT ![a] = "none"]
    /\ UNCHANGED <<expired, inbox, claimedEver, acted>>

Drop(a) ==
    /\ caller[a] \in {"waiting", "timed_out"}
    /\ caller' = [caller EXCEPT ![a] = "dropped"]
    /\ UNCHANGED <<pending, expired, inbox, heard, claimedEver, acted>>

HandOut(a) ==
    /\ pending[a] = "open"
    /\ pending' = [pending EXCEPT ![a] = "claimed"]
    /\ claimedEver' = claimedEver \cup {a}
    /\ UNCHANGED <<expired, caller, inbox, heard, acted>>

ActOn(a) ==
    /\ a \in claimedEver /\ acted[a] = 0
    /\ acted' = [acted EXCEPT ![a] = 1]
    /\ UNCHANGED <<pending, expired, caller, inbox, heard, claimedEver>>

Report(a) ==
    /\ pending[a] = "claimed"
    /\ pending' = [pending EXCEPT ![a] = "none"]
    /\ inbox' = [inbox EXCEPT ![a] = "result"]
    /\ UNCHANGED <<expired, caller, heard, claimedEver, acted>>

\* Their companion is gone: the callers that still wait are told so.
Remove(gone) ==
    /\ \A a \in gone :
           /\ caller[a] \in {"waiting", "timed_out", "dropped"}
           /\ pending[a] # "none" \/ a \in expired
    /\ pending' = [a \in Asks |-> IF a \in gone THEN "none" ELSE pending[a]]
    /\ inbox' = [a \in Asks |->
           IF a \notin gone THEN inbox[a]
           ELSE IF pending[a] = "claimed" THEN "unconfirmed" ELSE "not_dispatched"]
    /\ UNCHANGED <<expired, caller, heard, claimedEver, acted>>

Restart ==
    /\ pending' = [a \in Asks |-> "none"]
    /\ caller' = [a \in Asks |->
           IF caller[a] \in {"waiting", "timed_out"} THEN "dropped" ELSE caller[a]]
    /\ UNCHANGED <<expired, inbox, heard, claimedEver, acted>>

ServiceNext ==
    \/ \E gone \in SUBSET Asks : Remove(gone)
    \/ \E a \in Asks :
           \/ Accept(a) \/ Decline(a) \/ Hear(a) \/ Expire(a) \/ TimeOut(a) \/ GiveUp(a)
           \/ Drop(a) \/ HandOut(a) \/ ActOn(a) \/ Report(a)
    \/ Restart

ServiceSpec == ServiceInit /\ [][ServiceNext]_serviceVars

(***************************************************************************)
(* Properties.                                                             *)
(***************************************************************************)
\* A request is acted on at most once, and one whose caller hears that it was
\* not dispatched was not handed out, unless its answer came between the
\* timeout of execute and its look at the queue.
ActsAsTold ==
    \A a \in Asks :
        /\ acted[a] <= 1
        /\ heard[a] = "not_dispatched" /\ a \in claimedEver => inbox[a] # "empty"
=============================================================================
