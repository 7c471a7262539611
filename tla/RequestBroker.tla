----------------------------- MODULE RequestBroker -----------------------------
(***************************************************************************)
(* The two brokers through which a tool call of the model asks a paired    *)
(* browser to do something: src/src/user_browser.rs, answered by           *)
(* createBrowserControl of extensions/.../user-browser-control.js, and     *)
(* src/src/worker_recovery.rs, answered by pumpWorkerRecovery of           *)
(* background.js.  They have the same shape; service says which one it is. *)
(*                                                                         *)
(* Both live in memory: a restart of the host is a new epoch and an empty  *)
(* queue.  A caller waits on a oneshot channel under a timeout and takes   *)
(* the broker's lock only afterwards, so an answer and a timeout race.     *)
(* pending (what the broker has in its queue), expired (past expires_at),  *)
(* caller, inbox (the oneshot channels), heard, claimedEver and acted (how *)
(* often the page was touched) are declared by AskService, which this      *)
(* module implements.                                                      *)
(***************************************************************************)
EXTENDS AskService, Naturals, FiniteSets

CONSTANTS
    MaxPending,     \* USER_BROWSER_MAX_PENDING, MAX_PENDING_RECOVERIES
    MaxAskFaults    \* bound: losses, restarts, dropped callers, revocations

ASSUME AskAssumption ==
    IsFiniteSet(Asks) /\ MaxPending \in Nat \ {0} /\ MaxAskFaults \in Nat

VARIABLES
    service,        \* "browser" or "recovery"
    hostEpoch,      \* BrokerState.epoch
    paired,         \* the client id the browser is paired under, 0 if it is not
    bound,          \* the client id the browser's presence is bound to, 0 if none
    addressee,      \* PendingRecovery.client_id
    browser,        \* the pump of the extension
    receipt,        \* the result kept in the session storage until acknowledged
    wire,           \* the call of the extension under way
    askFaults

hostVars    == <<hostEpoch, paired, bound, pending, addressee>>
callerVars  == <<expired, caller, inbox, heard>>
browserVars == <<browser, receipt>>
tallyVars   == <<claimedEver, acted, askFaults>>
brokerVars  == <<service, hostEpoch, paired, bound, addressee, browserVars, wire, askFaults>>
askVars     == <<brokerVars, serviceVars>>

NoCall    == [act |-> "none"]
NoReceipt == [ask |-> "none"]
Resting   == [at |-> "idle", epoch |-> 0, listed |-> {}]

AskInit ==
    /\ service \in {"browser", "recovery"}
    /\ hostEpoch = 1
    /\ paired = 1 /\ bound = 1
    /\ ServiceInit
    /\ addressee = [a \in Asks |-> 0]
    /\ browser = Resting
    /\ receipt = NoReceipt
    /\ wire = NoCall
    /\ askFaults = 0

AskFault == askFaults < MaxAskFaults /\ askFaults' = askFaults + 1
Browser  == service = "browser"

(***************************************************************************)
(* execute.                                                                *)
(***************************************************************************)
Queued == {a \in Asks : pending[a] # "none"}

\* Slip: everything that expired is pruned, what was claimed too.
PrunedAll(p) == [a \in Asks |-> IF ~Browser /\ a \in expired THEN "none" ELSE p[a]]

\* prune_expired of the recovery broker; the other has none.
Pruned(p) == [a \in Asks |-> IF ~Browser /\ a \in expired /\ p[a] = "open" THEN "none" ELSE p[a]]

Reachable == IF Browser THEN bound # 0 ELSE paired # 0

Execute(a) ==
    /\ caller[a] = "new"
    /\ IF ~Reachable \/ Cardinality({b \in Asks : Pruned(pending)[b] # "none"}) >= MaxPending
       THEN /\ Return(a, "refused")
            /\ pending' = Pruned(pending)
            /\ UNCHANGED addressee
       ELSE /\ caller' = [caller EXCEPT ![a] = "waiting"]
            /\ pending' = [Pruned(pending) EXCEPT ![a] = "open"]
            /\ addressee' = [addressee EXCEPT ![a] = paired]
            /\ UNCHANGED heard
    /\ UNCHANGED <<service, hostEpoch, paired, bound, expired, inbox, browserVars, wire, tallyVars>>

Hears(a) ==
    /\ caller[a] = "waiting" /\ inbox[a] # "empty"
    /\ Return(a, inbox[a])
    /\ UNCHANGED <<service, hostVars, expired, inbox, browserVars, wire, tallyVars>>

Expires(a) ==
    /\ caller[a] \in {"waiting", "dropped"} /\ a \notin expired
    /\ expired' = expired \cup {a}
    /\ UNCHANGED <<service, hostVars, caller, inbox, heard, browserVars, wire, tallyVars>>

\* The timer fires, or prune_expired dropped the sender.
TimesOut(a) ==
    /\ caller[a] = "waiting" /\ a \in expired /\ inbox[a] = "empty"
    /\ caller' = [caller EXCEPT ![a] = "timed_out"]
    /\ UNCHANGED <<service, hostVars, expired, inbox, heard, browserVars, wire, tallyVars>>

Forgets(a) == [pending EXCEPT ![a] = "none"]

GivesUp(a) ==
    /\ caller[a] = "timed_out"
    /\ Return(a, IF pending[a] = "claimed" THEN "unconfirmed" ELSE "not_dispatched")
    /\ pending' = Forgets(a)
    /\ UNCHANGED <<service, hostEpoch, paired, bound, addressee, expired, inbox, browserVars, wire, tallyVars>>

\* The connection of the tool call is gone, and with it the future.
CallerDropped(a) ==
    /\ caller[a] \in {"waiting", "timed_out"}
    /\ AskFault
    /\ caller' = [caller EXCEPT ![a] = "dropped"]
    /\ UNCHANGED <<service, hostVars, expired, inbox, heard, browserVars, wire, claimedEver, acted>>

(***************************************************************************)
(* The calls of the extension: authorized as some client first (client is  *)
(* 0 if that is refused), handled later.                                   *)
(***************************************************************************)
Call(act, a, epoch) ==
    wire' = [act |-> act, ask |-> a, epoch |-> epoch, client |-> paired,
             reply |-> IF paired = 0 THEN "failed" ELSE "sent", ids |-> {}]

Under(act) == wire # NoCall /\ wire.act = act /\ wire.reply = "sent"
Reply(what) == wire' = [wire EXCEPT !.reply = what]
Answered == wire # NoCall /\ wire.reply # "sent"

\* Slip: a request that was claimed is offered and handed out again.
Unsettled(a) == pending[a] # "none"

Unclaimed(a) == pending[a] = "open"

Mine(a) == Browser \/ addressee[a] = wire.client

HandlePoll ==
    /\ Under("poll")
    /\ IF Browser /\ bound \notin {0, wire.client}
       THEN Reply("failed") /\ UNCHANGED <<bound, pending>>
       ELSE /\ bound' = IF Browser THEN wire.client ELSE bound
            /\ pending' = Pruned(pending)
            /\ wire' = [wire EXCEPT !.reply = "yes", !.epoch = hostEpoch,
                            !.ids = {a \in Asks : Unclaimed(a) /\ Pruned(pending)[a] # "none" /\ Mine(a)}]
    /\ UNCHANGED <<service, hostEpoch, paired, addressee, callerVars, browserVars, tallyVars>>

\* Whose call it is, and of which epoch.
Recognised == wire.epoch = hostEpoch /\ (Browser => bound = wire.client)

HandleClaim ==
    /\ Under("claim")
    /\ IF Recognised /\ Mine(wire.ask) /\ Unclaimed(wire.ask) /\ wire.ask \notin expired
       THEN /\ pending' = [Pruned(pending) EXCEPT ![wire.ask] = "claimed"]
            /\ claimedEver' = claimedEver \cup {wire.ask}
            /\ Reply("yes")
       ELSE /\ pending' = Pruned(pending)
            /\ Reply("no")
            /\ UNCHANGED claimedEver
    /\ UNCHANGED <<service, hostEpoch, paired, bound, addressee, callerVars, browserVars, acted, askFaults>>

HandleCheck ==
    /\ Under("check")
    /\ Reply(IF Recognised /\ pending[wire.ask] = "claimed" /\ wire.ask \notin expired
             THEN "yes" ELSE "no")
    /\ UNCHANGED <<service, hostVars, callerVars, browserVars, tallyVars>>

\* Only the recovery broker looks at the deadline here.
HandleResult ==
    /\ Under("result")
    /\ IF /\ Recognised /\ Mine(wire.ask)
          /\ Pruned(pending)[wire.ask] = "claimed"
          /\ ~Browser => wire.ask \notin expired
       THEN /\ pending' = [Pruned(pending) EXCEPT ![wire.ask] = "none"]
            /\ inbox' = [inbox EXCEPT ![wire.ask] = "result"]
            /\ Reply("yes")
       ELSE /\ pending' = Pruned(pending)
            /\ Reply("no")
            /\ UNCHANGED inbox
    /\ UNCHANGED <<service, hostEpoch, paired, bound, addressee, expired, caller, heard, browserVars, tallyVars>>

\* The call or its reply is lost.
CallLost ==
    /\ wire # NoCall /\ wire.reply # "failed"
    /\ AskFault
    /\ Reply("failed")
    /\ UNCHANGED <<service, hostVars, callerVars, browserVars, claimedEver, acted>>

(***************************************************************************)
(* The pump of the extension.                                              *)
(***************************************************************************)
OnlyBrowser == UNCHANGED <<service, hostVars, callerVars, tallyVars>>

Stand(at) == browser' = [browser EXCEPT !.at = at]
Rest == browser' = [browser EXCEPT !.at = "idle", !.listed = {}]
Replied(at) == browser.at = at /\ Answered

\* A receipt goes first; then the poll.
PumpOnce ==
    /\ browser.at = "idle" /\ wire = NoCall
    /\ IF receipt # NoReceipt
       THEN Stand("redeliver") /\ Call("result", receipt.ask, receipt.epoch)
       ELSE Stand("poll") /\ Call("poll", "none", browser.epoch)
    /\ OnlyBrowser /\ UNCHANGED receipt

Redelivered ==
    /\ Replied("redeliver")
    /\ IF wire.reply = "failed"
       THEN Rest /\ wire' = NoCall /\ UNCHANGED receipt
       ELSE receipt' = NoReceipt /\ Stand("poll") /\ Call("poll", "none", browser.epoch)
    /\ OnlyBrowser

Polled ==
    /\ Replied("poll")
    /\ IF wire.reply = "failed"
       THEN Rest
       ELSE browser' = [at |-> "next", epoch |-> wire.epoch, listed |-> wire.ids]
    /\ wire' = NoCall
    /\ OnlyBrowser /\ UNCHANGED receipt

NextAsk ==
    /\ browser.at = "next"
    /\ IF browser.listed = {}
       THEN Rest /\ UNCHANGED wire
       ELSE \E a \in browser.listed :
                /\ browser' = [browser EXCEPT !.at = "claim",
                                   !.listed = IF Browser THEN @ \ {a} ELSE {}]
                /\ Call("claim", a, browser.epoch)
    /\ OnlyBrowser /\ UNCHANGED receipt

\* A recovery acts at once; a browser command asks before it touches the page.
Claimed ==
    /\ Replied("claim")
    /\ CASE wire.reply # "yes" -> Stand("next") /\ wire' = NoCall
         [] wire.reply = "yes" /\ Browser -> Stand("check") /\ Call("check", wire.ask, wire.epoch)
         [] OTHER -> Stand("act") /\ Reply("yes")
    /\ OnlyBrowser /\ UNCHANGED receipt

Checked ==
    /\ Replied("check")
    /\ Stand(IF wire.reply = "yes" THEN "act" ELSE "report")
    /\ OnlyBrowser /\ UNCHANGED <<receipt, wire>>

\* The last look is at the browser's own clock and epoch.
Acts ==
    /\ browser.at = "act"
    /\ acted' = IF Browser => wire.ask \notin expired /\ wire.epoch = browser.epoch
                THEN [acted EXCEPT ![wire.ask] = @ + 1] ELSE acted
    /\ Stand("report")
    /\ UNCHANGED <<service, hostVars, callerVars, receipt, wire, claimedEver, askFaults>>

Reports ==
    /\ browser.at = "report"
    /\ receipt' = IF Browser THEN [ask |-> wire.ask, epoch |-> browser.epoch] ELSE receipt
    /\ Stand("deliver")
    /\ Call("result", wire.ask, browser.epoch)
    /\ OnlyBrowser

Delivered ==
    /\ Replied("deliver")
    /\ IF Browser /\ wire.reply # "failed"
       THEN receipt' = NoReceipt /\ Stand("next")
       ELSE Rest /\ UNCHANGED receipt
    /\ wire' = NoCall
    /\ OnlyBrowser

\* pumpUserBrowserControl polls while a command is being carried out.
Heartbeat ==
    /\ Browser /\ paired # 0 /\ bound \in {0, paired}
    /\ browser.at \in {"check", "act", "report"}
    /\ bound' = paired
    /\ browser' = [browser EXCEPT !.epoch = hostEpoch]
    /\ UNCHANGED <<service, hostEpoch, paired, pending, addressee, callerVars, receipt, wire, tallyVars>>

(***************************************************************************)
(* Restarts, revocation, a browser that was not heard of.                  *)
(***************************************************************************)
\* The session storage outlives the service worker, not the browser.
ExtensionRestarts ==
    /\ AskFault
    /\ browser' = [Resting EXCEPT !.epoch = browser.epoch]
    /\ receipt' \in {receipt, NoReceipt}
    /\ wire' = NoCall
    /\ UNCHANGED <<service, hostVars, callerVars, claimedEver, acted>>

HostRestarts ==
    /\ AskFault
    /\ hostEpoch' = hostEpoch + 1
    /\ bound' = 0
    /\ pending' = [a \in Asks |-> "none"]
    /\ caller' = [a \in Asks |-> IF caller[a] \in {"waiting", "timed_out"} THEN "dropped" ELSE caller[a]]
    /\ wire' = IF wire = NoCall \/ wire.reply # "sent" THEN wire ELSE [wire EXCEPT !.reply = "failed"]
    /\ UNCHANGED <<service, paired, addressee, expired, inbox, heard, browserVars, claimedEver, acted>>

PresenceLapses ==
    /\ Browser /\ bound # 0
    /\ bound' = 0
    /\ UNCHANGED <<service, hostEpoch, paired, pending, addressee, callerVars, browserVars, wire, tallyVars>>

\* revoke_client: the credential first, remove_companion of the broker later.
CredentialRevoked ==
    /\ paired = 1
    /\ AskFault
    /\ paired' = 0
    /\ UNCHANGED <<service, hostEpoch, bound, pending, addressee, callerVars, browserVars, wire, claimedEver, acted>>

CompanionRemoved ==
    /\ paired # 1
    /\ Browser => bound = 1
    /\ LET gone == {a \in Queued : Browser \/ addressee[a] = 1}
       IN  /\ gone # {} \/ bound = 1
           /\ pending' = [a \in Asks |-> IF a \in gone THEN "none" ELSE pending[a]]
           /\ inbox' = [a \in Asks |->
                  IF a \notin gone THEN inbox[a]
                  ELSE IF pending[a] = "claimed" THEN "unconfirmed" ELSE "not_dispatched"]
    /\ bound' = 0
    /\ UNCHANGED <<service, hostEpoch, paired, addressee, expired, caller, heard, browserVars, wire, tallyVars>>

PairedAgain ==
    /\ paired = 0
    /\ paired' = 2
    /\ UNCHANGED <<service, hostEpoch, bound, pending, addressee, callerVars, browserVars, wire, tallyVars>>

AskNext ==
    \/ \E a \in Asks :
           \/ Execute(a) \/ Hears(a) \/ Expires(a) \/ TimesOut(a) \/ GivesUp(a)
           \/ CallerDropped(a)
    \/ HandlePoll \/ HandleClaim \/ HandleCheck \/ HandleResult
    \/ CallLost
    \/ PumpOnce \/ Redelivered \/ Polled \/ NextAsk \/ Claimed \/ Checked \/ Acts
    \/ Reports \/ Delivered \/ Heartbeat
    \/ ExtensionRestarts \/ HostRestarts
    \/ PresenceLapses \/ CredentialRevoked \/ CompanionRemoved \/ PairedAgain

AskSpec == AskInit /\ [][AskNext]_askVars

(***************************************************************************)
(* Properties.                                                             *)
(***************************************************************************)

\* What the broker may still hand out or settle.
LivePending ==
    [a \in Asks |-> IF pending[a] = "open" /\ a \in expired THEN "none" ELSE pending[a]]

Service == INSTANCE AskService WITH pending <- LivePending

\* Whatever is lost, restarted, expired or revoked on the way: no request is
\* handed out twice or late, the page is touched at most once and only for
\* what was handed out, and the caller hears what AskService says it does.
ImplementsService == Service!ServiceSpec

\* A caller told that its request was not dispatched hears the truth: no
\* claim handed it out.
RefusedWasNotDispatched ==
    \A a \in Asks : heard[a] = "not_dispatched" => a \notin claimedEver
=============================================================================
