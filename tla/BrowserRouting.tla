----------------------------- MODULE BrowserRouting -----------------------------
(***************************************************************************)
(* The isolated browser that all chats share: src/src/browser_runtime.rs   *)
(* over the pages of src/src/browser_cdp.rs.  A chat owns pages, and gets  *)
(* those that appeared in its workspace's BrowserContext while one of its  *)
(* calls ran; a performance trace records all of Chromium.                 *)
(*                                                                         *)
(* The operation mutex is held through a call, whose steps are its awaits  *)
(* on Chromium.  A caller may be dropped at any of them and lets the mutex *)
(* go; what it sent may still be carried out.                              *)
(***************************************************************************)
EXTENDS Naturals, FiniteSets

CONSTANTS
    Chats,              \* browser sessions: conversations and local callers
    ContextOf,          \* the workspace of each, and so its BrowserContext
    MaxTabs,            \* bound: pages one Chromium opens
    MaxAfloat           \* bound: commands of dropped callers under way at once

ASSUME RoutingAssumption ==
    /\ IsFiniteSet(Chats) /\ "nobody" \notin Chats
    /\ MaxTabs \in Nat /\ MaxAfloat \in Nat

VARIABLES
    transport,          \* runtime.transport: "none", "alive", or "dead" and not yet replaced
    contexts,           \* the BrowserContexts MoonDesk made
    tabs,                \* each page: is it open, whose work it is, who owns it
    active,             \* the active page of each chat, 0 if it has none
    used,               \* chats with a logical session
    traceLease,         \* routing.active_trace
    recording,          \* Chromium records a trace
    traceKnown,         \* the transport knows that it does
    turn,               \* the call that holds the operation mutex
    afloat              \* commands of dropped callers Chromium has yet to carry out

pageVars    == <<contexts, tabs, active, used>>
traceVars   == <<traceLease, recording, traceKnown>>
chromeVars  == <<transport, afloat>>
routingVars == <<chromeVars, pageVars, traceVars, turn>>

Tabs == 1..MaxTabs

\* Whose call or page opened it (by), whose call was to claim what would open
\* just then (during), and was it the work of a call already dropped (late)?
NoTab   == [is |-> "unopened", by |-> "nobody", owner |-> "nobody",
            during |-> "nobody", late |-> FALSE]
NoTraceLease == [chat |-> "nobody", page |-> 0]
Turn(at, c, command, page, before) ==
    [at |-> at, chat |-> c, command |-> command, page |-> page, before |-> before]
NoTurn  == Turn("free", "nobody", "none", 0, {})

RoutingInit ==
    /\ transport = "none"
    /\ contexts = {}
    /\ tabs = [t \in Tabs |-> NoTab]
    /\ active = [c \in Chats |-> 0]
    /\ used = {}
    /\ traceLease = NoTraceLease /\ recording = FALSE /\ traceKnown = FALSE
    /\ turn = NoTurn
    /\ afloat = {}

Open       == {t \in Tabs : tabs[t].is = "open"}
ChatOwns(c) == {t \in Tabs : tabs[t].owner = c}
Mates(c)   == {d \in Chats : ContextOf[d] = ContextOf[c]}
First(S)   == IF S = {} THEN 0 ELSE CHOOSE t \in S : \A u \in S : t <= u

\* Whose work a page is, and the pages of a workspace's context.
WorkOf(t)  == IF tabs[t].owner = "nobody" THEN tabs[t].by ELSE tabs[t].owner
InContextOf(c) == {t \in Open : tabs[t].by \in Mates(c)}

At(steps)      == turn.at \in steps
Does(cmds)     == turn.command \in cmds
MovesTo(step, page, before) == turn' = Turn(step, turn.chat, turn.command, page, before)
Proceeds(step) == MovesTo(step, turn.page, turn.before)
ActsOn(page)   == MovesTo("act", page, {})
Leaves         == turn' = NoTurn

\* The chat whose call will claim what opens now: it has listed the pages that
\* were there before, and the mutex is still its own.
Waits    == At({"create", "open", "claim"}) \/ (At({"acting"}) /\ Does({"click"}))
Claimant == IF Waits THEN turn.chat ELSE "nobody"

\* A command reaches Chromium.
Reaches(steps) == At(steps) /\ transport = "alive"

\* ensure_global_recording_pages_present, which follows most looks at the
\* pages: without the page of the trace the call ends in Fails.
LeaseGone == traceLease # NoTraceLease /\ traceLease.page \notin Open
Sees(steps) == Reaches(steps) /\ ~LeaseGone

\* BrowserRoutingState::clear; the pages are gone with their Chromium.
Cleared ==
    /\ contexts' = {}
    /\ tabs' = [t \in Tabs |-> NoTab]
    /\ active' = [c \in Chats |-> 0]
    /\ used' = {}
    /\ traceLease' = NoTraceLease /\ recording' = FALSE /\ traceKnown' = FALSE
    /\ afloat' = {}

\* A page closes; the host sees it when it looks.
Gone       == [is |-> "closed", by |-> "nobody", owner |-> "nobody",
               during |-> "nobody", late |-> FALSE]
Shut(page) == [is |-> "closed", by |-> page.owner, owner |-> page.owner,
               during |-> page.owner, late |-> FALSE]

\* The next page opens, for a chat.
Opens(c, late) ==
    \E t \in Tabs :
        /\ tabs[t].is = "unopened"
        /\ \A u \in 1..(t - 1) : tabs[u].is # "unopened"
        /\ tabs' = [tabs EXCEPT ![t] = [is |-> "open", by |-> c, owner |-> "nobody",
                                      during |-> Claimant, late |-> late]]

(***************************************************************************)
(* reconcile_pages: pages that vanished have no owner any more; of the     *)
(* others the chat gets those it may claim.                                *)
(***************************************************************************)
\* Slip: whatever page of the workspace has no owner yet.
AnyUnowned(before) == Open

NewSince(before) == Open \ before

OwnedNow(page, c) ==
    [is |-> page.is, by |-> page.by, owner |-> c, during |-> page.during, late |-> FALSE]

Reconciles(c, claims, was) ==
    LET claimed == {t \in claims \cap InContextOf(c) : tabs[t].owner = "nobody"}
        rest(d) == IF was[d] \in Open THEN was[d] ELSE First(ChatOwns(d) \cap Open)
        mine    == IF rest(c) = 0 THEN First(claimed) ELSE rest(c)
    IN  /\ tabs' = [t \in Tabs |->
                      IF t \in claimed THEN OwnedNow(tabs[t], c)
                      ELSE IF tabs[t].is = "closed" THEN Gone ELSE tabs[t]]
        /\ used' = IF claimed = {} THEN used ELSE used \cup {c}
        \* A claimed page becomes active if it is the one selected last.
        /\ \E a \in claimed \cup {mine} :
               active' = [d \in Chats |-> IF d = c THEN a ELSE rest(d)]

(***************************************************************************)
(* A call gets the mutex and a transport.  "click" stands for the commands *)
(* that may open pages (browser_command_may_open_or_close_pages), "fill"   *)
(* for the other commands on a page.                                       *)
(***************************************************************************)
OnPage       == {"click", "fill", "start", "stop"}
PageCommands == OnPage \cup {"list", "new", "select", "close"}

\* Who calls for what matters from Passes and Releases on.
Enters ==
    /\ turn = NoTurn
    /\ Proceeds("entered")
    /\ UNCHANGED <<chromeVars, pageVars, traceVars>>

StartsChromium ==
    /\ At({"entered"}) /\ transport # "alive"
    /\ transport' = "alive"
    /\ Cleared
    /\ UNCHANGED turn

\* The dead transport is taken and Chromium does not start.
StartFails ==
    /\ At({"entered"}) /\ transport # "alive"
    /\ transport' = "none"
    /\ Leaves
    /\ UNCHANGED <<afloat, pageVars, traceVars>>

\* Slip: a call is stopped by a trace only if it wants to trace itself.
NotTracing(c, command) == command = "start" => traceLease.chat \in {"nobody", c}

\* ensure_session_not_blocked_by_performance_trace
NotBlocked(c, command) == traceLease.chat \in {"nobody", c}

Passes(c, command) ==
    /\ Sees({"entered"})
    /\ NotBlocked(c, command)
    /\ turn' = Turn("page", c, command, 0, {})
    /\ UNCHANGED <<chromeVars, pageVars, traceVars>>

(***************************************************************************)
(* ensure_active_upstream_page and new_page: a page is created, then those *)
(* that were not there before are claimed.                                 *)
(***************************************************************************)
FindsActive ==
    /\ At({"page"}) /\ Does(OnPage \cup {"list"})
    /\ active[turn.chat] # 0
    /\ ActsOn(active[turn.chat])
    /\ UNCHANGED <<chromeVars, pageVars, traceVars>>

LacksPage ==
    /\ Sees({"page"})
    /\ \/ Does({"new"}) /\ UNCHANGED <<tabs, active, used>>
       \/ /\ Does(OnPage \cup {"list"}) /\ active[turn.chat] = 0
          /\ Reconciles(turn.chat, {}, active)
    /\ IF active'[turn.chat] # 0 /\ ~Does({"new"})
       THEN ActsOn(active'[turn.chat])
       ELSE MovesTo("create", 0, Open)
    /\ UNCHANGED <<chromeVars, contexts, traceVars>>

\* ensure_context
MakesContext ==
    /\ Reaches({"create"})
    /\ contexts' = contexts \cup {ContextOf[turn.chat]}
    /\ Proceeds("open")
    /\ UNCHANGED <<chromeVars, tabs, active, used, traceVars>>

OpensPage ==
    /\ Reaches({"open"})
    /\ Opens(turn.chat, FALSE)
    /\ Proceeds("claim")
    /\ UNCHANGED <<chromeVars, contexts, active, used, traceVars>>

ClaimsNew ==
    /\ Sees({"claim"})
    /\ Reconciles(turn.chat, NewSince(turn.before), active)
    /\ IF Does({"new"}) \/ turn.page # 0 \/ active'[turn.chat] = 0
       THEN Leaves
       ELSE ActsOn(active'[turn.chat])
    /\ UNCHANGED <<chromeVars, contexts, traceVars>>

(***************************************************************************)
(* Listing, selecting and closing.                                         *)
(***************************************************************************)
Lists ==
    /\ \/ Sees({"act"}) /\ Does({"list"})
       \/ Sees({"closed"})
    /\ Reconciles(turn.chat, {}, active)
    /\ Leaves
    /\ UNCHANGED <<chromeVars, contexts, traceVars>>

SelectsPage ==
    /\ Sees({"page"}) /\ Does({"select"})
    /\ \E t \in ChatOwns(turn.chat) \cap Open :
           Reconciles(turn.chat, {}, [active EXCEPT ![turn.chat] = t])
    /\ Leaves
    /\ UNCHANGED <<chromeVars, contexts, traceVars>>

\* ensure_page_can_close
MayClose(c, t) == ChatOwns(c) # {t} /\ traceLease # [chat |-> c, page |-> t]

ClosesPage ==
    /\ Reaches({"page"}) /\ Does({"close"})
    /\ \E t \in ChatOwns(turn.chat) \cap Open :
           /\ MayClose(turn.chat, t)
           /\ tabs' = [tabs EXCEPT ![t] = Shut(@)]
    /\ Proceeds("closed")
    /\ UNCHANGED <<chromeVars, contexts, active, used, traceVars>>

(***************************************************************************)
(* Acting on the active page: what a click opens the chat claims, what     *)
(* other commands open nobody does.                                        *)
(***************************************************************************)
BeginsAct ==
    /\ \/ Sees({"act"}) /\ Does({"click"})
       \/ Reaches({"act"}) /\ Does({"fill"})
    /\ MovesTo("acting", turn.page, IF Does({"click"}) THEN Open ELSE {})
    /\ UNCHANGED <<chromeVars, pageVars, traceVars>>

Acted ==
    /\ Reaches({"acting"})
    /\ IF Does({"click"}) THEN Proceeds("claim") ELSE Leaves
    /\ UNCHANGED <<chromeVars, pageVars, traceVars>>

(***************************************************************************)
(* The performance trace.                                                  *)
(***************************************************************************)
\* ensure_performance_trace_isolated
Isolated(c) ==
    /\ contexts = {ContextOf[c]}
    /\ used \cap Mates(c) \subseteq {c}
    /\ Open \subseteq ChatOwns(c)

\* begin_performance_trace
StartsTrace ==
    /\ Sees({"act"}) /\ Does({"start"})
    /\ traceLease = NoTraceLease
    /\ Isolated(turn.chat)
    /\ Reconciles(turn.chat, {}, active)
    /\ traceLease' = [chat |-> turn.chat, page |-> turn.page]
    /\ Proceeds("start")
    /\ UNCHANGED <<chromeVars, contexts, recording, traceKnown>>

RecordingStarts ==
    /\ Reaches({"start"})
    /\ turn.page \in Open /\ ~traceKnown /\ ~recording
    /\ recording' = TRUE
    /\ Proceeds("begun")
    /\ UNCHANGED <<chromeVars, pageVars, traceLease, traceKnown>>

\* With autoStop the call goes on to end what it began.
TraceBegun ==
    /\ Reaches({"begun"})
    /\ traceKnown' = TRUE
    /\ Leaves \/ Proceeds("ending")
    /\ UNCHANGED <<chromeVars, pageVars, traceLease, recording>>

\* performance_trace_page
StopsTrace ==
    /\ Sees({"act"}) /\ Does({"stop"})
    /\ traceLease.chat = turn.chat
    /\ Proceeds("ending")
    /\ UNCHANGED <<chromeVars, pageVars, traceVars>>

RecordingEnds ==
    /\ Reaches({"ending"})
    /\ traceKnown /\ recording
    /\ recording' = FALSE
    /\ Proceeds("ended")
    /\ UNCHANGED <<chromeVars, pageVars, traceLease, traceKnown>>

\* A release leaves the lease to ForgetsWorkspace.
FinishesTrace ==
    /\ Reaches({"ended"})
    /\ traceKnown' = FALSE
    /\ IF Does({"release"})
       THEN Proceeds("closing") /\ UNCHANGED traceLease
       ELSE Leaves /\ traceLease' = NoTraceLease
    /\ UNCHANGED <<chromeVars, pageVars, recording>>

(***************************************************************************)
(* release_workspace: stops the workspace's trace, closes the pages its    *)
(* chats own, and disposes its context.                                    *)
(***************************************************************************)
OwnedAround(c) == UNION {ChatOwns(d) : d \in Mates(c)}

Releases(c) ==
    /\ turn = NoTurn /\ transport = "alive"
    /\ turn' = Turn(IF traceLease.chat \in Mates(c) THEN "ending" ELSE "closing",
                    c, "release", 0, {})
    /\ UNCHANGED <<chromeVars, pageVars, traceVars>>

ReleaseClosesPage ==
    /\ Reaches({"closing"})
    /\ LET t == First({u \in OwnedAround(turn.chat) : u > turn.page})
       IN  /\ t \in Open
           /\ tabs' = [tabs EXCEPT ![t] = Shut(@)]
           /\ MovesTo("closing", t, {})
    /\ UNCHANGED <<chromeVars, contexts, active, used, traceVars>>

\* Without a live Chromium there is nothing to close.
ForgetsWorkspace(c) ==
    /\ \/ Reaches({"closing"}) /\ turn.chat = c /\ OwnedAround(c) \cap Open = {}
       \/ turn = NoTurn /\ transport # "alive" /\ used \cap Mates(c) # {}
    /\ contexts' = contexts \ {ContextOf[c]}
    /\ tabs' = [t \in Tabs |->
                  IF t \in InContextOf(c) \cup OwnedAround(c)
                  THEN Gone
                  ELSE tabs[t]]
    /\ active' = [d \in Chats |-> IF d \in Mates(c) THEN 0 ELSE active[d]]
    /\ used' = used \ Mates(c)
    /\ traceLease' = IF traceLease.chat \in Mates(c) THEN NoTraceLease ELSE traceLease
    /\ Leaves
    /\ UNCHANGED <<chromeVars, recording, traceKnown>>

(***************************************************************************)
(* Faults.  A time-out, a lost connection, the page of the trace gone, an  *)
(* error of a trace command or of a release: invalidate_transport.         *)
(***************************************************************************)
Fails ==
    /\ turn # NoTurn /\ transport # "none"
    /\ At({"entered"}) => traceLease # NoTraceLease
    /\ transport' = "none"
    /\ Cleared
    /\ Leaves

\* A call is refused, gets a tool error or is dropped before it sends more.
EndsEarly ==
    /\ turn # NoTurn
    /\ Leaves
    /\ UNCHANGED <<chromeVars, pageVars, traceVars>>

\* Its caller is dropped when Chromium has the command but has not done it.
Drops ==
    /\ Reaches({"open", "start", "ending"})
    /\ Cardinality(afloat) < MaxAfloat
    /\ afloat' = afloat \cup {<<turn.at, turn.chat>>}
    /\ Leaves
    /\ UNCHANGED <<transport, pageVars, traceVars>>

DoneLate ==
    /\ \E late \in afloat :
          /\ afloat' = afloat \ {late}
          /\ IF late[1] = "open"
             THEN /\ IF ContextOf[late[2]] \in contexts THEN Opens(late[2], TRUE)
                     ELSE UNCHANGED tabs
                  /\ UNCHANGED recording
             ELSE recording' = (late[1] = "start") /\ UNCHANGED tabs
    /\ UNCHANGED <<transport, contexts, active, used, traceLease, traceKnown, turn>>

\* A page opens another, for the command under way or of its own.
PagePopsUp(t) ==
    /\ t \in Open
    /\ Opens(WorkOf(t), tabs[t].late)
    /\ UNCHANGED <<chromeVars, contexts, active, used, traceVars, turn>>

PageCloses(t) ==
    /\ t \in Open
    /\ tabs' = [tabs EXCEPT ![t] = Shut(@)]
    /\ UNCHANGED <<chromeVars, contexts, active, used, traceVars, turn>>

\* Its pages and contexts go with it; the host's records of them stay.
ChromiumDies ==
    /\ transport = "alive"
    /\ transport' = "dead"
    /\ tabs' = [t \in Tabs |-> IF t \in Open THEN Shut(tabs[t]) ELSE tabs[t]]
    /\ contexts' = {} /\ recording' = FALSE /\ afloat' = {}
    /\ UNCHANGED <<active, used, traceLease, traceKnown, turn>>

\* stop, and set_presentation when it may restart the browser
HostStops ==
    /\ turn = NoTurn
    /\ transport' = "none"
    /\ Cleared
    /\ UNCHANGED turn

Serves ==
    \/ Enters \/ StartsChromium \/ StartFails
    \/ \E c \in Chats, command \in PageCommands : Passes(c, command)
    \/ FindsActive \/ LacksPage \/ MakesContext \/ OpensPage \/ ClaimsNew
    \/ Lists \/ SelectsPage \/ ClosesPage \/ BeginsAct \/ Acted
    \/ StartsTrace \/ RecordingStarts \/ TraceBegun \/ StopsTrace
    \/ RecordingEnds \/ FinishesTrace
    \/ \E c \in Chats : Releases(c)
    \/ ReleaseClosesPage
    \/ \E c \in Chats : ForgetsWorkspace(c)

Happens ==
    \/ Fails \/ EndsEarly \/ Drops \/ DoneLate
    \/ \E t \in Tabs : PagePopsUp(t) \/ PageCloses(t)
    \/ ChromiumDies \/ HostStops

RoutingNext == Serves \/ Happens

RoutingSpec == RoutingInit /\ [][RoutingNext]_routingVars

\* A chat owns only pages of its own workspace, and only such as opened while a
\* call of its own was to claim them: what a call opened, or its click opened
\* while the call waited, is never another chat's afterwards, nor what opened
\* between calls.  Who opened a page Chromium does not say, so what a dropped
\* call or a page opens inside another chat's call becomes that chat's,
\* against docs/BROWSER_RUNTIME_ARCHITECTURE_HARDENING.md:111.
OwnPagesOnly ==
    \A t \in Tabs : tabs[t].owner # "nobody" =>
        /\ ContextOf[tabs[t].owner] = ContextOf[tabs[t].by]
        /\ tabs[t].owner = tabs[t].during

\* While Chromium records, also for a dropped caller, the host knows whose
\* trace it is, no other chat's call works in the browser, and every page is
\* that chat's or its unclaimed work; only what a call of another chat,
\* dropped before the trace, opens after all may be there unclaimed.
TraceSeesOneChat ==
    recording =>
        /\ traceLease # NoTraceLease
        /\ \A t \in Open : \/ WorkOf(t) = traceLease.chat
                           \/ tabs[t].late /\ tabs[t].owner = "nobody"
        /\ turn.chat \in {"nobody", traceLease.chat} \/ Does({"release"})

\* What one chat does in the shared browser (src/src/browser_runtime.rs) stays
\* its own: its pages and its traces.
ChatsStayApart == OwnPagesOnly /\ TraceSeesOneChat
=============================================================================
