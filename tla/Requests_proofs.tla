---------------------------- MODULE Requests_proofs ----------------------------
(***************************************************************************)
(* What a caller of the request brokers can rely on (AskService), that the *)
(* brokers provide it (RequestBroker), and what the recovery of a worker   *)
(* makes of it (WorkerRecovery), for any requests, attempts and faults.    *)
(***************************************************************************)
EXTENDS RequestBroker, WorkerRecovery, TLAPS

(***************************************************************************)
(* The service.                                                            *)
(***************************************************************************)
Sendings == {"empty", "result", "unconfirmed", "not_dispatched"}

ServiceTypeOK ==
    /\ pending \in [Asks -> {"none", "open", "claimed"}]
    /\ expired \subseteq Asks
    /\ caller \in [Asks -> {"new", "waiting", "timed_out", "dropped", "answered"}]
    /\ inbox \in [Asks -> Sendings]
    /\ heard \in [Asks -> (Sendings \ {"empty"}) \cup {"nothing", "refused"}]
    /\ claimedEver \subseteq Asks
    /\ acted \in [Asks -> {0, 1}]

\* ActsAsTold relates what was heard to what was handed out; it takes what
\* the broker knew of the request at every moment in between.
AskOK(a) ==
    /\ caller[a] = "new" =>
           /\ pending[a] = "none" /\ inbox[a] = "empty" /\ heard[a] = "nothing"
           /\ a \notin expired /\ a \notin claimedEver
    /\ caller[a] = "answered" => pending[a] = "none"
    /\ heard[a] # "nothing" => caller[a] = "answered"
    /\ heard[a] = "refused" => a \notin claimedEver
    /\ inbox[a] # "empty" => pending[a] = "none"
    /\ pending[a] = "open" => a \notin claimedEver
    /\ pending[a] = "claimed" => a \in claimedEver
    /\ acted[a] = 1 => a \in claimedEver
    /\ caller[a] \in {"waiting", "timed_out"} /\ a \in claimedEver /\ pending[a] # "claimed"
           => inbox[a] # "empty"
    /\ heard[a] = "not_dispatched" /\ a \in claimedEver => inbox[a] # "empty"

ServiceInv == ServiceTypeOK /\ \A a \in Asks : AskOK(a)

(***************************************************************************)
(* The brokers: a request is acted on by whoever claimed it, once.         *)
(***************************************************************************)
PumpSteps == {"idle", "redeliver", "poll", "next", "claim", "check", "act", "report", "deliver"}

CallsOf(acts, asks) ==
    [act : acts, ask : asks, epoch : Nat, client : 0..2,
     reply : {"sent", "yes", "no", "failed"}, ids : SUBSET Asks]

WireOK ==
    wire # NoCall =>
        \/ wire \in CallsOf({"poll"}, {"none"})
        \/ wire \in CallsOf({"claim", "check", "result"}, Asks)

BrokerTypeOK ==
    /\ hostEpoch \in Nat
    /\ paired \in 0..2
    /\ browser \in [at : PumpSteps, epoch : Nat, listed : SUBSET Asks]
    /\ receipt = NoReceipt \/ receipt \in [ask : Asks, epoch : Nat]
    /\ WireOK

Fresh(a) == a \in claimedEver /\ acted[a] = 0

\* A claim that was granted is on the wire, in the hands of the pump, or spent.
Standing ==
    /\ browser.at = "claim" =>
           wire # NoCall /\ wire.act = "claim" /\ (wire.reply = "yes" => Fresh(wire.ask))
    /\ browser.at = "check" =>
           wire # NoCall /\ wire.act = "check" /\ Fresh(wire.ask)
    /\ browser.at = "act" =>
           /\ wire # NoCall /\ wire.act \in {"claim", "check"} /\ wire.reply # "sent"
           /\ Fresh(wire.ask)
    /\ browser.at = "report" =>
           wire # NoCall /\ wire.act \in {"claim", "check"}

AskInv == ServiceInv /\ BrokerTypeOK /\ Standing

(***************************************************************************)
(* The recovery.                                                           *)
(***************************************************************************)
RecoverySteps ==
    {"new", "refused", "fenced", "inspecting", "inspected", "continuing", "done", "gone"}
PageStates == {"none", "busy", "idle", "failed", "unconfirmed", "superseded", "continued"}

RecoveryTypeOK ==
    /\ recovery \in [Recoveries -> RecoverySteps]
    /\ prompted \subseteq Recoveries
    /\ page \in [turns : Nat, generating : BOOLEAN]
    /\ outcome \in [Asks -> [state : PageStates, turns : Nat]]

\* The continuation was not sent and cannot be sent any more.
Harmless(r) ==
    /\ r \notin prompted
    /\ \/ acted[Push(r)] = 1
       \/ Push(r) \notin claimedEver /\ pending[Push(r)] = "none"

\* PromptIsFenced speaks of the attempts that sent their continuation.  It
\* holds because the fence of an attempt stays until its end, and because
\* what the end makes of the answer is right even if it comes to the page
\* later.
AttemptOK(r) ==
    /\ recovery[r] \in {"new", "refused", "fenced", "inspecting", "inspected"} =>
           caller[Push(r)] = "new"
    /\ recovery[r] \in {"fenced", "inspecting", "inspected", "continuing", "gone"} =>
           StillFenced(r)
    /\ recovery[r] = "done" => Misled(r) \/ StillFenced(r) \/ Harmless(r)
    /\ r \in prompted =>
           /\ acted[Push(r)] = 1
           /\ outcome[Push(r)].state \in {"continued", "superseded", "unconfirmed"}
    /\ heard[Push(r)] = "result" => inbox[Push(r)] = "result"
    /\ inbox[Push(r)] = "result" => acted[Push(r)] = 1

RecoveryInv ==
    /\ ServiceInv
    /\ RecoveryTypeOK
    /\ \A r \in Recoveries : AttemptOK(r)

(***************************************************************************)
(* ActsAsTold.                                                             *)
(***************************************************************************)
LEMMA ServiceInitInv == ServiceInit => ServiceInv
BY DEF ServiceInit, ServiceInv, ServiceTypeOK, AskOK, Sendings

LEMMA ServiceStep == ServiceInv /\ [ServiceNext]_serviceVars => ServiceInv'
<1> SUFFICES ASSUME ServiceInv, [ServiceNext]_serviceVars PROVE ServiceInv'
  OBVIOUS
<1> USE DEF ServiceInv, ServiceTypeOK, AskOK, Sendings
<1>1. CASE UNCHANGED serviceVars
  BY <1>1 DEF serviceVars
<1>2. ASSUME NEW gone \in SUBSET Asks, Remove(gone) PROVE ServiceInv'
  BY <1>2 DEF Remove
<1>3. ASSUME NEW a \in Asks, Accept(a) PROVE ServiceInv'
  BY <1>3 DEF Accept
<1>4. ASSUME NEW a \in Asks, Decline(a) PROVE ServiceInv'
  BY <1>4 DEF Decline, Return
<1>5. ASSUME NEW a \in Asks, Hear(a) PROVE ServiceInv'
  BY <1>5 DEF Hear, Return
<1>6. ASSUME NEW a \in Asks, Expire(a) PROVE ServiceInv'
  BY <1>6 DEF Expire
<1>7. ASSUME NEW a \in Asks, TimeOut(a) PROVE ServiceInv'
  BY <1>7 DEF TimeOut
<1>8. ASSUME NEW a \in Asks, GiveUp(a) PROVE ServiceInv'
  BY <1>8 DEF GiveUp, Return
<1>9. ASSUME NEW a \in Asks, Drop(a) PROVE ServiceInv'
  BY <1>9 DEF Drop
<1>10. ASSUME NEW a \in Asks, HandOut(a) PROVE ServiceInv'
  BY <1>10 DEF HandOut
<1>11. ASSUME NEW a \in Asks, ActOn(a) PROVE ServiceInv'
  BY <1>11 DEF ActOn
<1>12. ASSUME NEW a \in Asks, Report(a) PROVE ServiceInv'
  BY <1>12 DEF Report
<1>13. CASE Restart
  BY <1>13 DEF Restart
<1> QED
  BY <1>1, <1>2, <1>3, <1>4, <1>5, <1>6, <1>7, <1>8, <1>9, <1>10, <1>11, <1>12, <1>13
  DEF ServiceNext

LEMMA ServiceTells == ServiceInv => ActsAsTold
<1> SUFFICES ASSUME ServiceInv, NEW a \in Asks
             PROVE  /\ acted[a] <= 1
                    /\ heard[a] = "not_dispatched" /\ a \in claimedEver => inbox[a] # "empty"
  BY DEF ActsAsTold
<1>1. acted[a] \in {0, 1}
  BY DEF ServiceInv, ServiceTypeOK
<1>2. AskOK(a)
  BY DEF ServiceInv
<1> QED
  BY <1>1, <1>2 DEF AskOK

\* Whoever relies on AskService: a request is acted on at most once. If its
\* caller heard that it was not dispatched it was never claimed, except when
\* the answer was taken just before the caller's timeout looked: then it was
\* carried out, its answer lies unread, and the caller was told wrong.
THEOREM ServiceActsAsTold == ServiceSpec => []ActsAsTold
<1>1. ServiceSpec => []ServiceInv
  BY ServiceInitInv, ServiceStep, PTL DEF ServiceSpec
<1> QED
  BY <1>1, ServiceTells, PTL

(***************************************************************************)
(* PromptIsFenced.                                                         *)
(***************************************************************************)
\* The requests of the attempts are all different.
LEMMA Requested ==
  ASSUME NEW r \in Recoveries
  PROVE  /\ Look(r) \in Asks /\ Push(r) \in Asks
         /\ \A q \in Recoveries : Look(q) # Push(r) /\ (q # r => Push(q) # Push(r))
BY RecoveryAssumption DEF RecoveryAssumption, Look, Push

\* What no step of the service takes back.
LEMMA ServiceFrame ==
  ASSUME ServiceInv, [ServiceNext]_serviceVars, NEW a \in Asks
  PROVE  /\ caller[a] = "answered" =>
               caller'[a] = "answered" /\ heard'[a] = heard[a] /\ inbox'[a] = inbox[a]
         /\ acted[a] = 1 => acted'[a] = 1
         /\ (heard[a] = "result" => inbox[a] = "result") =>
                (heard'[a] = "result" => inbox'[a] = "result")
         /\ a \notin claimedEver /\ pending[a] = "none" /\ (caller[a] = "new" => caller'[a] = "new") =>
               a \notin claimedEver' /\ pending'[a] = "none"
<1> DEFINE Frame ==
         /\ caller[a] = "answered" =>
               caller'[a] = "answered" /\ heard'[a] = heard[a] /\ inbox'[a] = inbox[a]
         /\ acted[a] = 1 => acted'[a] = 1
         /\ (heard[a] = "result" => inbox[a] = "result") =>
                (heard'[a] = "result" => inbox'[a] = "result")
         /\ a \notin claimedEver /\ pending[a] = "none" /\ (caller[a] = "new" => caller'[a] = "new") =>
               a \notin claimedEver' /\ pending'[a] = "none"
<1> USE DEF ServiceInv, ServiceTypeOK, AskOK, Sendings
<1>1. CASE UNCHANGED serviceVars
  BY <1>1 DEF serviceVars
<1>2. ASSUME NEW gone \in SUBSET Asks, Remove(gone) PROVE Frame
  BY <1>2 DEF Remove
<1>3. ASSUME NEW b \in Asks, Accept(b) PROVE Frame
  BY <1>3 DEF Accept
<1>4. ASSUME NEW b \in Asks, Decline(b) PROVE Frame
  BY <1>4 DEF Decline, Return
<1>5. ASSUME NEW b \in Asks, Hear(b) PROVE Frame
  BY <1>5 DEF Hear, Return
<1>6. ASSUME NEW b \in Asks, Expire(b) \/ TimeOut(b) \/ GiveUp(b) \/ Drop(b) PROVE Frame
  BY <1>6 DEF Expire, TimeOut, GiveUp, Drop, Return
<1>7. ASSUME NEW b \in Asks, HandOut(b) \/ ActOn(b) \/ Report(b) PROVE Frame
  BY <1>7 DEF HandOut, ActOn, Report
<1>8. CASE Restart
  BY <1>8 DEF Restart
<1> QED
  BY <1>1, <1>2, <1>3, <1>4, <1>5, <1>6, <1>7, <1>8 DEF ServiceNext

\* A step that leaves an attempt where it stands, and its fence.
LEMMA AttemptFrame ==
  ASSUME RecoveryInv, [ServiceNext]_serviceVars, NEW r \in Recoveries,
         recovery'[r] = recovery[r],
         r \in prompted' => r \in prompted,
         outcome'[Push(r)] = outcome[Push(r)],
         StillFenced(r) => StillFenced(r)',
         caller[Push(r)] = "new" => caller'[Push(r)] = "new",
         inbox'[Push(r)] = "result" => inbox[Push(r)] = "result" \/ acted'[Push(r)] = 1
  PROVE  AttemptOK(r)'
<1> DEFINE a == Push(r)
<1>0. a \in Asks /\ ServiceInv
  BY Requested DEF RecoveryInv
<1>1. AttemptOK(r)
  BY DEF RecoveryInv
<1>2. /\ caller[a] = "answered" =>
           caller'[a] = "answered" /\ heard'[a] = heard[a] /\ inbox'[a] = inbox[a]
      /\ acted[a] = 1 => acted'[a] = 1
      /\ (heard[a] = "result" => inbox[a] = "result") =>
             (heard'[a] = "result" => inbox'[a] = "result")
      /\ a \notin claimedEver /\ pending[a] = "none" /\ (caller[a] = "new" => caller'[a] = "new") =>
           a \notin claimedEver' /\ pending'[a] = "none"
  BY <1>0, ServiceFrame
<1>3. AskOK(a)
  BY <1>0 DEF ServiceInv
<1> HIDE DEF a
<1>4. Misled(r) => Misled(r)'
  <2> USE DEF a
  <2>1. Misled(r) => heard[a] # "nothing"
    BY <1>0, <1>1 DEF Misled, Returned, Result, AttemptOK, ServiceInv, ServiceTypeOK, Sendings
  <2>2. Misled(r) => heard'[a] = heard[a] /\ inbox'[a] = inbox[a]
    BY <2>1, <1>2, <1>3 DEF AskOK
  <2> QED
    BY <2>2 DEF Misled, Returned, Result
<1>5. Harmless(r) => Harmless(r)'
  BY <1>2 DEF Harmless, a
<1> QED
  BY <1>1, <1>2, <1>4, <1>5 DEF AttemptOK, a

\* Every step of an attempt is one of the service, or none.
LEMMA RecoveryServes ==
  ASSUME [RecoveryNext]_<<recoveryVars, serviceVars>> PROVE [ServiceNext]_serviceVars
<1>1. ASSUME NEW r \in Recoveries,
             \/ BeginRecovery(r) \/ Inspect(r) \/ Inspected(r) \/ Continue(r)
             \/ Continued(r) \/ ActsOnPage(r) \/ GraceEnds(r) \/ RecoveryDropped(r)
      PROVE [ServiceNext]_serviceVars
  BY <1>1, Requested
  DEF BeginRecovery, Inspect, Inspected, Continue, Continued, ActsOnPage, GraceEnds,
      RecoveryDropped, ServiceNext
<1> QED
  BY <1>1 DEF RecoveryNext, WorkerActs, TaskEnds, PageMoves, HostLost, BrowserLost, ServiceSteps,
      ServiceNext

LEMMA RecoveryInitInv == RecoveryInit => RecoveryInv
<1> SUFFICES ASSUME RecoveryInit PROVE RecoveryInv
  OBVIOUS
<1>1. ServiceInv
  BY ServiceInitInv DEF RecoveryInit
<1>2. RecoveryTypeOK
  BY DEF RecoveryInit, RecoveryTypeOK, RecoverySteps, PageStates, Unanswered
<1>3. ASSUME NEW r \in Recoveries PROVE AttemptOK(r)
  BY <1>3, Requested DEF RecoveryInit, ServiceInit, AttemptOK
<1> QED
  BY <1>1, <1>2, <1>3 DEF RecoveryInv

\* The page: what it answers is an answer, and turns are counted.
PageType == [turns : Nat, generating : BOOLEAN]

LEMMA PageChanges ==
  ASSUME page \in PageType
  PROVE  /\ [page EXCEPT !.generating = FALSE] \in PageType
         /\ [page EXCEPT !.turns = @ + 1, !.generating = TRUE] \in PageType
         /\ [turns |-> page.turns + 1, generating |-> TRUE] \in PageType
<1>1. [page EXCEPT !.generating = FALSE] \in PageType
  BY DEF PageType
<1>2. DEFINE p == [page EXCEPT !.turns = @ + 1]
<1>3. p \in PageType
  BY DEF PageType
<1>4. [p EXCEPT !.generating = TRUE] \in PageType
  BY <1>3 DEF PageType
<1>5. [turns |-> page.turns + 1, generating |-> TRUE] \in PageType
  BY DEF PageType
<1>6. [page EXCEPT !.turns = @ + 1, !.generating = TRUE] = [p EXCEPT !.generating = TRUE]
  BY DEF PageType
<1> QED
  BY <1>1, <1>4, <1>5, <1>6

LEMMA AnswerTyped ==
  ASSUME RecoveryTypeOK, NEW a \in Asks, NEW state \in PageStates, Answers(a, state)
  PROVE  outcome' \in [Asks -> [state : PageStates, turns : Nat]]
BY DEF RecoveryTypeOK, Answers

LEMMA PageTyped ==
  ASSUME RecoveryInv, NEW r \in Recoveries, ActsOnPage(r) PROVE RecoveryTypeOK'
<1>0. /\ recovery' = recovery
      /\ Look(r) \in Asks /\ Push(r) \in Asks
      /\ RecoveryTypeOK /\ page \in PageType
  BY Requested DEF ActsOnPage, caseVars, workerVars, RecoveryInv, RecoveryTypeOK, PageType
<1> SUFFICES /\ page' \in PageType /\ prompted' \subseteq Recoveries
             /\ outcome' \in [Asks -> [state : PageStates, turns : Nat]]
  BY <1>0 DEF RecoveryTypeOK, PageType
<1>1. CASE PageInspected(Look(r))
  <2>1. PICK state \in PageStates : Answers(Look(r), state)
    BY <1>1 DEF PageInspected, PageStates
  <2> QED
    BY <1>0, <1>1, <2>1, AnswerTyped DEF PageInspected, RecoveryTypeOK
<1>2. CASE HeldBack(r) /\ UNCHANGED prompted
  <2>1. PICK state \in PageStates : Answers(Push(r), state)
    BY <1>2 DEF HeldBack, PageStates
  <2>2. page' = page \/ page' = [page EXCEPT !.generating = FALSE]
    BY <1>2 DEF HeldBack
  <2> QED
    BY <1>0, <1>2, <2>1, <2>2, AnswerTyped, PageChanges DEF RecoveryTypeOK
<1>3. CASE Clicked(r)
  <2>1. PICK state \in PageStates : Answers(Push(r), state)
    BY <1>3 DEF Clicked, PageStates
  <2>2. \/ page' = [turns |-> page.turns + 1, generating |-> TRUE]
        \/ page' = [page EXCEPT !.generating = FALSE]
    BY <1>3 DEF Clicked
  <2> QED
    BY <1>0, <1>3, <2>1, <2>2, AnswerTyped, PageChanges DEF RecoveryTypeOK, Clicked
<1> QED
  BY <1>1, <1>2, <1>3 DEF ActsOnPage

LEMMA RecoveryTyped ==
  ASSUME RecoveryInv, [RecoveryNext]_<<recoveryVars, serviceVars>> PROVE RecoveryTypeOK'
<1>0. RecoveryTypeOK /\ page \in PageType
  BY DEF RecoveryInv, RecoveryTypeOK, PageType
<1> USE DEF RecoveryTypeOK, RecoverySteps, recoveryVars, caseVars, workerVars, talkVars
<1>1. ASSUME NEW r \in Recoveries,
             \/ BeginRecovery(r) \/ Inspect(r) \/ Continue(r) \/ GraceEnds(r) \/ RecoveryDropped(r)
      PROVE RecoveryTypeOK'
  BY <1>0, <1>1 DEF BeginRecovery, Inspect, Continue, GraceEnds, RecoveryDropped
<1>2. ASSUME NEW r \in Recoveries, Inspected(r) \/ Continued(r) PROVE RecoveryTypeOK'
  BY <1>0, <1>2 DEF Inspected, Continued, ClearFence, KeepFence, End
<1>3. ASSUME NEW r \in Recoveries, ActsOnPage(r) PROVE RecoveryTypeOK'
  BY <1>3, PageTyped
<1>4. CASE PageMoves
  <2>1. page' \in PageType
    BY <1>0, <1>4, PageChanges DEF PageMoves
  <2> QED
    BY <1>0, <1>4, <2>1 DEF PageMoves, PageType
<1>5. CASE WorkerActs \/ TaskEnds \/ HostLost \/ BrowserLost \/ ServiceSteps
           \/ UNCHANGED recoveryVars
  BY <1>0, <1>5 DEF WorkerActs, TaskEnds, HostLost, BrowserLost, ServiceSteps
<1> QED
  BY <1>1, <1>2, <1>3, <1>4, <1>5 DEF RecoveryNext

\* The fence of an attempt is taken by another only when its grace is over.
LEMMA FenceStays ==
  ASSUME RecoveryInv, NEW r \in Recoveries, NEW q \in Recoveries, q # r, BeginRecovery(r),
         StillFenced(q)
  PROVE  StillFenced(q)'
<1>1. CASE Fenced
  BY <1>1 DEF BeginRecovery, StillFenced
<1>2. CASE ~Fenced
  BY <1>2, RecoveryAssumption DEF BeginRecovery, StillFenced, Fenced, RecoveryAssumption
<1> QED
  BY <1>1, <1>2

\* The end of an attempt: where it clears its fence, the continuation was not
\* sent and will not be, or the call was misled.
LEMMA EndIsRight ==
  ASSUME RecoveryInv, NEW r \in Recoveries, recovery[r] = "continuing",
         heard[Push(r)] # "nothing", ~StaysUnresolved(Push(r))
  PROVE  Misled(r) \/ Harmless(r)
<1> DEFINE a == Push(r)
<1>0. a \in Asks /\ AskOK(a) /\ AttemptOK(r) /\ ServiceTypeOK
  BY Requested DEF RecoveryInv, ServiceInv
<1>1. caller[a] = "answered" /\ pending[a] = "none"
  BY <1>0 DEF AskOK
<1>2. CASE heard[a] = "result"
  <2>1. Returned(a) /\ acted[a] = 1 /\ Result(a) = outcome[a].state
    BY <1>0, <1>2 DEF AttemptOK, Returned, Result
  <2>2. r \in prompted => Result(a) = "superseded"
    BY <1>0, <2>1 DEF AttemptOK, StaysUnresolved
  <2> QED
    BY <2>1, <2>2 DEF Misled, Harmless
<1>3. CASE heard[a] = "unconfirmed"
  BY <1>3 DEF StaysUnresolved, Misled, Result
<1>4. CASE heard[a] = "not_dispatched"
  <2>1. CASE inbox[a] # "empty"
    BY <1>4, <2>1 DEF Misled
  <2>2. CASE inbox[a] = "empty"
    <3>1. a \notin claimedEver /\ acted[a] # 1
      BY <1>0, <1>4, <2>2 DEF AskOK
    <3> QED
      BY <1>0, <1>1, <3>1 DEF Harmless, AttemptOK
  <2> QED
    BY <2>1, <2>2
<1>5. CASE heard[a] = "refused"
  <2>1. a \notin claimedEver /\ acted[a] # 1
    BY <1>0, <1>5 DEF AskOK
  <2> QED
    BY <1>0, <1>1, <2>1 DEF Harmless, AttemptOK
<1> QED
  BY <1>0, <1>2, <1>3, <1>4, <1>5 DEF ServiceTypeOK, Sendings

LEMMA BeginKeeps ==
  ASSUME RecoveryInv, NEW r \in Recoveries, BeginRecovery(r), NEW q \in Recoveries
  PROVE  AttemptOK(q)'
<1>0. [ServiceNext]_serviceVars /\ UNCHANGED <<serviceVars, prompted, outcome>>
  BY DEF BeginRecovery, talkVars
<1>1. CASE q # r
  BY <1>0, <1>1, FenceStays, AttemptFrame DEF BeginRecovery, RecoveryInv, RecoveryTypeOK, serviceVars
<1>2. CASE q = r
  <2>1. AttemptOK(r) /\ recovery[r] = "new"
    BY DEF RecoveryInv, BeginRecovery
  <2>2. \/ recovery'[r] = "refused"
        \/ recovery'[r] = "fenced" /\ fence' = r
    BY DEF BeginRecovery, RecoveryInv, RecoveryTypeOK
  <2> QED
    BY <1>0, <1>2, <2>1, <2>2 DEF AttemptOK, StillFenced, serviceVars
<1> QED
  BY <1>1, <1>2

\* Only the first request, and then only the second, is made.
LEMMA AsksKeep ==
  ASSUME RecoveryInv, NEW r \in Recoveries, Inspect(r) \/ Continue(r), NEW q \in Recoveries
  PROVE  AttemptOK(q)'
<1>0. /\ [ServiceNext]_serviceVars
      /\ UNCHANGED <<prompted, outcome, fence, running, graceOver>>
      /\ UNCHANGED <<inbox, acted, claimedEver>>
      /\ ServiceInv
  BY Requested DEF Inspect, Continue, talkVars, workerVars, ServiceNext, Accept, Decline, RecoveryInv
<1>1. StillFenced(q) => StillFenced(q)'
  BY <1>0 DEF StillFenced
<1>2. Push(q) \in Asks /\ AttemptOK(q) /\ Look(r) # Push(q) /\ Look(r) \in Asks /\ Push(r) \in Asks
  BY Requested DEF RecoveryInv
<1>3. CASE Inspect(r)
  <2>1. caller'[Push(q)] = caller[Push(q)] /\ heard'[Push(q)] = heard[Push(q)]
    BY <1>0, <1>2, <1>3 DEF Inspect, Accept, Decline, Return, ServiceInv, ServiceTypeOK
  <2>2. CASE q = r
    BY <1>0, <1>1, <1>2, <1>3, <2>1, <2>2 DEF Inspect, AttemptOK, RecoveryInv, RecoveryTypeOK
  <2>3. CASE q # r
    BY <1>0, <1>1, <1>3, <2>1, <2>3, AttemptFrame DEF Inspect, RecoveryInv, RecoveryTypeOK
  <2> QED
    BY <2>2, <2>3
<1>4. CASE Continue(r)
  <2>1. CASE q # r
    <3>1. caller'[Push(q)] = caller[Push(q)]
      BY <1>0, <1>2, <1>4, <2>1, Requested
      DEF Continue, Accept, Decline, Return, ServiceInv, ServiceTypeOK
    <3> QED
      BY <1>0, <1>1, <1>4, <2>1, <3>1, AttemptFrame DEF Continue, RecoveryInv, RecoveryTypeOK
  <2>2. CASE q = r
    <3>1. recovery[r] = "inspected" /\ recovery'[r] = "continuing"
      BY <1>4 DEF Continue, RecoveryInv, RecoveryTypeOK
    <3>2. heard'[Push(r)] # "result"
      BY <1>0, <1>2, <1>4, <2>2, <3>1
      DEF Continue, Accept, Decline, Return, ServiceInv, ServiceTypeOK, AskOK
    <3> QED
      BY <1>0, <1>1, <1>2, <2>2, <3>1, <3>2 DEF AttemptOK
  <2> QED
    BY <2>1, <2>2
<1> QED
  BY <1>3, <1>4

LEMMA EndsKeep ==
  ASSUME RecoveryInv, NEW r \in Recoveries, Inspected(r) \/ Continued(r), NEW q \in Recoveries
  PROVE  AttemptOK(q)'
<1>0. /\ [ServiceNext]_serviceVars
      /\ UNCHANGED <<serviceVars, prompted, outcome, running, graceOver>>
      /\ AttemptOK(q) /\ AttemptOK(r)
  BY DEF Inspected, Continued, talkVars, RecoveryInv
<1>1. fence' = fence \/ fence' = FenceWithout(r)
  BY DEF Inspected, Continued, ClearFence, KeepFence
<1>2. recovery' = [recovery EXCEPT ![r] = "inspected"] \/ recovery' = [recovery EXCEPT ![r] = "done"]
  BY DEF Inspected, Continued, ClearFence, KeepFence, End
<1>3. CASE q # r
  <2>1. StillFenced(q) => StillFenced(q)'
    BY <1>0, <1>1, <1>3 DEF StillFenced, FenceWithout
  <2> QED
    BY <1>0, <1>2, <1>3, <2>1, AttemptFrame DEF RecoveryInv, RecoveryTypeOK, serviceVars
<1>4. CASE q = r /\ Inspected(r)
  <2>1. recovery[r] = "inspecting" /\ caller[Push(r)] = "new" /\ AskOK(Push(r)) /\ StillFenced(r)
    BY <1>0, <1>4, Requested DEF Inspected, AttemptOK, RecoveryInv, ServiceInv
  <2>2. Harmless(r)'
    BY <1>0, <2>1 DEF AttemptOK, AskOK, Harmless, serviceVars
  <2>3. CASE recovery'[r] = "inspected"
    <3>1. UNCHANGED fence
      BY <1>4, <2>1, <2>3 DEF Inspected, ClearFence, End, RecoveryInv, RecoveryTypeOK
    <3> QED
      BY <1>0, <1>4, <2>1, <2>3, <3>1 DEF AttemptOK, StillFenced, serviceVars
  <2>4. CASE recovery'[r] = "done"
    BY <1>0, <1>4, <2>2, <2>4 DEF AttemptOK, serviceVars
  <2> QED
    BY <1>2, <2>3, <2>4 DEF RecoveryInv, RecoveryTypeOK
<1>5. CASE q = r /\ Continued(r)
  <2>1. recovery[r] = "continuing" /\ StillFenced(r) /\ recovery'[r] = "done"
    BY <1>0, <1>5
    DEF Continued, AttemptOK, RecoveryInv, RecoveryTypeOK, ClearFence, KeepFence, End
  <2>2. CASE StaysUnresolved(Push(r))
    BY <1>0, <1>5, <2>1, <2>2 DEF Continued, KeepFence, AttemptOK, StillFenced, serviceVars
  <2>3. CASE ~StaysUnresolved(Push(r))
    <3>1. Misled(r) \/ Harmless(r)
      BY <1>5, <2>1, <2>3, EndIsRight DEF Continued
    <3>2. (Misled(r) \/ Harmless(r))'
      BY <1>0, <3>1 DEF Misled, Harmless, Returned, Result, serviceVars
    <3> QED
      BY <1>0, <1>5, <2>1, <3>2 DEF AttemptOK, serviceVars
  <2> QED
    BY <2>2, <2>3
<1> QED
  BY <1>3, <1>4, <1>5

LEMMA PageKeeps ==
  ASSUME RecoveryInv, NEW r \in Recoveries, ActsOnPage(r), NEW q \in Recoveries
  PROVE  AttemptOK(q)'
<1>0. /\ UNCHANGED <<recovery, fence, running, graceOver, caller, inbox, heard, claimedEver, pending>>
      /\ Look(r) \in Asks /\ Push(r) \in Asks /\ Push(q) \in Asks
      /\ AttemptOK(q) /\ ServiceInv /\ RecoveryTypeOK
  BY Requested DEF ActsOnPage, ActOn, caseVars, workerVars, RecoveryInv
<1>1. [ServiceNext]_serviceVars
  BY <1>0 DEF ActsOnPage, ServiceNext
<1>2. StillFenced(q) => StillFenced(q)'
  BY <1>0 DEF StillFenced
<1>3. prompted' = prompted \/ prompted' = prompted \cup {r}
  BY DEF ActsOnPage, PageInspected, Clicked
<1>4. CASE q # r \/ PageInspected(Look(r))
  <2>1. outcome'[Push(q)] = outcome[Push(q)]
    BY <1>0, <1>4, Requested
    DEF ActsOnPage, PageInspected, HeldBack, Clicked, Answers, RecoveryTypeOK
  <2>2. q \in prompted' => q \in prompted
    BY <1>3, <1>4 DEF PageInspected
  <2> QED
    BY <1>0, <1>1, <1>2, <2>1, <2>2, AttemptFrame
<1>5. CASE q = r /\ ActOn(Push(r)) /\ ((HeldBack(r) /\ UNCHANGED prompted) \/ Clicked(r))
  <2>1. /\ acted[Push(r)] = 0 /\ acted'[Push(r)] = 1 /\ Push(r) \in claimedEver
        /\ r \notin prompted /\ ~Harmless(r)
    BY <1>0, <1>5 DEF ActOn, ServiceInv, ServiceTypeOK, AttemptOK, Harmless
  <2>2. inbox[Push(r)] # "result" /\ heard[Push(r)] # "result"
    BY <1>0, <1>5, <2>1 DEF AttemptOK
  <2>3. Misled(r) => Misled(r)'
    BY <1>0, <2>2 DEF Misled, Returned, Result
  <2>4. r \in prompted' => outcome'[Push(r)].state \in {"continued", "superseded", "unconfirmed"}
    <3>1. CASE HeldBack(r) /\ UNCHANGED prompted
      BY <3>1, <2>1
    <3>2. CASE Clicked(r)
      BY <3>2, <1>0 DEF Clicked, Answers, RecoveryTypeOK
    <3> QED
      BY <1>5, <3>1, <3>2
  <2> QED
    BY <1>0, <1>2, <1>5, <2>1, <2>3, <2>4 DEF AttemptOK
<1> QED
  BY <1>4, <1>5 DEF ActsOnPage

\* What is reported was done; what else the service does makes no request and
\* reports nothing.
LEMMA ServiceKeeps ==
  ASSUME RecoveryInv, NEW q \in Recoveries,
         ServiceSteps \/ BrowserLost \/ HostLost \/ \E r \in Recoveries : RecoveryDropped(r)
  PROVE  AttemptOK(q)'
<1>0. /\ UNCHANGED <<fence, running, graceOver, prompted, outcome>>
      /\ [ServiceNext]_serviceVars
      /\ Push(q) \in Asks /\ AttemptOK(q) /\ ServiceInv /\ RecoveryTypeOK
  <2>1. Push(q) \in Asks /\ AttemptOK(q) /\ ServiceInv /\ RecoveryTypeOK
    BY Requested DEF RecoveryInv
  <2>2. ASSUME NEW r \in Recoveries, RecoveryDropped(r)
        PROVE  /\ UNCHANGED <<fence, running, graceOver, prompted, outcome>>
               /\ [ServiceNext]_serviceVars
    BY <2>2, Requested DEF RecoveryDropped, workerVars, talkVars, ServiceNext
  <2> QED
    BY <2>1, <2>2
    DEF ServiceSteps, BrowserLost, HostLost, workerVars, talkVars, recoveryVars, ServiceNext
<1>1. StillFenced(q) => StillFenced(q)'
  BY <1>0 DEF StillFenced
<1>2. caller[Push(q)] = "new" => caller'[Push(q)] = "new"
  <2>1. ASSUME ServiceSteps PROVE caller[Push(q)] = "new" => caller'[Push(q)] = "new"
    BY <2>1, <1>0 DEF ServiceSteps, Hear, Return, Expire, TimeOut, GiveUp, HandOut, Report,
       ServiceInv, ServiceTypeOK
  <2>2. ASSUME BrowserLost \/ HostLost PROVE caller[Push(q)] = "new" => caller'[Push(q)] = "new"
    BY <2>2, <1>0 DEF BrowserLost, HostLost, Remove, Restart
  <2>3. ASSUME NEW r \in Recoveries, RecoveryDropped(r)
        PROVE caller[Push(q)] = "new" => caller'[Push(q)] = "new"
    BY <2>3, <1>0, Requested DEF RecoveryDropped, Drop, ServiceInv, ServiceTypeOK, serviceVars
  <2> QED
    BY <2>1, <2>2, <2>3
<1>3. inbox'[Push(q)] = "result" => inbox[Push(q)] = "result" \/ acted'[Push(q)] = 1
  <2>1. ASSUME ServiceSteps
        PROVE inbox'[Push(q)] = "result" => inbox[Push(q)] = "result" \/ acted'[Push(q)] = 1
    BY <2>1, <1>0 DEF ServiceSteps, Hear, Return, Expire, TimeOut, GiveUp, HandOut, Report,
       ServiceInv, ServiceTypeOK
  <2>2. ASSUME BrowserLost \/ HostLost
        PROVE inbox'[Push(q)] = "result" => inbox[Push(q)] = "result"
    BY <2>2, <1>0 DEF BrowserLost, HostLost, Remove, Restart
  <2>3. ASSUME NEW r \in Recoveries, RecoveryDropped(r) PROVE inbox' = inbox
    BY <2>3 DEF RecoveryDropped, Drop, serviceVars
  <2> QED
    BY <2>1, <2>2, <2>3
<1>4. CASE recovery'[q] = recovery[q]
  BY <1>0, <1>1, <1>2, <1>3, <1>4, AttemptFrame
<1>5. CASE recovery'[q] # recovery[q]
  <2>1. AtWork(q) /\ recovery'[q] = "gone"
    BY <1>0, <1>5
    DEF ServiceSteps, BrowserLost, HostLost, RecoveryDropped, caseVars, recoveryVars, RecoveryTypeOK
  <2>2. /\ StillFenced(q)'
        /\ q \in prompted => acted'[Push(q)] = 1
        /\ heard'[Push(q)] = "result" => inbox'[Push(q)] = "result"
    BY <1>0, <1>1, <2>1, ServiceFrame DEF AtWork, AttemptOK
  <2>3. inbox'[Push(q)] = "result" => acted'[Push(q)] = 1
    BY <1>0, <1>3, ServiceFrame DEF AttemptOK
  <2> QED
    BY <1>0, <2>1, <2>2, <2>3 DEF AttemptOK
<1> QED
  BY <1>4, <1>5

LEMMA WorldKeeps ==
  ASSUME RecoveryInv, NEW q \in Recoveries,
         \/ WorkerActs \/ TaskEnds \/ PageMoves \/ UNCHANGED <<recoveryVars, serviceVars>>
         \/ \E r \in Recoveries : GraceEnds(r)
  PROVE  AttemptOK(q)'
<1>0. UNCHANGED <<serviceVars, recovery, prompted, outcome>>
  BY DEF WorkerActs, TaskEnds, PageMoves, GraceEnds, caseVars, talkVars, workerVars, recoveryVars
<1>1. StillFenced(q) => StillFenced(q)'
  BY DEF WorkerActs, TaskEnds, PageMoves, GraceEnds, StillFenced, workerVars, recoveryVars
<1> QED
  BY <1>0, <1>1, AttemptFrame DEF serviceVars

LEMMA RecoveryStep == RecoveryInv /\ [RecoveryNext]_<<recoveryVars, serviceVars>> => RecoveryInv'
<1> SUFFICES ASSUME RecoveryInv, [RecoveryNext]_<<recoveryVars, serviceVars>> PROVE RecoveryInv'
  OBVIOUS
<1>1. ServiceInv' /\ RecoveryTypeOK'
  BY RecoveryServes, ServiceStep, RecoveryTyped DEF RecoveryInv
<1>2. ASSUME NEW q \in Recoveries PROVE AttemptOK(q)'
  BY <1>2, BeginKeeps, AsksKeep, EndsKeep, PageKeeps, ServiceKeeps, WorldKeeps DEF RecoveryNext
<1> QED
  BY <1>1, <1>2 DEF RecoveryInv

\* A prompted attempt is past the point where its continuation was made.
LEMMA PromptedIsFenced == RecoveryInv => PromptIsFenced
<1> SUFFICES ASSUME RecoveryInv, NEW r \in prompted PROVE Misled(r) \/ StillFenced(r)
  BY DEF PromptIsFenced
<1>1. r \in Recoveries /\ AttemptOK(r) /\ AskOK(Push(r)) /\ recovery[r] \in RecoverySteps
  BY Requested DEF RecoveryInv, RecoveryTypeOK, ServiceInv
<1>2. caller[Push(r)] # "new"
  BY <1>1 DEF AttemptOK, AskOK
<1> QED
  BY <1>1, <1>2 DEF AttemptOK, RecoverySteps, Harmless

\* Whatever is lost, dropped, expired or restarted: an attempt that prompted
\* the worker keeps its fence over the unfinished task until its grace is
\* over, unless it was misled: its call took "not dispatched" or the answer of
\* remove_companion for the end of a continuation the browser still runs.
THEOREM PromptsAreFenced == RecoverySpec => []PromptIsFenced
<1>1. RecoverySpec => []RecoveryInv
  BY RecoveryInitInv, RecoveryStep, PTL DEF RecoverySpec
<1> QED
  BY <1>1, PromptedIsFenced, PTL

(***************************************************************************)
(* The brokers implement the service.                                      *)
(***************************************************************************)
LEMMA AskInitInv == AskInit => AskInv
<1> SUFFICES ASSUME AskInit PROVE AskInv
  OBVIOUS
<1>1. ServiceInv
  BY ServiceInitInv DEF AskInit
<1>2. BrokerTypeOK
  BY DEF AskInit, BrokerTypeOK, WireOK, PumpSteps, Resting
<1>3. Standing
  BY DEF AskInit, Standing, Resting
<1> QED
  BY <1>1, <1>2, <1>3 DEF AskInv

\* A call on the wire is one of the extension's, whoever it is authorized as.
LEMMA OnTheWire ==
  ASSUME BrokerTypeOK, wire # NoCall
  PROVE  /\ wire.act \in {"poll", "claim", "check", "result"}
         /\ wire.act # "poll" => wire.ask \in Asks
         /\ wire.reply \in {"sent", "yes", "no", "failed"}
         /\ wire.epoch \in Nat /\ wire.ids \in SUBSET Asks
BY DEF BrokerTypeOK, WireOK, CallsOf

\* Prune takes what no step may hand out any more.
LEMMA PrunedFacts ==
  ASSUME ServiceTypeOK
  PROVE  /\ Pruned(pending) \in [Asks -> {"none", "open", "claimed"}]
         /\ \A a \in Asks :
               \/ Pruned(pending)[a] = pending[a]
               \/ Pruned(pending)[a] = "none" /\ pending[a] = "open" /\ a \in expired
BY DEF Pruned, ServiceTypeOK

\* The steps of the callers and of the environment.
LEMMA CallersServe ==
  ASSUME AskInv, NEW a \in Asks,
         Execute(a) \/ Hears(a) \/ Expires(a) \/ TimesOut(a) \/ GivesUp(a) \/ CallerDropped(a)
  PROVE  ServiceInv' /\ UNCHANGED <<browser, receipt, wire, claimedEver, acted, hostEpoch, paired>>
<1>0. ServiceInv
  BY DEF AskInv
<1>1. UNCHANGED <<browser, receipt, wire, claimedEver, acted, hostEpoch, paired>>
  BY DEF Execute, Hears, Expires, TimesOut, GivesUp, CallerDropped, hostVars, callerVars,
     browserVars, tallyVars
<1> SUFFICES ServiceInv'
  BY <1>1
<1>p. /\ Pruned(pending) \in [Asks -> {"none", "open", "claimed"}]
      /\ \A b \in Asks :
            \/ Pruned(pending)[b] = pending[b]
            \/ Pruned(pending)[b] = "none" /\ pending[b] = "open" /\ b \in expired
  BY <1>0, PrunedFacts DEF ServiceInv
<1> USE DEF ServiceInv, ServiceTypeOK, AskOK, Sendings
<1>2. CASE Execute(a)
  <2>1. /\ UNCHANGED <<expired, inbox, claimedEver, acted>> /\ caller[a] = "new"
        /\ \/ /\ caller' = [caller EXCEPT ![a] = "answered"] /\ heard' = [heard EXCEPT ![a] = "refused"]
              /\ pending' = Pruned(pending)
           \/ /\ caller' = [caller EXCEPT ![a] = "waiting"] /\ UNCHANGED heard
              /\ pending' = [Pruned(pending) EXCEPT ![a] = "open"]
    BY <1>2 DEF Execute, Return, browserVars, tallyVars
  <2> QED
    BY <1>0, <2>1, <1>p
<1>3. CASE Hears(a)
  BY <1>0, <1>3 DEF Hears, Return, hostVars, tallyVars
<1>4. CASE Expires(a)
  BY <1>0, <1>4 DEF Expires, hostVars, tallyVars
<1>5. CASE TimesOut(a)
  BY <1>0, <1>5 DEF TimesOut, hostVars, tallyVars
<1>6. CASE GivesUp(a)
  BY <1>0, <1>6 DEF GivesUp, Return, Forgets, tallyVars
<1>7. CASE CallerDropped(a)
  BY <1>0, <1>7 DEF CallerDropped, hostVars
<1> QED
  BY <1>1, <1>2, <1>3, <1>4, <1>5, <1>6, <1>7

LEMMA HandlersServe ==
  ASSUME AskInv, HandlePoll \/ HandleClaim \/ HandleCheck \/ HandleResult
  PROVE  ServiceInv'
<1>0. ServiceInv /\ BrokerTypeOK
  BY DEF AskInv
<1>p. /\ Pruned(pending) \in [Asks -> {"none", "open", "claimed"}]
      /\ \A b \in Asks :
            \/ Pruned(pending)[b] = pending[b]
            \/ Pruned(pending)[b] = "none" /\ pending[b] = "open" /\ b \in expired
  BY <1>0, PrunedFacts DEF ServiceInv
<1> USE DEF ServiceInv, ServiceTypeOK, AskOK, Sendings
<1>1. CASE HandlePoll
  <2>1. /\ UNCHANGED <<expired, caller, inbox, heard, claimedEver, acted>>
        /\ pending' = pending \/ pending' = Pruned(pending)
    BY <1>1 DEF HandlePoll, callerVars, tallyVars
  <2> QED
    BY <1>0, <2>1, <1>p
<1>2. CASE HandleClaim
  <2>1. wire.ask \in Asks
    BY <1>0, <1>2, OnTheWire DEF HandleClaim, Under
  <2>2. /\ UNCHANGED <<expired, caller, inbox, heard, acted>>
        /\ \/ /\ pending[wire.ask] = "open" /\ wire.ask \notin expired
              /\ pending' = [Pruned(pending) EXCEPT ![wire.ask] = "claimed"]
              /\ claimedEver' = claimedEver \cup {wire.ask}
           \/ pending' = Pruned(pending) /\ UNCHANGED claimedEver
    BY <1>2 DEF HandleClaim, callerVars, browserVars, Unclaimed
  <2> QED
    BY <1>0, <2>1, <2>2, <1>p
<1>3. CASE HandleCheck
  BY <1>0, <1>3 DEF HandleCheck, hostVars, callerVars, tallyVars
<1>4. CASE HandleResult
  <2>1. wire.ask \in Asks
    BY <1>0, <1>4, OnTheWire DEF HandleResult, Under
  <2>2. /\ UNCHANGED <<expired, caller, heard, acted, claimedEver>>
        /\ \/ /\ Pruned(pending)[wire.ask] = "claimed"
              /\ pending' = [Pruned(pending) EXCEPT ![wire.ask] = "none"]
              /\ inbox' = [inbox EXCEPT ![wire.ask] = "result"]
           \/ pending' = Pruned(pending) /\ UNCHANGED inbox
    BY <1>4 DEF HandleResult, tallyVars, browserVars
  <2> QED
    BY <1>0, <2>1, <2>2, <1>p
<1> QED
  BY <1>1, <1>2, <1>3, <1>4

LEMMA Replying ==
  ASSUME WireOK, wire # NoCall, NEW what \in {"yes", "no", "failed"}
  PROVE  LET w == [wire EXCEPT !.reply = what]
         IN  /\ w # NoCall
             /\ w \in CallsOf({"poll"}, {"none"}) \cup CallsOf({"claim", "check", "result"}, Asks)
             /\ w.act = wire.act /\ w.ask = wire.ask /\ w.reply = what
<1>1. CASE wire \in CallsOf({"poll"}, {"none"})
  BY <1>1 DEF CallsOf, NoCall
<1>2. CASE wire \in CallsOf({"claim", "check", "result"}, Asks)
  BY <1>2 DEF CallsOf, NoCall
<1> QED
  BY <1>1, <1>2 DEF WireOK

LEMMA Calling ==
  ASSUME paired \in 0..2, NEW act \in {"claim", "check", "result"}, NEW a \in Asks,
         NEW epoch \in Nat, Call(act, a, epoch)
  PROVE  /\ wire' # NoCall /\ wire' \in CallsOf({"claim", "check", "result"}, Asks)
         /\ wire'.act = act /\ wire'.ask = a /\ wire'.reply # "yes"
BY DEF Call, CallsOf, NoCall

LEMMA Polling ==
  ASSUME paired \in 0..2, NEW epoch \in Nat, Call("poll", "none", epoch)
  PROVE  wire' # NoCall /\ wire' \in CallsOf({"poll"}, {"none"}) /\ wire'.act = "poll"
BY DEF Call, CallsOf, NoCall

\* The pump at another step.
LEMMA Standings ==
  ASSUME BrokerTypeOK, NEW at \in PumpSteps
  PROVE  /\ [browser EXCEPT !.at = at] \in [at : PumpSteps, epoch : Nat, listed : SUBSET Asks]
         /\ [browser EXCEPT !.at = at].at = at
         /\ [browser EXCEPT !.at = at, !.listed = {}] \in
                [at : PumpSteps, epoch : Nat, listed : SUBSET Asks]
         /\ [browser EXCEPT !.at = at, !.listed = {}].at = at
<1> DEFINE b == [browser EXCEPT !.at = at]
<1>1. b \in [at : PumpSteps, epoch : Nat, listed : SUBSET Asks] /\ b.at = at
  BY DEF BrokerTypeOK
<1>2. /\ [b EXCEPT !.listed = {}] \in [at : PumpSteps, epoch : Nat, listed : SUBSET Asks]
      /\ [b EXCEPT !.listed = {}].at = at
  BY <1>1
<1>3. [browser EXCEPT !.at = at, !.listed = {}] = [b EXCEPT !.listed = {}]
  BY DEF BrokerTypeOK
<1> QED
  BY <1>1, <1>2, <1>3

LEMMA HandlersKeep ==
  ASSUME AskInv, HandlePoll \/ HandleClaim \/ HandleCheck \/ HandleResult
  PROVE  AskInv'
<1>0. BrokerTypeOK /\ Standing /\ WireOK /\ wire # NoCall /\ wire.reply = "sent"
  BY DEF AskInv, BrokerTypeOK, HandlePoll, HandleClaim, HandleCheck, HandleResult, Under
<1>1. UNCHANGED <<hostEpoch, paired, browser, receipt>>
  BY DEF HandlePoll, HandleClaim, HandleCheck, HandleResult, hostVars, browserVars
<1>2. CASE HandlePoll
  <2>1. wire.act = "poll" /\ wire \in CallsOf({"poll"}, {"none"})
    BY <1>0, <1>2 DEF HandlePoll, Under, WireOK, CallsOf
  <2>2. wire' \in CallsOf({"poll"}, {"none"})
    <3>1. CASE Reply("failed")
      BY <2>1, <3>1 DEF Reply, CallsOf
    <3>2. ASSUME NEW ids \in SUBSET Asks,
                 wire' = [wire EXCEPT !.reply = "yes", !.epoch = hostEpoch, !.ids = ids]
          PROVE wire' \in CallsOf({"poll"}, {"none"})
      <4>1. DEFINE w1 == [wire EXCEPT !.reply = "yes"]
                   w2 == [w1 EXCEPT !.epoch = hostEpoch]
                   w3 == [w2 EXCEPT !.ids = ids]
      <4>2. w1 \in CallsOf({"poll"}, {"none"})
        BY <2>1 DEF CallsOf
      <4>3. w2 \in CallsOf({"poll"}, {"none"})
        BY <1>0, <4>2 DEF CallsOf, BrokerTypeOK
      <4>4. w3 \in CallsOf({"poll"}, {"none"})
        BY <4>3 DEF CallsOf
      <4> QED
        BY <3>2, <4>4
    <3>3. {a \in Asks : Unclaimed(a) /\ Pruned(pending)[a] # "none" /\ Mine(a)} \in SUBSET Asks
      OBVIOUS
    <3> QED
      BY <1>2, <3>1, <3>2, <3>3 DEF HandlePoll
  <2>3. BrokerTypeOK'
    BY <1>0, <1>1, <2>2 DEF BrokerTypeOK, WireOK
  <2>4. Standing'
    BY <1>0, <1>1, <2>1 DEF Standing
  <2> QED
    BY <1>2, <2>3, <2>4, HandlersServe DEF AskInv
<1>3. CASE HandleClaim \/ HandleCheck \/ HandleResult
  <2> DEFINE Stays(a) == a \in claimedEver' /\ acted'[a] = 0
  <2>1. PICK what \in {"yes", "no", "failed"} : wire' = [wire EXCEPT !.reply = what]
    BY <1>3 DEF HandleClaim, HandleCheck, HandleResult, Reply
  <2>2. /\ wire' # NoCall
        /\ wire' \in CallsOf({"poll"}, {"none"}) \cup CallsOf({"claim", "check", "result"}, Asks)
        /\ wire'.act = wire.act /\ wire'.ask = wire.ask /\ wire'.reply = what
    BY <1>0, <2>1, Replying
  <2>3. BrokerTypeOK'
    BY <1>0, <1>1, <2>2 DEF BrokerTypeOK, WireOK
  <2>4. \A a \in Asks : Fresh(a) => Stays(a)
    BY <1>3 DEF Fresh, HandleClaim, HandleCheck, HandleResult, tallyVars
  <2>5. HandleClaim /\ wire'.reply = "yes" => Stays(wire.ask)
    <3>1. ASSUME HandleClaim, wire'.reply = "yes" PROVE Stays(wire.ask)
      <4>1. wire.ask \in Asks /\ AskOK(wire.ask) /\ acted[wire.ask] \in {0, 1}
        BY <1>0, <3>1, OnTheWire DEF HandleClaim, Under, AskInv, ServiceInv, ServiceTypeOK
      <4>2. pending[wire.ask] = "open" /\ claimedEver' = claimedEver \cup {wire.ask} /\ UNCHANGED acted
        <5>1. ~Reply("no")
          BY <1>0, <3>1, Replying DEF Reply
        <5> QED
          BY <3>1, <5>1 DEF HandleClaim, Unclaimed
      <4> QED
        BY <4>1, <4>2 DEF AskOK, Fresh
    <3> QED
      BY <3>1
  <2>6. wire.act # "poll" /\ wire.ask \in Asks
    BY <1>0, <1>3, OnTheWire DEF HandleClaim, HandleCheck, HandleResult, Under
  <2>7. /\ HandleClaim => wire.act = "claim"
        /\ HandleCheck => wire.act = "check"
        /\ HandleResult => wire.act = "result"
    BY DEF HandleClaim, HandleCheck, HandleResult, Under
  <2>8. Standing'
    <3>1. browser.at # "act"
      BY <1>0 DEF Standing
    <3>2. ASSUME browser.at = "claim" PROVE wire.act = "claim" /\ (wire'.reply = "yes" => Stays(wire.ask))
      BY <1>0, <1>3, <2>5, <2>7, <3>2 DEF Standing
    <3>3. ASSUME browser.at = "check" PROVE wire.act = "check" /\ Stays(wire.ask)
      BY <1>0, <2>4, <2>6, <3>3 DEF Standing
    <3>4. ASSUME browser.at = "report" PROVE wire.act \in {"claim", "check"}
      BY <1>0, <3>4 DEF Standing
    <3> QED
      BY <1>1, <2>2, <3>1, <3>2, <3>3, <3>4 DEF Standing, Fresh
  <2> QED
    BY <1>3, <2>3, <2>8, HandlersServe DEF AskInv
<1> QED
  BY <1>2, <1>3

\* The pump is where nothing was granted.
Elsewhere == {"idle", "redeliver", "poll", "next", "deliver"}

LEMMA PumpKeeps ==
  ASSUME AskInv, PumpOnce \/ Redelivered \/ Polled \/ NextAsk \/ Claimed \/ Checked \/ Reports \/ Delivered
  PROVE  AskInv'
<1>0. /\ BrokerTypeOK /\ Standing /\ paired \in 0..2 /\ hostEpoch \in Nat
      /\ browser.epoch \in Nat /\ browser.listed \subseteq Asks
      /\ receipt # NoReceipt => receipt.ask \in Asks /\ receipt.epoch \in Nat
      /\ receipt = NoReceipt \/ receipt \in [ask : Asks, epoch : Nat]
      /\ browser \in [at : PumpSteps, epoch : Nat, listed : SUBSET Asks]
      /\ WireOK
  BY DEF AskInv, BrokerTypeOK
<1>1. UNCHANGED <<serviceVars, hostEpoch, paired>>
  BY DEF PumpOnce, Redelivered, Polled, NextAsk, Claimed, Checked, Reports, Delivered, OnlyBrowser,
     hostVars, callerVars, tallyVars, serviceVars
<1>2. ServiceInv'
  BY <1>1 DEF AskInv, ServiceInv, ServiceTypeOK, AskOK, serviceVars
<1> DEFINE Browsers == [at : PumpSteps, epoch : Nat, listed : SUBSET Asks]
           Called == wire' # NoCall /\ wire' \in CallsOf({"poll"}, {"none"}) \cup
                                                 CallsOf({"claim", "check", "result"}, Asks)
<1> SUFFICES /\ browser' \in Browsers
             /\ receipt' = NoReceipt \/ receipt' \in [ask : Asks, epoch : Nat]
             /\ wire' = NoCall \/ Called
             /\ Standing'
  BY <1>0, <1>1, <1>2 DEF AskInv, BrokerTypeOK, WireOK
<1>3. ASSUME NEW at \in PumpSteps, Stand(at) \/ (at = "idle" /\ Rest)
      PROVE browser' \in Browsers /\ browser'.at = at
  BY <1>0, <1>3, Standings DEF Stand, Rest, PumpSteps
<1>4. browser'.at \in Elsewhere => Standing'
  BY DEF Standing, Elsewhere
<1>5. wire # NoCall => wire \in CallsOf({"poll"}, {"none"}) \cup CallsOf({"claim", "check", "result"}, Asks)
  BY <1>0 DEF WireOK
<1>6. CASE PumpOnce
  BY <1>0, <1>3, <1>4, <1>6, Calling, Polling DEF PumpOnce, PumpSteps, Elsewhere
<1>7. CASE Redelivered
  BY <1>0, <1>3, <1>4, <1>7, Polling DEF Redelivered, PumpSteps, Elsewhere
<1>8. CASE Polled
  <2>1. wire.epoch \in Nat /\ wire.ids \in SUBSET Asks
    BY <1>0, <1>8, OnTheWire DEF Polled, Replied, Answered
  <2>2. browser' \in Browsers /\ browser'.at \in {"idle", "next"}
    BY <1>3, <1>8, <2>1 DEF Polled, PumpSteps
  <2> QED
    BY <1>0, <1>4, <1>8, <2>2 DEF Polled, Elsewhere
<1>9. CASE NextAsk
  <2>1. CASE browser.listed = {}
    BY <1>0, <1>3, <1>4, <1>5, <1>9, <2>1 DEF NextAsk, PumpSteps, Elsewhere
  <2>2. CASE browser.listed # {}
    <3>1. PICK a \in browser.listed :
             /\ browser' = [browser EXCEPT !.at = "claim", !.listed = IF Browser THEN @ \ {a} ELSE {}]
             /\ Call("claim", a, browser.epoch)
      BY <1>9, <2>2 DEF NextAsk
    <3>2. browser' \in Browsers /\ browser'.at = "claim"
      <4>1. DEFINE l == IF Browser THEN browser.listed \ {a} ELSE {}
                   b == [browser EXCEPT !.at = "claim"]
      <4>2. b \in Browsers /\ b.at = "claim" /\ l \in SUBSET Asks /\ b.listed = browser.listed
        BY <1>0 DEF PumpSteps
      <4>3. [b EXCEPT !.listed = l] \in Browsers /\ [b EXCEPT !.listed = l].at = "claim"
        BY <4>2
      <4> QED
        BY <3>1, <4>2, <4>3
    <3>3. Called /\ wire'.act = "claim" /\ wire'.reply # "yes"
      BY <1>0, <3>1, Calling
    <3> QED
      BY <1>0, <1>9, <3>2, <3>3 DEF NextAsk, Standing
  <2> QED
    BY <2>1, <2>2
<1>10. CASE Claimed
  <2>0. /\ wire # NoCall /\ wire.act = "claim" /\ browser.at = "claim" /\ wire.ask \in Asks
        /\ wire.epoch \in Nat /\ UNCHANGED receipt
        /\ wire.reply = "yes" => Fresh(wire.ask)
    BY <1>0, <1>10, OnTheWire DEF Claimed, Replied, Answered, Standing
  <2>1. CASE wire.reply # "yes"
    BY <1>0, <1>3, <1>4, <1>10, <2>0, <2>1 DEF Claimed, PumpSteps, Elsewhere
  <2>2. CASE wire.reply = "yes" /\ Browser
    <3>1. Stand("check") /\ Call("check", wire.ask, wire.epoch)
      BY <1>10, <2>2 DEF Claimed
    <3> QED
      BY <1>0, <1>1, <1>3, <2>0, <2>2, <3>1, Calling DEF PumpSteps, Standing, Fresh, serviceVars
  <2>3. CASE wire.reply = "yes" /\ ~Browser
    <3>1. Stand("act") /\ Reply("yes")
      BY <1>10, <2>3 DEF Claimed
    <3>2. /\ Called /\ wire'.act = "claim" /\ wire'.ask = wire.ask /\ wire'.reply = "yes"
      BY <1>0, <2>0, <3>1, Replying DEF Reply
    <3> QED
      BY <1>0, <1>1, <1>3, <2>0, <2>3, <3>1, <3>2 DEF PumpSteps, Standing, Fresh, serviceVars
  <2> QED
    BY <2>1, <2>2, <2>3
<1>11. CASE Checked
  <2>0. /\ wire # NoCall /\ wire.act = "check" /\ Fresh(wire.ask) /\ wire.reply # "sent"
        /\ UNCHANGED <<receipt, wire>>
    BY <1>0, <1>11 DEF Checked, Replied, Answered, Standing
  <2>1. browser' \in Browsers /\ browser'.at \in {"act", "report"}
    BY <1>3, <1>11 DEF Checked, PumpSteps
  <2> QED
    BY <1>0, <1>1, <1>5, <2>0, <2>1 DEF Standing, Fresh, serviceVars
<1>12. CASE Reports
  <2>0. wire.ask \in Asks
    BY <1>0, <1>12, OnTheWire DEF Reports, Standing
  <2>1. browser' \in Browsers /\ browser'.at = "deliver"
    BY <1>3, <1>12 DEF Reports, PumpSteps
  <2>2. Called
    BY <1>0, <1>12, <2>0, Calling DEF Reports
  <2>3. receipt' = NoReceipt \/ receipt' \in [ask : Asks, epoch : Nat]
    BY <1>0, <1>12, <2>0 DEF Reports
  <2> QED
    BY <1>4, <2>1, <2>2, <2>3 DEF Elsewhere
<1>13. CASE Delivered
  BY <1>0, <1>3, <1>4, <1>13 DEF Delivered, PumpSteps, Elsewhere
<1> QED
  BY <1>6, <1>7, <1>8, <1>9, <1>10, <1>11, <1>12, <1>13

\* The page is touched by whoever holds the claim, and that spends it.
LEMMA ActsKeeps ==
  ASSUME AskInv, Acts
  PROVE  AskInv' /\ (UNCHANGED acted \/ ActOn(wire.ask)) /\ wire.ask \in Asks
<1>0. /\ BrokerTypeOK /\ Standing /\ ServiceInv
      /\ wire # NoCall /\ wire.act \in {"claim", "check"} /\ Fresh(wire.ask)
      /\ wire.ask \in Asks
  BY OnTheWire DEF AskInv, Acts, Standing
<1>1. /\ UNCHANGED <<pending, expired, caller, inbox, heard, claimedEver, hostEpoch, paired, receipt, wire>>
      /\ acted' = acted \/ acted' = [acted EXCEPT ![wire.ask] = @ + 1]
      /\ browser' = [browser EXCEPT !.at = "report"]
  BY DEF Acts, hostVars, callerVars, Stand
<1>2. acted' = acted \/ acted' = [acted EXCEPT ![wire.ask] = 1]
  BY <1>0, <1>1 DEF Fresh, ServiceInv, ServiceTypeOK
<1>3. ServiceInv'
  BY <1>0, <1>1, <1>2 DEF ServiceInv, ServiceTypeOK, AskOK, Fresh, Sendings
<1>4. browser' \in [at : PumpSteps, epoch : Nat, listed : SUBSET Asks] /\ browser'.at = "report"
  BY <1>0, <1>1, Standings DEF PumpSteps
<1>5. BrokerTypeOK'
  BY <1>0, <1>1, <1>4 DEF BrokerTypeOK, WireOK
<1>6. Standing'
  BY <1>0, <1>1, <1>4 DEF Standing
<1>7. UNCHANGED acted \/ ActOn(wire.ask)
  BY <1>0, <1>1, <1>2 DEF ActOn, Fresh
<1> QED
  BY <1>0, <1>3, <1>5, <1>6, <1>7 DEF AskInv

\* What the environment does to the pump and the wire.
LEMMA FaultsKeepTheClaim ==
  ASSUME AskInv, CallLost \/ Heartbeat \/ ExtensionRestarts \/ HostRestarts
  PROVE  BrokerTypeOK' /\ Standing'
<1>0. BrokerTypeOK /\ Standing /\ WireOK
  BY DEF AskInv, BrokerTypeOK
<1>1. UNCHANGED <<paired, claimedEver, acted>> /\ hostEpoch' \in Nat
  BY <1>0 DEF CallLost, Heartbeat, ExtensionRestarts, HostRestarts, hostVars, tallyVars, BrokerTypeOK
<1>2. CASE wire # NoCall /\ Reply("failed") /\ UNCHANGED <<browser, receipt>>
  <2>1. /\ wire' # NoCall /\ wire'.act = wire.act /\ wire'.ask = wire.ask /\ wire'.reply = "failed"
        /\ wire' \in CallsOf({"poll"}, {"none"}) \cup CallsOf({"claim", "check", "result"}, Asks)
    BY <1>0, <1>2, Replying DEF Reply
  <2>2. BrokerTypeOK'
    BY <1>0, <1>1, <1>2, <2>1 DEF BrokerTypeOK, WireOK
  <2>3. Standing'
    BY <1>0, <1>1, <1>2, <2>1 DEF Standing, Fresh
  <2> QED
    BY <2>2, <2>3
<1>3. CASE UNCHANGED <<browser, receipt, wire>>
  BY <1>0, <1>1, <1>3 DEF BrokerTypeOK, WireOK, Standing, Fresh
<1>4. CASE CallLost
  BY <1>2, <1>4 DEF CallLost, browserVars
<1>5. CASE HostRestarts
  <2>1. CASE wire = NoCall \/ wire.reply # "sent"
    BY <1>3, <1>5, <2>1 DEF HostRestarts, browserVars
  <2>2. CASE ~(wire = NoCall \/ wire.reply # "sent")
    BY <1>2, <1>5, <2>2 DEF HostRestarts, browserVars, Reply
  <2> QED
    BY <2>1, <2>2
<1>6. CASE Heartbeat
  <2>1. /\ browser' \in [at : PumpSteps, epoch : Nat, listed : SUBSET Asks]
        /\ browser'.at = browser.at /\ UNCHANGED <<receipt, wire>>
    BY <1>0, <1>6 DEF Heartbeat, BrokerTypeOK
  <2> QED
    BY <1>0, <1>1, <2>1 DEF BrokerTypeOK, WireOK, Standing, Fresh
<1>7. CASE ExtensionRestarts
  <2>1. /\ browser' \in [at : PumpSteps, epoch : Nat, listed : SUBSET Asks]
        /\ browser'.at = "idle" /\ wire' = NoCall
        /\ receipt' = receipt \/ receipt' = NoReceipt
    BY <1>0, <1>7 DEF ExtensionRestarts, BrokerTypeOK, Resting, PumpSteps
  <2> QED
    BY <1>0, <1>1, <2>1 DEF BrokerTypeOK, WireOK, Standing
<1> QED
  BY <1>4, <1>5, <1>6, <1>7

LEMMA FaultsServe ==
  ASSUME AskInv,
         \/ CallLost \/ Heartbeat \/ ExtensionRestarts \/ HostRestarts \/ PresenceLapses
         \/ CredentialRevoked \/ CompanionRemoved \/ PairedAgain \/ UNCHANGED askVars
  PROVE  ServiceInv'
<1>0. ServiceInv
  BY DEF AskInv
<1>1. CASE UNCHANGED serviceVars
  BY <1>0, <1>1 DEF ServiceInv, ServiceTypeOK, AskOK, serviceVars
<1>2. CASE HostRestarts
  BY <1>0, <1>2 DEF HostRestarts, ServiceInv, ServiceTypeOK, AskOK, Sendings
<1>3. CASE CompanionRemoved
  <2>1. PICK gone \in SUBSET Asks :
           /\ gone \subseteq Queued
           /\ pending' = [a \in Asks |-> IF a \in gone THEN "none" ELSE pending[a]]
           /\ inbox' = [a \in Asks |->
                  IF a \notin gone THEN inbox[a]
                  ELSE IF pending[a] = "claimed" THEN "unconfirmed" ELSE "not_dispatched"]
    BY <1>3 DEF CompanionRemoved, Queued
  <2>2. UNCHANGED <<expired, caller, heard, claimedEver, acted>>
    BY <1>3 DEF CompanionRemoved, tallyVars
  <2> QED
    BY <1>0, <2>1, <2>2 DEF ServiceInv, ServiceTypeOK, AskOK, Sendings, Queued
<1> QED
  BY <1>1, <1>2, <1>3
  DEF CallLost, Heartbeat, ExtensionRestarts, PresenceLapses, CredentialRevoked, PairedAgain,
      hostVars, callerVars, tallyVars, serviceVars, askVars

LEMMA AskStep == AskInv /\ [AskNext]_askVars => AskInv'
<1> SUFFICES ASSUME AskInv, [AskNext]_askVars PROVE AskInv'
  OBVIOUS
<1>1. CASE \E a \in Asks : Execute(a) \/ Hears(a) \/ Expires(a) \/ TimesOut(a) \/ GivesUp(a) \/ CallerDropped(a)
  <2>1. ServiceInv' /\ UNCHANGED <<browser, receipt, wire, claimedEver, acted, hostEpoch, paired>>
    BY <1>1, CallersServe
  <2> QED
    BY <2>1 DEF AskInv, BrokerTypeOK, WireOK, Standing, Fresh
<1>2. CASE CallLost \/ Heartbeat \/ ExtensionRestarts \/ HostRestarts
  BY <1>2, FaultsKeepTheClaim, FaultsServe DEF AskInv
<1>3. CASE PresenceLapses \/ CredentialRevoked \/ CompanionRemoved \/ PairedAgain \/ UNCHANGED askVars
  <2>1. /\ UNCHANGED <<browser, receipt, wire, claimedEver, acted, hostEpoch>>
        /\ paired' \in 0..2
    BY <1>3 DEF PresenceLapses, CredentialRevoked, CompanionRemoved, PairedAgain, AskInv, BrokerTypeOK,
       hostVars, browserVars, tallyVars, askVars, brokerVars, serviceVars
  <2> QED
    BY <1>3, <2>1, FaultsServe DEF AskInv, BrokerTypeOK, WireOK, Standing, Fresh
<1> QED
  BY <1>1, <1>2, <1>3, HandlersKeep, PumpKeeps, ActsKeeps DEF AskNext

\* Pruning is not seen by the callers.
LEMMA PruneIsUnseen ==
  ASSUME ServiceTypeOK
  PROVE  [a \in Asks |-> IF Pruned(pending)[a] = "open" /\ a \in expired THEN "none"
                         ELSE Pruned(pending)[a]] = LivePending
BY DEF LivePending, Pruned, ServiceTypeOK

LEMMA CallersMap ==
  ASSUME AskInv, NEW a \in Asks,
         Execute(a) \/ Hears(a) \/ Expires(a) \/ TimesOut(a) \/ GivesUp(a) \/ CallerDropped(a)
  PROVE  Service!ServiceNext
<1>0. ServiceInv /\ ServiceTypeOK /\ AskOK(a)
  BY DEF AskInv, ServiceInv
<1>1. CASE Execute(a)
  <2>1. /\ UNCHANGED <<expired, inbox, claimedEver, acted>> /\ caller[a] = "new"
        /\ \/ /\ caller' = [caller EXCEPT ![a] = "answered"] /\ heard' = [heard EXCEPT ![a] = "refused"]
              /\ pending' = Pruned(pending)
           \/ /\ caller' = [caller EXCEPT ![a] = "waiting"] /\ UNCHANGED heard
              /\ pending' = [Pruned(pending) EXCEPT ![a] = "open"]
    BY <1>1 DEF Execute, Return, browserVars, tallyVars
  <2>2. CASE pending' = Pruned(pending) /\ heard' = [heard EXCEPT ![a] = "refused"]
             /\ caller' = [caller EXCEPT ![a] = "answered"]
    <3>1. LivePending' = LivePending
      BY <1>0, <2>1, <2>2, PruneIsUnseen DEF LivePending
    <3>2. Service!Decline(a)
      BY <2>1, <2>2, <3>1 DEF Service!Decline, Service!Return
    <3> QED
      BY <3>2 DEF Service!ServiceNext
  <2>3. CASE /\ pending' = [Pruned(pending) EXCEPT ![a] = "open"] /\ UNCHANGED heard
             /\ caller' = [caller EXCEPT ![a] = "waiting"]
    <3>1. LivePending' = [LivePending EXCEPT ![a] = "open"]
      <4>1. a \notin expired /\ expired' = expired
        BY <1>0, <2>1 DEF AskOK
      <4>2. Pruned(pending) \in [Asks -> {"none", "open", "claimed"}]
        BY <1>0, PrunedFacts
      <4> QED
        BY <1>0, <2>3, <4>1, <4>2, PruneIsUnseen DEF LivePending
    <3>2. Service!Accept(a)
      BY <2>1, <2>3, <3>1 DEF Service!Accept
    <3> QED
      BY <3>2 DEF Service!ServiceNext
  <2> QED
    BY <2>1, <2>2, <2>3
<1>2. CASE Hears(a)
  <2>1. Service!Hear(a)
    BY <1>2 DEF Hears, Return, Service!Hear, Service!Return, hostVars, tallyVars, LivePending
  <2> QED
    BY <2>1 DEF Service!ServiceNext
<1>3. CASE Expires(a)
  <2>1. LivePending' = [LivePending EXCEPT ![a] = IF @ = "open" THEN "none" ELSE @]
    BY <1>0, <1>3 DEF Expires, hostVars, LivePending, ServiceTypeOK
  <2>2. Service!Expire(a)
    BY <1>3, <2>1 DEF Expires, Service!Expire, hostVars, tallyVars
  <2> QED
    BY <2>2 DEF Service!ServiceNext
<1>4. CASE TimesOut(a)
  <2>1. Service!TimeOut(a)
    BY <1>4 DEF TimesOut, Service!TimeOut, hostVars, tallyVars, LivePending
  <2> QED
    BY <2>1 DEF Service!ServiceNext
<1>5. CASE GivesUp(a)
  <2>1. LivePending' = [LivePending EXCEPT ![a] = "none"]
    BY <1>0, <1>5 DEF GivesUp, Forgets, LivePending, ServiceTypeOK
  <2>2. LivePending[a] = "claimed" <=> pending[a] = "claimed"
    BY <1>0 DEF LivePending, ServiceTypeOK
  <2>3. Service!GiveUp(a)
    BY <1>5, <2>1, <2>2 DEF GivesUp, Return, Service!GiveUp, Service!Return, tallyVars
  <2> QED
    BY <2>3 DEF Service!ServiceNext
<1>6. CASE CallerDropped(a)
  <2>1. Service!Drop(a)
    BY <1>6 DEF CallerDropped, Service!Drop, hostVars, LivePending
  <2> QED
    BY <2>1 DEF Service!ServiceNext
<1> QED
  BY <1>1, <1>2, <1>3, <1>4, <1>5, <1>6

LEMMA HandlersMap ==
  ASSUME AskInv, HandlePoll \/ HandleClaim \/ HandleCheck \/ HandleResult
  PROVE  [Service!ServiceNext]_(Service!serviceVars)
<1>0. ServiceInv /\ ServiceTypeOK /\ BrokerTypeOK
  BY DEF AskInv, ServiceInv
<1>p. /\ Pruned(pending) \in [Asks -> {"none", "open", "claimed"}]
      /\ \A b \in Asks :
            \/ Pruned(pending)[b] = pending[b]
            \/ Pruned(pending)[b] = "none" /\ pending[b] = "open" /\ b \in expired
  BY <1>0, PrunedFacts
<1>1. ASSUME UNCHANGED <<expired, caller, inbox, heard, claimedEver, acted>>,
             pending' = pending \/ pending' = Pruned(pending)
      PROVE  UNCHANGED Service!serviceVars
  <2>1. LivePending' = LivePending
    BY <1>0, <1>1, PruneIsUnseen DEF LivePending
  <2> QED
    BY <1>1, <2>1 DEF Service!serviceVars
<1>2. CASE HandlePoll
  BY <1>1, <1>2 DEF HandlePoll, callerVars, tallyVars
<1>3. CASE HandleClaim
  <2>1. wire.ask \in Asks
    BY <1>0, <1>3, OnTheWire DEF HandleClaim, Under
  <2>2. /\ UNCHANGED <<expired, caller, inbox, heard, acted>>
        /\ \/ /\ pending[wire.ask] = "open" /\ wire.ask \notin expired
              /\ pending' = [Pruned(pending) EXCEPT ![wire.ask] = "claimed"]
              /\ claimedEver' = claimedEver \cup {wire.ask}
           \/ pending' = Pruned(pending) /\ UNCHANGED claimedEver
    BY <1>3 DEF HandleClaim, callerVars, browserVars, Unclaimed
  <2>3. CASE /\ pending[wire.ask] = "open" /\ wire.ask \notin expired
             /\ pending' = [Pruned(pending) EXCEPT ![wire.ask] = "claimed"]
             /\ claimedEver' = claimedEver \cup {wire.ask}
    <3>1. LivePending[wire.ask] = "open"
      BY <2>1, <2>3 DEF LivePending
    <3>2. LivePending' = [LivePending EXCEPT ![wire.ask] = "claimed"]
      BY <1>0, <1>p, <2>1, <2>2, <2>3, PruneIsUnseen DEF LivePending
    <3>3. Service!HandOut(wire.ask)
      BY <2>2, <2>3, <3>1, <3>2 DEF Service!HandOut
    <3> QED
      BY <2>1, <3>3 DEF Service!ServiceNext
  <2> QED
    BY <1>1, <2>2, <2>3
<1>4. CASE HandleCheck
  BY <1>1, <1>4 DEF HandleCheck, hostVars, callerVars, tallyVars
<1>5. CASE HandleResult
  <2>1. wire.ask \in Asks
    BY <1>0, <1>5, OnTheWire DEF HandleResult, Under
  <2>2. /\ UNCHANGED <<expired, caller, heard, acted, claimedEver>>
        /\ \/ /\ Pruned(pending)[wire.ask] = "claimed"
              /\ pending' = [Pruned(pending) EXCEPT ![wire.ask] = "none"]
              /\ inbox' = [inbox EXCEPT ![wire.ask] = "result"]
           \/ pending' = Pruned(pending) /\ UNCHANGED inbox
    BY <1>5 DEF HandleResult, tallyVars, browserVars
  <2>3. CASE /\ Pruned(pending)[wire.ask] = "claimed"
             /\ pending' = [Pruned(pending) EXCEPT ![wire.ask] = "none"]
             /\ inbox' = [inbox EXCEPT ![wire.ask] = "result"]
    <3>1. LivePending[wire.ask] = "claimed"
      BY <1>p, <2>1, <2>3 DEF LivePending
    <3>2. LivePending' = [LivePending EXCEPT ![wire.ask] = "none"]
      BY <1>0, <1>p, <2>1, <2>2, <2>3, PruneIsUnseen DEF LivePending
    <3>3. Service!Report(wire.ask)
      BY <2>2, <2>3, <3>1, <3>2 DEF Service!Report
    <3> QED
      BY <2>1, <3>3 DEF Service!ServiceNext
  <2> QED
    BY <1>1, <2>2, <2>3
<1> QED
  BY <1>2, <1>3, <1>4, <1>5

LEMMA AskMaps ==
  AskInv /\ [AskNext]_askVars => [Service!ServiceNext]_(Service!serviceVars)
<1> SUFFICES ASSUME AskInv, [AskNext]_askVars
             PROVE  [Service!ServiceNext]_(Service!serviceVars)
  OBVIOUS
<1>0. ServiceInv /\ ServiceTypeOK /\ \A a \in Asks : AskOK(a)
  BY DEF AskInv, ServiceInv
<1>1. CASE \E a \in Asks : Execute(a) \/ Hears(a) \/ Expires(a) \/ TimesOut(a) \/ GivesUp(a) \/ CallerDropped(a)
  BY <1>1, CallersMap
<1>2. CASE HandlePoll \/ HandleClaim \/ HandleCheck \/ HandleResult
  BY <1>2, HandlersMap
<1>3. CASE UNCHANGED serviceVars
  BY <1>3 DEF serviceVars, Service!serviceVars, LivePending
<1>4. CASE PumpOnce \/ Redelivered \/ Polled \/ NextAsk \/ Claimed \/ Checked \/ Reports \/ Delivered
  BY <1>3, <1>4 DEF PumpOnce, Redelivered, Polled, NextAsk, Claimed, Checked, Reports, Delivered,
     OnlyBrowser, hostVars, callerVars, tallyVars, serviceVars
<1>5. CASE \/ CallLost \/ Heartbeat \/ ExtensionRestarts \/ PresenceLapses \/ CredentialRevoked
           \/ PairedAgain \/ UNCHANGED askVars
  BY <1>3, <1>5 DEF CallLost, Heartbeat, ExtensionRestarts, PresenceLapses, CredentialRevoked,
     PairedAgain, hostVars, callerVars, tallyVars, serviceVars, askVars
<1>6. CASE Acts
  <2>1. wire.ask \in Asks /\ (UNCHANGED acted \/ ActOn(wire.ask))
    BY <1>6, ActsKeeps
  <2>2. UNCHANGED <<LivePending, expired, caller, inbox, heard, claimedEver>>
    BY <1>6 DEF Acts, hostVars, callerVars, LivePending
  <2>3. UNCHANGED acted \/ Service!ActOn(wire.ask)
    BY <2>1, <2>2 DEF ActOn, Service!ActOn
  <2> QED
    BY <2>1, <2>2, <2>3 DEF Service!ServiceNext, Service!serviceVars
<1>7. CASE HostRestarts
  <2>1. LivePending' = [a \in Asks |-> "none"]
    BY <1>7 DEF HostRestarts, LivePending
  <2>2. Service!Restart
    BY <1>7, <2>1 DEF HostRestarts, Service!Restart
  <2> QED
    BY <2>2 DEF Service!ServiceNext
<1>8. CASE CompanionRemoved
  <2>1. PICK gone \in SUBSET Asks :
           /\ gone \subseteq Queued
           /\ pending' = [a \in Asks |-> IF a \in gone THEN "none" ELSE pending[a]]
           /\ inbox' = [a \in Asks |->
                  IF a \notin gone THEN inbox[a]
                  ELSE IF pending[a] = "claimed" THEN "unconfirmed" ELSE "not_dispatched"]
    BY <1>8 DEF CompanionRemoved, Queued
  <2>2. UNCHANGED <<expired, caller, heard, claimedEver, acted>>
    BY <1>8 DEF CompanionRemoved, tallyVars
  <2>3. LivePending' = [a \in Asks |-> IF a \in gone THEN "none" ELSE LivePending[a]]
    BY <2>1, <2>2 DEF LivePending
  <2>4. \A a \in Asks : LivePending[a] = "claimed" <=> pending[a] = "claimed"
    BY DEF LivePending
  <2>5. inbox' = [a \in Asks |->
                  IF a \notin gone THEN inbox[a]
                  ELSE IF LivePending[a] = "claimed" THEN "unconfirmed" ELSE "not_dispatched"]
    BY <2>1, <2>4
  <2>6. \A a \in gone : /\ caller[a] \in {"waiting", "timed_out", "dropped"}
                        /\ LivePending[a] # "none" \/ a \in expired
    BY <1>0, <2>1 DEF Queued, LivePending, ServiceTypeOK, AskOK
  <2>7. Service!Remove(gone)
    BY <2>2, <2>3, <2>5, <2>6 DEF Service!Remove
  <2> QED
    BY <2>7 DEF Service!ServiceNext
<1> QED
  BY <1>1, <1>2, <1>4, <1>5, <1>6, <1>7, <1>8 DEF AskNext

\* Both brokers, whatever is lost, restarted, expired or revoked on the way:
\* every step is one AskService allows, or not seen by the callers at all.
THEOREM BrokersImplementService == AskSpec => ImplementsService
<1>1. AskInit => Service!ServiceInit
  BY DEF AskInit, ServiceInit, Service!ServiceInit, LivePending
<1> QED
  BY <1>1, AskInitInv, AskStep, AskMaps, PTL
  DEF AskSpec, ImplementsService, Service!ServiceSpec

\* What the service promises its callers, said of the brokers themselves.
THEOREM BrokersActAsTold == AskSpec => []ActsAsTold
<1>1. AskSpec => []AskInv
  BY AskInitInv, AskStep, PTL DEF AskSpec
<1>2. AskInv => ActsAsTold
  BY ServiceTells DEF AskInv
<1> QED
  BY <1>1, <1>2, PTL
====
