----------------------------- MODULE Runtimes_proofs -----------------------------
(***************************************************************************)
(* Proofs about what a workspace's runtime keeps, for every value of the   *)
(* constants.                                                              *)
(*                                                                         *)
(* Wakeups: three places sleep until somebody says that something changed, *)
(* and look at the state only before they sleep: the collection of a Core, *)
(* the removal of a workspace and whoever polls or cancels a command.      *)
(* None sleeps through the change it waits for, and no output of a command *)
(* is lost.                                                                *)
(*                                                                         *)
(* CommandJobs: the manager of the commands.  BrowserRouting: the isolated *)
(* browser, where a chat keeps to its own pages and a trace sees one chat. *)
(***************************************************************************)
EXTENDS Wakeups, CommandJobs, BrowserRouting, FiniteSetTheorems,
        WellFoundedInduction, TLAPS

(***************************************************************************)
(* The collection (CollectWait).                                           *)
(***************************************************************************)
CallRecord == [at : CollectSteps, family : Families, told : BOOLEAN]

CollectTypeOK ==
    /\ stored \in [Families -> {"kept", "cleared", "reclaimed"}]
    /\ uncollected \in [Families -> Nat]
    /\ publishing \in BOOLEAN
    /\ collector \in [Callers -> CallRecord]

\* Nothing a call waits for happened since it enabled its future, or it was
\* told, or is about to be.  It is not inductive for calls asleep alone: the
\* change may come while the call is between its look and its sleep.
Heard(c) ==
    collector[c].at \in {"deciding", "asleep"} /\ ~collector[c].told
        => \/ publishing
           \/ /\ uncollected[collector[c].family] = 0
              /\ stored[collector[c].family] # "cleared"

CollectInv == CollectTypeOK /\ \A c \in Callers : Heard(c)

LEMMA CollectInitInv == CollectInit => CollectInv
  <1> SUFFICES ASSUME CollectInit PROVE CollectInv
    OBVIOUS
  <1>1. NoCollect \in CallRecord /\ NoCollect.at = "idle"
    BY CollectAssumption DEF NoCollect, CallRecord, CollectSteps
  <1> QED
    BY <1>1 DEF CollectInit, CollectInv, CollectTypeOK, Heard

LEMMA CollectStepInv ==
    ASSUME CollectInv, [CollectNext]_collectVars
    PROVE  CollectInv'
  <1> USE DEF CollectInv, CollectTypeOK
  <1>0. NoCollect \in CallRecord /\ NoCollect.at = "idle"
    BY CollectAssumption DEF NoCollect, CallRecord, CollectSteps
  <1>1. ASSUME NEW f \in Families, CommitsUpdate(f) PROVE CollectInv'
    BY <1>1 DEF CommitsUpdate, Heard
  <1>2. ASSUME NEW f \in Families, CommitsClear(f) PROVE CollectInv'
    BY <1>2 DEF CommitsClear, Heard
  <1>3. ASSUME NEW f \in Families, ReclaimsFamily(f) PROVE CollectInv'
    BY <1>3 DEF ReclaimsFamily, Heard
  <1>4. ASSUME NEW f \in Families, SpawnsFamily(f) PROVE CollectInv'
    BY <1>4 DEF SpawnsFamily, Heard
  <1>5. CASE NotifiesCollectors
    <2>1. \A c \in Callers : /\ collector'[c] \in CallRecord
                             /\ collector'[c].at # "idle" => collector'[c].told
      BY <1>5 DEF NotifiesCollectors, Listening, CallRecord
    <2> QED
      BY <1>5, <2>1 DEF NotifiesCollectors, Heard, CallRecord
  <1>6. ASSUME NEW c \in Callers, NEW f \in Families, EnablesCollect(c, f) PROVE CollectInv'
    BY <1>6 DEF EnablesCollect, StoreKept, Heard, CallRecord, CollectSteps
  <1>7. ASSUME NEW c \in Callers, CollectLooks(c) PROVE CollectInv'
    <2> DEFINE f == collector[c].family
    <2>0. f \in Families
      BY DEF CallRecord
    <2>1. \A g \in Families : uncollected'[g] \in Nat /\ (uncollected[g] = 0 => uncollected'[g] = 0)
      BY <1>7, <2>0, CollectAssumption DEF CollectLooks, Taken
    <2>2. uncollected' \in [Families -> Nat]
      BY <1>7, <2>1 DEF CollectLooks
    <2>3. CASE CallEnds(c)
      BY <1>7, <1>0, <2>1, <2>2, <2>3 DEF CollectLooks, CallEnds, StoreKept, Heard, CallRecord
    <2>4. CASE stored[f] = "kept" /\ uncollected[f] = 0 /\ StepTo(c, "deciding")
      BY <1>7, <2>0, <2>1, <2>2, <2>4 DEF CollectLooks, StepTo, StoreKept, Heard, CallRecord, CollectSteps
    <2> QED
      BY <1>7, <2>3, <2>4 DEF CollectLooks
  <1>8. ASSUME NEW c \in Callers, CollectSleeps(c) PROVE CollectInv'
    BY <1>8 DEF CollectSleeps, StepTo, StoreKept, Heard, CallRecord, CollectSteps
  <1>9. ASSUME NEW c \in Callers, CollectLoops(c) PROVE CollectInv'
    BY <1>9 DEF CollectLoops, StoreKept, Heard, CallRecord, CollectSteps
  <1>10. ASSUME NEW c \in Callers, CollectEnds(c) PROVE CollectInv'
    BY <1>0, <1>10 DEF CollectEnds, CallEnds, StoreKept, Heard, CallRecord
  <1>11. CASE UNCHANGED collectVars
    BY <1>11 DEF collectVars, Heard
  <1> QED
    BY <1>1, <1>2, <1>3, <1>4, <1>5, <1>6, <1>7, <1>8, <1>9, <1>10, <1>11 DEF CollectNext

\* The invariant of collect_updates_wait.
THEOREM CollectInvariant == CollectSpec => []CollectInv
  BY CollectInitInv, CollectStepInv, PTL DEF CollectSpec

\* A Core asleep in collect_updates_wait was notified of every update of its
\* family and of its being cleared, or the notification is on its way.
THEOREM CollectorAlwaysWoken == CollectSpec => []CollectorIsWoken
  <1>1. CollectInv => CollectorIsWoken
    BY DEF CollectInv, Heard, CollectorIsWoken
  <1> QED
    BY <1>1, CollectInvariant, PTL

(***************************************************************************)
(* The request leases of a workspace (WorkspaceLeases).                    *)
(***************************************************************************)
\* The inductive invariant: the removal closes the runtime for as long as it
\* is under way; once it saw the count at zero nobody is counted whom the
\* flag had let through; before it sleeps, somebody is left to wake it.
LeasesInv ==
    /\ LeasesTypeOK
    /\ accepting <=> drain = "none"
    /\ drain = "drained" => \A r \in Requests : request[r] # "leased"
    /\ drain \in {"rechecked", "asleep"} /\ ~woken
          => inFlight > 0 \/ \E r \in Requests : request[r] = "notify"

LEMMA CountFacts ==
  ASSUME LeasesTypeOK
  PROVE  /\ IsFiniteSet(InCount)
         /\ inFlight \in Nat
         /\ inFlight = 0 => InCount = {}
<1>1. IsFiniteSet(InCount)
  BY FS_Subset, LeasesAssumption DEF LeasesAssumption, InCount
<1> QED
  BY <1>1, FS_CardinalityType, FS_EmptySet DEF LeasesTypeOK

\* A request that moves between two steps of which both or neither count.
LEMMA SameCount ==
  ASSUME LeasesTypeOK, NEW r \in Requests, NEW from, NEW to \in RequestSteps, Goes(r, from, to),
         from \in {"counted", "refused", "leased"} <=> to \in {"counted", "refused", "leased"}
  PROVE  InCount' = InCount /\ request' \in [Requests -> RequestSteps]
BY DEF Goes, InCount, LeasesTypeOK

LEMMA CountsIn ==
  ASSUME LeasesTypeOK, NEW r \in Requests, CountIn(r)
  PROVE  LeasesTypeOK'
<1>1. InCount' = InCount \cup {r} /\ r \notin InCount /\ request' \in [Requests -> RequestSteps]
  BY DEF CountIn, Goes, InCount, LeasesTypeOK, RequestSteps
<1>2. Cardinality(InCount') = Cardinality(InCount) + 1
  BY <1>1, CountFacts, FS_AddElement
<1> QED
  BY <1>1, <1>2 DEF CountIn, LeasesTypeOK

LEMMA CountsOut ==
  ASSUME LeasesTypeOK, NEW r \in Requests, NEW from \in {"refused", "leased"}, CountOut(r, from)
  PROVE  LeasesTypeOK'
<1>1. InCount' = InCount \ {r} /\ r \in InCount /\ request' \in [Requests -> RequestSteps]
  BY DEF CountOut, Goes, InCount, LeasesTypeOK, RequestSteps
<1>2. Cardinality(InCount') = Cardinality(InCount) - 1
  BY <1>1, CountFacts, FS_RemoveElement
<1> QED
  BY <1>1, <1>2 DEF CountOut, LeasesTypeOK

LEMMA LeasesInitInv == LeasesInit => LeasesInv
<1> SUFFICES ASSUME LeasesInit PROVE LeasesInv
  OBVIOUS
<1>1. InCount = {}
  BY DEF LeasesInit, InCount
<1>2. Cardinality(InCount) = 0
  BY <1>1, FS_EmptySet
<1> QED
  BY <1>2 DEF LeasesInit, LeasesInv, LeasesTypeOK, RequestSteps, DrainSteps

LEMMA LeasesStepInv == LeasesInv /\ [LeasesNext]_leaseVars => LeasesInv'
<1> SUFFICES ASSUME LeasesInv, [LeasesNext]_leaseVars PROVE LeasesInv'
  OBVIOUS
<1> USE DEF LeasesInv
<1>1. CASE UNCHANGED leaseVars
  BY <1>1 DEF leaseVars, LeasesTypeOK, InCount
<1>2. ASSUME NEW r \in Requests, CheckAccepting(r) PROVE LeasesInv'
  <2>1. InCount' = InCount /\ request' \in [Requests -> RequestSteps]
    BY <1>2, SameCount DEF CheckAccepting, RequestSteps
  <2> QED BY <1>2, <2>1 DEF CheckAccepting, LeasesTypeOK
<1>3. ASSUME NEW r \in Requests, CountIn(r) PROVE LeasesInv'
  <2>1. inFlight \in Nat
    BY CountFacts
  <2>2. LeasesTypeOK' /\ inFlight' > 0
    BY <1>3, <2>1, CountsIn DEF CountIn
  <2> QED BY <1>3, <2>2 DEF CountIn, Goes, LeasesTypeOK
<1>4. ASSUME NEW r \in Requests, Lease(r) PROVE LeasesInv'
  <2>1. InCount' = InCount /\ request' \in [Requests -> RequestSteps]
    BY <1>4, SameCount DEF Lease, RequestSteps
  <2> QED BY <1>4, <2>1 DEF Lease, StillAccepting, LeasesTypeOK
<1>5. ASSUME NEW r \in Requests, Refuse(r) PROVE LeasesInv'
  <2>1. InCount' = InCount /\ request' \in [Requests -> RequestSteps]
    BY <1>5, SameCount DEF Refuse, RequestSteps
  <2> QED BY <1>5, <2>1 DEF Refuse, StillAccepting, Goes, LeasesTypeOK
<1>6. ASSUME NEW r \in Requests, Undo(r) \/ Release(r) PROVE LeasesInv'
  <2>1. PICK from \in {"refused", "leased"} : CountOut(r, from)
    BY <1>6 DEF Undo, Release
  <2>2. inFlight \in Nat /\ LeasesTypeOK'
    BY <2>1, CountFacts, CountsOut
  <2>3. inFlight' > 0 \/ request'[r] = "notify" \/ inFlight = 0
    BY <2>1, <2>2 DEF CountOut, Goes, LeasesTypeOK
  <2>4. inFlight # 0
    <3>1. r \in InCount
      BY <2>1 DEF CountOut, Goes, InCount
    <3> QED BY <3>1, CountFacts
  <2> QED BY <2>1, <2>2, <2>3, <2>4 DEF CountOut, Goes, LeasesTypeOK
<1>7. ASSUME NEW r \in Requests, Notify(r) PROVE LeasesInv'
  <2>1. InCount' = InCount /\ request' \in [Requests -> RequestSteps]
    BY <1>7, SameCount DEF Notify, RequestSteps
  <2>2. woken' \in BOOLEAN
    BY <1>7 DEF Notify, LeasesTypeOK, Awaits
  <2>3. LeasesTypeOK'
    BY <1>7, <2>1, <2>2 DEF Notify, LeasesTypeOK
  <2> QED BY <1>7, <2>3 DEF Notify, Goes, LeasesTypeOK, Awaits
<1>8. CASE Revoke
  BY <1>8 DEF Revoke, LeasesTypeOK, InCount, DrainSteps
<1>9. ASSUME NEW from \in {"drain", "enabled"}, NEW found \in {"looked", "rechecked"},
             Looks(from, found)
      PROVE  LeasesInv'
  <2>1. LeasesTypeOK'
    BY <1>9 DEF Looks, LeasesTypeOK, InCount, DrainSteps
  <2>2. drain' = "drained" => \A r \in Requests : request'[r] # "leased"
    BY <1>9, CountFacts DEF Looks, InCount
  <2>3. drain' \in {"rechecked", "asleep"} => inFlight' > 0
    BY <1>9, CountFacts DEF Looks
  <2> QED BY <1>9, <2>1, <2>2, <2>3 DEF Looks
<1>10. CASE FallsAsleep \/ EnablesFuture
  BY <1>10 DEF FallsAsleep, EnablesFuture, LeasesTypeOK, InCount, DrainSteps
<1>11. CASE Wakes
  BY <1>11 DEF Wakes, LeasesTypeOK, InCount, DrainSteps
<1>12. CASE Enable
  BY <1>12 DEF Enable, LeasesTypeOK, InCount, DrainSteps
<1> QED
  BY <1>1, <1>2, <1>3, <1>4, <1>5, <1>6, <1>7, <1>8, <1>9, <1>10, <1>11, <1>12
     DEF LeasesNext, LooksFirst, LooksAgain

\* The invariant holds in every reachable state.
THEOREM LeasesInvariant == LeasesSpec => []LeasesInv
BY LeasesInitInv, LeasesStepInv, PTL DEF LeasesSpec

\* The counter always counts exactly the requests between their addition and
\* their subtraction.
THEOREM LeasesTyping == LeasesSpec => []LeasesTypeOK
<1>1. LeasesInv => LeasesTypeOK
  BY DEF LeasesInv
<1> QED BY <1>1, LeasesInvariant, PTL

\* The drain is never left asleep.
THEOREM DrainAlwaysWoken == LeasesSpec => []DrainIsWoken
<1>1. LeasesInv => DrainIsWoken
  BY DEF LeasesInv, DrainIsWoken
<1> QED BY <1>1, LeasesInvariant, PTL

LEMMA GateStep == LeasesInv /\ LeasesInv' /\ [LeasesNext]_leaseVars
                    => [Gate!GateNext]_<<IF accepting THEN "open"
                                         ELSE IF drain = "drained" THEN "drained" ELSE "closed",
                                         {r \in Requests : request[r] = "leased"}>>
<1> SUFFICES ASSUME LeasesInv, [LeasesNext]_leaseVars PROVE
        [Gate!GateNext]_<<IF accepting THEN "open"
                          ELSE IF drain = "drained" THEN "drained" ELSE "closed",
                          {r \in Requests : request[r] = "leased"}>>
  OBVIOUS
<1> DEFINE g == IF accepting THEN "open" ELSE IF drain = "drained" THEN "drained" ELSE "closed"
           h == {r \in Requests : request[r] = "leased"}
<1>1. CASE UNCHANGED leaseVars
  BY <1>1 DEF leaseVars
<1>2. ASSUME NEW r \in Requests, CheckAccepting(r) \/ CountIn(r) \/ Refuse(r) \/ Undo(r) \/ Notify(r)
      PROVE  g' = g /\ h' = h
  BY <1>2 DEF CheckAccepting, CountIn, Refuse, Undo, CountOut, Notify, Goes, LeasesInv, LeasesTypeOK
<1>3. ASSUME NEW r \in Requests, Lease(r) PROVE Gate!Enter(r)
  <2>1. g = "open" /\ g' = g /\ h' = h \cup {r}
    BY <1>3 DEF Lease, StillAccepting, Goes, LeasesInv, LeasesTypeOK
  <2> QED BY <2>1 DEF Gate!Enter
<1>4. ASSUME NEW r \in Requests, Release(r) PROVE Gate!Leave(r)
  <2>1. r \in h /\ g' = g /\ h' = h \ {r}
    BY <1>4 DEF Release, CountOut, Goes, LeasesInv, LeasesTypeOK
  <2> QED BY <2>1 DEF Gate!Leave
<1>5. CASE Revoke
  <2>1. g = "open" /\ g' = "closed" /\ h' = h
    BY <1>5 DEF Revoke, LeasesInv
  <2> QED BY <2>1 DEF Gate!Close, Gate!GateNext
<1>6. ASSUME NEW from \in {"drain", "enabled"}, NEW found \in {"looked", "rechecked"},
             Looks(from, found)
      PROVE  Gate!Drain \/ (g' = g /\ h' = h)
  <2>1. CASE inFlight = 0
    <3>1. h = {}
      BY <2>1, CountFacts DEF InCount, LeasesInv
    <3>2. g = "closed" /\ g' = "drained" /\ h' = h
      BY <1>6, <2>1 DEF Looks, LeasesInv
    <3> QED BY <3>1, <3>2 DEF Gate!Drain
  <2>2. CASE inFlight # 0
    BY <1>6, <2>2 DEF Looks, LeasesInv
  <2> QED BY <2>1, <2>2
<1>7. CASE FallsAsleep \/ Wakes \/ EnablesFuture
  BY <1>7 DEF FallsAsleep, Wakes, EnablesFuture, LeasesInv
<1>8. CASE Enable
  <2>1. g # "open" /\ g' = "open" /\ h' = h
    BY <1>8 DEF Enable, LeasesInv
  <2> QED BY <2>1 DEF Gate!Open, Gate!GateNext
<1> QED
  BY <1>1, <1>2, <1>3, <1>4, <1>5, <1>6, <1>7, <1>8
     DEF LeasesNext, LooksFirst, LooksAgain, Gate!GateNext

\* The leases of a workspace implement the gate: after the drain nobody holds
\* one, whoever was between his two looks at the flag.
THEOREM LeasesImplementGate == LeasesSpec => ImplementsGate
<1>1. LeasesInit => Gate!GateInit
  BY DEF LeasesInit, Gate!GateInit
<1> QED
  BY <1>1, GateStep, LeasesInvariant, PTL DEF LeasesSpec, ImplementsGate, Gate!GateSpec

EventRecord == [seq : Nat, size : Nat]
ReaderSteps == {"read", "load", "exchange", "write", "record", "notify", "eof"}
ReaderRecord == [at : ReaderSteps, size : Nat, used : Nat]

OutputTypeOK ==
    /\ reader \in [Streams -> ReaderRecord]
    /\ \A s \in Streams : reader[s].size <= MaxBuffer
    /\ produced \in [Streams -> Nat] /\ archived \in [Streams -> Nat]
    /\ archiveBytes \in Nat
    /\ archiveTruncated \in BOOLEAN /\ archiveError \in BOOLEAN
    /\ events \in Seq(EventRecord) /\ nextSeq \in Nat \ {0}
    /\ finished \in {"no", "silent", "yes"}
    /\ waiter \in [Waiters -> {"idle", "enabled", "deciding", "waiting", "answered"}]
    /\ notified \in [Waiters -> BOOLEAN]
    /\ after \in Nat

\* What a reader has reserved and not written, and read and not archived.
Reserved(s) == IF reader[s].at = "write" THEN reader[s].used ELSE 0
InFlight(s) == IF reader[s].at \in {"load", "exchange", "write"} THEN reader[s].size ELSE 0

\* The budget pays for every byte before it is written; a byte that is not
\* in the archive is in flight, or something is declared missing.
BudgetInv ==
    /\ archived["stdout"] + archived["stderr"] + Reserved("stdout") + Reserved("stderr") <= archiveBytes
    /\ archiveBytes <= MaxArchive
    /\ \A s \in Streams :
          /\ reader[s].at = "exchange" => reader[s].used < MaxArchive
          /\ reader[s].at = "write" => reader[s].used <= reader[s].size
    /\ ~archiveTruncated /\ ~archiveError =>
          \A s \in Streams :
              /\ archived[s] + InFlight(s) = produced[s]
              /\ reader[s].at = "write" => reader[s].used = reader[s].size
    /\ finished # "no" => ReadersJoined

\* The retained events are the newest, numbered without a gap, and the newest
\* of all is among them.
EventsInv ==
    /\ Len(events) <= Latest
    /\ Latest > 0 => Len(events) > 0
    /\ \A i \in 1 .. Len(events) : events[i].seq = Latest - Len(events) + i

PagesInv == after <= Latest /\ received \cup excused = 1 .. after

\* Not inductive for sleeping callers alone: the change may come between the
\* look and the sleep.
WokenInv ==
    \A v \in Waiters :
        waiter[v] \in {"deciding", "waiting"} /\ ~notified[v]
            => /\ v = "poll" /\ Latest > after => \E s \in Streams : reader[s].at = "notify"
               /\ finished # "yes"

OutputInv == OutputTypeOK /\ BudgetInv /\ EventsInv /\ PagesInv /\ WokenInv

LEMMA LeastNat ==
  ASSUME NEW T, T \subseteq Nat, T # {}
  PROVE  \E m \in T : \A n \in T : m <= n
<1> DEFINE Lt == {p \in Nat \X Nat : p[1] < p[2]}
<1>1. Lt = OpToRel(<, Nat)
  BY DEF OpToRel
<1>2. IsWellFoundedOn(Lt, Nat)
  BY <1>1, NatLessThanWellFounded
<1> HIDE DEF Lt
<1>3. PICK m \in T : \A n \in T : <<n, m>> \notin Lt
  BY <1>2, WFMin
<1>4. \A n \in T : ~(n < m)
  BY <1>3 DEF Lt
<1> QED BY <1>4

LEMMA BytesOfNone ==
  ASSUME NEW es, Len(es) = 0
  PROVE  Bytes(es) = 0
<1> DEFINE sum == CHOOSE f : f = [i \in 0 .. Len(es) |-> IF i = 0 THEN 0 ELSE f[i - 1] + es[i].size]
<1> DEFINE g == [i \in 0 .. Len(es) |-> 0]
<1>1. g = [i \in 0 .. Len(es) |-> IF i = 0 THEN 0 ELSE g[i - 1] + es[i].size]
  OBVIOUS
<1>2. sum = [i \in 0 .. Len(es) |-> IF i = 0 THEN 0 ELSE sum[i - 1] + es[i].size]
  BY <1>1
<1>3. sum[0] = 0
  BY <1>2
<1>4. Bytes(es) = sum[Len(es)]
  BY DEF Bytes
<1> QED BY <1>3, <1>4

LEMMA BytesOfOne ==
  ASSUME NEW es, Len(es) = 1, es[1].size \in Nat
  PROVE  Bytes(es) = es[1].size
<1> DEFINE SumUpTo(f) == [i \in 0 .. 1 |-> IF i = 0 THEN 0 ELSE f[i - 1] + es[i].size]
           g == [i \in 0 .. 1 |-> IF i = 0 THEN 0 ELSE es[1].size]
           sum == CHOOSE f : f = SumUpTo(f)
<1>1. g = SumUpTo(g)
  <2>1. \A i \in 0 .. 1 : i = 0 \/ i = 1
    OBVIOUS
  <2>2. g[0] = 0 /\ g[1] = es[1].size
    OBVIOUS
  <2>3. SumUpTo(g)[0] = 0 /\ SumUpTo(g)[1] = g[0] + es[1].size
    OBVIOUS
  <2>4. \A i \in 0 .. 1 : g[i] = SumUpTo(g)[i]
    BY <2>1, <2>2, <2>3
  <2> QED
    BY <2>4
<1>2. sum = SumUpTo(sum)
  BY <1>1
<1>3. Bytes(es) = sum[1]
  BY DEF Bytes
<1> HIDE DEF sum
<1>4. sum[0] = 0 /\ sum[1] = sum[0] + es[1].size
  BY <1>2
<1> QED BY <1>3, <1>4

LEMMA TrimKeepsTheNewest ==
  ASSUME NEW es \in Seq(EventRecord), Len(es) > 0, es[Len(es)].size <= MaxBuffer
  PROVE  \E d \in 0 .. Len(es) - 1 : Trimmed(es) = SubSeq(es, d + 1, Len(es))
<1> DEFINE Fits(d) == Bytes(SubSeq(es, d + 1, Len(es))) <= MaxBuffer
           Cut(d) == Fits(d) /\ (d > 0 => ~(Bytes(SubSeq(es, d, Len(es))) <= MaxBuffer))
           T == {d \in 0 .. Len(es) : Fits(d)}
           drop == CHOOSE d \in 0 .. Len(es) : Cut(d)
<1>0. Len(es) \in Nat \ {0}
  OBVIOUS
<1>1. Fits(Len(es))
  <2> DEFINE none == SubSeq(es, Len(es) + 1, Len(es))
  <2>1. Len(none) = 0
    BY <1>0
  <2> HIDE DEF none
  <2>2. Bytes(none) = 0
    BY <2>1, BytesOfNone
  <2> QED BY <2>2, OutputAssumption DEF none
<1>2. Bytes(SubSeq(es, Len(es), Len(es))) <= MaxBuffer
  <2> DEFINE last == SubSeq(es, Len(es), Len(es))
  <2>1. Len(last) = 1 /\ last[1] = es[Len(es)] /\ es[Len(es)] \in EventRecord
    BY <1>0
  <2>2. last[1].size \in Nat /\ last[1].size <= MaxBuffer
    BY <2>1 DEF EventRecord
  <2> HIDE DEF last
  <2>3. Bytes(last) <= MaxBuffer
    BY <2>1, <2>2, BytesOfOne
  <2> QED BY <2>3 DEF last
<1>3. PICK m \in T : \A d \in T : m <= d
  <2>1. T # {} /\ T \subseteq Nat
    BY <1>0, <1>1
  <2> HIDE DEF T
  <2> QED BY <2>1, LeastNat
<1>4. m \in 0 .. Len(es) /\ Cut(m)
  <2>1. ASSUME m > 0 PROVE ~Fits(m - 1)
    BY <1>0, <1>3, <2>1
  <2>2. m > 0 => (m - 1) + 1 = m
    BY <1>0, <1>3
  <2> QED BY <1>3, <2>1, <2>2
<1>5. drop \in 0 .. Len(es) /\ Cut(drop)
  <2> HIDE DEF Cut
  <2> QED BY <1>4
<1>6. drop # Len(es)
  BY <1>0, <1>2, <1>5
<1>7. Trimmed(es) = SubSeq(es, drop + 1, Len(es))
  BY DEF Trimmed
<1> HIDE DEF drop
<1> QED BY <1>0, <1>5, <1>6, <1>7

LEMMA PastIsTheRest ==
  ASSUME OutputTypeOK, EventsInv, after <= Latest
  PROVE  LET m == IF after <= Latest - Len(events) THEN Latest - Len(events) ELSE after
         IN  /\ m \in Nat /\ m <= Latest
             /\ Past \in Seq(EventRecord) /\ Len(Past) = Latest - m
             /\ \A i \in 1 .. Len(Past) : Past[i].seq = m + i
<1> DEFINE m == IF after <= Latest - Len(events) THEN Latest - Len(events) ELSE after
           gone == Latest - Len(events)
           Split(n) == /\ \A i \in 1 .. n : events[i].seq <= after
                       /\ \A i \in n + 1 .. Len(events) : events[i].seq > after
           seen == CHOOSE n \in 0 .. Len(events) : Split(n)
<1>0. /\ Len(events) \in Nat /\ Latest \in Nat /\ after \in Nat /\ gone \in Nat
      /\ \A i \in 1 .. Len(events) : events[i].seq = gone + i
  <2>1. Len(events) \in Nat /\ nextSeq \in Nat \ {0} /\ after \in Nat
    BY DEF OutputTypeOK
  <2>2. /\ Len(events) <= Latest
        /\ \A i \in 1 .. Len(events) : events[i].seq = Latest - Len(events) + i
    BY DEF EventsInv
  <2>3. Latest \in Nat
    BY <2>1 DEF Latest
  <2> QED BY <2>1, <2>2, <2>3
<1> HIDE DEF gone
<1>1. m - gone \in 0 .. Len(events) /\ Split(m - gone)
  <2>1. CASE after <= gone
    BY <1>0, <2>1 DEF gone
  <2>2. CASE ~(after <= gone)
    <3>1. m = after
      BY <2>2 DEF gone
    <3>2. after - gone \in 0 .. Len(events)
      <4>1. gone = Latest - Len(events)
        BY DEF gone
      <4>2. gone + Len(events) = Latest
        BY <1>0, <4>1
      <4>3. after <= gone + Len(events)
        BY <4>2
      <4> QED BY <1>0, <2>2, <4>3
    <3> HIDE DEF m
    <3>3. Split(after - gone)
      <4>1. ASSUME NEW i \in 1 .. after - gone
            PROVE  events[i].seq <= after
        <5>1. i \in 1 .. Len(events) /\ gone + i <= after
          BY <1>0, <3>2
        <5> QED BY <1>0, <5>1
      <4>2. ASSUME NEW i \in after - gone + 1 .. Len(events)
            PROVE  events[i].seq > after
        <5>1. i \in 1 .. Len(events) /\ gone + i > after
          BY <1>0, <3>2
        <5> QED BY <1>0, <5>1
      <4> QED BY <4>1, <4>2
    <3> QED BY <3>1, <3>2, <3>3
  <2> QED BY <2>1, <2>2
<1>2. seen \in 0 .. Len(events) /\ Split(seen)
  <2> HIDE DEF Split
  <2> QED BY <1>1
<1>3. Past = SubSeq(events, seen + 1, Len(events))
  BY DEF Past
<1> HIDE DEF seen
<1>4. seen = m - gone
  <2> DEFINE k == m - gone
  <2>1. k \in Nat /\ seen \in Nat /\ k <= Len(events) /\ seen <= Len(events)
    BY <1>0, <1>1, <1>2
  <2>2. Split(k)
    BY <1>1
  <2> HIDE DEF k, m
  <2>3. ASSUME seen < k PROVE FALSE
    <3>1. seen + 1 \in 1 .. k /\ seen + 1 \in seen + 1 .. Len(events)
      BY <2>1, <2>3
    <3>2. events[seen + 1].seq <= after /\ events[seen + 1].seq > after
      BY <1>2, <2>2, <3>1
    <3>3. events[seen + 1].seq = gone + (seen + 1)
      BY <1>0, <2>1, <3>1
    <3> QED BY <1>0, <2>1, <3>2, <3>3
  <2>4. ASSUME k < seen PROVE FALSE
    <3>1. k + 1 \in 1 .. seen /\ k + 1 \in k + 1 .. Len(events)
      BY <2>1, <2>4
    <3>2. events[k + 1].seq <= after /\ events[k + 1].seq > after
      BY <1>2, <2>2, <3>1
    <3>3. events[k + 1].seq = gone + (k + 1)
      BY <1>0, <2>1, <3>1
    <3> QED BY <1>0, <2>1, <3>2, <3>3
  <2> QED BY <2>1, <2>3, <2>4 DEF k
<1>5. events \in Seq(EventRecord)
  BY DEF OutputTypeOK
<1>6. /\ Past \in Seq(EventRecord) /\ Len(Past) = Len(events) - seen
      /\ \A i \in 1 .. Len(Past) : Past[i] = events[seen + i]
  BY <1>0, <1>2, <1>3, <1>5
<1>7. /\ m \in Nat /\ m <= Latest /\ Len(events) - seen = Latest - m
      /\ \A i \in 1 .. Len(Past) : seen + i \in 1 .. Len(events) /\ gone + (seen + i) = m + i
  <2>1. gone + Len(events) = Latest /\ gone + seen = m /\ m \in Nat /\ m <= Latest
    BY <1>0, <1>4 DEF gone
  <2>2. seen \in Nat /\ seen <= Len(events)
    BY <1>0, <1>2
  <2> HIDE DEF m
  <2>3. Len(events) - seen = Latest - m
    BY <1>0, <2>1, <2>2
  <2>4. ASSUME NEW i \in 1 .. Len(Past)
        PROVE  seen + i \in 1 .. Len(events) /\ gone + (seen + i) = m + i
    <3>1. i \in Int /\ 1 <= i /\ i <= Len(events) - seen
      BY <1>6, <2>2
    <3> QED BY <1>0, <2>1, <2>2, <3>1
  <2> QED BY <2>1, <2>3, <2>4
<1>8. \A i \in 1 .. Len(Past) : Past[i].seq = m + i
  BY <1>0, <1>6, <1>7
<1> QED
  BY <1>6, <1>7, <1>8

LEMMA PageIsAPrefix ==
  ASSUME Past \in Seq(EventRecord)
  PROVE  /\ Past = <<>> => Page = <<>>
         /\ Past # <<>> => \E n \in 1 .. Len(Past) : Page = SubSeq(Past, 1, n)
<1>1. CASE Past = <<>>
  BY <1>1 DEF Page
<1>2. CASE Past # <<>>
  <2> DEFINE Fits(n) == n = 1 \/ Bytes(SubSeq(Past, 1, n)) <= MaxPage
             fits == {n \in 1 .. Len(Past) : Fits(n)}
             most == CHOOSE n \in fits : \A k \in fits : k <= n
             T == {Len(Past) - n : n \in fits}
  <2>1. Len(Past) \in Nat \ {0} /\ 1 \in fits
    BY <1>2
  <2> HIDE DEF Fits
  <2>2. T # {} /\ T \subseteq Nat
    BY <2>1
  <2>3. PICK l \in T : \A k \in T : l <= k
    <3> HIDE DEF T
    <3> QED BY <2>2, LeastNat
  <2>4. PICK n \in fits : l = Len(Past) - n
    BY <2>3
  <2>5. \A k \in fits : k <= n
    <3>1. \A k \in fits : Len(Past) - k \in T /\ k \in 1 .. Len(Past)
      OBVIOUS
    <3>2. \A k \in fits : l <= Len(Past) - k
      BY <2>3, <3>1
    <3>3. n \in 1 .. Len(Past)
      BY <2>4, <3>1
    <3> HIDE DEF fits, T
    <3> QED BY <2>1, <2>4, <3>1, <3>2, <3>3
  <2>6. Page = SubSeq(Past, 1, most)
    BY <1>2 DEF Page, Fits
  <2>7. most \in fits
    <3> HIDE DEF fits
    <3> QED BY <2>4, <2>5
  <2> HIDE DEF most
  <2> QED BY <1>2, <2>6, <2>7
<1> QED BY <1>1, <1>2

LEMMA AnswerIsExact ==
  ASSUME OutputTypeOK, EventsInv, PagesInv, AnswerPoll
  PROVE  after' \in Nat /\ after <= after' /\ after' <= Latest /\ received' \cup excused' = 1 .. after'
<1> DEFINE m == IF after <= Latest - Len(events) THEN Latest - Len(events) ELSE after
<1>0. /\ Len(events) \in Nat /\ Latest \in Nat /\ after \in Nat /\ after <= Latest
      /\ Len(events) <= Latest /\ received \cup excused = 1 .. after
      /\ Latest > 0 => Len(events) > 0
  BY DEF OutputTypeOK, EventsInv, PagesInv, Latest
<1>1. /\ m \in Nat /\ m <= Latest
      /\ Past \in Seq(EventRecord) /\ Len(Past) = Latest - m
      /\ \A i \in 1 .. Len(Past) : Past[i].seq = m + i
  BY PastIsTheRest, <1>0
<1>2. FirstRetained = Latest - Len(events) + 1
  <2>1. nextSeq \in Nat /\ Latest = nextSeq - 1 /\ events \in Seq(EventRecord)
    BY DEF OutputTypeOK, Latest
  <2>2. \A i \in 1 .. Len(events) : events[i].seq = Latest - Len(events) + i
    BY DEF EventsInv
  <2>3. CASE events = <<>>
    <3>1. FirstRetained = nextSeq /\ Len(events) = 0
      BY <2>3 DEF FirstRetained
    <3> QED BY <1>0, <2>1, <3>1
  <2>4. CASE events # <<>>
    <3>1. FirstRetained = events[1].seq
      BY <2>4 DEF FirstRetained
    <3>2. 1 \in 1 .. Len(events)
      BY <1>0, <2>1, <2>4
    <3> QED BY <2>2, <3>1, <3>2
  <2> QED BY <2>3, <2>4
<1>3. excused' = excused \cup (after + 1 .. m)
  BY <1>0, <1>2 DEF AnswerPoll, FellBehind
<1>4. CASE Past = <<>>
  <2>1. m = Latest /\ after' = Latest /\ Page = <<>>
    BY <1>0, <1>1, <1>4, PageIsAPrefix DEF AnswerPoll, NextCursor
  <2>2. m = after
    BY <1>0, <2>1
  <2>3. Seqs(Page) = {}
    BY <2>1 DEF Seqs
  <2> QED
    BY <1>0, <1>3, <2>1, <2>2, <2>3 DEF AnswerPoll
<1>5. CASE Past # <<>>
  <2>1. PICK n \in 1 .. Len(Past) : Page = SubSeq(Past, 1, n)
    BY <1>1, <1>5, PageIsAPrefix
  <2>2. Len(Page) = n /\ Page # <<>> /\ \A i \in 1 .. n : Page[i].seq = m + i
    <3>1. Len(Page) = n /\ \A i \in 1 .. n : Page[i] = Past[i] /\ i \in 1 .. Len(Past)
      BY <1>1, <2>1
    <3>2. Page # <<>>
      BY <2>1, <3>1
    <3> QED BY <1>1, <3>1, <3>2
  <2>3. after' = m + n /\ m + n <= Latest
    BY <1>0, <1>1, <2>1, <2>2 DEF AnswerPoll, NextCursor
  <2>4. Seqs(Page) = m + 1 .. m + n
    <3>1. Seqs(Page) = {m + i : i \in 1 .. n}
      BY <2>2 DEF Seqs
    <3>2. \A x \in m + 1 .. m + n : x - m \in 1 .. n /\ x = m + (x - m)
      BY <1>1, <2>1
    <3>3. \A i \in 1 .. n : m + i \in m + 1 .. m + n
      BY <1>1, <2>1
    <3> HIDE DEF m
    <3> QED BY <3>1, <3>2, <3>3
  <2>5. received' \cup excused' = (1 .. after) \cup (after + 1 .. m) \cup (m + 1 .. m + n)
    BY <1>0, <1>3, <2>4 DEF AnswerPoll
  <2>6. after <= m /\ n \in Nat \ {0}
    BY <1>0, <1>1, <2>1
  <2> HIDE DEF m
  <2>7. (1 .. after) \cup (after + 1 .. m) \cup (m + 1 .. m + n) = 1 .. m + n
    BY <1>0, <1>1, <2>6
  <2>8. after' \in Nat /\ after <= after' /\ after' <= Latest
    BY <1>0, <1>1, <2>3, <2>6
  <2> QED
    BY <2>3, <2>5, <2>7, <2>8
<1> QED BY <1>4, <1>5

\* The newest event is always retained: an empty page means that there is
\* none the caller has not seen.
LEMMA NothingNewMeansCaughtUp ==
  ASSUME OutputTypeOK, EventsInv, PagesInv, Page = <<>>
  PROVE  Latest = after
<1> DEFINE m == IF after <= Latest - Len(events) THEN Latest - Len(events) ELSE after
<1>0. /\ Len(events) \in Nat /\ Latest \in Nat /\ after \in Nat /\ after <= Latest
      /\ Latest > 0 => Len(events) > 0
  BY DEF OutputTypeOK, EventsInv, PagesInv, Latest
<1>1. /\ m \in Nat /\ m <= Latest /\ Past \in Seq(EventRecord) /\ Len(Past) = Latest - m
  BY PastIsTheRest, <1>0
<1>2. Past = <<>>
  <2>1. ASSUME NEW n \in 1 .. Len(Past), Page = SubSeq(Past, 1, n) PROVE FALSE
    <3>1. Len(Page) = n
      BY <1>1, <2>1
    <3> QED BY <3>1
  <2> QED BY <1>1, <2>1, PageIsAPrefix
<1> QED BY <1>0, <1>1, <1>2

LEMMA OutputInitInv == OutputInit => OutputInv
<1> SUFFICES ASSUME OutputInit PROVE OutputInv
  OBVIOUS
<1>1. OutputTypeOK
  <2>1. PICK r \in ReaderRecord : r = [at |-> "read", size |-> 0, used |-> 0]
    BY DEF ReaderRecord, ReaderSteps
  <2>2. r.size = 0 /\ reader = [s \in Streams |-> r]
    BY <2>1 DEF OutputInit
  <2>3. \A s \in Streams : reader[s] = r
    BY <2>2
  <2>4. reader \in [Streams -> ReaderRecord] /\ \A s \in Streams : reader[s].size <= MaxBuffer
    BY <2>1, <2>2, <2>3, OutputAssumption
  <2>5. notified \in [Waiters -> BOOLEAN] /\ waiter \in [Waiters -> {"idle"}] /\ events \in Seq(EventRecord)
    BY DEF OutputInit
  <2>6. waiter \in [Waiters -> {"idle", "enabled", "deciding", "waiting", "answered"}]
    BY <2>5
  <2>7. produced \in [Streams -> Nat] /\ archived \in [Streams -> Nat] /\ archiveBytes \in Nat
    BY DEF OutputInit
  <2>8. archiveTruncated \in BOOLEAN /\ archiveError \in BOOLEAN
    BY DEF OutputInit
  <2>9. nextSeq \in Nat \ {0} /\ finished \in {"no", "silent", "yes"} /\ after \in Nat
    BY DEF OutputInit
  <2> QED BY <2>4, <2>5, <2>6, <2>7, <2>8, <2>9 DEF OutputTypeOK
<1>2. BudgetInv
  BY OutputAssumption DEF OutputInit, BudgetInv, Reserved, InFlight, Streams
<1>3. Latest = 0 /\ Len(events) = 0
  BY DEF OutputInit, Latest
<1>4. EventsInv /\ PagesInv
  BY <1>3 DEF OutputInit, EventsInv, PagesInv
<1>5. WokenInv
  BY DEF OutputInit, WokenInv
<1> QED BY <1>1, <1>2, <1>4, <1>5 DEF OutputInv

LEMMA ReaderGoes ==
  ASSUME OutputTypeOK, NEW s \in Streams, NEW a \in ReaderSteps,
         Moves(s, [reader[s] EXCEPT !.at = a])
  PROVE  /\ reader' \in [Streams -> ReaderRecord]
         /\ \A t \in Streams : reader'[t].size = reader[t].size
         /\ reader'[s].at = a
         /\ \A t \in Streams \ {s} : reader'[t] = reader[t]
BY DEF OutputTypeOK, Moves, ReaderRecord

LEMMA ReaderGoesWith ==
  ASSUME OutputTypeOK, NEW s \in Streams, NEW a \in ReaderSteps, NEW u \in Nat,
         Moves(s, [reader[s] EXCEPT !.at = a, !.used = u])
  PROVE  /\ reader' \in [Streams -> ReaderRecord]
         /\ \A t \in Streams : reader'[t].size = reader[t].size
         /\ reader'[s].at = a /\ reader'[s].used = u
         /\ \A t \in Streams \ {s} : reader'[t] = reader[t]
BY DEF OutputTypeOK, Moves, ReaderRecord

LEMMA ReadKeeps ==
  ASSUME OutputInv, NEW s \in Streams, NEW n \in Chunks, Read(s, n)
  PROVE  OutputInv'
<1> USE DEF OutputInv, Read, Moves, ReaderAt
<1>0. n \in Nat \ {0} /\ n <= MaxBuffer
  BY OutputAssumption
<1>r. /\ reader' \in [Streams -> ReaderRecord] /\ reader'[s] = [at |-> "load", size |-> n, used |-> 0]
      /\ \A t \in Streams : reader'[t].size <= MaxBuffer
      /\ \A t \in Streams \ {s} : reader'[t] = reader[t]
  BY <1>0 DEF OutputTypeOK, ReaderRecord, ReaderSteps
<1>1. OutputTypeOK'
  BY <1>0, <1>r DEF OutputTypeOK, archiveVars, waiterVars
<1>2. BudgetInv'
  <2>1. \A t \in Streams : Reserved(t)' = Reserved(t)
    BY <1>r DEF Reserved
  <2>2. archived["stdout"] + archived["stderr"] + Reserved("stdout")' + Reserved("stderr")' <= archiveBytes
    BY <2>1 DEF BudgetInv, Streams
  <2>3. ASSUME NEW t \in Streams, archived[t] + InFlight(t) = produced[t]
        PROVE  archived[t] + InFlight(t)' = produced'[t]
    <3>1. archived[t] \in Nat /\ produced[t] \in Nat
      BY DEF OutputTypeOK
    <3>2. CASE t = s
      <4>1. InFlight(t) = 0 /\ InFlight(t)' = n /\ produced'[t] = produced[t] + n
        BY <1>r, <3>2 DEF InFlight, OutputTypeOK
      <4> QED BY <1>0, <2>3, <3>1, <4>1
    <3>3. CASE t # s
      BY <1>r, <2>3, <3>3 DEF InFlight
    <3> QED BY <3>2, <3>3
  <2>4. finished = "no"
    BY DEF BudgetInv, ReadersJoined
  <2> QED
    BY <1>r, <2>2, <2>3, <2>4 DEF BudgetInv, archiveVars
<1>3. EventsInv'
  BY DEF EventsInv, Latest
<1>4. PagesInv'
  BY AnswerIsExact DEF PagesInv, Latest, waiterVars
<1>5. WokenInv'
  BY DEF waiterVars, WokenInv, Latest
<1> QED BY <1>1, <1>2, <1>3, <1>4, <1>5

LEMMA EndOfStreamKeeps ==
  ASSUME OutputInv, NEW s \in Streams, EndOfStream(s)
  PROVE  OutputInv'
<1> USE DEF OutputInv, EndOfStream, Moves, ReaderAt
<1>r. /\ reader' \in [Streams -> ReaderRecord] /\ reader'[s].at = "eof"
      /\ \A t \in Streams : reader'[t].size <= MaxBuffer
      /\ \A t \in Streams \ {s} : reader'[t] = reader[t]
  BY OutputAssumption DEF OutputTypeOK, ReaderRecord, ReaderSteps
<1>1. OutputTypeOK'
  BY <1>r DEF OutputTypeOK, archiveVars, waiterVars
<1>2. BudgetInv'
  BY <1>r DEF BudgetInv, Reserved, InFlight, ReadersJoined, archiveVars
<1>3. EventsInv'
  BY DEF EventsInv, Latest
<1>4. PagesInv'
  BY AnswerIsExact DEF PagesInv, Latest, waiterVars
<1>5. WokenInv'
  BY <1>r DEF WokenInv, waiterVars, Latest
<1> QED BY <1>1, <1>2, <1>3, <1>4, <1>5

LEMMA LoadUsageKeeps ==
  ASSUME OutputInv, NEW s \in Streams, LoadUsage(s)
  PROVE  OutputInv'
<1> USE DEF OutputInv, LoadUsage, Moves, ReaderAt
<1>r. /\ reader' \in [Streams -> ReaderRecord]
      /\ \A t \in Streams : reader'[t].size = reader[t].size
      /\ \A t \in Streams \ {s} : reader'[t] = reader[t]
      /\ \/ reader'[s].at = "record" /\ archiveTruncated' = TRUE
         \/ /\ reader'[s].at = "exchange" /\ reader'[s].used < MaxArchive
            /\ archiveTruncated' = archiveTruncated
  <2>1. CASE archiveBytes >= MaxArchive
    <3>1. /\ Moves(s, [reader[s] EXCEPT !.at = "record"]) /\ "record" \in ReaderSteps
          /\ archiveTruncated' = TRUE
      BY <2>1 DEF ReaderSteps
    <3> HIDE DEF LoadUsage, Moves
    <3> QED BY <3>1, ReaderGoes
  <2>2. CASE ~(archiveBytes >= MaxArchive)
    <3>1. Moves(s, [reader[s] EXCEPT !.at = "exchange", !.used = archiveBytes]) /\ "exchange" \in ReaderSteps
      BY <2>2 DEF ReaderSteps
    <3>2. archiveBytes \in Nat /\ archiveBytes < MaxArchive /\ archiveTruncated' = archiveTruncated
      BY <2>2, OutputAssumption DEF OutputTypeOK
    <3> HIDE DEF LoadUsage, Moves
    <3> QED BY <3>1, <3>2, ReaderGoesWith
  <2> QED BY <2>1, <2>2
<1>1. OutputTypeOK'
  BY <1>r DEF OutputTypeOK, waiterVars
<1>2. BudgetInv'
  <2>1. \A t \in Streams : Reserved(t)' = Reserved(t)
    BY <1>r DEF Reserved
  <2>2. archived["stdout"] + archived["stderr"] + Reserved("stdout")' + Reserved("stderr")' <= archiveBytes
    BY <2>1 DEF BudgetInv, Streams
  <2>3. archiveTruncated' \/ (~archiveTruncated /\ \A t \in Streams : InFlight(t)' = InFlight(t))
    BY <1>r DEF InFlight
  <2>4. finished = "no"
    BY DEF BudgetInv, ReadersJoined
  <2>5. \A t \in Streams : reader'[t].at = "write" => t # s
    BY <1>r
  <2> QED
    BY <1>r, <2>2, <2>3, <2>4, <2>5 DEF BudgetInv
<1>3. EventsInv'
  BY DEF EventsInv, Latest
<1>4. PagesInv'
  BY AnswerIsExact DEF PagesInv, Latest, waiterVars
<1>5. WokenInv'
  BY <1>r DEF WokenInv, Latest, waiterVars
<1> QED BY <1>1, <1>2, <1>3, <1>4, <1>5

LEMMA ReserveKeeps ==
  ASSUME OutputInv, NEW s \in Streams, Reserve(s)
  PROVE  OutputInv'
<1> USE DEF OutputInv, Reserve, Moves, ReaderAt
<1>0. /\ reader[s].used \in Nat /\ reader[s].size \in Nat /\ reader[s].used < MaxArchive
      /\ archiveBytes \in Nat /\ MaxArchive \in Nat
      /\ Allowed(s) \in Nat /\ Allowed(s) <= reader[s].size /\ Allowed(s) <= MaxArchive - reader[s].used
  <2>1. reader[s] \in ReaderRecord /\ reader[s].used < MaxArchive /\ archiveBytes \in Nat
    BY DEF OutputTypeOK, BudgetInv
  <2>2. reader[s].used \in Nat /\ reader[s].size \in Nat /\ MaxArchive \in Nat
    BY <2>1, OutputAssumption DEF ReaderRecord
  <2> QED BY <2>1, <2>2 DEF Allowed
<1>r. /\ reader' \in [Streams -> ReaderRecord]
      /\ \A t \in Streams : reader'[t].size = reader[t].size
      /\ \A t \in Streams \ {s} : reader'[t] = reader[t]
      /\ \/ Exchanged(s) /\ reader'[s].at = "write" /\ reader'[s].used = Allowed(s)
         \/ ~Exchanged(s) /\ reader'[s].at = "load" /\ reader'[s].used = 0
  <2>1. CASE Exchanged(s)
    <3>1. Moves(s, [reader[s] EXCEPT !.at = "write", !.used = Allowed(s)]) /\ "write" \in ReaderSteps
      BY <2>1 DEF ReaderSteps
    <3> HIDE DEF Reserve, Moves
    <3> QED BY <1>0, <2>1, <3>1, ReaderGoesWith
  <2>2. CASE ~Exchanged(s)
    <3>1. Moves(s, [reader[s] EXCEPT !.at = "load", !.used = 0]) /\ "load" \in ReaderSteps
      BY <2>2 DEF ReaderSteps
    <3> HIDE DEF Reserve, Moves
    <3> QED BY <2>2, <3>1, ReaderGoesWith
  <2> QED BY <2>1, <2>2
<1>b. /\ archiveTruncated' \in BOOLEAN
      /\ ~archiveTruncated' => ~archiveTruncated
      /\ ~archiveTruncated' /\ Exchanged(s) => Allowed(s) = reader[s].size
  <2>1. CASE Exchanged(s)
    <3>1. archiveTruncated' = (archiveTruncated \/ Allowed(s) < reader[s].size)
      BY <2>1
    <3>2. ~(Allowed(s) < reader[s].size) => Allowed(s) = reader[s].size
      BY <1>0
    <3> HIDE DEF Reserve
    <3> QED BY <2>1, <3>1, <3>2, Zenon
  <2>2. CASE ~Exchanged(s)
    BY <2>2 DEF OutputTypeOK
  <2> QED BY <2>1, <2>2
<1>c. /\ Exchanged(s) => archiveBytes = reader[s].used /\ archiveBytes' = archiveBytes + Allowed(s)
      /\ ~Exchanged(s) => archiveBytes' = archiveBytes
  BY DEF Exchanged
<1>1. OutputTypeOK'
  <2>1. UNCHANGED <<produced, archived, archiveError, events, nextSeq, finished, waiterVars>>
    OBVIOUS
  <2> HIDE DEF Reserve
  <2>2. archiveBytes' \in Nat
    BY <1>0, <1>c
  <2> QED BY <1>r, <1>b, <2>1, <2>2 DEF OutputTypeOK, waiterVars
<1>2. BudgetInv'
  <2>1. Reserved(s) = 0 /\ \A t \in Streams \ {s} : Reserved(t)' = Reserved(t)
    BY <1>r DEF Reserved
  <2>2. Reserved(s)' \in Nat /\ archiveBytes' = archiveBytes + Reserved(s)' /\ archiveBytes' <= MaxArchive
    BY <1>0, <1>r, <1>c DEF Reserved, BudgetInv
  <2>3. \A t \in Streams : InFlight(t)' = InFlight(t)
    BY <1>r DEF InFlight
  <2>4. \A t \in Streams : archived[t] \in Nat /\ Reserved(t) \in Nat
    BY DEF OutputTypeOK, Reserved, ReaderRecord
  <2>5. archived["stdout"] + archived["stderr"] + Reserved("stdout")' + Reserved("stderr")' <= archiveBytes'
    BY <1>0, <2>1, <2>2, <2>4 DEF BudgetInv, Streams
  <2>6. finished = "no"
    BY DEF BudgetInv, ReadersJoined
  <2>7. ASSUME NEW t \in Streams
        PROVE  /\ reader'[t].at = "exchange" => reader'[t].used < MaxArchive
               /\ reader'[t].at = "write" => reader'[t].used <= reader'[t].size
               /\ ~archiveTruncated' /\ ~archiveError /\ reader'[t].at = "write" => reader'[t].used = reader'[t].size
    BY <1>0, <1>r, <1>b DEF BudgetInv
  <2>8. ~archiveTruncated' /\ ~archiveError' => \A t \in Streams : archived'[t] + InFlight(t)' = produced'[t]
    BY <1>b, <2>3 DEF BudgetInv
  <2> QED
    BY <2>2, <2>5, <2>6, <2>7, <2>8 DEF BudgetInv
<1>3. EventsInv'
  BY DEF EventsInv, Latest
<1>4. PagesInv'
  BY AnswerIsExact DEF PagesInv, Latest, waiterVars
<1>5. WokenInv'
  BY <1>r DEF WokenInv, Latest, waiterVars
<1> QED BY <1>1, <1>2, <1>3, <1>4, <1>5

LEMMA WriteArchiveKeeps ==
  ASSUME OutputInv, NEW s \in Streams, WriteArchive(s)
  PROVE  OutputInv'
<1> USE DEF OutputInv, WriteArchive, Moves, ReaderAt
<1>r. /\ reader' \in [Streams -> ReaderRecord]
      /\ \A t \in Streams : reader'[t].size = reader[t].size
      /\ \A t \in Streams \ {s} : reader'[t] = reader[t]
      /\ reader'[s].at = "record"
  <2>1. Moves(s, [reader[s] EXCEPT !.at = "record", !.used = 0]) /\ "record" \in ReaderSteps
    BY DEF ReaderSteps
  <2> HIDE DEF WriteArchive, Moves
  <2> QED BY <2>1, ReaderGoesWith
<1>0. PICK n \in 0 .. reader[s].used :
           /\ archived' = [archived EXCEPT ![s] = @ + n]
           /\ archiveError' = (archiveError \/ n < reader[s].used)
  OBVIOUS
<1>u. n \in Nat /\ reader[s].used \in Nat /\ reader[s].size \in Nat /\ n <= reader[s].used
  BY DEF OutputTypeOK, ReaderRecord
<1>e. /\ archiveError' \in BOOLEAN
      /\ ~archiveError' => ~archiveError
      /\ ~archiveError' => n = reader[s].used
  <2> HIDE DEF WriteArchive
  <2>1. ~(n < reader[s].used) => n = reader[s].used
    BY <1>u
  <2> QED BY <1>0, <2>1
<1>1. OutputTypeOK'
  BY <1>0, <1>r, <1>u, <1>e DEF OutputTypeOK, waiterVars
<1>2. BudgetInv'
  <2>1. /\ Reserved(s) = reader[s].used /\ Reserved(s)' = 0
        /\ \A t \in Streams \ {s} : Reserved(t)' = Reserved(t) /\ archived'[t] = archived[t]
        /\ archived'[s] = archived[s] + n
    BY <1>0, <1>r DEF Reserved, OutputTypeOK
  <2>2. archiveBytes \in Nat /\ \A t \in Streams : archived[t] \in Nat /\ Reserved(t) \in Nat
    BY DEF OutputTypeOK, Reserved, ReaderRecord
  <2>3. archived'["stdout"] + archived'["stderr"] + Reserved("stdout")' + Reserved("stderr")' <= archiveBytes
    <3>1. archived["stdout"] + archived["stderr"] + Reserved("stdout") + Reserved("stderr") <= archiveBytes
      BY DEF BudgetInv
    <3> HIDE DEF WriteArchive, OutputInv
    <3>2. CASE s = "stdout"
      BY <1>u, <2>1, <2>2, <3>1, <3>2 DEF Streams
    <3>3. CASE s = "stderr"
      BY <1>u, <2>1, <2>2, <3>1, <3>3 DEF Streams
    <3> QED BY <3>2, <3>3 DEF Streams
  <2>4. /\ InFlight(s)' = 0 /\ InFlight(s) = reader[s].size
        /\ \A t \in Streams \ {s} : InFlight(t)' = InFlight(t)
    BY <1>r DEF InFlight
  <2>5. ASSUME ~archiveTruncated', ~archiveError'
        PROVE  \A t \in Streams : archived'[t] + InFlight(t)' = produced'[t]
    <3>1. ~archiveError /\ n = reader[s].used /\ ~archiveTruncated
      BY <1>e, <2>5
    <3>2. reader[s].used = reader[s].size /\ \A t \in Streams : archived[t] + InFlight(t) = produced[t]
      BY <3>1 DEF BudgetInv
    <3> QED BY <1>u, <2>1, <2>2, <2>4, <3>1, <3>2
  <2>6. finished = "no"
    BY DEF BudgetInv, ReadersJoined
  <2>7. ASSUME NEW t \in Streams
        PROVE  /\ reader'[t].at = "exchange" => reader'[t].used < MaxArchive
               /\ reader'[t].at = "write" => reader'[t].used <= reader'[t].size
               /\ ~archiveTruncated' /\ ~archiveError' /\ reader'[t].at = "write" => reader'[t].used = reader'[t].size
    BY <1>r, <1>e DEF BudgetInv
  <2> QED
    BY <2>3, <2>5, <2>6, <2>7 DEF BudgetInv
<1>3. EventsInv'
  BY DEF EventsInv, Latest
<1>4. PagesInv'
  BY AnswerIsExact DEF PagesInv, Latest, waiterVars
<1>5. WokenInv'
  BY <1>r DEF WokenInv, Latest, waiterVars
<1> QED BY <1>1, <1>2, <1>3, <1>4, <1>5

LEMMA RecordEventKeeps ==
  ASSUME OutputInv, NEW s \in Streams, RecordEvent(s)
  PROVE  OutputInv'
<1> USE DEF OutputInv, RecordEvent, Moves, ReaderAt
<1> DEFINE new == [seq |-> nextSeq, size |-> reader[s].size]
           es == Append(events, new)
<1>n. new \in EventRecord /\ events \in Seq(EventRecord) /\ new.size <= MaxBuffer /\ new.seq = nextSeq
  BY DEF OutputTypeOK, EventRecord, ReaderRecord
<1>t. events' = Trimmed(es)
  OBVIOUS
<1> HIDE DEF new
<1>0. /\ es \in Seq(EventRecord) /\ Len(es) = Len(events) + 1 /\ Len(events) \in Nat
      /\ es[Len(es)] = new
      /\ \A i \in 1 .. Len(events) : es[i] = events[i]
  BY <1>n
<1> HIDE DEF es
<1>d. PICK d \in 0 .. Len(es) - 1 : events' = SubSeq(es, d + 1, Len(es))
  <2>1. es[Len(es)].size <= MaxBuffer /\ Len(es) > 0
    BY <1>0, <1>n
  <2> QED BY <1>0, <1>t, <2>1, TrimKeepsTheNewest
<1>e. /\ events' \in Seq(EventRecord) /\ Len(events') = Len(es) - d
      /\ \A i \in 1 .. Len(events') : events'[i] = es[d + i]
  <2> HIDE DEF RecordEvent, OutputInv
  <2>1. d \in Nat /\ d + 1 \in 1 .. Len(es) /\ Len(es) \in Nat
    BY <1>0
  <2> QED BY <1>0, <1>d, <2>1
<1>r. /\ reader' \in [Streams -> ReaderRecord] /\ reader'[s].at = "notify"
      /\ \A t \in Streams : reader'[t].size <= MaxBuffer
      /\ \A t \in Streams \ {s} : reader'[t] = reader[t]
  BY OutputAssumption DEF OutputTypeOK, ReaderRecord, ReaderSteps
<1>1. OutputTypeOK'
  BY <1>e, <1>r DEF OutputTypeOK, archiveVars, waiterVars
<1>2. BudgetInv'
  BY <1>r DEF BudgetInv, Reserved, InFlight, ReadersJoined, archiveVars
<1>3. EventsInv'
  <2>1. Latest' = Latest + 1 /\ Latest \in Nat /\ nextSeq = Latest + 1
    BY DEF OutputTypeOK, Latest
  <2>2. Len(events) <= Latest /\ \A i \in 1 .. Len(events) : events[i].seq = Latest - Len(events) + i
    BY DEF EventsInv
  <2> HIDE DEF RecordEvent, OutputInv
  <2>3. \A i \in 1 .. Len(es) : es[i].seq = Latest - Len(events) + i
    <3>1. Len(events) + 1 \in Nat /\ Latest - Len(events) + (Len(events) + 1) = nextSeq
      BY <1>0, <2>1
    <3>2. es[Len(events) + 1].seq = nextSeq
      BY <1>0, <1>n
    <3>3. \A i \in 1 .. Len(events) : es[i].seq = Latest - Len(events) + i
      BY <1>0, <2>2
    <3>4. \A i \in 1 .. Len(es) : i \in 1 .. Len(events) \/ i = Len(events) + 1
      BY <1>0
    <3> QED BY <3>1, <3>2, <3>3, <3>4
  <2>4. \A i \in 1 .. Len(events') : d + i \in 1 .. Len(es)
    BY <1>0, <1>d, <1>e
  <2>5. \A i \in 1 .. Len(events') : events'[i].seq = Latest - Len(events) + (d + i)
    BY <1>e, <2>3, <2>4
  <2>6. d \in Nat /\ d <= Len(events) /\ Len(events') = Len(events) + 1 - d
    BY <1>0, <1>d, <1>e
  <2>7. Latest' - Len(events') = Latest - Len(events) + d
    BY <1>0, <2>1, <2>6
  <2>8. \A i \in 1 .. Len(events') : events'[i].seq = Latest' - Len(events') + i
    <3> SUFFICES ASSUME NEW i \in 1 .. Len(events')
                 PROVE  events'[i].seq = Latest' - Len(events') + i
      OBVIOUS
    <3>1. events'[i].seq = Latest - Len(events) + (d + i)
      BY <2>5
    <3>2. /\ i \in Int /\ d \in Int /\ Latest \in Int /\ Len(events) \in Int
          /\ Latest' \in Int /\ Len(events') \in Int
      BY <1>0, <2>1, <2>6
    <3> QED BY <2>7, <3>1, <3>2
  <2>9. Len(events') <= Latest' /\ Len(events') > 0
    BY <1>0, <1>d, <1>e, <2>1, <2>2, <2>6
  <2> QED BY <2>8, <2>9 DEF EventsInv
<1>4. PagesInv'
  BY AnswerIsExact DEF OutputTypeOK, PagesInv, Latest, waiterVars
<1>5. WokenInv'
  BY <1>r DEF WokenInv, waiterVars
<1> QED BY <1>1, <1>2, <1>3, <1>4, <1>5

LEMMA NotifyEventKeeps ==
  ASSUME OutputInv, NEW s \in Streams, NotifyEvent(s)
  PROVE  OutputInv'
<1> USE DEF OutputInv, NotifyEvent, Moves, ReaderAt
<1>r. /\ reader' \in [Streams -> ReaderRecord] /\ reader'[s].at = "read"
      /\ \A t \in Streams : reader'[t].size <= MaxBuffer
      /\ \A t \in Streams \ {s} : reader'[t] = reader[t]
  BY OutputAssumption DEF OutputTypeOK, ReaderRecord, ReaderSteps
<1>1. OutputTypeOK'
  BY <1>r DEF OutputTypeOK, archiveVars, NotifyWaiters
<1>2. BudgetInv'
  BY <1>r DEF BudgetInv, Reserved, InFlight, ReadersJoined, archiveVars
<1>3. EventsInv'
  BY DEF EventsInv, Latest
<1>4. PagesInv'
  BY AnswerIsExact DEF PagesInv, Latest, NotifyWaiters
<1>5. WokenInv'
  BY DEF WokenInv, NotifyWaiters
<1> QED BY <1>1, <1>2, <1>3, <1>4, <1>5

LEMMA FinishJobKeeps ==
  ASSUME OutputInv, FinishJob
  PROVE  OutputInv'
<1> USE DEF OutputInv, FinishJob, Moves, ReaderAt
<1>0. /\ archived' \in [Streams -> Nat] /\ \A t \in Streams : archived'[t] <= archived[t]
      /\ archiveError' \in BOOLEAN
      /\ ~archiveError' => ~archiveError /\ archived' = archived
  <2>1. archived \in [Streams -> Nat] /\ archiveError \in BOOLEAN
    BY DEF OutputTypeOK
  <2>2. CASE UNCHANGED <<archived, archiveError>>
    BY <2>1, <2>2
  <2>3. CASE \E s \in Streams, n \in 0 .. MaxArchive :
                 n < archived[s] /\ archived' = [archived EXCEPT ![s] = n] /\ archiveError' = TRUE
    <3>1. PICK s \in Streams, n \in 0 .. MaxArchive :
                 n < archived[s] /\ archived' = [archived EXCEPT ![s] = n] /\ archiveError' = TRUE
      BY <2>3
    <3> HIDE DEF FinishJob
    <3>2. \A t \in Streams : archived[t] \in Nat /\ archived'[t] \in Nat /\ archived'[t] <= archived[t]
      BY <2>1, <3>1
    <3> QED BY <2>1, <3>1, <3>2
  <2> QED BY <2>2, <2>3
<1>1. OutputTypeOK'
  BY <1>0 DEF OutputTypeOK, waiterVars
<1>2. BudgetInv'
  <2>1. \A t \in Streams : Reserved(t) = 0 /\ Reserved(t)' = 0 /\ InFlight(t)' = InFlight(t)
    BY DEF Reserved, InFlight, ReadersJoined
  <2>2. archived'["stdout"] + archived'["stderr"] + Reserved("stdout")' + Reserved("stderr")' <= archiveBytes
    BY <1>0, <2>1 DEF BudgetInv, OutputTypeOK, Streams
  <2> QED
    BY <1>0, <2>1, <2>2 DEF BudgetInv, ReadersJoined
<1>3. EventsInv'
  BY DEF EventsInv, Latest
<1>4. PagesInv'
  BY AnswerIsExact DEF PagesInv, Latest, waiterVars
<1>5. WokenInv'
  BY DEF waiterVars, WokenInv, Latest
<1> QED BY <1>1, <1>2, <1>3, <1>4, <1>5

LEMMA NotifyEndKeeps ==
  ASSUME OutputInv, NotifyEnd
  PROVE  OutputInv'
<1> USE DEF OutputInv, NotifyEnd, Moves, ReaderAt
<1>1. OutputTypeOK'
  BY AnswerIsExact DEF OutputTypeOK, archiveVars, NotifyWaiters
<1>2. BudgetInv'
  BY OutputAssumption DEF archiveVars, BudgetInv, Reserved, InFlight, ReadersJoined
<1>3. EventsInv'
  BY DEF EventsInv, Latest
<1>4. PagesInv'
  BY AnswerIsExact DEF PagesInv, Latest, NotifyWaiters
<1>5. WokenInv'
  BY DEF WokenInv, NotifyWaiters
<1> QED BY <1>1, <1>2, <1>3, <1>4, <1>5

LEMMA EnableWaitKeeps ==
  ASSUME OutputInv, NEW v \in Waiters, EnableWait(v)
  PROVE  OutputInv'
<1> USE DEF OutputInv, EnableWait, Moves, ReaderAt
<1>1. OutputTypeOK'
  BY AnswerIsExact DEF OutputTypeOK, archiveVars
<1>2. BudgetInv'
  BY OutputAssumption DEF archiveVars, BudgetInv, Reserved, InFlight, ReadersJoined
<1>3. EventsInv'
  BY DEF EventsInv, Latest
<1>4. PagesInv'
  BY AnswerIsExact DEF PagesInv, Latest
<1>5. WokenInv'
  BY DEF WokenInv, Latest
<1> QED BY <1>1, <1>2, <1>3, <1>4, <1>5

LEMMA PollLooksKeeps ==
  ASSUME OutputInv, PollLooks
  PROVE  OutputInv'
<1> USE DEF OutputInv, PollLooks, Moves, ReaderAt
<1>1. OutputTypeOK'
  BY AnswerIsExact DEF OutputTypeOK, archiveVars
<1>2. BudgetInv'
  BY OutputAssumption DEF archiveVars, BudgetInv, Reserved, InFlight, ReadersJoined
<1>3. EventsInv'
  BY DEF EventsInv, Latest
<1>4. PagesInv'
  BY AnswerIsExact DEF PagesInv, Latest
<1>5. WokenInv'
  <2>1. CASE waiter' = [waiter EXCEPT !["poll"] = "answered"]
    BY <2>1, AnswerIsExact DEF WokenInv
  <2>2. CASE /\ finished = "no" /\ Page = <<>>
             /\ waiter' = [waiter EXCEPT !["poll"] = "deciding"]
             /\ UNCHANGED <<after, received, excused>>
    <3>1. Latest = after
      BY <2>2, NothingNewMeansCaughtUp
    <3> QED
      BY <2>2, <3>1 DEF OutputTypeOK, WokenInv, Latest
  <2> QED BY <2>1, <2>2
<1> QED BY <1>1, <1>2, <1>3, <1>4, <1>5

LEMMA SleepKeeps ==
  ASSUME OutputInv, NEW v \in Waiters, Sleep(v)
  PROVE  OutputInv'
<1> USE DEF OutputInv, Sleep, Moves, ReaderAt
<1>1. OutputTypeOK'
  BY AnswerIsExact DEF OutputTypeOK, archiveVars
<1>2. BudgetInv'
  BY OutputAssumption DEF archiveVars, BudgetInv, Reserved, InFlight, ReadersJoined
<1>3. EventsInv'
  BY DEF EventsInv, Latest
<1>4. PagesInv'
  BY AnswerIsExact DEF PagesInv, Latest
<1>5. WokenInv'
  BY DEF WokenInv, Latest
<1> QED BY <1>1, <1>2, <1>3, <1>4, <1>5

LEMMA PollReturnsKeeps ==
  ASSUME OutputInv, PollReturns
  PROVE  OutputInv'
<1> USE DEF OutputInv, PollReturns, Moves, ReaderAt
<1>1. OutputTypeOK'
  BY AnswerIsExact DEF OutputTypeOK, archiveVars
<1>2. BudgetInv'
  BY OutputAssumption DEF archiveVars, BudgetInv, Reserved, InFlight, ReadersJoined
<1>3. EventsInv'
  BY DEF EventsInv, Latest
<1>4. PagesInv'
  BY AnswerIsExact DEF PagesInv, Latest
<1>5. WokenInv'
  BY DEF OutputTypeOK, WokenInv
<1> QED BY <1>1, <1>2, <1>3, <1>4, <1>5

LEMMA CancelLooksKeeps ==
  ASSUME OutputInv, CancelLooks
  PROVE  OutputInv'
<1> USE DEF OutputInv, CancelLooks, Moves, ReaderAt
<1>1. OutputTypeOK'
  BY AnswerIsExact DEF OutputTypeOK, archiveVars
<1>2. BudgetInv'
  BY OutputAssumption DEF archiveVars, BudgetInv, Reserved, InFlight, ReadersJoined
<1>3. EventsInv'
  BY DEF EventsInv, Latest
<1>4. PagesInv'
  BY AnswerIsExact DEF PagesInv, Latest
<1>5. WokenInv'
  BY DEF WokenInv, Latest
<1> QED BY <1>1, <1>2, <1>3, <1>4, <1>5

LEMMA CancelLoopsKeeps ==
  ASSUME OutputInv, CancelLoops
  PROVE  OutputInv'
<1> USE DEF OutputInv, CancelLoops, Moves, ReaderAt
<1>1. OutputTypeOK'
  BY AnswerIsExact DEF OutputTypeOK, archiveVars
<1>2. BudgetInv'
  BY OutputAssumption DEF archiveVars, BudgetInv, Reserved, InFlight, ReadersJoined
<1>3. EventsInv'
  BY DEF EventsInv, Latest
<1>4. PagesInv'
  BY AnswerIsExact DEF PagesInv, Latest
<1>5. WokenInv'
  BY DEF OutputTypeOK, WokenInv, Latest
<1> QED BY <1>1, <1>2, <1>3, <1>4, <1>5

LEMMA CancelDeadlineKeeps ==
  ASSUME OutputInv, CancelDeadline
  PROVE  OutputInv'
<1> USE DEF OutputInv, CancelDeadline, Moves, ReaderAt
<1>1. OutputTypeOK'
  BY AnswerIsExact DEF OutputTypeOK, archiveVars
<1>2. BudgetInv'
  BY OutputAssumption DEF archiveVars, BudgetInv, Reserved, InFlight, ReadersJoined
<1>3. EventsInv'
  BY DEF EventsInv, Latest
<1>4. PagesInv'
  BY AnswerIsExact DEF PagesInv, Latest
<1>5. WokenInv'
  BY DEF WokenInv, Latest
<1> QED BY <1>1, <1>2, <1>3, <1>4, <1>5

LEMMA OutputStep == OutputInv /\ [OutputNext]_outputVars => OutputInv'
<1> SUFFICES ASSUME OutputInv, [OutputNext]_outputVars PROVE OutputInv'
  OBVIOUS
<1>1. CASE UNCHANGED outputVars
  BY <1>1 DEF outputVars, OutputInv, OutputTypeOK, BudgetInv, EventsInv, PagesInv, WokenInv,
     Reserved, InFlight, ReadersJoined, ReaderAt, Latest
<1>2. CASE OutputNext
  BY <1>2, ReadKeeps, EndOfStreamKeeps, LoadUsageKeeps, ReserveKeeps, WriteArchiveKeeps,
     RecordEventKeeps, NotifyEventKeeps, FinishJobKeeps, NotifyEndKeeps, EnableWaitKeeps,
     PollLooksKeeps, SleepKeeps, PollReturnsKeeps, CancelLooksKeeps, CancelLoopsKeeps,
     CancelDeadlineKeeps DEF OutputNext
<1> QED
  BY <1>1, <1>2

THEOREM OutputInvariant == OutputSpec => []OutputInv
  BY OutputInitInv, OutputStep, PTL DEF OutputSpec

\* However the two readers, the job's end and the callers interleave: an
\* archive with nothing declared missing is complete, the budget holds, and a
\* caller that follows its cursor gets every event or hears that it missed it.
THEOREM NothingPrintedIsLost == OutputSpec => []OutputIsComplete
<1>1. OutputInv => OutputIsComplete
  <2> SUFFICES ASSUME OutputInv PROVE OutputIsComplete
    OBVIOUS
  <2> USE DEF OutputInv
  <2>1. \A s \in Streams : archived[s] \in Nat /\ Reserved(s) \in Nat
    BY DEF OutputTypeOK, Reserved, ReaderRecord
  <2>2. archived["stdout"] + archived["stderr"] <= MaxArchive
    BY <2>1, OutputAssumption DEF BudgetInv, OutputTypeOK, Streams
  <2>3. ASSUME finished # "no", ~archiveTruncated, ~archiveError PROVE archived = produced
    <3>1. \A s \in Streams : InFlight(s) = 0 /\ archived[s] + InFlight(s) = produced[s]
      BY <2>3 DEF BudgetInv, ReadersJoined, ReaderAt, InFlight
    <3>2. archived \in [Streams -> Nat] /\ produced \in [Streams -> Nat]
      BY DEF OutputTypeOK
    <3>3. \A s \in Streams : archived[s] = produced[s]
      BY <3>1, <3>2
    <3> QED BY <3>2, <3>3
  <2>4. PollMissesNothing
    BY DEF PagesInv, PollMissesNothing, SawEverything
  <2> QED BY <2>2, <2>3, <2>4 DEF OutputIsComplete, ArchiveIsExact
<1> QED
  BY <1>1, OutputInvariant, PTL

LEMMA PollerAlwaysWoken == OutputSpec => []PollerIsWoken
<1>1. OutputInv => PollerIsWoken
  BY DEF OutputInv, WokenInv, PollerIsWoken, ReaderAt
<1> QED
  BY <1>1, OutputInvariant, PTL

(***************************************************************************)
(* All three.                                                              *)
(***************************************************************************)
\* Nobody who waits for a command (command_jobs.rs), for the updates of a
\* worker family (workers/broker.rs) or for the requests of a workspace
\* (workspaces.rs) sleeps through what would wake it.
THEOREM NoWakeupIsLost == OutputSpec /\ CollectSpec /\ LeasesSpec => []NoLostWakeup
  BY PollerAlwaysWoken, CollectorAlwaysWoken, DrainAlwaysWoken, PTL DEF NoLostWakeup

-----------------------------------------------------------------------------
(***************************************************************************)
(* The manager of background commands (CommandJobs).                       *)
(***************************************************************************)
\* Where its task stands tells what is left of a job's processes.
TaskShape(r) ==
    /\ r.state = "running" <=> r.task # "done"
    /\ r.root => r.group = "open"
    /\ r.task \in {"new", "spawning"} => ~r.root /\ r.group = "none" /\ ~r.holder
    /\ r.task = "joining" => ~r.root /\ r.group = "none"
    /\ r.task = "done" => ~r.root /\ r.group = "none" /\ ~r.holder

\* A key leads to a job of the key's own workspace.
KeysStayHome ==
    \A wk \in Workspaces \X Keys :
        requestJobs[wk] # NoJob => job[requestJobs[wk]].workspace = wk[1]

\* The inductive invariant.
JobsInv ==
    /\ JobsTypeOK
    /\ KeysStayHome
    /\ \A j \in Jobs : Started(j) => TaskShape(job[j])
    /\ RunningIsRegistered
    /\ StoppedJobsAreSignalled

LEMMA UnusedIsNoRecord == /\ Unused \notin JobRecord
                          /\ \A r \in JobRecord : r.state # "unused"
BY DEF Unused, JobRecord, Ends

LEMMA StartedIsRecord ==
  ASSUME JobsTypeOK, NEW j \in Jobs
  PROVE  Started(j) <=> job[j] \in JobRecord
BY UnusedIsNoRecord DEF JobsTypeOK, Started, Unused

LEMMA FinishedAtType ==
  Cardinality({i \in Jobs : Started(i) /\ ~Running(i)}) + 1 \in Nat
<1>1. IsFiniteSet({i \in Jobs : Started(i) /\ ~Running(i)})
  BY FS_Subset, JobsAssumption DEF JobsAssumption
<1> QED
  BY <1>1, FS_CardinalityType

LEMMA InitInv == JobsInit => JobsInv
<1> SUFFICES ASSUME JobsInit PROVE JobsInv
  OBVIOUS
<1>1. \A j \in Jobs : ~Started(j)
  BY DEF JobsInit, Started, Unused
<1>2. JobsTypeOK
  BY <1>1 DEF JobsInit, JobsTypeOK
<1> QED
  BY <1>1, <1>2 DEF JobsInit, JobsInv, KeysStayHome, RunningIsRegistered, StoppedJobsAreSignalled

(***************************************************************************)
(* One job changes: its task's steps and its processes'.                   *)
(***************************************************************************)
LEMMA OneJob ==
  ASSUME JobsInv, NEW j \in Jobs, Started(j), NEW r \in JobRecord, Becomes(j, r),
         TaskShape(r),
         r.workspace = job[j].workspace,
         job[j].cancelled => r.cancelled,
         r.state = "running" => Running(j)
  PROVE  JobsInv'
<1>1. /\ job \in [Jobs -> JobRecord \cup {Unused}]
      /\ job' = [job EXCEPT ![j] = r]
      /\ UNCHANGED <<registered, requestJobs, closing, removal, shuttingDown, stopping>>
  BY DEF JobsInv, JobsTypeOK, Becomes
<1>2. job' \in [Jobs -> JobRecord \cup {Unused}]
  BY <1>1
<1>3. job'[j] = r /\ \A i \in Jobs \ {j} : job'[i] = job[i]
  BY <1>1
<1>4. \A i \in Jobs : Started(i)' <=> Started(i)
  BY <1>3, UnusedIsNoRecord DEF Started
<1>5. JobsTypeOK'
  BY <1>1, <1>2, <1>4 DEF JobsInv, JobsTypeOK
<1>6. \A i \in Jobs : Started(i)' => TaskShape(job'[i])
  BY <1>3, <1>4 DEF JobsInv
<1>7. RunningIsRegistered'
  BY <1>1, <1>3, <1>4 DEF JobsInv, RunningIsRegistered, Running
<1>8. StoppedJobsAreSignalled'
  <2> SUFFICES ASSUME NEW i \in registered', Running(i)',
                      (shuttingDown \/ removal[job[i].workspace] = "winding")'
               PROVE  job'[i].cancelled
    BY DEF StoppedJobsAreSignalled
  <2>1. i \in registered /\ i \in Jobs
    BY <1>1 DEF JobsInv, JobsTypeOK
  <2>2. Running(i) /\ job'[i].workspace = job[i].workspace
    BY <1>3, <2>1 DEF Running
  <2>3. job[i].cancelled
    BY <1>1, <2>1, <2>2 DEF JobsInv, StoppedJobsAreSignalled
  <2> QED BY <1>3, <2>1, <2>3
<1>9. KeysStayHome'
  <2> SUFFICES ASSUME NEW wk \in Workspaces \X Keys, requestJobs'[wk] # NoJob
               PROVE  job'[requestJobs'[wk]].workspace = wk[1]
    BY DEF KeysStayHome
  <2>1. requestJobs[wk] \in Jobs /\ job[requestJobs[wk]].workspace = wk[1]
    BY <1>1 DEF JobsInv, JobsTypeOK, KeysStayHome
  <2> QED BY <1>1, <1>3, <2>1
<1> QED
  BY <1>5, <1>6, <1>7, <1>8, <1>9 DEF JobsInv

\* An action on a record keeps its type: the steps of one task.
LEMMA FinishInv ==
  ASSUME JobsInv, NEW j \in Jobs, Started(j), NEW end \in Ends, Finish(j, end),
         ~job[j].root, job[j].group = "none", ~job[j].holder
  PROVE  JobsInv'
<1>1. PICK r : r = job[j] /\ r \in JobRecord
  BY StartedIsRecord DEF JobsInv
<1>2. CASE Running(j)
  <2>1. PICK n : n = Cardinality({i \in Jobs : Started(i) /\ ~Running(i)}) + 1 /\ n \in Nat
    BY FinishedAtType
  <2>2. PICK d : d = [r EXCEPT !.state = end, !.task = "done", !.ends = end, !.finishedAt = n]
    OBVIOUS
  <2>3. d = [workspace |-> r.workspace, command |-> r.command, state |-> end,
             cancelled |-> r.cancelled, task |-> "done", ends |-> end, finishedAt |-> n,
             root |-> r.root, group |-> r.group, holder |-> r.holder]
    BY <1>1, <2>2 DEF JobRecord
  <2>4. d \in JobRecord /\ TaskShape(d) /\ d.state # "running"
    BY <1>1, <2>1, <2>3 DEF JobRecord, TaskShape, Ends
  <2>5. Becomes(j, d)
    BY <1>1, <1>2, <2>1, <2>2 DEF Finish
  <2>6. d.workspace = job[j].workspace /\ d.cancelled = job[j].cancelled
    BY <1>1, <2>3
  <2> QED BY <2>4, <2>5, <2>6, OneJob
<1>3. CASE ~Running(j)
  <2>1. r.task = "done"
    BY <1>1, <1>3 DEF JobsInv, TaskShape, Running, JobRecord
  <2>2. PICK d : d = [r EXCEPT !.task = "done"]
    OBVIOUS
  <2>3. d = r
    BY <1>1, <2>1, <2>2 DEF JobRecord
  <2>4. Becomes(j, d)
    BY <1>1, <1>3, <2>2 DEF Finish
  <2>5. TaskShape(r)
    BY <1>1 DEF JobsInv
  <2>6. r.state = "running" => Running(j)
    BY <1>1 DEF Running
  <2> QED BY <1>1, <2>3, <2>4, <2>5, <2>6, OneJob
<1> QED
  BY <1>2, <1>3

LEMMA TaskInv == ASSUME JobsInv, NEW j \in Jobs, TaskStep(j) PROVE JobsInv'
<1>0. Started(j)
  BY DEF TaskStep, TaskAt, CancelledBeforeSpawn, SpawnBegins, SpawnFails, Spawned,
         SelectExit, SelectCancel, SelectTimeout, Join
<1>1. PICK r : r = job[j] /\ r \in JobRecord
  BY <1>0, StartedIsRecord DEF JobsInv
<1>2. TaskShape(r)
  BY <1>0, <1>1 DEF JobsInv
<1>3. CASE CancelledBeforeSpawn(j)
  BY <1>0, <1>1, <1>2, <1>3, FinishInv DEF CancelledBeforeSpawn, TaskAt, TaskShape, Ends
<1>4. CASE SpawnFails(j)
  BY <1>0, <1>1, <1>2, <1>4, FinishInv DEF SpawnFails, TaskAt, TaskShape, Ends
<1>5. CASE Join(j)
  <2>1. r.ends \in Ends
    BY <1>1 DEF JobRecord
  <2>2. ~r.root /\ r.group = "none" /\ ~r.holder
    BY <1>1, <1>2, <1>5 DEF Join, TaskAt, TaskShape, PipesClosed
  <2> QED BY <1>0, <1>1, <1>5, <2>1, <2>2, FinishInv DEF Join
<1>6. CASE SpawnBegins(j)
  <2>1. PICK d : d = [r EXCEPT !.task = "spawning"]
    OBVIOUS
  <2>2. d = [workspace |-> r.workspace, command |-> r.command, state |-> r.state,
             cancelled |-> r.cancelled, task |-> "spawning", ends |-> r.ends,
             finishedAt |-> r.finishedAt, root |-> r.root, group |-> r.group,
             holder |-> r.holder]
    BY <1>1, <2>1 DEF JobRecord
  <2>3. r.task = "new"
    BY <1>1, <1>6 DEF SpawnBegins, TaskAt
  <2>4. d \in JobRecord /\ TaskShape(d)
    BY <1>1, <1>2, <2>2, <2>3 DEF JobRecord, TaskShape
  <2>5. Becomes(j, d)
    BY <1>1, <1>6, <2>1 DEF SpawnBegins
  <2>6. d.workspace = job[j].workspace /\ d.cancelled = job[j].cancelled /\ d.state = job[j].state
    BY <1>1, <2>2
  <2> QED BY <1>0, <2>4, <2>5, <2>6, OneJob DEF Running
<1>7. CASE Spawned(j)
  <2>1. PICK d : d = [r EXCEPT !.task = "selecting", !.root = TRUE, !.group = "open"]
    OBVIOUS
  <2>2. d = [workspace |-> r.workspace, command |-> r.command, state |-> r.state,
             cancelled |-> r.cancelled, task |-> "selecting", ends |-> r.ends,
             finishedAt |-> r.finishedAt, root |-> TRUE, group |-> "open",
             holder |-> r.holder]
    BY <1>1, <2>1 DEF JobRecord
  <2>3. r.task = "spawning"
    BY <1>1, <1>7 DEF Spawned, TaskAt
  <2>4. d \in JobRecord /\ TaskShape(d)
    BY <1>1, <1>2, <2>2, <2>3 DEF JobRecord, TaskShape
  <2>5. Becomes(j, d)
    BY <1>1, <1>7, <2>1 DEF Spawned
  <2>6. d.workspace = job[j].workspace /\ d.cancelled = job[j].cancelled /\ d.state = job[j].state
    BY <1>1, <2>2
  <2> QED BY <1>0, <2>4, <2>5, <2>6, OneJob DEF Running
<1>8. ASSUME NEW end \in Ends, TaskAt(j, "selecting"), Selected(j, end) PROVE JobsInv'
  <2>1. PICK k : k = AfterKill(r)
    OBVIOUS
  <2>2. PICK d : d = [k EXCEPT !.task = "joining", !.ends = end]
    OBVIOUS
  <2>3. k = [workspace |-> r.workspace, command |-> r.command, state |-> r.state,
             cancelled |-> r.cancelled, task |-> r.task, ends |-> r.ends,
             finishedAt |-> r.finishedAt, root |-> FALSE, group |-> "none",
             holder |-> r.holder]
    BY <1>1, <2>1 DEF JobRecord, AfterKill
  <2>4. d = [workspace |-> r.workspace, command |-> r.command, state |-> r.state,
             cancelled |-> r.cancelled, task |-> "joining", ends |-> end,
             finishedAt |-> r.finishedAt, root |-> FALSE, group |-> "none",
             holder |-> r.holder]
    BY <2>2, <2>3
  <2>5. r.task = "selecting"
    BY <1>1, <1>8 DEF TaskAt
  <2>6. d \in JobRecord /\ TaskShape(d)
    BY <1>1, <1>2, <1>8, <2>4, <2>5 DEF JobRecord, TaskShape
  <2>7. Becomes(j, d)
    BY <1>1, <1>8, <2>1, <2>2 DEF Selected
  <2>8. d.workspace = job[j].workspace /\ d.cancelled = job[j].cancelled /\ d.state = job[j].state
    BY <1>1, <2>4
  <2> QED BY <1>0, <2>6, <2>7, <2>8, OneJob DEF Running
<1>9. CASE SelectExit(j) \/ SelectCancel(j) \/ SelectTimeout(j)
  BY <1>8, <1>9 DEF SelectExit, SelectCancel, SelectTimeout, Ends
<1> QED
  BY <1>3, <1>4, <1>5, <1>6, <1>7, <1>9 DEF TaskStep

\* What a command's processes do changes neither its state nor its place.
LEMMA ProcessInv ==
  ASSUME JobsInv, NEW j \in Jobs, NEW children \in {"none", "quiet", "open"},
         RootExits(j, children) \/ Detaches(j) \/ HolderEnds(j)
  PROVE  JobsInv'
<1>0. Started(j)
  BY DEF RootExits, Detaches, HolderEnds
<1>1. PICK r : r = job[j] /\ r \in JobRecord
  BY <1>0, StartedIsRecord DEF JobsInv
<1>2. TaskShape(r)
  BY <1>0, <1>1 DEF JobsInv
<1>3. CASE RootExits(j, children)
  <2>1. PICK d : d = [r EXCEPT !.root = FALSE, !.group = children]
    OBVIOUS
  <2>2. d = [workspace |-> r.workspace, command |-> r.command, state |-> r.state,
             cancelled |-> r.cancelled, task |-> r.task, ends |-> r.ends,
             finishedAt |-> r.finishedAt, root |-> FALSE, group |-> children,
             holder |-> r.holder]
    BY <1>1, <2>1 DEF JobRecord
  <2>3. d \in JobRecord /\ TaskShape(d)
    BY <1>1, <1>2, <1>3, <2>2 DEF JobRecord, TaskShape, RootExits
  <2>4. Becomes(j, d)
    BY <1>1, <1>3, <2>1 DEF RootExits
  <2>5. d.workspace = job[j].workspace /\ d.cancelled = job[j].cancelled /\ d.state = job[j].state
    BY <1>1, <2>2
  <2> QED BY <1>0, <2>3, <2>4, <2>5, OneJob DEF Running
<1>4. ASSUME NEW h \in BOOLEAN, r.group = "open" \/ ~h, Becomes(j, [r EXCEPT !.holder = h])
      PROVE  JobsInv'
  <2>1. PICK d : d = [r EXCEPT !.holder = h]
    OBVIOUS
  <2>2. d = [workspace |-> r.workspace, command |-> r.command, state |-> r.state,
             cancelled |-> r.cancelled, task |-> r.task, ends |-> r.ends,
             finishedAt |-> r.finishedAt, root |-> r.root, group |-> r.group,
             holder |-> h]
    BY <1>1, <2>1 DEF JobRecord
  <2>3. d \in JobRecord /\ TaskShape(d)
    BY <1>1, <1>2, <1>4, <2>2 DEF JobRecord, TaskShape
  <2>4. Becomes(j, d)
    BY <1>4, <2>1
  <2>5. d.workspace = job[j].workspace /\ d.cancelled = job[j].cancelled /\ d.state = job[j].state
    BY <1>1, <2>2
  <2> QED BY <1>0, <2>3, <2>4, <2>5, OneJob DEF Running
<1>5. CASE Detaches(j)
  BY <1>1, <1>4, <1>5 DEF Detaches
<1>6. CASE HolderEnds(j)
  BY <1>1, <1>4, <1>6 DEF HolderEnds
<1> QED
  BY <1>3, <1>5, <1>6

(***************************************************************************)
(* The manager.                                                            *)
(***************************************************************************)

\* A cleanup takes ended jobs only, and the keys that pointed at them.
LEMMA CleanupKeepsRunning ==
  ASSUME JobsTypeOK, NEW E \in CleanupOutcomes
  PROVE  /\ E \subseteq registered
         /\ \A j \in E : ~Running(j)
         /\ KeysWithout(E) \in [Workspaces \X Keys -> (registered \ E) \cup {NoJob}]
<1>1. E \subseteq registered /\ \A j \in E : ~Running(j)
  BY DEF CleanupOutcomes, Evictions
<1>2. \A j \in registered : j \in Jobs
  BY DEF JobsTypeOK
<1>3. KeysWithout(E) \in [Workspaces \X Keys -> (registered \ E) \cup {NoJob}]
  BY <1>1 DEF JobsTypeOK, KeysWithout
<1> QED
  BY <1>1, <1>3

LEMMA ListInv == JobsInv /\ List => JobsInv'
<1> SUFFICES ASSUME JobsInv, List PROVE JobsInv'
  OBVIOUS
<1>1. PICK E \in CleanupOutcomes : Evict(E)
  BY DEF List, CleanupOutcomes
<1>2. UNCHANGED <<job, closing, removal, shuttingDown, stopping>>
  BY DEF List
<1>3. E \subseteq registered /\ \A j \in E : ~Running(j)
  BY CleanupKeepsRunning DEF JobsInv
<1>4. KeysWithout(E) \in [Workspaces \X Keys -> (registered \ E) \cup {NoJob}]
  BY CleanupKeepsRunning DEF JobsInv
<1>5. JobsTypeOK'
  BY <1>1, <1>2, <1>4 DEF JobsInv, JobsTypeOK, Evict, Started
<1>6. \A j \in Jobs : Started(j)' => TaskShape(job'[j])
  BY <1>2 DEF JobsInv, Started
<1>7. RunningIsRegistered'
  BY <1>1, <1>2, <1>3 DEF JobsInv, RunningIsRegistered, Running, Started, Evict
<1>8. StoppedJobsAreSignalled'
  BY <1>1, <1>2 DEF JobsInv, StoppedJobsAreSignalled, Running, Evict
<1>9. KeysStayHome'
  BY <1>1, <1>2 DEF JobsInv, KeysStayHome, Evict, KeysWithout
<1> QED
  BY <1>5, <1>6, <1>7, <1>8, <1>9 DEF JobsInv

LEMMA StartInv ==
  ASSUME JobsInv, NEW w \in Workspaces, NEW k \in Keys \cup {NoRequest}, NEW c \in Commands,
         NEW d \in BOOLEAN, Start(w, k, c, d)
  PROVE  JobsInv'
<1>1. PICK E \in CleanupOutcomes, j \in FreshId :
        /\ Admits(w, k, c, d, E)
        /\ job' = [job EXCEPT ![j] =
                     [workspace |-> w, command |-> c, state |-> "running",
                      cancelled |-> FALSE, task |-> "new", ends |-> "exited",
                      finishedAt |-> 0, root |-> FALSE, group |-> "none", holder |-> FALSE]]
        /\ registered' = (registered \ E) \cup {j}
        /\ requestJobs' = IF k \in Keys
                          THEN [KeysWithout(E) EXCEPT ![<<w, k>>] = j]
                          ELSE KeysWithout(E)
        /\ UNCHANGED <<closing, removal, shuttingDown, stopping>>
  BY DEF Start
<1>2. j \in Jobs /\ ~Started(j)
  BY DEF FreshId
<1>3. E \subseteq registered /\ \A i \in E : ~Running(i)
  BY CleanupKeepsRunning DEF JobsInv
<1>4. KeysWithout(E) \in [Workspaces \X Keys -> (registered \ E) \cup {NoJob}]
  BY CleanupKeepsRunning DEF JobsInv
<1>5. job \in [Jobs -> JobRecord \cup {Unused}]
  BY DEF JobsInv, JobsTypeOK
<1>6. PICK r : r = [workspace |-> w, command |-> c, state |-> "running",
                    cancelled |-> FALSE, task |-> "new", ends |-> "exited",
                    finishedAt |-> 0, root |-> FALSE, group |-> "none", holder |-> FALSE]
  OBVIOUS
<1>7. r \in JobRecord /\ TaskShape(r)
  BY <1>6 DEF JobRecord, Ends, TaskShape
<1>8. job' = [job EXCEPT ![j] = r]
  BY <1>1, <1>6
<1>9. job'[j] = r /\ \A i \in Jobs \ {j} : job'[i] = job[i]
  BY <1>2, <1>5, <1>8
<1>10. \A i \in Jobs : Started(i)' <=> (Started(i) \/ i = j)
  BY <1>2, <1>7, <1>9, UnusedIsNoRecord DEF Started
<1>11. JobsTypeOK'
  <2>1. job' \in [Jobs -> JobRecord \cup {Unused}]
    BY <1>5, <1>7, <1>8
  <2>2. registered' \subseteq {i \in Jobs : Started(i)'}
    BY <1>1, <1>2, <1>10 DEF JobsInv, JobsTypeOK
  <2>3. requestJobs' \in [Workspaces \X Keys -> registered' \cup {NoJob}]
    <3>1. CASE k \in Keys
      BY <1>1, <1>4, <3>1
    <3>2. CASE k \notin Keys
      BY <1>1, <1>4, <3>2
    <3> QED BY <3>1, <3>2
  <2> QED BY <1>1, <2>1, <2>2, <2>3 DEF JobsInv, JobsTypeOK, Started
<1>12. \A i \in Jobs : Started(i)' => TaskShape(job'[i])
  BY <1>7, <1>9, <1>10 DEF JobsInv
<1>13. RunningIsRegistered'
  BY <1>1, <1>3, <1>9, <1>10 DEF JobsInv, RunningIsRegistered, Running
<1>14. StoppedJobsAreSignalled'
  <2> SUFFICES ASSUME NEW i \in registered', Running(i)',
                      (shuttingDown \/ removal[job[i].workspace] = "winding")'
               PROVE  job'[i].cancelled
    BY DEF StoppedJobsAreSignalled
  <2>1. ~shuttingDown /\ removal[w] = "none"
    BY <1>1 DEF Admits, Refused, JobsInv, JobsTypeOK
  <2>2. i # j
    BY <1>1, <1>6, <1>9, <2>1
  <2>3. i \in registered /\ i \in Jobs
    BY <1>1, <2>2 DEF JobsInv, JobsTypeOK
  <2>4. job'[i] = job[i]
    BY <1>9, <2>2, <2>3
  <2> QED BY <1>1, <2>3, <2>4 DEF JobsInv, StoppedJobsAreSignalled, Running
<1>15. KeysStayHome'
  <2> SUFFICES ASSUME NEW wk \in Workspaces \X Keys, requestJobs'[wk] # NoJob
               PROVE  job'[requestJobs'[wk]].workspace = wk[1]
    BY DEF KeysStayHome
  <2>1. CASE k \in Keys /\ wk = <<w, k>>
    <3>1. requestJobs'[wk] = j
      BY <1>1, <1>4, <2>1
    <3> QED BY <1>6, <1>9, <2>1, <3>1
  <2>2. CASE ~(k \in Keys /\ wk = <<w, k>>)
    <3>1. requestJobs'[wk] = KeysWithout(E)[wk]
      BY <1>1, <1>4, <2>2
    <3>2. requestJobs'[wk] = requestJobs[wk]
      BY <3>1 DEF KeysWithout
    <3>3. requestJobs[wk] \in registered /\ requestJobs[wk] \in Jobs /\ Started(requestJobs[wk])
      BY <3>2 DEF JobsInv, JobsTypeOK
    <3>4. job'[requestJobs[wk]] = job[requestJobs[wk]]
      BY <1>2, <1>9, <3>3
    <3> QED BY <3>2, <3>4 DEF JobsInv, KeysStayHome
  <2> QED BY <2>1, <2>2
<1> QED
  BY <1>11, <1>12, <1>13, <1>14, <1>15 DEF JobsInv

\* Signalling jobs changes nothing but their signal.
LEMMA SignalledJobs ==
  ASSUME JobsInv, NEW js, job' = Signalled(js)
  PROVE  /\ job' \in [Jobs -> JobRecord \cup {Unused}]
         /\ \A j \in Jobs :
              /\ Started(j)' <=> Started(j)
              /\ job'[j].state = job[j].state
              /\ Started(j)' => TaskShape(job'[j])
              /\ Started(j) /\ job[j].cancelled => job'[j].cancelled
              /\ j \in js /\ Started(j) /\ Running(j) => job'[j].cancelled
              /\ Started(j) => job'[j].workspace = job[j].workspace
<1>1. job \in [Jobs -> JobRecord \cup {Unused}]
  BY DEF JobsInv, JobsTypeOK
<1>2. ASSUME NEW j \in Jobs
      PROVE  /\ job'[j] \in JobRecord \cup {Unused}
             /\ Started(j)' <=> Started(j)
             /\ job'[j].state = job[j].state
             /\ Started(j)' => TaskShape(job'[j])
             /\ Started(j) /\ job[j].cancelled => job'[j].cancelled
             /\ j \in js /\ Started(j) /\ Running(j) => job'[j].cancelled
             /\ Started(j) => job'[j].workspace = job[j].workspace
  <2>1. CASE j \in js /\ Running(j)
    <3>1. PICK r : r = job[j]
      OBVIOUS
    <3>2. r \in JobRecord /\ Started(j) /\ TaskShape(r)
      BY <1>1, <2>1, <3>1 DEF JobsInv, Running, Started, Unused
    <3>3. PICK d : d = [r EXCEPT !.cancelled = TRUE]
      OBVIOUS
    <3>4. d = [workspace |-> r.workspace, command |-> r.command, state |-> r.state,
               cancelled |-> TRUE, task |-> r.task, ends |-> r.ends,
               finishedAt |-> r.finishedAt, root |-> r.root, group |-> r.group,
               holder |-> r.holder]
      BY <3>2, <3>3 DEF JobRecord
    <3>5. job'[j] = d
      BY <2>1, <3>1, <3>3 DEF Signalled
    <3>6. d \in JobRecord /\ TaskShape(d)
      BY <3>2, <3>4 DEF JobRecord, TaskShape
    <3> QED BY <3>1, <3>2, <3>4, <3>5, <3>6 DEF Started
  <2>2. CASE ~(j \in js /\ Running(j))
    <3>1. job'[j] = job[j]
      BY <2>2 DEF Signalled
    <3> QED BY <1>1, <2>2, <3>1 DEF Started, JobsInv
  <2> QED BY <2>1, <2>2
<1>3. job' = [j \in Jobs |-> job'[j]]
  BY DEF Signalled
<1> QED
  BY <1>2, <1>3

LEMMA SignalInv ==
  ASSUME JobsInv, NEW js, job' = Signalled(js), UNCHANGED <<registered, requestJobs>>,
         /\ closing' = {w \in Workspaces : removal'[w] # "none"}
         /\ removal' \in [Workspaces -> {"none", "begun", "winding"}]
         /\ shuttingDown' \in BOOLEAN /\ stopping' \in BOOLEAN
         /\ stopping' => shuttingDown',
         shuttingDown' => shuttingDown \/ registered \subseteq js,
         \A w \in Workspaces :
             removal'[w] = "winding" => removal[w] = "winding" \/ Owned(w) \subseteq js
  PROVE  JobsInv'
<1>1. /\ job' \in [Jobs -> JobRecord \cup {Unused}]
      /\ \A j \in Jobs :
           /\ Started(j)' <=> Started(j)
           /\ job'[j].state = job[j].state
           /\ Started(j)' => TaskShape(job'[j])
           /\ Started(j) /\ job[j].cancelled => job'[j].cancelled
           /\ j \in js /\ Started(j) /\ Running(j) => job'[j].cancelled
           /\ Started(j) => job'[j].workspace = job[j].workspace
  BY SignalledJobs
<1>2. JobsTypeOK'
  BY <1>1 DEF JobsInv, JobsTypeOK
<1>3. RunningIsRegistered'
  BY <1>1 DEF JobsInv, RunningIsRegistered, Running
<1>4. StoppedJobsAreSignalled'
  <2> SUFFICES ASSUME NEW i \in registered', Running(i)',
                      (shuttingDown \/ removal[job[i].workspace] = "winding")'
               PROVE  job'[i].cancelled
    BY DEF StoppedJobsAreSignalled
  <2>1. i \in registered /\ i \in Jobs /\ Started(i) /\ Running(i)
    BY <1>1 DEF JobsInv, JobsTypeOK, Running
  <2>2. job[i].workspace \in Workspaces /\ i \in Owned(job[i].workspace)
    BY <2>1, StartedIsRecord DEF JobsInv, JobRecord, Owned
  <2>3. job'[i].workspace = job[i].workspace
    BY <1>1, <2>1
  <2> QED BY <1>1, <2>1, <2>2, <2>3 DEF JobsInv, StoppedJobsAreSignalled
<1>5. KeysStayHome'
  <2> SUFFICES ASSUME NEW wk \in Workspaces \X Keys, requestJobs'[wk] # NoJob
               PROVE  job'[requestJobs'[wk]].workspace = wk[1]
    BY DEF KeysStayHome
  <2>1. requestJobs[wk] \in Jobs /\ Started(requestJobs[wk])
    BY DEF JobsInv, JobsTypeOK
  <2> QED BY <1>1, <2>1 DEF JobsInv, KeysStayHome
<1> QED
  BY <1>1, <1>2, <1>3, <1>4, <1>5 DEF JobsInv

\* The removal of a workspace, up to the purge.
LEMMA RemovalInv ==
  ASSUME JobsInv, NEW w \in Workspaces,
         BeginRemoval(w) \/ AbortRemoval(w) \/ CancelWorkspace(w) \/ FinalizeTimesOut(w)
  PROVE  JobsInv'
<1>1. /\ closing = {v \in Workspaces : removal[v] # "none"}
      /\ removal \in [Workspaces -> {"none", "begun", "winding"}]
      /\ shuttingDown \in BOOLEAN /\ stopping \in BOOLEAN
      /\ stopping => shuttingDown
  BY DEF JobsInv, JobsTypeOK
<1>2. job = Signalled({})
  BY DEF Signalled, JobsInv, JobsTypeOK
<1>3. CASE BeginRemoval(w)
  <2>1. job' = Signalled({})
    BY <1>2, <1>3 DEF BeginRemoval
  <2> QED BY <1>1, <1>3, <2>1, SignalInv DEF BeginRemoval
<1>4. CASE AbortRemoval(w)
  <2>1. job' = Signalled({})
    BY <1>2, <1>4 DEF AbortRemoval
  <2> QED BY <1>1, <1>4, <2>1, SignalInv DEF AbortRemoval
<1>5. CASE CancelWorkspace(w)
  BY <1>1, <1>5, SignalInv DEF CancelWorkspace
<1>6. CASE FinalizeTimesOut(w)
  <2>1. job' = Signalled({})
    BY <1>2, <1>6 DEF FinalizeTimesOut
  <2> QED BY <1>1, <1>6, <2>1, SignalInv DEF FinalizeTimesOut
<1> QED
  BY <1>3, <1>4, <1>5, <1>6

LEMMA ShutdownInv == ASSUME JobsInv, CancelAll \/ CancelAllReturns PROVE JobsInv'
<1>1. /\ closing = {v \in Workspaces : removal[v] # "none"}
      /\ removal \in [Workspaces -> {"none", "begun", "winding"}]
      /\ shuttingDown \in BOOLEAN /\ stopping \in BOOLEAN
      /\ stopping => shuttingDown
  BY DEF JobsInv, JobsTypeOK
<1>2. CASE CancelAll
  BY <1>1, <1>2, SignalInv DEF CancelAll
<1>3. CASE CancelAllReturns
  <2>1. job' = Signalled({})
    BY <1>3 DEF Signalled, JobsInv, JobsTypeOK, CancelAllReturns
  <2> QED BY <1>1, <1>3, <2>1, SignalInv DEF CancelAllReturns
<1> QED
  BY <1>2, <1>3

LEMMA PurgeInv == ASSUME JobsInv, NEW w \in Workspaces, PurgeJobs(w) PROVE JobsInv'
<1>1. /\ UNCHANGED <<job, shuttingDown, stopping>>
      /\ registered' = registered \ Owned(w)
      /\ Active(w) = {}
      /\ requestJobs' = [wk \in Workspaces \X Keys |->
                            IF wk[1] = w THEN NoJob ELSE requestJobs[wk]]
      /\ closing' = closing \ {w}
      /\ removal' = [removal EXCEPT ![w] = "none"]
  BY DEF PurgeJobs
<1>2. requestJobs' \in [Workspaces \X Keys -> registered' \cup {NoJob}]
  <2> SUFFICES ASSUME NEW wk \in Workspaces \X Keys, wk[1] # w, requestJobs[wk] # NoJob
               PROVE  requestJobs[wk] \in registered'
    BY <1>1
  <2>1. requestJobs[wk] \in registered /\ job[requestJobs[wk]].workspace = wk[1]
    BY DEF JobsInv, JobsTypeOK, KeysStayHome
  <2> QED BY <1>1, <2>1 DEF Owned
<1>3. JobsTypeOK'
  <2>1. /\ registered' \subseteq {j \in Jobs : Started(j)'}
        /\ closing' = {v \in Workspaces : removal'[v] # "none"}
        /\ removal' \in [Workspaces -> {"none", "begun", "winding"}]
    BY <1>1 DEF JobsInv, JobsTypeOK, Started
  <2> QED BY <1>1, <1>2, <2>1 DEF JobsInv, JobsTypeOK
<1>4. KeysStayHome'
  BY <1>1 DEF JobsInv, KeysStayHome
<1>5. \A j \in Jobs : Started(j)' => TaskShape(job'[j])
  BY <1>1 DEF JobsInv, Started
<1>6. RunningIsRegistered'
  BY <1>1 DEF JobsInv, RunningIsRegistered, Running, Started, Active
<1>7. StoppedJobsAreSignalled'
  <2> SUFFICES ASSUME NEW i \in registered', Running(i)',
                      (shuttingDown \/ removal[job[i].workspace] = "winding")'
               PROVE  job'[i].cancelled
    BY DEF StoppedJobsAreSignalled
  <2>1. i \in registered /\ job[i].workspace # w
    BY <1>1 DEF Owned
  <2>2. i \in Jobs /\ job[i].workspace \in Workspaces
    BY <2>1, StartedIsRecord DEF JobsInv, JobsTypeOK, JobRecord
  <2>3. shuttingDown \/ removal[job[i].workspace] = "winding"
    BY <1>1, <2>1, <2>2 DEF JobsInv, JobsTypeOK
  <2> QED BY <1>1, <2>1, <2>3 DEF JobsInv, StoppedJobsAreSignalled, Running
<1> QED
  BY <1>3, <1>4, <1>5, <1>6, <1>7 DEF JobsInv

LEMMA WindowInv ==
  ASSUME JobsInv, NEW w \in Workspaces, NEW k \in Keys, WindowCloses(w, k)
  PROVE  JobsInv'
<1>1. JobsTypeOK' /\ KeysStayHome'
  BY DEF JobsInv, JobsTypeOK, KeysStayHome, WindowCloses, Started
<1> QED
  BY <1>1 DEF JobsInv, WindowCloses, RunningIsRegistered, StoppedJobsAreSignalled, Running, Started

(***************************************************************************)
(* The theorems.                                                           *)
(***************************************************************************)

LEMMA StepInv == JobsInv /\ [JobsNext]_jobsVars => JobsInv'
<1> SUFFICES ASSUME JobsInv, [JobsNext]_jobsVars PROVE JobsInv'
  OBVIOUS
<1>1. CASE UNCHANGED jobsVars
  BY <1>1 DEF jobsVars, JobsInv, JobsTypeOK, KeysStayHome, RunningIsRegistered,
              StoppedJobsAreSignalled, Running, Started
<1>2. CASE List
  BY <1>2, ListInv
<1>3. ASSUME NEW w \in Workspaces, NEW k \in Keys \cup {NoRequest}, NEW c \in Commands,
             NEW d \in BOOLEAN, Start(w, k, c, d)
      PROVE  JobsInv'
  BY <1>3, StartInv
<1>4. ASSUME NEW w \in Workspaces, NEW k \in Keys, WindowCloses(w, k) PROVE JobsInv'
  BY <1>4, WindowInv
<1>5. ASSUME NEW j \in Jobs, Cancel(j) PROVE JobsInv'
  BY <1>5, SignalInv DEF Cancel, JobsInv, JobsTypeOK
<1>6. ASSUME NEW j \in Jobs, TaskStep(j) PROVE JobsInv'
  BY <1>6, TaskInv
<1>7. ASSUME NEW j \in Jobs, NEW children \in {"none", "quiet", "open"},
             RootExits(j, children) \/ Detaches(j) \/ HolderEnds(j)
      PROVE  JobsInv'
  BY <1>7, ProcessInv
<1>8. ASSUME NEW w \in Workspaces, PurgeJobs(w) PROVE JobsInv'
  BY <1>8, PurgeInv
<1>9. ASSUME NEW w \in Workspaces,
             BeginRemoval(w) \/ AbortRemoval(w) \/ CancelWorkspace(w) \/ FinalizeTimesOut(w)
      PROVE  JobsInv'
  BY <1>9, RemovalInv
<1>10. CASE CancelAll \/ CancelAllReturns
  BY <1>10, ShutdownInv
<1> QED
  BY <1>1, <1>2, <1>3, <1>4, <1>5, <1>6, <1>7, <1>8, <1>9, <1>10 DEF JobsNext

\* The inductive invariant holds in every reachable state.
THEOREM JobsInvariant == JobsSpec => []JobsInv
BY InitInv, StepInv, PTL DEF JobsSpec

\* Every variable keeps its type; requestJobs leads only to retained jobs.
THEOREM JobsTyping == JobsSpec => []JobsTypeOK
<1>1. JobsInv => JobsTypeOK
  BY DEF JobsInv
<1> QED BY <1>1, JobsInvariant, PTL

\* No cleanup, purge or removal drops a job that still runs, and none slips
\* past the signal of a shutdown or of its workspace's removal.
THEOREM JobsNeverEscape == JobsSpec => []NoJobEscapes
<1>1. JobsInv => NoJobEscapes
  BY DEF JobsInv, NoJobEscapes
<1> QED BY <1>1, JobsInvariant, PTL

\* A job reported as ended has left no process and no open pipe.
THEOREM EndedLeavesNothing == JobsSpec => []EndedIsGone
<1>1. JobsInv => EndedIsGone
  BY DEF JobsInv, EndedIsGone, TaskShape, Running
<1> QED BY <1>1, JobsInvariant, PTL

\* While a key's window is open and its job retained, the key starts no other.
THEOREM KeyStartsOnce == JobsSpec => KeyStartsOneJob
<1>1. ASSUME JobsInv, [JobsNext]_jobsVars, NEW wk \in Workspaces \X Keys,
             requestJobs[wk] \in registered'
      PROVE  requestJobs'[wk] \in {requestJobs[wk], NoJob}
  <2>1. requestJobs \in [Workspaces \X Keys -> registered \cup {NoJob}]
    BY <1>1 DEF JobsInv, JobsTypeOK
  <2>2. CASE UNCHANGED jobsVars
    BY <2>2 DEF jobsVars
  <2>3. CASE List
    BY <2>3 DEF List, Evict, KeysWithout
  <2>4. ASSUME NEW w \in Workspaces, NEW k \in Keys \cup {NoRequest}, NEW c \in Commands,
               NEW d \in BOOLEAN, Start(w, k, c, d)
        PROVE  requestJobs'[wk] \in {requestJobs[wk], NoJob}
    <3>1. PICK E \in CleanupOutcomes, j \in FreshId :
            /\ Admits(w, k, c, d, E)
            /\ registered' = (registered \ E) \cup {j}
            /\ requestJobs' = IF k \in Keys
                              THEN [KeysWithout(E) EXCEPT ![<<w, k>>] = j]
                              ELSE KeysWithout(E)
      BY <2>4 DEF Start
    <3>2. j \in Jobs /\ ~Started(j)
      BY DEF FreshId
    <3>3. requestJobs[wk] \notin E
      BY <1>1, <3>1, <3>2, CleanupKeepsRunning DEF JobsInv, JobsTypeOK
    <3>4. requestJobs[wk] # NoJob
      BY <1>1, <3>1, <3>2, JobsAssumption DEF JobsInv, JobsTypeOK, JobsAssumption
    <3>5. KeysWithout(E)[wk] = requestJobs[wk]
      BY <3>3 DEF KeysWithout
    <3>6. ~(k \in Keys /\ wk = <<w, k>>)
      BY <3>1, <3>4, <3>5 DEF Admits
    <3>7. requestJobs'[wk] = KeysWithout(E)[wk]
      BY <3>1, <3>6 DEF KeysWithout
    <3> QED BY <3>5, <3>7
  <2>5. ASSUME NEW w \in Workspaces, NEW k \in Keys, WindowCloses(w, k)
        PROVE  requestJobs'[wk] \in {requestJobs[wk], NoJob}
    BY <2>1, <2>5 DEF WindowCloses
  <2>6. ASSUME NEW w \in Workspaces, PurgeJobs(w)
        PROVE  requestJobs'[wk] \in {requestJobs[wk], NoJob}
    BY <2>6 DEF PurgeJobs
  <2>7. CASE UNCHANGED requestJobs
    BY <2>7
  <2>8. ASSUME NEW j \in Jobs, TaskStep(j) \/ Cancel(j) \/ Detaches(j) \/ HolderEnds(j)
                 \/ \E children \in {"none", "quiet", "open"} : RootExits(j, children)
        PROVE  UNCHANGED requestJobs
    BY <2>8 DEF TaskStep, CancelledBeforeSpawn, SpawnBegins, SpawnFails, Spawned, SelectExit,
         SelectCancel, SelectTimeout, Join, Finish, Selected, Becomes, Cancel, Detaches,
         HolderEnds, RootExits
  <2>9. ASSUME NEW w \in Workspaces,
               BeginRemoval(w) \/ AbortRemoval(w) \/ CancelWorkspace(w) \/ FinalizeTimesOut(w)
        PROVE  UNCHANGED requestJobs
    BY <2>9 DEF BeginRemoval, AbortRemoval, CancelWorkspace, FinalizeTimesOut
  <2>10. CASE CancelAll \/ CancelAllReturns
    BY <2>10 DEF CancelAll, CancelAllReturns
  <2> QED
    BY <1>1, <2>2, <2>3, <2>4, <2>5, <2>6, <2>7, <2>8, <2>9, <2>10 DEF JobsNext
<1>2. JobsInv /\ [JobsNext]_jobsVars =>
        \A wk \in Workspaces \X Keys :
          requestJobs[wk] \in registered' => requestJobs'[wk] \in {requestJobs[wk], NoJob}
  BY <1>1
<1> QED BY <1>2, JobsInvariant, PTL DEF JobsSpec, KeyStartsOneJob

-----------------------------------------------------------------------------
(***************************************************************************)
(* The isolated browser (BrowserRouting).                                  *)
(***************************************************************************)
Someone == Chats \cup {"nobody"}

BrowserPage == [is : {"unopened", "open", "closed"}, by : Someone, owner : Someone,
                during : Someone, late : BOOLEAN]

RoutingTyping ==
    /\ tabs \in [Tabs -> BrowserPage]
    /\ turn = [at |-> turn.at, chat |-> turn.chat, command |-> turn.command,
               page |-> turn.page, before |-> turn.before]
    /\ turn.chat \in Someone
    /\ recording \in BOOLEAN /\ traceKnown \in BOOLEAN

\* A page that is open is some chat's work, and past the gate a call has a chat.
EveryoneNamed ==
    /\ \A t \in Open : tabs[t].by \in Chats
    /\ ~At({"free", "entered"}) => turn.chat \in Chats
    /\ \A late \in afloat : late[2] \in Chats

\* What a call may claim opened during the call.
ClaimsAreOwn == Waits => \A t \in Open \ turn.before : tabs[t].during = turn.chat

\* A page is that chat's or its unclaimed work, or a dropped call's unclaimed.
SeenBy(t) == WorkOf(t) = traceLease.chat \/ (tabs[t].late /\ tabs[t].owner = "nobody")

NoStartAfloat == \A late \in afloat : late[1] # "start"
Traced        == traceLease.chat # "nobody"

\* Without a lease Chromium neither records nor will; a lease keeps the other
\* chats out, and goes only when the recording ended.
LeaseGuards ==
    /\ ~Traced => ~recording /\ ~traceKnown /\ NoStartAfloat
    /\ traceKnown => NoStartAfloat
    /\ Traced => \A t \in Open : SeenBy(t)
    /\ Traced => \/ turn.chat \in {"nobody", traceLease.chat}
                 \/ At({"ending", "ended", "closing"}) /\ Does({"release"})
    /\ At({"start", "begun"}) => NoStartAfloat /\ traceLease.chat = turn.chat
    /\ At({"start"}) => ~recording /\ ~traceKnown
    /\ At({"ended"}) => ~recording /\ traceKnown
    /\ At({"closing"}) /\ traceLease.chat \in Mates(turn.chat) =>
           ~recording /\ ~traceKnown /\ NoStartAfloat

RoutingInv ==
    /\ RoutingTyping
    /\ EveryoneNamed
    /\ OwnPagesOnly
    /\ ClaimsAreOwn
    /\ transport = "alive" => LeaseGuards
    /\ transport # "alive" => ~recording /\ afloat = {}

(***************************************************************************)
(* How the pages change.                                                   *)
(***************************************************************************)
\* What is open was open, for the same chat and in the same call, and only the
\* call that has the mutex gets pages, unless it is ending a trace or a workspace.
MayClaim == turn.chat \in Chats /\ ~At({"ending", "ended", "closing"})

PagesKept ==
    \A t \in Open' : /\ t \in Open
                     /\ tabs'[t].by = tabs[t].by
                     /\ tabs'[t].during = tabs[t].during
                     /\ \/ /\ tabs'[t].owner = tabs[t].owner
                           /\ tabs'[t].late = tabs[t].late
                        \/ /\ tabs[t].owner = "nobody" /\ tabs'[t].owner = turn.chat
                           /\ MayClaim

TabsKept == tabs' \in [Tabs -> BrowserPage] /\ PagesKept /\ OwnPagesOnly'

\* No page is open that was not, and owners keep to their own
\* (reconcile_pages): what is claimed opened while the chat was to claim it.
LEMMA ReconcilesPages ==
    ASSUME RoutingTyping, EveryoneNamed, OwnPagesOnly,
           NEW c \in Chats, NEW claims, NEW was, turn.chat = c, MayClaim,
           \A t \in claims \cap Open : tabs[t].during = c,
           Reconciles(c, claims, was)
    PROVE  Open' = Open /\ TabsKept
<1> DEFINE claimed == {t \in claims \cap InContextOf(c) : tabs[t].owner = "nobody"}
           next(t) == IF t \in claimed THEN OwnedNow(tabs[t], c)
                      ELSE IF tabs[t].is = "closed" THEN Gone ELSE tabs[t]
<1>1. tabs' = [t \in Tabs |-> next(t)]
  BY SMT DEF Reconciles
<1>2. Gone \in BrowserPage /\ Gone.is = "closed" /\ Gone.owner = "nobody"
  BY SMT DEF Gone, BrowserPage, Someone
<1>3. ASSUME NEW t \in Tabs
      PROVE  /\ next(t) \in BrowserPage /\ next(t).is = tabs[t].is
             /\ tabs[t].is = "open" =>
                    /\ next(t).by = tabs[t].by /\ next(t).during = tabs[t].during
                    /\ \/ next(t).owner = tabs[t].owner /\ next(t).late = tabs[t].late
                       \/ tabs[t].owner = "nobody" /\ next(t).owner = c
             /\ next(t).owner # "nobody" => /\ ContextOf[next(t).owner] = ContextOf[next(t).by]
                                            /\ next(t).owner = next(t).during
  <2>0. tabs[t] \in BrowserPage
    BY DEF RoutingTyping
  <2>1. CASE t \in claimed
    <3>1. /\ t \in Open /\ t \in claims /\ tabs[t].by \in Mates(c)
          /\ tabs[t].owner = "nobody" /\ tabs[t].during = c
      BY <2>1 DEF InContextOf
    <3>2. next(t) = [is |-> tabs[t].is, by |-> tabs[t].by, owner |-> c,
                     during |-> tabs[t].during, late |-> FALSE]
      BY <2>0, <2>1, SMT DEF BrowserPage, OwnedNow
    <3> HIDE DEF next
    <3> QED BY <2>0, <3>1, <3>2, SMT DEF BrowserPage, Someone, Mates, Open
  <2>2. CASE t \notin claimed
    BY <1>2, <2>0, <2>2, SMT DEF OwnPagesOnly
  <2> QED BY <2>1, <2>2
<1> HIDE DEF next, claimed
<1>4. \A t \in Tabs : tabs'[t] = next(t)
  BY <1>1
<1>5. tabs' \in [Tabs -> BrowserPage]
  BY <1>1, <1>3
<1>6. Open' = Open
  BY <1>3, <1>4 DEF Open
<1>7. PagesKept
  BY <1>3, <1>4, <1>6 DEF PagesKept, Open
<1>8. OwnPagesOnly'
  BY <1>3, <1>4 DEF OwnPagesOnly
<1> QED BY <1>5, <1>6, <1>7, <1>8 DEF TabsKept

\* Pages that close.
LEMMA PagesShut ==
    ASSUME RoutingTyping, OwnPagesOnly, NEW S,
           tabs' = [t \in Tabs |-> IF t \in S THEN Shut(tabs[t]) ELSE tabs[t]]
    PROVE  TabsKept
<1>1. \A p \in BrowserPage : /\ Shut(p) \in BrowserPage /\ Shut(p).is = "closed"
                      /\ Shut(p).owner = p.owner /\ Shut(p).by = p.owner /\ Shut(p).during = p.owner
  BY SMT DEF Shut, BrowserPage, Someone
<1>2. \A t \in Tabs : tabs[t] \in BrowserPage /\ tabs'[t] = IF t \in S THEN Shut(tabs[t]) ELSE tabs[t]
  BY DEF RoutingTyping
<1>3. tabs' \in [Tabs -> BrowserPage]
  BY <1>1, <1>2
<1>4. PagesKept
  BY <1>1, <1>2 DEF PagesKept, Open
<1>5. OwnPagesOnly'
  BY <1>1, <1>2 DEF OwnPagesOnly
<1> QED BY <1>3, <1>4, <1>5 DEF TabsKept

\* A page that opens is nobody's yet.
LEMMA PageOpens ==
    ASSUME RoutingTyping, OwnPagesOnly, NEW c \in Chats, NEW late \in BOOLEAN,
           Opens(c, late)
    PROVE  /\ tabs' \in [Tabs -> BrowserPage] /\ OwnPagesOnly'
           /\ \E t \in Tabs : /\ Open' = Open \cup {t}
                              /\ tabs'[t].by = c /\ tabs'[t].owner = "nobody"
                              /\ tabs'[t].late = late
                              /\ Waits => tabs'[t].during = turn.chat
                              /\ \A u \in Tabs \ {t} : tabs'[u] = tabs[u]
<1> DEFINE new == [is |-> "open", by |-> c, owner |-> "nobody", during |-> Claimant, late |-> late]
<1>1. PICK t \in Tabs : tabs[t].is = "unopened" /\ tabs' = [tabs EXCEPT ![t] = new]
  BY DEF Opens
<1>2. /\ new \in BrowserPage /\ new.is = "open" /\ new.by = c /\ new.owner = "nobody"
      /\ new.late = late /\ (Waits => new.during = turn.chat)
  BY DEF BrowserPage, Someone, Claimant, RoutingTyping
<1> HIDE DEF new
<1>3. tabs \in [Tabs -> BrowserPage]
  BY DEF RoutingTyping
<1>4. tabs' \in [Tabs -> BrowserPage] /\ tabs'[t] = new /\ \A u \in Tabs \ {t} : tabs'[u] = tabs[u]
  BY <1>1, <1>2, <1>3
<1>5. Open' = Open \cup {t}
  BY <1>2, <1>4 DEF Open
<1>6. OwnPagesOnly'
  BY <1>2, <1>4 DEF OwnPagesOnly
<1> QED BY <1>2, <1>4, <1>5, <1>6

(***************************************************************************)
(* The steps of the call that holds the mutex.                             *)
(***************************************************************************)
TurnTyping == /\ turn = [at |-> turn.at, chat |-> turn.chat, command |-> turn.command,
                         page |-> turn.page, before |-> turn.before]
              /\ turn.chat \in Someone

\* What a new place in its call asks of the pages and of the trace.
TurnFits ==
    /\ TurnTyping
    /\ ~At({"free", "entered"}) => turn.chat \in Chats
    /\ ClaimsAreOwn
    /\ transport = "alive" =>
        /\ Traced => \/ turn.chat \in {"nobody", traceLease.chat}
                     \/ At({"ending", "ended", "closing"}) /\ Does({"release"})
        /\ At({"start", "begun"}) => NoStartAfloat /\ traceLease.chat = turn.chat
        /\ At({"start"}) => ~recording /\ ~traceKnown
        /\ At({"ended"}) => ~recording /\ traceKnown
        /\ At({"closing"}) /\ traceLease.chat \in Mates(turn.chat) =>
               ~recording /\ ~traceKnown /\ NoStartAfloat

\* A step that leaves the trace and Chromium as they are, and opens no page.
LEMMA CallMoves ==
    ASSUME RoutingInv, TabsKept, TurnFits', UNCHANGED <<transport, afloat, traceVars>>
    PROVE  RoutingInv'
<1>1. EveryoneNamed'
  BY DEF RoutingInv, EveryoneNamed, TabsKept, PagesKept, TurnFits, At
<1>2. RoutingTyping' /\ OwnPagesOnly' /\ ClaimsAreOwn'
  BY DEF RoutingInv, RoutingTyping, TabsKept, TurnFits, TurnTyping, traceVars
<1>3. transport = "alive" /\ Traced => \A t \in Open' : SeenBy(t)'
  BY RoutingAssumption DEF RoutingInv, LeaseGuards, TabsKept, PagesKept, MayClaim, SeenBy, WorkOf, traceVars, Traced,
     At, Does
<1>4. (transport = "alive" => LeaseGuards)'
  BY <1>3 DEF RoutingInv, LeaseGuards, TurnFits, traceVars, Traced, NoStartAfloat, At, Does, Mates
<1> QED BY <1>1, <1>2, <1>4 DEF RoutingInv, traceVars

\* The pages as they are, or a free mutex, are always fit.
LEMMA PagesStay ==
    ASSUME RoutingInv, UNCHANGED tabs
    PROVE  TabsKept /\ Open' = Open
BY DEF RoutingInv, RoutingTyping, TabsKept, PagesKept, OwnPagesOnly, Open

LEMMA FreeFits ==
    ASSUME Leaves
    PROVE  TurnFits'
BY SMT DEF Leaves, NoTurn, Turn, TurnFits, TurnTyping, ClaimsAreOwn, Waits, At, Someone

\* Steps on the way to a page, on a page, and to the trace or a release.
GoesOn ==
    \/ Enters \/ FindsActive \/ MakesContext \/ BeginsAct \/ Acted \/ StopsTrace \/ EndsEarly
    \/ \E c \in Chats, command \in PageCommands : Passes(c, command)
    \/ \E c \in Chats : Releases(c)

LEMMA CallGoesOn ==
    ASSUME RoutingInv, GoesOn
    PROVE  RoutingInv'
<1> USE DEF TurnFits, TurnTyping, RoutingInv, RoutingTyping, EveryoneNamed, Waits, Traced,
            Turn, MovesTo, Proceeds, ActsOn, Reaches, Sees, At, Does, traceVars, ClaimsAreOwn,
            LeaseGuards
<1>1. TabsKept /\ Open' = Open /\ UNCHANGED <<transport, afloat, traceVars>>
  BY PagesStay DEF GoesOn, Enters, FindsActive, MakesContext, BeginsAct, Acted, StopsTrace, EndsEarly,
     Passes, Releases, pageVars, chromeVars
<1>2. ASSUME NEW c \in Chats, NEW command \in PageCommands, Passes(c, command)
      PROVE  TurnFits'
  BY <1>1, <1>2, RoutingAssumption, SMT DEF Passes, NotBlocked, Someone, PageCommands, OnPage
<1>3. ASSUME NEW c \in Chats, Releases(c)
      PROVE  TurnFits'
  BY <1>1, <1>3, RoutingAssumption, SMT DEF Releases, Someone
<1>4. ASSUME Enters PROVE TurnFits'
  BY <1>1, <1>4, SMT DEF Enters, NoTurn, Someone
<1>5. ASSUME FindsActive PROVE TurnFits'
  BY <1>1, <1>5, SMT DEF FindsActive
<1>6. ASSUME MakesContext PROVE TurnFits'
  BY <1>1, <1>6, SMT DEF MakesContext, TabsKept, PagesKept
<1>7. ASSUME BeginsAct PROVE TurnFits'
  BY <1>1, <1>7, SMT DEF BeginsAct, TabsKept, PagesKept
<1>8. ASSUME Acted PROVE TurnFits'
  <2>1. CASE Does({"click"})
    BY <1>1, <1>8, <2>1, SMT DEF Acted, TabsKept, PagesKept
  <2> QED BY <1>8, <2>1, FreeFits DEF Acted
<1>9. ASSUME StopsTrace PROVE TurnFits'
  BY <1>1, <1>9, SMT DEF StopsTrace
<1>10. ASSUME EndsEarly PROVE TurnFits'
  BY <1>10, FreeFits DEF EndsEarly
<1> QED BY <1>1, <1>2, <1>3, <1>4, <1>5, <1>6, <1>7, <1>8, <1>9, <1>10, CallMoves DEF GoesOn

\* Steps that reconcile the pages: what they claim is the call's own.
LEMMA Reconciling ==
    ASSUME RoutingInv, MayClaim, NEW claims, NEW was,
           \A t \in claims \cap Open : tabs[t].during = turn.chat,
           Reconciles(turn.chat, claims, was)
    PROVE  Open' = Open /\ TabsKept
<1>1. PICK c \in Chats : c = turn.chat
  BY DEF MayClaim
<1> QED BY <1>1, ReconcilesPages DEF RoutingInv

LEMMA Claiming ==
    ASSUME RoutingInv, LacksPage \/ ClaimsNew \/ Lists \/ SelectsPage
    PROVE  RoutingInv'
<1> USE DEF TurnFits, TurnTyping, RoutingInv, RoutingTyping, EveryoneNamed, Waits, Traced,
            Turn, MovesTo, Proceeds, ActsOn, Reaches, Sees, At, Does, traceVars, chromeVars,
            ClaimsAreOwn, LeaseGuards
<1>1. MayClaim
  BY DEF LacksPage, ClaimsNew, Lists, SelectsPage, MayClaim
<1>2. PICK was : was = active
  OBVIOUS
<1>3. CASE LacksPage
  <2>1. Open' = Open /\ TabsKept
    <3>1. CASE UNCHANGED tabs
      BY <3>1, PagesStay
    <3>2. CASE Reconciles(turn.chat, {}, active)
      BY <1>1, <1>2, <3>2, Reconciling
    <3> QED BY <1>3, <3>1, <3>2 DEF LacksPage
  <2>2. TurnFits'
    BY <1>3, <2>1, SMT DEF LacksPage, OnPage
  <2> QED BY <1>3, <2>1, <2>2, CallMoves DEF LacksPage
<1>4. CASE ClaimsNew
  <2>1. PICK claims : claims = NewSince(turn.before)
    OBVIOUS
  <2>2. \A t \in claims \cap Open : tabs[t].during = turn.chat
    BY <1>4, <2>1 DEF ClaimsNew, NewSince
  <2>3. Open' = Open /\ TabsKept
    BY <1>1, <1>2, <1>4, <2>1, <2>2, Reconciling DEF ClaimsNew
  <2>4. TurnFits'
    <3>1. CASE Leaves
      BY <3>1, FreeFits
    <3>2. CASE ActsOn(active'[turn.chat])
      BY <1>4, <2>3, <3>2, SMT DEF ClaimsNew
    <3> QED BY <1>4, <3>1, <3>2 DEF ClaimsNew
  <2> QED BY <1>4, <2>3, <2>4, CallMoves DEF ClaimsNew
<1>5. CASE Lists
  BY <1>1, <1>2, <1>5, Reconciling, FreeFits, CallMoves DEF Lists
<1>6. CASE SelectsPage
  <2>1. PICK t : Reconciles(turn.chat, {}, [active EXCEPT ![turn.chat] = t])
    BY <1>6 DEF SelectsPage
  <2>2. PICK w : w = [active EXCEPT ![turn.chat] = t]
    OBVIOUS
  <2>3. Open' = Open /\ TabsKept
    BY <1>1, <2>1, <2>2, Reconciling
  <2> QED BY <1>6, <2>3, FreeFits, CallMoves DEF SelectsPage
<1> QED BY <1>3, <1>4, <1>5, <1>6

\* Steps that close a page.
LEMMA Closing ==
    ASSUME RoutingInv,
           ClosesPage \/ ReleaseClosesPage \/ \E t \in Tabs : PageCloses(t)
    PROVE  RoutingInv'
<1> USE DEF TurnFits, TurnTyping, RoutingInv, RoutingTyping, EveryoneNamed, Waits, Traced,
            Turn, MovesTo, Proceeds, Reaches, At, Does, traceVars, chromeVars, ClaimsAreOwn,
            LeaseGuards
<1>1. PICK t \in Tabs : tabs' = [tabs EXCEPT ![t] = Shut(@)]
  BY DEF ClosesPage, ReleaseClosesPage, PageCloses, Open
<1>2. tabs' = [u \in Tabs |-> IF u \in {t} THEN Shut(tabs[u]) ELSE tabs[u]]
  BY <1>1
<1>3. PICK S : S = {t}
  OBVIOUS
<1>4. TabsKept
  BY <1>2, <1>3, PagesShut
<1>5. TurnFits'
  <2>1. ASSUME ClosesPage PROVE TurnFits'
    <3>1. Proceeds("closed") /\ At({"page"}) /\ UNCHANGED <<transport, afloat, traceVars>>
      BY <2>1 DEF ClosesPage
    <3> QED BY <3>1, SMT
  <2>2. ASSUME ReleaseClosesPage PROVE TurnFits'
    <3>1. PICK page : MovesTo("closing", page, {})
      BY <2>2 DEF ReleaseClosesPage
    <3>2. At({"closing"}) /\ UNCHANGED <<transport, afloat, traceVars>>
      BY <2>2 DEF ReleaseClosesPage
    <3> QED BY <3>1, <3>2, SMT DEF Mates, NoStartAfloat
  <2>3. ASSUME UNCHANGED <<turn, transport, afloat, traceVars>> PROVE TurnFits'
    BY <1>4, <2>3 DEF TabsKept, PagesKept, NoStartAfloat, Mates
  <2> QED BY <2>1, <2>2, <2>3 DEF PageCloses
<1> QED BY <1>4, <1>5, CallMoves DEF ClosesPage, ReleaseClosesPage, PageCloses

(***************************************************************************)
(* Pages that open, and the trace.                                         *)
(***************************************************************************)
\* A page for a chat: while another's trace runs only one that comes late.
LEMMA Opening ==
    ASSUME RoutingInv, turn' = turn \/ (Proceeds("claim") /\ At({"open"})) \/ Leaves,
           NEW c \in Chats, NEW late \in BOOLEAN, Opens(c, late),
           transport = "alive" /\ Traced => late \/ c = traceLease.chat,
           UNCHANGED <<transport, recording, traceLease, traceKnown>>,
           afloat' \subseteq afloat
    PROVE  RoutingInv'
<1> USE DEF RoutingInv, RoutingTyping, EveryoneNamed, Waits, Traced, NoStartAfloat,
            Turn, MovesTo, Proceeds, At, Does
<1>1. PICK t \in Tabs : /\ Open' = Open \cup {t}
                        /\ tabs'[t].by = c /\ tabs'[t].owner = "nobody"
                        /\ tabs'[t].late = late
                        /\ Waits => tabs'[t].during = turn.chat
                        /\ \A u \in Tabs \ {t} : tabs'[u] = tabs[u]
  BY PageOpens
<1>2. tabs' \in [Tabs -> BrowserPage] /\ OwnPagesOnly'
  BY PageOpens
<1>3. \A u \in Open' : u = t \/ (u \in Open /\ tabs'[u] = tabs[u])
  BY <1>1 DEF Open
<1>4. TurnFits'
  <2>1. CASE Proceeds("claim") /\ At({"open"})
    BY <1>1, <1>3, <2>1, SMT DEF ClaimsAreOwn, LeaseGuards, TurnFits, TurnTyping, Someone, Mates
  <2>2. CASE turn' = turn
    BY <1>1, <1>3, <2>2, SMT DEF ClaimsAreOwn, LeaseGuards, TurnFits, TurnTyping, Someone, Mates
  <2> QED BY <2>1, <2>2, FreeFits
<1>5. EveryoneNamed' /\ RoutingTyping' /\ ClaimsAreOwn'
  BY <1>1, <1>2, <1>3, <1>4 DEF TurnFits, TurnTyping
<1>6. transport = "alive" /\ Traced =>
          \A u \in Open' : SeenBy(u)'
  BY <1>1, <1>3 DEF LeaseGuards, SeenBy, WorkOf
<1>7. (transport = "alive" => LeaseGuards)'
  BY <1>4, <1>6 DEF TurnFits, LeaseGuards
<1> QED BY <1>2, <1>5, <1>7

LEMMA PagesOpen ==
    ASSUME RoutingInv, OpensPage \/ \E t \in Tabs : PagePopsUp(t)
    PROVE  RoutingInv'
<1>1. ASSUME OpensPage PROVE RoutingInv'
  <2>1. PICK c \in Chats : c = turn.chat
    BY <1>1 DEF OpensPage, RoutingInv, EveryoneNamed, Reaches, At
  <2>2. Opens(c, FALSE)
    BY <1>1, <2>1 DEF OpensPage
  <2>3. transport = "alive" /\ Traced => c = traceLease.chat
    BY <1>1, <2>1, RoutingAssumption DEF OpensPage, RoutingInv, LeaseGuards, Reaches, At
  <2>4. PICK late \in BOOLEAN : late = FALSE
    OBVIOUS
  <2> QED BY <1>1, <2>1, <2>2, <2>3, <2>4, Opening DEF OpensPage, Reaches, At, chromeVars, traceVars
<1>2. ASSUME NEW t \in Tabs, PagePopsUp(t) PROVE RoutingInv'
  <2>1. WorkOf(t) \in Chats
    BY <1>2 DEF PagePopsUp, RoutingInv, RoutingTyping, EveryoneNamed, WorkOf, BrowserPage, Someone
  <2>2. PICK c \in Chats, late \in BOOLEAN : c = WorkOf(t) /\ late = tabs[t].late
    BY <2>1 DEF RoutingInv, RoutingTyping, BrowserPage
  <2>3. Opens(c, late)
    BY <1>2, <2>2 DEF PagePopsUp
  <2>4. ASSUME transport = "alive", Traced PROVE late \/ c = traceLease.chat
    <3>1. SeenBy(t)
      BY <1>2, <2>4 DEF PagePopsUp, RoutingInv, LeaseGuards
    <3> QED BY <2>2, <3>1 DEF SeenBy
  <2> QED BY <1>2, <2>3, <2>4, Opening DEF PagePopsUp, At, chromeVars, traceVars
<1> QED BY <1>1, <1>2

\* What is carried out for a dropped caller: a page, or the end of a recording,
\* or its start, while the lease of that caller is still there.
LEMMA LateIsHarmless ==
    ASSUME RoutingInv, DoneLate
    PROVE  RoutingInv'
<1>1. PICK late \in afloat :
        /\ afloat' = afloat \ {late}
        /\ IF late[1] = "open"
           THEN /\ IF ContextOf[late[2]] \in contexts THEN Opens(late[2], TRUE)
                   ELSE UNCHANGED tabs
                /\ UNCHANGED recording
           ELSE recording' = (late[1] = "start") /\ UNCHANGED tabs
  BY DEF DoneLate
<1>2. UNCHANGED <<transport, turn, traceLease, traceKnown>>
  BY DEF DoneLate
<1>3. CASE late[1] = "open" /\ Opens(late[2], TRUE)
  <2>1. PICK c \in Chats : c = late[2]
    BY DEF RoutingInv, EveryoneNamed
  <2> QED BY <1>1, <1>2, <1>3, <2>1, Opening
<1>4. CASE UNCHANGED tabs
  <2>1. TabsKept /\ Open' = Open
    BY <1>4, PagesStay
  <2>2. RoutingTyping' /\ EveryoneNamed' /\ OwnPagesOnly' /\ ClaimsAreOwn'
    BY <1>1, <1>2, <1>4, <2>1 DEF RoutingInv, RoutingTyping, EveryoneNamed, TabsKept, PagesKept,
       ClaimsAreOwn, Waits, At, Does
  <2>3. transport = "alive" => LeaseGuards'
    <3>1. transport = "alive" => LeaseGuards /\ recording' \in BOOLEAN
      BY <1>1, <2>2 DEF RoutingInv, RoutingTyping
    <3>2. (\A o \in afloat' : o \in afloat) /\ (recording' => recording \/ ~NoStartAfloat)
      BY <1>1 DEF NoStartAfloat
    <3> QED BY <1>2, <1>4, <2>1, <3>1, <3>2
            DEF SeenBy, WorkOf, LeaseGuards, NoStartAfloat, Traced, At, Does, Mates
  <2> QED BY <1>1, <1>2, <2>2, <2>3 DEF RoutingInv
<1> QED BY <1>1, <1>3, <1>4

\* The steps of a trace.
LEMMA TraceGoesOn ==
    ASSUME RoutingInv,
           StartsTrace \/ RecordingStarts \/ TraceBegun \/ RecordingEnds \/ FinishesTrace
    PROVE  RoutingInv'
<1> USE RoutingAssumption
    DEF RoutingInv, RoutingTyping, EveryoneNamed, Waits, Traced, NoStartAfloat, ClaimsAreOwn,
        LeaseGuards, Turn, MovesTo, Proceeds, Reaches, Sees, At, Does, Someone, chromeVars
<1>1. TabsKept /\ Open' = Open /\ UNCHANGED <<transport, afloat>> /\ transport = "alive"
  <2>1. ASSUME StartsTrace PROVE TabsKept /\ Open' = Open
    <3>1. PICK was : was = active
      OBVIOUS
    <3> QED BY <2>1, <3>1, Reconciling DEF StartsTrace, MayClaim
  <2> QED BY <2>1, PagesStay DEF StartsTrace, RecordingStarts, TraceBegun, RecordingEnds,
             FinishesTrace, pageVars
<1>2. ASSUME StartsTrace PROVE RoutingInv'
  <2>1. \A t \in Open' : tabs'[t].owner = turn.chat
    BY <1>1, <1>2 DEF StartsTrace, Isolated, ChatOwns, TabsKept, PagesKept
  <2>2. traceLease = NoTraceLease /\ traceLease'.chat = turn.chat /\ Proceeds("start")
        /\ UNCHANGED <<recording, traceKnown>> /\ At({"act"})
    BY <1>2 DEF StartsTrace
  <2> QED BY <1>1, <2>1, <2>2, SMT DEF NoTraceLease, TabsKept, PagesKept, SeenBy, WorkOf
<1>3. ASSUME RecordingStarts PROVE RoutingInv'
  BY <1>1, <1>3, SMT DEF RecordingStarts, TabsKept, PagesKept, SeenBy, WorkOf, pageVars
<1>4. ASSUME TraceBegun PROVE RoutingInv'
  BY <1>1, <1>4, SMT DEF TraceBegun, TabsKept, PagesKept, SeenBy, WorkOf, pageVars, Leaves, NoTurn, Mates
<1>5. ASSUME RecordingEnds PROVE RoutingInv'
  <2>1. At({"ending"}) /\ recording' = FALSE /\ traceKnown /\ UNCHANGED <<tabs, traceLease, traceKnown>>
        /\ turn' = Turn("ended", turn.chat, turn.command, turn.page, turn.before)
    BY <1>1, <1>5 DEF RecordingEnds, pageVars
  <2>2. LeaseGuards'
    BY <1>1, <2>1, SMT DEF TabsKept, PagesKept, SeenBy, WorkOf
  <2>3. RoutingTyping' /\ EveryoneNamed' /\ OwnPagesOnly' /\ ClaimsAreOwn'
    <3>1. /\ TurnTyping' /\ ~Waits'
          /\ ~At({"free", "entered"})' => turn'.chat \in Chats
      BY <2>1, SMT DEF TurnTyping
    <3> HIDE DEF Turn, Waits
    <3> QED BY <1>1, <2>1, <3>1 DEF TabsKept, PagesKept, TurnTyping
  <2> QED BY <1>1, <2>2, <2>3
<1>6. ASSUME FinishesTrace PROVE RoutingInv'
  <2>1. At({"ended"}) /\ ~recording /\ traceKnown' = FALSE /\ NoStartAfloat /\ UNCHANGED <<tabs, recording>>
    BY <1>1, <1>6 DEF FinishesTrace, pageVars
  <2>2. CASE Does({"release"})
    <3>1. UNCHANGED traceLease
          /\ turn' = Turn("closing", turn.chat, turn.command, turn.page, turn.before)
      BY <1>6, <2>2 DEF FinishesTrace
    <3>2. LeaseGuards'
      BY <1>1, <2>1, <2>2, <3>1, SMT DEF TabsKept, PagesKept, SeenBy, WorkOf
    <3>3. RoutingTyping' /\ EveryoneNamed' /\ OwnPagesOnly' /\ ClaimsAreOwn'
      <4>1. /\ TurnTyping' /\ ~Waits'
            /\ ~At({"free", "entered"})' => turn'.chat \in Chats
        BY <2>1, <3>1, SMT DEF TurnTyping
      <4> HIDE DEF Turn, Waits
      <4> QED BY <1>1, <2>1, <3>1, <4>1 DEF TabsKept, PagesKept, TurnTyping
    <3> QED BY <1>1, <3>2, <3>3
  <2>3. CASE ~Does({"release"})
    <3>1. traceLease' = NoTraceLease /\ turn' = Turn("free", "nobody", "none", 0, {})
      BY <1>6, <2>3 DEF FinishesTrace, Leaves, NoTurn
    <3>2. LeaseGuards'
      BY <1>1, <2>1, <3>1, SMT DEF NoTraceLease
    <3>3. RoutingTyping' /\ EveryoneNamed' /\ OwnPagesOnly' /\ ClaimsAreOwn'
      <4>1. /\ TurnTyping' /\ ~Waits'
            /\ ~At({"free", "entered"})' => turn'.chat \in Chats
        BY <2>1, <3>1, SMT DEF TurnTyping
      <4> HIDE DEF Turn, Waits
      <4> QED BY <1>1, <2>1, <3>1, <4>1 DEF TabsKept, PagesKept, TurnTyping
    <3> QED BY <1>1, <3>2, <3>3
  <2> QED BY <2>2, <2>3
<1> QED BY <1>2, <1>3, <1>4, <1>5, <1>6

(***************************************************************************)
(* Chromium starts and stops, calls are dropped, workspaces released.      *)
(***************************************************************************)
\* Nothing of the old Chromium stays.
LEMMA StartsAnew ==
    ASSUME RoutingInv, Cleared,
           (turn' = turn /\ At({"free", "entered"})) \/ Leaves
    PROVE  RoutingInv'
<1> USE DEF Cleared
<1>1. /\ TurnTyping' /\ At({"free", "entered"})' /\ ~Waits'
  BY SMT DEF Leaves, NoTurn, Turn, At, Waits, TurnTyping, RoutingInv, RoutingTyping, Someone
<1>2. NoTab \in BrowserPage /\ NoTab.is # "open" /\ NoTab.owner = "nobody"
  BY SMT DEF NoTab, BrowserPage, Someone
<1>3. RoutingTyping' /\ OwnPagesOnly' /\ EveryoneNamed' /\ ClaimsAreOwn'
  BY <1>1, <1>2 DEF RoutingTyping, TurnTyping, OwnPagesOnly, EveryoneNamed, ClaimsAreOwn, Open
<1>4. LeaseGuards'
  BY <1>1, SMT DEF LeaseGuards, NoTraceLease, Traced, NoStartAfloat, At
<1> QED BY <1>3, <1>4 DEF RoutingInv

LEMMA ChromiumGoes ==
    ASSUME RoutingInv, ChromiumDies
    PROVE  RoutingInv'
<1>1. PICK S : S = Open
  OBVIOUS
<1>2. TabsKept
  BY <1>1, PagesShut DEF ChromiumDies, RoutingInv
<1> QED BY <1>2 DEF ChromiumDies, RoutingInv, RoutingTyping, EveryoneNamed, ClaimsAreOwn, Waits,
             TabsKept, PagesKept, At, Does

\* A command afloat keeps what its call was granted.
LEMMA Dropping ==
    ASSUME RoutingInv, Drops
    PROVE  RoutingInv'
<1> USE RoutingAssumption
    DEF RoutingInv, RoutingTyping, EveryoneNamed, Traced, NoStartAfloat, LeaseGuards, Reaches, At, Does
<1>1. TabsKept /\ Open' = Open /\ TurnFits' /\ UNCHANGED <<transport, traceVars>> /\ transport = "alive"
  BY PagesStay, FreeFits DEF Drops, pageVars
<1>2. afloat' = afloat \cup {<<turn.at, turn.chat>>} /\ turn.at \in {"open", "start", "ending"}
      /\ turn.chat \in Chats
  BY DEF Drops
<1>3. RoutingTyping' /\ EveryoneNamed' /\ OwnPagesOnly' /\ ClaimsAreOwn'
  BY <1>1, <1>2, SMT DEF TabsKept, PagesKept, TurnFits, TurnTyping, traceVars
<1>4. LeaseGuards'
  <2>1. \A late \in afloat' : late[1] = "start" => late \in afloat \/ turn.at = "start"
    BY <1>2
  <2>2. NoStartAfloat' \/ (Traced /\ ~traceKnown)
    BY <1>1, <2>1, SMT
  <2>3. turn' = Turn("free", "nobody", "none", 0, {})
    BY DEF Drops, Leaves, NoTurn
  <2>4. UNCHANGED tabs
    BY DEF Drops, pageVars
  <2> QED BY <1>1, <2>2, <2>3, <2>4, SMT DEF TabsKept, PagesKept, SeenBy, WorkOf, Turn, traceVars
<1> QED BY <1>1, <1>3, <1>4

\* A released workspace takes its lease along: Chromium records no more.
LEMMA Forgetting ==
    ASSUME RoutingInv, NEW c \in Chats, ForgetsWorkspace(c)
    PROVE  RoutingInv'
<1>1. TabsKept
  <2>1. Gone \in BrowserPage /\ Gone.is # "open" /\ Gone.owner = "nobody"
    BY SMT DEF Gone, BrowserPage, Someone
  <2>2. tabs \in [Tabs -> BrowserPage] /\ OwnPagesOnly
    BY DEF RoutingInv, RoutingTyping
  <2>3. \A t \in Tabs : tabs'[t] = Gone \/ tabs'[t] = tabs[t]
    BY DEF ForgetsWorkspace
  <2>4. tabs' \in [Tabs -> BrowserPage]
    BY <2>1, <2>2 DEF ForgetsWorkspace
  <2> QED BY <2>1, <2>2, <2>3, <2>4 DEF TabsKept, PagesKept, Open, OwnPagesOnly
<1>2. TurnFits'
  BY FreeFits DEF ForgetsWorkspace
<1>3. UNCHANGED <<transport, afloat, recording, traceKnown>>
  BY DEF ForgetsWorkspace, chromeVars
<1>4. RoutingTyping' /\ EveryoneNamed' /\ OwnPagesOnly' /\ ClaimsAreOwn'
  BY <1>1, <1>2, <1>3 DEF RoutingInv, RoutingTyping, EveryoneNamed, TabsKept, PagesKept, TurnFits, TurnTyping
<1>5. ASSUME transport = "alive" PROVE LeaseGuards'
  <2>1. At({"closing"}) /\ turn.chat = c
    BY <1>5 DEF ForgetsWorkspace, Reaches
  <2>2. turn' = Turn("free", "nobody", "none", 0, {})
    BY DEF ForgetsWorkspace, Leaves, NoTurn
  <2>3. CASE traceLease.chat \in Mates(c)
    <3>1. ~recording /\ ~traceKnown /\ NoStartAfloat /\ traceLease' = NoTraceLease
      BY <1>5, <2>1, <2>3 DEF RoutingInv, LeaseGuards, ForgetsWorkspace
    <3> QED BY <1>3, <2>2, <3>1, SMT DEF LeaseGuards, NoTraceLease, Traced, NoStartAfloat, Turn, At
  <2>4. CASE traceLease.chat \notin Mates(c)
    <3>1. UNCHANGED traceLease
      BY <2>4 DEF ForgetsWorkspace
    <3>2. ~MayClaim
      BY <2>1 DEF MayClaim, At
    <3>3. Traced => \A t \in Open' : SeenBy(t)'
      BY <1>1, <1>5, <3>1, <3>2
         DEF RoutingInv, LeaseGuards, TabsKept, PagesKept, SeenBy, WorkOf, Traced
    <3> QED BY <1>3, <1>5, <2>2, <3>1, <3>3, SMT
            DEF RoutingInv, LeaseGuards, Traced, NoStartAfloat, Turn, At
  <2> QED BY <2>3, <2>4
<1> QED BY <1>3, <1>4, <1>5 DEF RoutingInv

(***************************************************************************)
(* The theorems.                                                           *)
(***************************************************************************)
LEMMA RoutingStarts ==
    ASSUME RoutingInit
    PROVE  RoutingInv
<1> USE DEF RoutingInit
<1>1. NoTab \in BrowserPage /\ NoTab.is # "open" /\ NoTab.owner = "nobody"
  BY SMT DEF NoTab, BrowserPage, Someone
<1>2. TurnTyping /\ At({"free"}) /\ turn.chat = "nobody"
  BY SMT DEF NoTurn, Turn, At, TurnTyping, Someone
<1>3. RoutingTyping /\ OwnPagesOnly /\ EveryoneNamed
  BY <1>1, <1>2 DEF RoutingTyping, TurnTyping, OwnPagesOnly, EveryoneNamed, Open, At
<1>4. ClaimsAreOwn
  BY <1>2, SMT DEF ClaimsAreOwn, Waits, At
<1> QED BY <1>3, <1>4 DEF RoutingInv

LEMMA RoutingSteps ==
    ASSUME RoutingInv, [RoutingNext]_routingVars
    PROVE  RoutingInv'
<1>1. CASE UNCHANGED routingVars
  BY <1>1 DEF routingVars, chromeVars, pageVars, traceVars, RoutingInv, RoutingTyping, EveryoneNamed,
     OwnPagesOnly, ClaimsAreOwn, Waits, LeaseGuards, SeenBy, WorkOf, Traced, NoStartAfloat, Open, Mates, At, Does
<1>2. CASE StartsChromium \/ HostStops \/ Fails
  BY <1>2, StartsAnew DEF StartsChromium, HostStops, Fails, At, Leaves
<1>3. CASE StartFails
  <2>1. TabsKept /\ TurnFits'
    BY <1>3, PagesStay, FreeFits DEF StartFails, pageVars
  <2> QED BY <1>3, <2>1 DEF StartFails, RoutingInv, RoutingTyping, EveryoneNamed, TabsKept, PagesKept,
             TurnFits, TurnTyping, traceVars
<1>4. CASE Serves
  BY <1>2, <1>3, <1>4, CallGoesOn, Claiming, Closing, PagesOpen, TraceGoesOn, Forgetting
     DEF Serves, GoesOn
<1>5. CASE Happens
  BY <1>2, <1>5, CallGoesOn, Closing, PagesOpen, LateIsHarmless, ChromiumGoes, Dropping
     DEF Happens, GoesOn
<1> QED BY <1>1, <1>4, <1>5 DEF RoutingNext

\* The invariant of the browser's routing: a call claims what opened in it, and
\* a lease holds while Chromium records or may begin to.
THEOREM RoutingInvariant == RoutingSpec => []RoutingInv
<1>1. RoutingInit => RoutingInv
  BY RoutingStarts
<1>2. RoutingInv /\ [RoutingNext]_routingVars => RoutingInv'
  BY RoutingSteps
<1> QED BY <1>1, <1>2, PTL DEF RoutingSpec

\* A chat owns only pages of its own workspace that opened while a call of its
\* own was to claim them, and a recording, also one a dropped caller began, sees
\* the calls of the one chat that has the lease and pages that are its work or
\* its own, or that a call dropped before the trace opened late: for any chats,
\* workspaces, pages, dropped calls and restarts of Chromium.
THEOREM ChatsKeepApart == RoutingSpec => []ChatsStayApart
<1>1. RoutingInv => ChatsStayApart
  <2>1. ASSUME RoutingInv, recording PROVE TraceSeesOneChat
    <3>1. LeaseGuards /\ Traced
      BY <2>1 DEF RoutingInv, LeaseGuards
    <3>2. traceLease # NoTraceLease
      BY <3>1, SMT DEF Traced, NoTraceLease
    <3> QED BY <3>1, <3>2 DEF LeaseGuards, SeenBy, WorkOf, TraceSeesOneChat
  <2> QED BY <2>1 DEF RoutingInv, ChatsStayApart, TraceSeesOneChat
<1> QED BY <1>1, RoutingInvariant, PTL

=============================================================================
