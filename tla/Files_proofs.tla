------------------------------ MODULE Files_proofs ------------------------------
(***************************************************************************)
(* Four protocols over files that several processes share, or that a crash *)
(* may cut short: the update of the npm package, the handoff checkpoints,  *)
(* the installation of the managed browser and the registry of workspaces, *)
(* for any processes, versions, checkpoints, workspaces, files and faults. *)
(***************************************************************************)
EXTENDS NpmUpdate, Handoff, BrowserInstall, WorkspaceRegistry, FiniteSetTheorems,
        TLAPS

(***************************************************************************)
(* The update lock (NpmUpdate).                                            *)
(***************************************************************************)
WrapperSteps == {"off", "runs", "acquire", "naming", "looking", "removing", "refresh",
                 "compare", "install", "verify", "done", "failed", "restart"}
WrapperRecord == [at : WrapperSteps, version : Nat, target : Nat]
NpmRecord == [by : Wrappers \cup {"init"}, to : Nat]
LockRecord == [by : Wrappers \cup {"nobody"}, named : BOOLEAN, alive : BOOLEAN]

NpmTypeOK ==
    /\ lockFile \in LockRecord
    /\ wrapper \in [Wrappers -> WrapperRecord]
    /\ installed \in Nat
    /\ latest \in Nat
    /\ npm \subseteq NpmRecord
    /\ torn \in BOOLEAN
    /\ orphaned \in BOOLEAN

\* Whoever is under the lock is named by the file as a living owner.
OwnsFile(w) == lockFile.by = w /\ lockFile.alive
LockIsOwned == \A w \in Wrappers : UnderLock(w) => OwnsFile(w)

\* The one npm under way belongs to a wrapper that waits for it and brings a
\* newer version.  NeverDowngrades is about one step and needs to know where
\* the npm that ends came from.
NpmIsAwaited ==
    /\ \A p \in npm : /\ p.by \in Wrappers
                      /\ wrapper[p.by].at = "install"
                      /\ installed < p.to
    /\ \A p \in npm, q \in npm : p = q

NpmInv ==
    /\ NpmTypeOK
    /\ torn \/ LockIsOwned
    /\ torn \/ orphaned \/ NpmIsAwaited

LEMMA NpmInitInv == NpmInit => NpmInv
  <1> SUFFICES ASSUME NpmInit PROVE NpmInv
    OBVIOUS
  <1>1. lockFile \in LockRecord
    BY DEF NpmInit, NoFile, LockRecord
  <1>2. [at |-> "off", version |-> 0, target |-> 0] \in WrapperRecord
    BY DEF WrapperRecord, WrapperSteps
  <1>3. NpmTypeOK
    BY <1>1, <1>2 DEF NpmInit, NpmTypeOK
  <1>4. LockIsOwned
    BY DEF NpmInit, LockIsOwned, UnderLock
  <1>5. NpmIsAwaited
    BY DEF NpmInit, NpmIsAwaited
  <1> QED
    BY <1>3, <1>4, <1>5 DEF NpmInv

LEMMA StepsFacts ==
    ASSUME NpmInv, NEW w \in Wrappers, NEW from, NEW to \in WrapperSteps, Steps(w, from, to)
    PROVE  /\ wrapper' \in [Wrappers -> WrapperRecord]
           /\ wrapper[w].at = from /\ wrapper'[w].at = to
           /\ \A x \in Wrappers : x # w => wrapper'[x] = wrapper[x]
  BY DEF NpmInv, NpmTypeOK, Steps, WrapperRecord

LEMMA LeftByFacts ==
    ASSUME NpmInv, NEW w \in Wrappers, lockFile' = LeftBy(w)
    PROVE  /\ lockFile' \in LockRecord
           /\ \A x \in Wrappers : x # w /\ OwnsFile(x) => OwnsFile(x)'
  BY DEF NpmInv, NpmTypeOK, LeftBy, LockRecord, OwnsFile

\* A step of one wrapper that leaves the file, npm and the package alone and
\* neither enters the lock nor stops waiting for npm.
LEMMA QuietStep ==
    ASSUME NpmInv, NEW w \in Wrappers,
           wrapper' \in [Wrappers -> WrapperRecord],
           \A x \in Wrappers : x # w => wrapper'[x] = wrapper[x],
           UnderLock(w)' => UnderLock(w),
           wrapper[w].at # "install",
           lockFile' \in LockRecord,
           lockFile' = LeftBy(w) => ~UnderLock(w)',
           lockFile' = lockFile \/ lockFile' = LeftBy(w),
           latest' \in Nat,
           UNCHANGED <<installed, npm, torn, orphaned>>
    PROVE  NpmInv'
  <1>1. NpmTypeOK'
    BY DEF NpmInv, NpmTypeOK
  <1>2. LockIsOwned => LockIsOwned'
    <2> SUFFICES ASSUME LockIsOwned, NEW x \in Wrappers, UnderLock(x)' PROVE OwnsFile(x)'
      BY DEF LockIsOwned
    <2>1. CASE x = w
      BY <2>1 DEF LockIsOwned, OwnsFile
    <2>2. CASE x # w
      BY <2>2, LeftByFacts DEF LockIsOwned, OwnsFile, UnderLock
    <2> QED
      BY <2>1, <2>2
  <1>3. NpmIsAwaited => NpmIsAwaited'
    BY DEF NpmIsAwaited
  <1> QED
    BY <1>1, <1>2, <1>3 DEF NpmInv

\* A step of a wrapper that holds the lock and neither starts npm nor waits for it.
LEMMA InsideStep ==
    ASSUME NpmInv, NEW w \in Wrappers,
           wrapper' \in [Wrappers -> WrapperRecord],
           \A x \in Wrappers : x # w => wrapper'[x] = wrapper[x],
           UnderLock(w), wrapper[w].at # "install",
           UNCHANGED <<lockFile, installed, latest, npm, torn, orphaned>>
    PROVE  NpmInv'
  <1>1. NpmTypeOK'
    BY DEF NpmInv, NpmTypeOK
  <1>2. LockIsOwned => LockIsOwned'
    BY DEF LockIsOwned, OwnsFile, UnderLock
  <1>3. NpmIsAwaited => NpmIsAwaited'
    BY DEF NpmIsAwaited
  <1> QED
    BY <1>1, <1>2, <1>3 DEF NpmInv

LEMMA NpmStepInv == ASSUME NpmInv, [NpmNext]_npmVars PROVE NpmInv'
  <1> USE DEF WrapperSteps
  <1>1. ASSUME NEW w \in Wrappers, StartsUp(w) \/ AsksForUpdate(w) \/ Restarts(w) PROVE NpmInv'
    <2>1. /\ wrapper' \in [Wrappers -> WrapperRecord]
          /\ \A x \in Wrappers : x # w => wrapper'[x] = wrapper[x]
          /\ wrapper'[w].at \in {"runs", "acquire"}
          /\ wrapper[w].at # "install"
      BY <1>1 DEF NpmInv, NpmTypeOK, StartsUp, AsksForUpdate, Restarts, WrapperRecord
    <2> QED
      BY <1>1, <2>1, QuietStep DEF StartsUp, AsksForUpdate, Restarts, UnderLock, NpmInv, NpmTypeOK
  <1>2. ASSUME NEW w \in Wrappers, FindsLock(w) \/ SeesNoOwner(w) PROVE NpmInv'
    BY <1>2, StepsFacts, QuietStep DEF FindsLock, SeesNoOwner, UnderLock, NpmInv, NpmTypeOK
  <1>3. ASSUME NEW w \in Wrappers, SeesOwner(w) PROVE NpmInv'
    BY <1>3, StepsFacts, QuietStep, LeftByFacts DEF SeesOwner, UnderLock, NpmInv, NpmTypeOK
  <1>4. ASSUME NEW w \in Wrappers, FindsInstalled(w) \/ Verifies(w) PROVE NpmInv'
    <2>1. /\ wrapper' \in [Wrappers -> WrapperRecord]
          /\ wrapper[w].at \in {"compare", "verify"}
          /\ \A x \in Wrappers : x # w => wrapper'[x] = wrapper[x]
          /\ wrapper'[w].at \in {"done", "failed"}
      <3>1. CASE FindsInstalled(w)
        BY <3>1, StepsFacts DEF FindsInstalled
      <3>2. CASE Verifies(w)
        BY <3>2, StepsFacts DEF Verifies
      <3> QED
        BY <1>4, <3>1, <3>2
    <2>2. UNCHANGED <<lockFile, installed, latest, npm, torn, orphaned>>
      BY <1>4 DEF FindsInstalled, Verifies
    <2> QED
      BY <2>1, <2>2, InsideStep DEF UnderLock
  <1>5. ASSUME NEW w \in Wrappers, RefreshesTarget(w) PROVE NpmInv'
    <2>1. PICK t \in Nat : wrapper' = [wrapper EXCEPT ![w] =
                                    [at |-> "compare", version |-> @.version, target |-> t]]
      BY <1>5 DEF RefreshesTarget, NpmInv, NpmTypeOK, WrapperRecord
    <2>2. wrapper[w] \in WrapperRecord
      BY DEF NpmInv, NpmTypeOK
    <2>3. [at |-> "compare", version |-> wrapper[w].version, target |-> t] \in WrapperRecord
      BY <2>2 DEF WrapperRecord
    <2>4. /\ wrapper' \in [Wrappers -> WrapperRecord]
          /\ \A x \in Wrappers : x # w => wrapper'[x] = wrapper[x]
          /\ wrapper'[w].at = "compare"
      BY <2>1, <2>3 DEF NpmInv, NpmTypeOK
    <2>5. /\ wrapper[w].at = "refresh"
          /\ UNCHANGED <<lockFile, installed, latest, npm, torn, orphaned>>
      BY <1>5 DEF RefreshesTarget
    <2> QED
      BY <2>4, <2>5, InsideStep DEF UnderLock
  <1>6. ASSUME NEW w \in Wrappers, KeepsFile(w) PROVE NpmInv'
    BY <1>6, StepsFacts, QuietStep, LeftByFacts DEF KeepsFile, UnderLock, NpmInv, NpmTypeOK
  <1>7. ASSUME NEW w \in Wrappers, OpensLock(w) PROVE NpmInv'
    <2>1. /\ wrapper' \in [Wrappers -> WrapperRecord]
          /\ wrapper[w].at = "acquire" /\ wrapper'[w].at = "naming"
          /\ \A x \in Wrappers : x # w => wrapper'[x] = wrapper[x]
      BY <1>7, StepsFacts DEF OpensLock
    <2>2. NpmTypeOK'
      BY <1>7, <2>1 DEF OpensLock, NpmInv, NpmTypeOK, LockRecord
    <2>3. LockIsOwned => LockIsOwned'
      BY <1>7, <2>1 DEF OpensLock, Exclusive, NoFile, LockIsOwned, OwnsFile, UnderLock
    <2>4. NpmIsAwaited => NpmIsAwaited'
      BY <1>7, <2>1 DEF OpensLock, NpmIsAwaited
    <2> QED
      BY <1>7, <2>2, <2>3, <2>4 DEF OpensLock, NpmInv
  <1>8. ASSUME NEW w \in Wrappers, NamesLock(w) PROVE NpmInv'
    <2>1. /\ wrapper' \in [Wrappers -> WrapperRecord]
          /\ wrapper[w].at = "naming" /\ wrapper'[w].at = "refresh"
          /\ \A x \in Wrappers : x # w => wrapper'[x] = wrapper[x]
      BY <1>8, StepsFacts DEF NamesLock
    <2>2. lockFile' \in LockRecord /\ lockFile'.by = lockFile.by /\ lockFile'.alive = lockFile.alive
      BY <1>8 DEF NamesLock, NpmInv, NpmTypeOK, LockRecord
    <2>3. LockIsOwned => LockIsOwned'
      BY <2>1, <2>2 DEF LockIsOwned, OwnsFile, UnderLock
    <2>4. NpmIsAwaited => NpmIsAwaited'
      BY <1>8, <2>1 DEF NamesLock, NpmIsAwaited
    <2> QED
      BY <1>8, <2>1, <2>2, <2>3, <2>4 DEF NamesLock, NpmInv, NpmTypeOK
  <1>9. ASSUME NEW w \in Wrappers, RemovesStale(w) \/ ReleasesLock(w) PROVE NpmInv'
    <2>1. /\ wrapper' \in [Wrappers -> WrapperRecord]
          /\ ~UnderLock(w)'
          /\ wrapper[w].at # "install"
          /\ \A x \in Wrappers : x # w => wrapper'[x] = wrapper[x]
      BY <1>9, StepsFacts DEF RemovesStale, ReleasesLock, UnderLock
    <2>2. NpmTypeOK'
      <3>1. NoFile \in LockRecord
        BY DEF NoFile, LockRecord
      <3>2. /\ lockFile' = NoFile
            /\ torn' = (torn \/ (lockFile.alive /\ lockFile.by # w))
            /\ UNCHANGED <<installed, latest, npm, orphaned>>
        BY <1>9 DEF RemovesStale, ReleasesLock, RemovesFile
      <3>3. torn' \in BOOLEAN
        <4>1. CASE torn'
          BY <4>1, <3>2 DEF NpmInv, NpmTypeOK, LockRecord
        <4>2. CASE ~torn'
          BY <4>2, <3>2 DEF NpmInv, NpmTypeOK, LockRecord
        <4> QED
          BY <4>1, <4>2
      <3> QED
        BY <2>1, <3>1, <3>2, <3>3 DEF NpmInv, NpmTypeOK
    <2>3. ~torn' /\ LockIsOwned => LockIsOwned'
      BY <1>9, <2>1 DEF RemovesStale, ReleasesLock, RemovesFile, LockIsOwned, OwnsFile, UnderLock
    <2>4. NpmIsAwaited => NpmIsAwaited'
      BY <1>9, <2>1 DEF RemovesStale, ReleasesLock, NpmIsAwaited
    <2> QED
      BY <1>9, <2>2, <2>3, <2>4 DEF RemovesStale, ReleasesLock, RemovesFile, NpmInv
  <1>10. ASSUME NEW w \in Wrappers, RunsNpm(w) PROVE NpmInv'
    <2>1. /\ wrapper' \in [Wrappers -> WrapperRecord]
          /\ wrapper[w].at = "compare" /\ wrapper'[w].at = "install"
          /\ \A x \in Wrappers : x # w => wrapper'[x] = wrapper[x]
      BY <1>10, StepsFacts DEF RunsNpm
    <2>2. wrapper[w].target \in Nat
      BY DEF NpmInv, NpmTypeOK, WrapperRecord
    <2>3. NpmTypeOK'
      BY <1>10, <2>1, <2>2 DEF RunsNpm, NpmInv, NpmTypeOK, NpmRecord
    <2>4. LockIsOwned => LockIsOwned'
      BY <1>10, <2>1 DEF RunsNpm, LockIsOwned, OwnsFile, UnderLock
    <2>5. LockIsOwned /\ NpmIsAwaited => NpmIsAwaited'
      <3> SUFFICES ASSUME LockIsOwned, NpmIsAwaited PROVE NpmIsAwaited'
        OBVIOUS
      <3>1. npm = {}
        BY <2>1 DEF NpmIsAwaited, LockIsOwned, OwnsFile, UnderLock
      <3>2. npm' = {[by |-> w, to |-> wrapper[w].target]}
        BY <1>10, <3>1 DEF RunsNpm
      <3> QED
        BY <1>10, <2>1, <3>2 DEF RunsNpm, NeedsInstall, NpmIsAwaited
    <2> QED
      BY <1>10, <2>3, <2>4, <2>5 DEF RunsNpm, NpmInv
  <1>11. ASSUME NEW w \in Wrappers, WrapperKilled(w) PROVE NpmInv'
    <2>1. /\ wrapper' \in [Wrappers -> WrapperRecord]
          /\ wrapper'[w].at = "off"
          /\ \A x \in Wrappers : x # w => wrapper'[x] = wrapper[x]
      BY <1>11 DEF WrapperKilled, NpmInv, NpmTypeOK, WrapperRecord
    <2>2. \A p \in npm : (IF p.by = w THEN [p EXCEPT !.by = "init"] ELSE p) \in NpmRecord
      BY DEF NpmInv, NpmTypeOK, NpmRecord
    <2>3. NpmTypeOK'
      BY <1>11, <2>1, <2>2, LeftByFacts DEF WrapperKilled, NpmInv, NpmTypeOK
    <2>4. LockIsOwned => LockIsOwned'
      BY <1>11, <2>1, LeftByFacts DEF WrapperKilled, LockIsOwned, UnderLock
    <2>5. ~orphaned' /\ NpmIsAwaited => NpmIsAwaited'
      <3> SUFFICES ASSUME ~orphaned', NpmIsAwaited PROVE NpmIsAwaited'
        OBVIOUS
      <3>1. \A p \in npm : p.by # w
        BY <1>11 DEF WrapperKilled
      <3>2. npm' = npm
        BY <1>11, <3>1 DEF WrapperKilled
      <3> QED
        BY <1>11, <2>1, <3>1, <3>2 DEF WrapperKilled, NpmIsAwaited
    <2> QED
      BY <1>11, <2>3, <2>4, <2>5 DEF WrapperKilled, NpmInv
  <1>12. ASSUME NEW p \in npm, NpmEnds(p) PROVE NpmInv'
    <2>1. p \in NpmRecord
      BY DEF NpmInv, NpmTypeOK
    <2>2. CASE p.by \in Wrappers
      <3>1. /\ wrapper' \in [Wrappers -> WrapperRecord]
            /\ wrapper[p.by].at = "install" /\ wrapper'[p.by].at \in {"verify", "failed"}
            /\ \A x \in Wrappers : x # p.by => wrapper'[x] = wrapper[x]
        BY <1>12, <2>2, StepsFacts DEF NpmEnds, Learns
      <3>2. NpmTypeOK'
        BY <1>12, <2>1, <3>1 DEF NpmEnds, NpmInv, NpmTypeOK, NpmRecord
      <3>3. LockIsOwned => LockIsOwned'
        BY <1>12, <3>1 DEF NpmEnds, LockIsOwned, OwnsFile, UnderLock
      <3>4. NpmIsAwaited => NpmIsAwaited'
        BY <1>12 DEF NpmEnds, NpmIsAwaited
      <3> QED
        BY <1>12, <3>2, <3>3, <3>4 DEF NpmEnds, NpmInv
    <2>3. CASE p.by \notin Wrappers
      <3>1. UNCHANGED wrapper
        BY <1>12, <2>3 DEF NpmEnds, Learns
      <3>2. NpmTypeOK'
        BY <1>12, <2>1, <3>1 DEF NpmEnds, NpmInv, NpmTypeOK, NpmRecord
      <3>3. LockIsOwned => LockIsOwned'
        BY <1>12, <3>1 DEF NpmEnds, LockIsOwned, OwnsFile, UnderLock
      <3>4. ~NpmIsAwaited
        BY <2>3 DEF NpmIsAwaited
      <3> QED
        BY <1>12, <3>2, <3>3, <3>4 DEF NpmEnds, NpmInv
    <2> QED
      BY <2>2, <2>3
  <1>13. CASE VersionPublished
    BY <1>13 DEF VersionPublished, NpmInv, NpmTypeOK, LockIsOwned, OwnsFile, UnderLock, NpmIsAwaited
  <1>14. CASE UNCHANGED npmVars
    BY <1>14 DEF npmVars, NpmInv, NpmTypeOK, LockIsOwned, OwnsFile, UnderLock, NpmIsAwaited
  <1> QED
    BY <1>1, <1>2, <1>3, <1>4, <1>5, <1>6, <1>7, <1>8, <1>9, <1>10, <1>11, <1>12, <1>13,
       <1>14 DEF NpmNext

\* The inductive invariant of acquireUpdateLock and the update it guards.
THEOREM NpmInvariant == NpmSpec => []NpmInv
  BY NpmInitInv, NpmStepInv, PTL DEF NpmSpec

\* The lock file lets one updater in at a time, through crashes and takeovers
\* of stale files, until a wrapper takes the file of a living one for stale.
THEOREM LockSerialises == NpmSpec => []OnlyATearLetsTwoIn
  <1>1. NpmInv => OnlyATearLetsTwoIn
    <2> SUFFICES ASSUME NpmInv, ~torn
                 PROVE  Cardinality({w \in Wrappers : UnderLock(w)}) <= 1
      BY DEF OnlyATearLetsTwoIn
    <2> DEFINE inside == {w \in Wrappers : UnderLock(w)}
    <2>1. \A w \in inside : w = lockFile.by
      BY DEF NpmInv, LockIsOwned, OwnsFile
    <2>2. CASE inside = {}
      <3>1. Cardinality(inside) = 0
        BY <2>2, FS_EmptySet
      <3> QED
        BY <3>1
    <2>3. CASE inside # {}
      <3>1. inside = {lockFile.by}
        BY <2>1, <2>3
      <3>2. Cardinality({lockFile.by}) = 1
        BY FS_Singleton
      <3>3. Cardinality(inside) = 1
        BY <3>1, <3>2
      <3> QED
        BY <3>3
    <2> QED
      BY <2>2, <2>3
  <1> QED
    BY <1>1, NpmInvariant, PTL

\* The installed package never goes back, whatever target a wrapper still
\* carries, but for a torn lock or an npm that outlived its wrapper.
THEOREM VersionsOnlyGrow == NpmSpec => NeverDowngrades
  <1>1. ASSUME NpmInv, [NpmNext]_npmVars, ~torn, ~orphaned PROVE installed' >= installed
    <2>1. installed \in Nat
      BY <1>1 DEF NpmInv, NpmTypeOK
    <2>2. ASSUME NEW p \in npm, NpmEnds(p) PROVE installed' >= installed
      <3>1. installed < p.to /\ p.to \in Nat
        BY <1>1 DEF NpmInv, NpmTypeOK, NpmRecord, NpmIsAwaited
      <3> QED
        BY <2>1, <2>2, <3>1 DEF NpmEnds
    <2>3. UNCHANGED installed \/ \E p \in npm : NpmEnds(p)
      BY <1>1 DEF NpmNext, npmVars, StartsUp, AsksForUpdate, OpensLock, FindsLock, NamesLock,
         SeesOwner, SeesNoOwner, RemovesStale, RefreshesTarget, FindsInstalled, RunsNpm,
         Verifies, ReleasesLock, KeepsFile, Restarts, WrapperKilled, VersionPublished
    <2> QED
      BY <2>1, <2>2, <2>3
  <1>2. NpmInv /\ [NpmNext]_npmVars => [(~torn /\ ~orphaned) => installed' >= installed]_npmVars
    BY <1>1
  <1> QED
    BY <1>2, NpmInvariant, PTL DEF NpmSpec, NeverDowngrades

(***************************************************************************)
(* The handoff checkpoints (Handoff).                                      *)
(***************************************************************************)
Markers == {"resumed", "superseded", "completed"}

MutationRecord ==
    [at : {"publish", "supersede", "prune", "unlink"}, new : Handoffs, victim : Handoffs,
     older : SUBSET Handoffs, excess : Nat, clean : BOOLEAN]

HandoffTypeOK ==
    /\ checkpoints \in [Handoffs -> Nat]
    /\ markers \in [Handoffs -> SUBSET Markers]
    /\ mutation = NoMutation \/ mutation \in MutationRecord
    /\ current \in Handoffs \cup {"none"}
    /\ ended \subseteq Handoffs
    /\ damaged \in BOOLEAN

\* OneCurrentHandoff tells what holds between operations; this is what holds
\* within one.  The new checkpoint is active from its publication on; what
\* is superseded or pruned is never it; and as long as nothing failed, what
\* is active and what is saved is accounted for.
MutationOK ==
    /\ Mutating("publish") =>
           /\ mutation.new \notin ended /\ markers[mutation.new] = {}
           /\ mutation.new \notin mutation.older
           /\ mutation.clean => Active \subseteq mutation.older
    /\ mutation.at \in {"supersede", "prune", "unlink"} => mutation.new \in Active
    /\ Mutating("supersede") =>
           /\ mutation.new \notin mutation.older
           /\ mutation.clean => Active \subseteq {mutation.new} \cup mutation.older
    /\ mutation.at \in {"prune", "unlink"} =>
           /\ \A h \in mutation.older : Ended(h)
           /\ mutation.clean =>
                  /\ Active \subseteq {mutation.new}
                  /\ Cardinality(Saved) <= MaxRetained + mutation.excess
    /\ Mutating("prune") /\ mutation.clean =>
           Saved \subseteq {mutation.new} \cup mutation.older
    /\ Mutating("unlink") =>
           /\ mutation.victim \in Saved => Ended(mutation.victim) /\ mutation.excess > 0
           /\ mutation.victim \notin mutation.older
           /\ mutation.clean =>
                  Saved \subseteq {mutation.new, mutation.victim} \cup mutation.older

HandoffInv == HandoffTypeOK /\ MutationOK /\ OneCurrentHandoff

(***************************************************************************)
(* The installation of the managed browser (BrowserInstall).               *)
(***************************************************************************)
Trees == [BrowserFiles -> {"good", "bad", "none"}]
Directories == [tree : Trees, marker : {NoMarker, AllGood}]
InstallSteps ==
    {"look", "check", "wait", "relook", "recheck", "download", "extract", "set_aside",
     "publish", "mark", "told", "failed", "gone"}

InstallTypeOK ==
    /\ step \in [Installers -> InstallSteps]
    /\ final \in Directories
    /\ noted \in [Installers -> {NoMarker, AllGood}]
    /\ unchecked \in [Installers -> SUBSET BrowserFiles]
    /\ staging \in [Installers -> Trees]
    /\ unpacking \in [Installers -> SUBSET (BrowserFiles \cup {Sweep})]
    /\ inventory \in [Installers -> Trees]
    /\ backup \in [Installers -> Directories]
    /\ mixed \subseteq Installers

Locked == {"relook", "recheck", "download", "extract", "set_aside", "publish", "mark"}

Sound == final.tree = AllGood /\ final.marker = AllGood

\* ToldKeepsItsBrowser is about those who were told.  It takes that whoever
\* works towards a new directory holds the lock and has seen, under it, that
\* there is no sound one; so whoever finds a sound one finds it for good.
CallOK(c) ==
    /\ step[c] \in Locked => installLock = c
    /\ step[c] \in {"download", "extract", "set_aside", "publish", "mark"} => ~Sound
    /\ step[c] = "recheck" \/ (step[c] = "check" /\ c \notin mixed) =>
           /\ noted[c] = AllGood /\ final.marker = AllGood
           /\ \A f \in BrowserFiles \ unchecked[c] : final.tree[f] = "good"
    /\ step[c] = "extract" /\ Sweep \notin unpacking[c] =>
           \A f \in BrowserFiles \ unpacking[c] : staging[c][f] = "good"
    /\ step[c] \in {"set_aside", "publish"} =>
           staging[c] = AllGood /\ unpacking[c] = {}
    /\ step[c] \in {"set_aside", "publish", "mark"} => inventory[c] = AllGood
    /\ step[c] = "publish" => final = Nothing
    /\ step[c] = "mark" => final.tree = AllGood
    /\ step[c] = "told" /\ c \notin mixed => Sound

InstallInv == InstallTypeOK /\ \A c \in Installers : CallOK(c)

\* A marker that counts is not an empty one.
LEMMA Marked == /\ AllGood \in Trees /\ NoTree \in Trees /\ AllGood # NoMarker
                /\ NoMarker = NoTree /\ AllGood[Executable] = "good"
                /\ \A f \in BrowserFiles : AllGood[f] = "good" /\ NoTree[f] = "none"
BY InstallAssumption DEF InstallAssumption, Trees, AllGood, NoTree, NoMarker

\* A tree that is good file by file is a good tree.
LEMMA GoodTree ==
  ASSUME NEW t \in Trees, \A f \in BrowserFiles : t[f] = "good" PROVE t = AllGood
BY DEF Trees, AllGood

LEMMA InstallInitInv == InstallInit => InstallInv
<1> SUFFICES ASSUME InstallInit PROVE InstallInv
  OBVIOUS
<1>1. final \in Directories
  <2>1. CASE final = Nothing
    BY <2>1, Marked DEF Nothing, Directories
  <2>2. CASE final \in {[tree |-> AllGood, marker |-> AllGood], [tree |-> AllGood, marker |-> NoMarker]}
    BY <2>2, Marked DEF Directories
  <2>3. ASSUME NEW f \in BrowserFiles, NEW d \in {"bad", "none"},
               final = [tree |-> [AllGood EXCEPT ![f] = d], marker |-> AllGood]
        PROVE final \in Directories
    <3>1. [AllGood EXCEPT ![f] = d] \in Trees
      BY Marked DEF Trees
    <3> QED
      BY <2>3, <3>1 DEF Directories
  <2> QED
    BY <2>1, <2>2, <2>3 DEF InstallInit
<1>2. InstallTypeOK
  BY <1>1, Marked DEF InstallInit, InstallTypeOK, InstallSteps, Nothing, Directories
<1>3. ASSUME NEW c \in Installers PROVE CallOK(c)
  BY <1>3 DEF InstallInit, CallOK, Locked, Checking
<1> QED
  BY <1>2, <1>3 DEF InstallInv

\* What the directory is, told field by field.
LEMMA FinalFields ==
  ASSUME InstallTypeOK
  PROVE  /\ final.tree \in Trees /\ final.marker \in {NoMarker, AllGood}
         /\ \A f \in BrowserFiles : final.tree[f] \in {"good", "bad", "none"}
BY DEF InstallTypeOK, Directories, Trees

\* A step of one call that leaves the directory alone: the others stay as
\* they are, if it does not take a lock that is held.
LEMMA OthersStay ==
  ASSUME InstallInv, NEW c \in Installers, NEW d \in Installers, d # c,
         final' = final,
         installLock' = installLock \/ installLock = c \/ installLock = Nobody,
         step'[d] = step[d], noted'[d] = noted[d], unchecked'[d] = unchecked[d],
         staging'[d] = staging[d], unpacking'[d] = unpacking[d], inventory'[d] = inventory[d],
         mixed' = mixed
  PROVE  CallOK(d)'
BY InstallAssumption DEF InstallInv, CallOK, Sound, InstallAssumption

\* The same when the directory changes: whoever looks at it is mixed up, and
\* nobody was told of it.
LEMMA OthersMixed ==
  ASSUME InstallInv, NEW c \in Installers, NEW d \in Installers, d # c,
         step[c] \in {"set_aside", "publish", "mark"},
         installLock' = installLock \/ installLock' = Nobody,
         UNCHANGED <<noted, unchecked, inventory>>,
         step'[d] = step[d], staging'[d] = staging[d], unpacking'[d] = unpacking[d],
         d \in mixed' <=> (d \in mixed \/ step[d] \in Checking)
  PROVE  CallOK(d)'
<1>1. CallOK(c) /\ CallOK(d) /\ ~Sound /\ installLock = c
  BY DEF InstallInv, CallOK, Locked
<1>2. step[d] \notin Locked
  BY <1>1 DEF CallOK
<1> QED
  BY <1>1, <1>2 DEF CallOK, Locked, Checking

LEMMA InstallLooks ==
  ASSUME InstallInv, NEW c \in Installers, ReadMarker(c) \/ CheckFile(c) \/ AcquireLock(c)
  PROVE  InstallInv'
<1>0. /\ InstallTypeOK /\ CallOK(c) /\ step[c] \in InstallSteps
      /\ UNCHANGED <<final, mixed, staging, unpacking, inventory, backup>>
  BY DEF InstallInv, InstallTypeOK, ReadMarker, CheckFile, AcquireLock, checkVars, stageVars
<1>1. /\ \E s \in InstallSteps : step' = [step EXCEPT ![c] = s]
      /\ noted' = noted \/ noted' = [noted EXCEPT ![c] = final.marker]
      /\ \E u \in SUBSET BrowserFiles : unchecked' = [unchecked EXCEPT ![c] = u]
      /\ installLock' = installLock \/ installLock = c \/ installLock = Nobody
  <2>1. CASE ReadMarker(c)
    <3>1. unchecked' = [unchecked EXCEPT ![c] = unchecked[c]] \/
          unchecked' = [unchecked EXCEPT ![c] = {f \in BrowserFiles : final.marker[f] # "none"}]
      BY <1>0, <2>1 DEF ReadMarker, InstallTypeOK
    <3>2. unchecked[c] \in SUBSET BrowserFiles
      BY <1>0 DEF InstallTypeOK
    <3>3. \E u \in SUBSET BrowserFiles : unchecked' = [unchecked EXCEPT ![c] = u]
      BY <3>1, <3>2
    <3> QED
      BY <1>0, <2>1, <3>3 DEF ReadMarker, Missing, Advances, InstallSteps
  <2>2. CASE CheckFile(c)
    <3>1. PICK f \in unchecked[c] :
             IF final.tree[f] # noted[c][f]
             THEN Missing(c) /\ UNCHANGED <<unchecked, installLock>>
             ELSE /\ unchecked' = [unchecked EXCEPT ![c] = @ \ {f}]
                  /\ IF unchecked[c] = {f}
                     THEN Advances(c, "told") /\ installLock' = Unlocked(c)
                     ELSE UNCHANGED <<step, installLock>>
      BY <2>2 DEF CheckFile
    <3>2. unchecked' = [unchecked EXCEPT ![c] = unchecked[c]] \/
          unchecked' = [unchecked EXCEPT ![c] = unchecked[c] \ {f}]
      BY <1>0, <3>1 DEF InstallTypeOK
    <3>3. \E u \in SUBSET BrowserFiles : unchecked' = [unchecked EXCEPT ![c] = u]
      BY <1>0, <3>2 DEF InstallTypeOK
    <3>4. step' = [step EXCEPT ![c] = step[c]] \/ Advances(c, "told") \/ Missing(c)
      BY <1>0, <3>1 DEF InstallTypeOK
    <3> QED
      BY <1>0, <2>2, <3>1, <3>3, <3>4 DEF CheckFile, Missing, Advances, InstallSteps, Unlocked
  <2>3. CASE AcquireLock(c)
    BY <1>0, <2>3 DEF AcquireLock, Advances, InstallSteps, InstallTypeOK, checkVars
  <2> QED
    BY <2>1, <2>2, <2>3
<1>2. InstallTypeOK'
  BY <1>0, <1>1, FinalFields DEF InstallTypeOK
<1>3. ASSUME NEW d \in Installers, d # c PROVE CallOK(d)'
  BY <1>0, <1>1, <1>3, OthersStay DEF InstallTypeOK
<1>4. CallOK(c)'
  <2>1. CASE ReadMarker(c)
    <3>1. CASE final.marker = NoMarker \/ final.tree[Executable] = "none"
      <4>1. ~Sound
        BY <3>1, Marked DEF Sound
      <4>2. step'[c] = "wait" \/ (step'[c] = "download" /\ step[c] = "relook")
        BY <1>0, <2>1, <3>1 DEF ReadMarker, Missing, Advances, InstallTypeOK
      <4> QED
        BY <1>0, <2>1, <4>1, <4>2 DEF ReadMarker, CallOK, Locked, Checking, Sound
    <3>2. CASE ~(final.marker = NoMarker \/ final.tree[Executable] = "none")
      <4>1. final.marker = AllGood
        BY <1>0, <3>2, FinalFields
      <4>2. noted'[c] = AllGood /\ unchecked'[c] = BrowserFiles
        <5>1. {f \in BrowserFiles : AllGood[f] # "none"} = BrowserFiles
          BY Marked
        <5>2. unchecked' = [unchecked EXCEPT ![c] = {f \in BrowserFiles : final.marker[f] # "none"}]
              /\ noted' = [noted EXCEPT ![c] = final.marker]
          BY <2>1, <3>2 DEF ReadMarker
        <5> QED
          BY <1>0, <4>1, <5>1, <5>2 DEF InstallTypeOK
      <4>3. \/ step[c] = "look" /\ step'[c] = "check"
            \/ step[c] = "relook" /\ step'[c] = "recheck"
        BY <1>0, <2>1, <3>2 DEF ReadMarker, Advances, InstallTypeOK
      <4> QED
        BY <1>0, <2>1, <4>1, <4>2, <4>3 DEF ReadMarker, CallOK, Locked, Checking
    <3> QED
      BY <3>1, <3>2
  <2>2. CASE CheckFile(c)
    <3>1. PICK f \in unchecked[c] :
             IF final.tree[f] # noted[c][f]
             THEN Missing(c) /\ UNCHANGED <<unchecked, installLock>>
             ELSE /\ unchecked' = [unchecked EXCEPT ![c] = @ \ {f}]
                  /\ IF unchecked[c] = {f}
                     THEN Advances(c, "told") /\ installLock' = Unlocked(c)
                     ELSE UNCHANGED <<step, installLock>>
      BY <2>2 DEF CheckFile
    <3>2. f \in BrowserFiles /\ UNCHANGED noted /\ step[c] \in Checking
      BY <1>0, <2>2, <3>1 DEF CheckFile, InstallTypeOK
    <3>3. CASE final.tree[f] # noted[c][f]
      <4>1. step'[c] = "wait" \/ (step'[c] = "download" /\ step[c] = "recheck")
        BY <1>0, <3>1, <3>2, <3>3 DEF Missing, Advances, InstallTypeOK, Checking
      <4>2. step[c] = "recheck" => ~Sound
        BY <1>0, <3>2, <3>3, Marked DEF CallOK, Sound
      <4> QED
        BY <1>0, <3>1, <3>3, <4>1, <4>2 DEF CallOK, Locked, Checking, Sound
    <3>4. CASE final.tree[f] = noted[c][f]
      <4>1. unchecked'[c] = unchecked[c] \ {f}
        BY <1>0, <3>1, <3>4 DEF InstallTypeOK
      <4>2. step[c] = "recheck" \/ c \notin mixed =>
               \A g \in BrowserFiles \ unchecked'[c] : final.tree[g] = "good"
        BY <1>0, <3>2, <3>4, <4>1, Marked DEF CallOK, Checking
      <4>3. CASE unchecked[c] = {f}
        <5>1. step'[c] = "told"
          BY <1>0, <3>1, <3>4, <4>3 DEF Advances, InstallTypeOK
        <5>2. c \notin mixed => Sound
          BY <1>0, <3>2, <4>1, <4>2, <4>3, GoodTree, FinalFields DEF Sound, CallOK, Checking
        <5> QED
          BY <1>0, <5>1, <5>2 DEF CallOK, Locked, Checking, Sound
      <4>4. CASE unchecked[c] # {f}
        BY <1>0, <3>1, <3>2, <3>4, <4>1, <4>2, <4>4 DEF CallOK, Locked, Checking, Sound
      <4> QED
        BY <4>3, <4>4
    <3> QED
      BY <3>3, <3>4
  <2>3. CASE AcquireLock(c)
    BY <1>0, <2>3 DEF AcquireLock, Advances, CallOK, Locked, Checking, InstallTypeOK
  <2> QED
    BY <2>1, <2>2, <2>3
<1> QED
  BY <1>2, <1>3, <1>4 DEF InstallInv

\* What is unpacked goes to a directory of its own.
LEMMA InstallUnpacks ==
  ASSUME InstallInv, NEW c \in Installers,
         Download(c) \/ EmptyStaging(c) \/ ExtractFile(c) \/ CollectFiles(c)
  PROVE  InstallInv'
<1>0. /\ InstallTypeOK /\ CallOK(c) /\ step[c] \in InstallSteps
      /\ UNCHANGED <<installLock, final, noted, unchecked, mixed, backup>>
      /\ staging[c] \in Trees
  BY DEF InstallInv, InstallTypeOK, Download, EmptyStaging, ExtractFile, CollectFiles, checkVars
<1>1. CASE Download(c)
  <2>1. /\ step' = [step EXCEPT ![c] = "extract"] /\ step[c] = "download"
        /\ unpacking' = [unpacking EXCEPT ![c] = BrowserFiles \cup {Sweep}]
        /\ UNCHANGED <<staging, inventory>>
    BY <1>1 DEF Download, Advances
  <2>2. InstallTypeOK'
    BY <1>0, <2>1 DEF InstallTypeOK, InstallSteps
  <2>3. CallOK(c)'
    BY <1>0, <2>1 DEF CallOK, Locked, Checking, InstallTypeOK, Sound
  <2>4. ASSUME NEW d \in Installers, d # c PROVE CallOK(d)'
    BY <1>0, <2>1, <2>4, OthersStay DEF InstallTypeOK
  <2> QED
    BY <2>2, <2>3, <2>4 DEF InstallInv
<1>2. CASE EmptyStaging(c)
  <2>1. /\ UNCHANGED <<step, inventory>> /\ Sweep \in unpacking[c]
        /\ unpacking' = [unpacking EXCEPT ![c] = BrowserFiles]
        /\ staging' = [staging EXCEPT ![c] = NoTree]
    BY <1>2 DEF EmptyStaging, StagingOf
  <2>2. InstallTypeOK'
    BY <1>0, <2>1, Marked DEF InstallTypeOK
  <2>3. step[c] \notin {"set_aside", "publish"}
    BY <1>0, <2>1 DEF CallOK
  <2>4. CallOK(c)'
    BY <1>0, <2>1, <2>3 DEF CallOK, InstallTypeOK, Sound
  <2>5. ASSUME NEW d \in Installers, d # c PROVE CallOK(d)'
    BY <1>0, <2>1, <2>5, OthersStay DEF InstallTypeOK
  <2> QED
    BY <2>2, <2>4, <2>5 DEF InstallInv
<1>3. CASE ExtractFile(c)
  <2>1. PICK f \in unpacking[c] :
           /\ staging' = [staging EXCEPT ![c][f] = "good"]
           /\ unpacking' = [unpacking EXCEPT ![c] = @ \ {f}]
    BY <1>3 DEF ExtractFile, StagingOf
  <2>2. /\ UNCHANGED <<step, inventory>> /\ Sweep \notin unpacking[c] /\ f \in BrowserFiles
        /\ unpacking'[c] = unpacking[c] \ {f}
    BY <1>0, <1>3, <2>1 DEF ExtractFile, InstallTypeOK
  <2>3. /\ staging' = [staging EXCEPT ![c] = [staging[c] EXCEPT ![f] = "good"]]
        /\ [staging[c] EXCEPT ![f] = "good"] \in Trees
    BY <1>0, <2>1, <2>2 DEF InstallTypeOK, Trees
  <2>4. \A g \in BrowserFiles : staging'[c][g] = IF g = f THEN "good" ELSE staging[c][g]
    BY <1>0, <2>2, <2>3 DEF InstallTypeOK, Trees
  <2>5. InstallTypeOK'
    BY <1>0, <2>1, <2>2, <2>3 DEF InstallTypeOK
  <2>6. CallOK(c)'
    BY <1>0, <2>1, <2>2, <2>4 DEF CallOK, Sound
  <2>7. ASSUME NEW d \in Installers, d # c PROVE CallOK(d)'
    BY <1>0, <2>1, <2>2, <2>3, <2>7, OthersStay DEF InstallTypeOK
  <2> QED
    BY <2>5, <2>6, <2>7 DEF InstallInv
<1>4. CASE CollectFiles(c)
  <2>1. /\ UNCHANGED <<staging, unpacking>> /\ unpacking[c] = {} /\ step[c] = "extract"
        /\ step' = [step EXCEPT ![c] = "set_aside"]
        /\ inventory' = [inventory EXCEPT ![c] = staging[c]]
    BY <1>4 DEF CollectFiles, Advances, Staged, StagingOf
  <2>2. staging[c] = AllGood
    BY <1>0, <2>1, GoodTree DEF CallOK
  <2>3. InstallTypeOK'
    BY <1>0, <2>1 DEF InstallTypeOK, InstallSteps
  <2>4. CallOK(c)'
    BY <1>0, <2>1, <2>2 DEF CallOK, InstallTypeOK, Locked, Checking, Sound
  <2>5. ASSUME NEW d \in Installers, d # c PROVE CallOK(d)'
    BY <1>0, <2>1, <2>5, OthersStay DEF InstallTypeOK
  <2> QED
    BY <2>3, <2>4, <2>5 DEF InstallInv
<1> QED
  BY <1>1, <1>2, <1>3, <1>4

\* Publication is another directory for whoever is looking.
LEMMA InstallPublishes ==
  ASSUME InstallInv, NEW c \in Installers, SetAside(c) \/ Publishes(c) \/ WriteMarker(c)
  PROVE  InstallInv'
<1>0. /\ InstallTypeOK /\ CallOK(c) /\ step[c] \in {"set_aside", "publish", "mark"} /\ ~Sound
      /\ installLock = c
      /\ UNCHANGED <<noted, unchecked, unpacking, inventory>>
      /\ final \in Directories /\ staging[c] \in Trees
  BY DEF InstallInv, InstallTypeOK, SetAside, Publishes, WriteMarker, checkVars, CallOK, Locked
<1>1. Nothing \in Directories /\ Nothing.tree = NoTree /\ Nothing.marker = NoMarker
  BY Marked DEF Nothing, Directories
<1>2. CASE SetAside(c)
  <2>1. /\ step' = [step EXCEPT ![c] = "publish"] /\ UNCHANGED <<installLock, staging>>
        /\ step[c] = "set_aside"
    BY <1>2 DEF SetAside, Advances
  <2>2. /\ final' = Nothing
        /\ backup' = backup \/ backup' = [backup EXCEPT ![c] = final]
        /\ mixed' = mixed \/ MixesUp
    <3>1. CASE final.tree = NoTree /\ final.marker = NoMarker
      <4>1. final = Nothing
        BY <1>0, <3>1 DEF Directories, Nothing
      <4> QED
        BY <1>2, <3>1, <4>1 DEF SetAside
    <3>2. CASE ~(final.tree = NoTree /\ final.marker = NoMarker)
      BY <1>2, <3>2 DEF SetAside
    <3> QED
      BY <3>1, <3>2
  <2>3. InstallTypeOK'
    BY <1>0, <1>1, <2>1, <2>2 DEF InstallTypeOK, InstallSteps, MixesUp
  <2>4. CallOK(c)'
    BY <1>0, <1>1, <2>1, <2>2, Marked DEF CallOK, InstallTypeOK, Locked, Checking, Sound
  <2>5. ASSUME NEW d \in Installers, d # c PROVE CallOK(d)'
    <3>1. CASE MixesUp
      BY <1>0, <2>1, <2>5, <3>1, OthersMixed DEF InstallTypeOK, MixesUp
    <3>2. CASE mixed' = mixed /\ final' = final
      BY <1>0, <2>1, <2>5, <3>2, OthersStay DEF InstallTypeOK
    <3> QED
      BY <1>2, <3>1, <3>2 DEF SetAside
  <2> QED
    BY <2>3, <2>4, <2>5 DEF InstallInv
<1>3. CASE Publishes(c)
  <2>1. /\ step' = [step EXCEPT ![c] = "mark"] /\ UNCHANGED <<installLock, backup>>
        /\ step[c] = "publish" /\ MixesUp
        /\ staging' = [staging EXCEPT ![c] = NoTree]
        /\ final' = [tree |-> staging[c], marker |-> NoMarker]
    BY <1>3 DEF Publishes, Advances, Staged, StagingOf
  <2>2. final' \in Directories /\ final'.tree = AllGood /\ final'.marker = NoMarker
    BY <1>0, <2>1 DEF Directories, CallOK
  <2>3. InstallTypeOK'
    BY <1>0, <2>1, <2>2, Marked DEF InstallTypeOK, InstallSteps, MixesUp
  <2>4. CallOK(c)'
    BY <1>0, <2>1, <2>2, Marked DEF CallOK, InstallTypeOK, Locked, Checking, Sound
  <2>5. ASSUME NEW d \in Installers, d # c PROVE CallOK(d)'
    BY <1>0, <2>1, <2>5, OthersMixed DEF InstallTypeOK, MixesUp
  <2> QED
    BY <2>3, <2>4, <2>5 DEF InstallInv
<1>4. CASE WriteMarker(c)
  <2>1. /\ step' = [step EXCEPT ![c] = "told"] /\ step[c] = "mark"
        /\ installLock' = Nobody /\ UNCHANGED <<staging, mixed>>
        /\ backup' = [backup EXCEPT ![c] = Nothing]
        /\ final' = [final EXCEPT !.marker = inventory[c]]
    BY <1>0, <1>4 DEF WriteMarker, Advances, Unlocked, checkVars
  <2>2. final' \in Directories /\ final'.tree = AllGood /\ final'.marker = AllGood
    BY <1>0, <2>1 DEF Directories, CallOK
  <2>3. InstallTypeOK'
    BY <1>0, <1>1, <2>1, <2>2 DEF InstallTypeOK, InstallSteps
  <2>4. CallOK(c)'
    BY <1>0, <2>1, <2>2 DEF CallOK, InstallTypeOK, Locked, Checking, Sound
  <2>5. ASSUME NEW d \in Installers, d # c PROVE CallOK(d)'
    <3>1. final.marker # AllGood
      BY <1>0, <2>1 DEF CallOK, Sound
    <3>2. CallOK(d) /\ step'[d] = step[d] /\ step[d] \notin Locked
      BY <1>0, <2>1, <2>5 DEF InstallInv, InstallTypeOK, CallOK
    <3> QED
      BY <1>0, <2>1, <2>2, <3>1, <3>2 DEF CallOK, Locked, Checking, Sound
  <2> QED
    BY <2>3, <2>4, <2>5 DEF InstallInv
<1> QED
  BY <1>2, <1>3, <1>4

\* A call that ends without a browser takes nothing from the others.
LEMMA InstallEnds ==
  ASSUME InstallInv, NEW c \in Installers,
         StepFails(c) \/ NoExecutable(c) \/ CallDropped(c) \/ InstallerDies(c)
  PROVE  InstallInv'
<1>0. /\ InstallTypeOK /\ CallOK(c)
      /\ UNCHANGED <<final, noted, unchecked, mixed, inventory, backup>>
  BY DEF InstallInv, StepFails, NoExecutable, CallDropped, InstallerDies, checkVars, stageVars
<1>1. /\ step' = [step EXCEPT ![c] = "failed"] \/ step' = [step EXCEPT ![c] = "gone"]
      /\ installLock' = IF installLock = c THEN Nobody ELSE installLock
      /\ staging' = staging \/ staging' = [staging EXCEPT ![c] = NoTree]
      /\ unpacking' = unpacking \/ unpacking' = [unpacking EXCEPT ![c] = {}]
  BY DEF StepFails, NoExecutable, CallDropped, InstallerDies, Fail, Advances, Unlocked, StagingOf,
     stageVars
<1>2. InstallTypeOK'
  BY <1>0, <1>1, Marked DEF InstallTypeOK, InstallSteps
<1>3. CallOK(c)'
  BY <1>0, <1>1 DEF CallOK, InstallTypeOK, Locked, Checking, Sound
<1>4. ASSUME NEW d \in Installers, d # c PROVE CallOK(d)'
  BY <1>0, <1>1, <1>4, OthersStay DEF InstallTypeOK
<1> QED
  BY <1>2, <1>3, <1>4 DEF InstallInv

LEMMA PublicationEnds ==
  ASSUME InstallInv, NEW c \in Installers, PublicationFails(c) \/ MarkFails(c)
  PROVE  InstallInv'
<1>0. /\ InstallTypeOK /\ CallOK(c) /\ step[c] \in {"publish", "mark"} /\ installLock = c
      /\ UNCHANGED <<noted, unchecked, unpacking, inventory, backup>> /\ MixesUp
      /\ final \in Directories /\ backup[c] \in Directories
  BY DEF InstallInv, InstallTypeOK, PublicationFails, MarkFails, CallOK, Locked
<1>1. /\ step' = [step EXCEPT ![c] = "failed"]
      /\ installLock' = Nobody
      /\ staging' = [staging EXCEPT ![c] = NoTree]
  BY <1>0 DEF PublicationFails, MarkFails, Fail, Advances, Unlocked, StagingOf
<1>2. final' \in Directories
  <2>1. ASSUME NEW f \in BrowserFiles, final' = [final EXCEPT !.tree[f] = "none"]
        PROVE final' \in Directories
    <3>1. [final.tree EXCEPT ![f] = "none"] \in Trees
      BY <1>0 DEF Directories, Trees
    <3>2. final' = [final EXCEPT !.tree = [final.tree EXCEPT ![f] = "none"]]
      BY <1>0, <2>1 DEF Directories
    <3> QED
      BY <1>0, <3>1, <3>2 DEF Directories
  <2> QED
    BY <1>0, <2>1 DEF PublicationFails, MarkFails
<1>3. InstallTypeOK'
  BY <1>0, <1>1, <1>2, Marked DEF InstallTypeOK, InstallSteps, MixesUp
<1>4. CallOK(c)'
  BY <1>0, <1>1 DEF CallOK, InstallTypeOK, Locked, Checking, Sound
<1>5. ASSUME NEW d \in Installers, d # c PROVE CallOK(d)'
  BY <1>0, <1>1, <1>5, OthersMixed DEF InstallTypeOK, MixesUp
<1> QED
  BY <1>3, <1>4, <1>5 DEF InstallInv

LEMMA InstallStep == InstallInv /\ [InstallNext]_installVars => InstallInv'
<1> SUFFICES ASSUME InstallInv, [InstallNext]_installVars PROVE InstallInv'
  OBVIOUS
<1>1. CASE UNCHANGED installVars
  BY <1>1 DEF installVars, checkVars, stageVars, InstallInv, InstallTypeOK, CallOK, Sound
<1>2. CASE InstallNext
  BY <1>2, InstallLooks, InstallUnpacks, InstallPublishes, InstallEnds, PublicationEnds DEF InstallNext
<1> QED
  BY <1>1, <1>2

\* However many processes share the cache, and wherever one of them crashes,
\* fails or is dropped: whoever was told of a browser has all of it and nobody
\* replaces it, except a call that read the marker of one directory and the
\* files of the next one (mixed), of which nothing is claimed.
THEOREM ToldKeepTheirBrowser == InstallSpec => []ToldKeepsItsBrowser
<1>1. InstallSpec => []InstallInv
  BY InstallInitInv, InstallStep, PTL DEF InstallSpec
<1>2. InstallInv => ToldKeepsItsBrowser
  BY DEF InstallInv, CallOK, Sound, ToldKeepsItsBrowser
<1> QED
  BY <1>1, <1>2, PTL

(***************************************************************************)
(* The handoff checkpoints: OneCurrentHandoff.                             *)
(***************************************************************************)
LEMMA SavedFacts ==
  ASSUME HandoffTypeOK
  PROVE  /\ Saved \subseteq Handoffs /\ Active \subseteq Saved
         /\ IsFiniteSet(Saved) /\ Cardinality(Saved) \in Nat
         /\ IsFiniteSet(Active) /\ Cardinality(Active) \in Nat
<1>1. Saved \subseteq Handoffs /\ Active \subseteq Saved
  BY DEF Saved, Active
<1>2. IsFiniteSet(Saved) /\ IsFiniteSet(Active)
  BY <1>1, FS_Subset, HandoffAssumption DEF HandoffAssumption
<1> QED
  BY <1>1, <1>2, FS_CardinalityType

LEMMA AtMostOneOf ==
  ASSUME NEW S, NEW x, S \subseteq {x} PROVE IsFiniteSet(S) /\ Cardinality(S) <= 1
<1>1. IsFiniteSet({x}) /\ Cardinality({x}) = 1
  BY FS_Singleton
<1> QED
  BY <1>1, FS_Subset

LEMMA HandoffInitInv == HandoffInit => HandoffInv
<1> SUFFICES ASSUME HandoffInit PROVE HandoffInv
  OBVIOUS
<1>1. HandoffTypeOK
  BY DEF HandoffInit, HandoffTypeOK
<1>2. MutationOK
  BY DEF HandoffInit, MutationOK, Mutating, NoMutation
<1>3. Saved = {} /\ Active = {}
  BY DEF HandoffInit, Saved, Active
<1>4. Cardinality(Saved) = 0 /\ Cardinality(Active) = 0
  BY <1>3, FS_EmptySet
<1>5. OneCurrentHandoff
  <2>1. OneIsActive
    BY <1>4, HandoffAssumption DEF OneIsActive, HandoffAssumption
  <2>2. EndedStaysEnded /\ CurrentIsKept
    BY DEF EndedStaysEnded, CurrentIsKept, HandoffInit
  <2> QED
    BY <2>1, <2>2 DEF OneCurrentHandoff
<1> QED
  BY <1>1, <1>2, <1>5 DEF HandoffInv

\* The operation that holds the lock, field by field.
LEMMA Mutation ==
  ASSUME HandoffTypeOK, ~Mutating("none")
  PROVE  /\ mutation \in MutationRecord
         /\ mutation.at \in {"publish", "supersede", "prune", "unlink"}
         /\ mutation.new \in Handoffs /\ mutation.victim \in Handoffs
         /\ mutation.older \in SUBSET Handoffs /\ mutation.excess \in Nat
         /\ mutation.clean \in BOOLEAN
BY DEF HandoffTypeOK, Mutating, NoMutation, MutationRecord

LEMMA Going ==
  ASSUME mutation \in MutationRecord,
         NEW at \in {"publish", "supersede", "prune", "unlink"}, Goto(at)
  PROVE  /\ mutation' \in MutationRecord /\ mutation'.at = at
         /\ mutation'.new = mutation.new /\ mutation'.victim = mutation.victim
         /\ mutation'.older = mutation.older /\ mutation'.excess = mutation.excess
         /\ mutation'.clean = mutation.clean
BY DEF MutationRecord, Goto

\* Between operations nothing is left to say of one.
LEMMA AtRest ==
  ASSUME mutation'.at = "none" PROVE MutationOK'
BY DEF MutationOK, Mutating

LEMMA BeginCreateKeeps ==
  ASSUME HandoffInv, NEW h \in Handoffs, BeginCreate(h) PROVE HandoffInv'
<1>0. /\ HandoffTypeOK /\ OneCurrentHandoff
      /\ checkpoints[h] = 0 /\ markers[h] = {} /\ h \notin ended
      /\ UNCHANGED <<checkpoints, markers, current, ended, damaged>>
      /\ mutation' = [at |-> "publish", new |-> h, victim |-> h,
                      older |-> Active, excess |-> 0, clean |-> TRUE]
  BY DEF HandoffInv, BeginCreate, ExistingActive
<1>1. /\ Active' = Active /\ Saved' = Saved /\ h \notin Active /\ Active \subseteq Handoffs
  BY <1>0 DEF Active, Saved, Ended
<1>2. /\ mutation' \in MutationRecord /\ mutation'.at = "publish" /\ mutation'.new = h
      /\ mutation'.older = Active
  BY <1>0, <1>1 DEF MutationRecord
<1>3. HandoffTypeOK'
  BY <1>0, <1>2 DEF HandoffTypeOK
<1>4. MutationOK'
  BY <1>0, <1>1, <1>2 DEF MutationOK, Mutating
<1>5. OneCurrentHandoff'
  BY <1>0, <1>1, <1>2 DEF OneCurrentHandoff, EndedStaysEnded, CurrentIsKept, OneIsActive, Mutating
<1> QED
  BY <1>3, <1>4, <1>5 DEF HandoffInv

LEMMA PublishKeeps ==
  ASSUME HandoffInv, Publish PROVE HandoffInv'
<1>0. /\ HandoffTypeOK /\ OneCurrentHandoff /\ MutationOK /\ mutation.at = "publish"
      /\ UNCHANGED <<markers, current, ended, damaged>> /\ Goto("supersede")
  BY DEF HandoffInv, Publish, NoFault, Mutating
<1>1. /\ mutation \in MutationRecord /\ mutation.new \in Handoffs
      /\ mutation' \in MutationRecord /\ mutation'.at = "supersede"
      /\ mutation'.new = mutation.new /\ mutation'.older = mutation.older
      /\ mutation'.clean = mutation.clean
  BY <1>0, Mutation, Going DEF Mutating
<1>2. PICK t \in 1..MaxTime : checkpoints' = [checkpoints EXCEPT ![mutation.new] = t]
  BY DEF Publish
<1>3. t \in Nat /\ t # 0
  BY <1>2, HandoffAssumption DEF HandoffAssumption
<1>4. mutation.new \notin ended /\ markers[mutation.new] = {}
  BY <1>0 DEF MutationOK, Mutating
<1>5. Active' = Active \cup {mutation.new} /\ mutation.new \in Active'
  BY <1>0, <1>1, <1>2, <1>3, <1>4 DEF Active, Saved, Ended, HandoffTypeOK
<1>6. HandoffTypeOK'
  BY <1>0, <1>1, <1>2, <1>3 DEF HandoffTypeOK
<1>7. MutationOK'
  BY <1>0, <1>1, <1>5 DEF MutationOK, Mutating
<1>8. OneCurrentHandoff'
  BY <1>0, <1>1, <1>4, <1>5
  DEF OneCurrentHandoff, EndedStaysEnded, CurrentIsKept, OneIsActive, Mutating
<1> QED
  BY <1>6, <1>7, <1>8 DEF HandoffInv

LEMMA SupersedeKeeps ==
  ASSUME HandoffInv, NEW h \in Handoffs, Supersede(h) PROVE HandoffInv'
<1>0. /\ HandoffTypeOK /\ OneCurrentHandoff /\ MutationOK /\ mutation.at = "supersede"
      /\ UNCHANGED <<checkpoints, current>> /\ h \in mutation.older
  BY DEF HandoffInv, Supersede, Mutating
<1>1. mutation \in MutationRecord /\ mutation.new \in Handoffs /\ mutation.older \subseteq Handoffs
  BY <1>0, Mutation DEF Mutating
<1>2. /\ mutation.new \in Active /\ mutation.new # h
      /\ mutation.new \notin mutation.older
      /\ mutation.clean => Active \subseteq {mutation.new} \cup mutation.older
  BY <1>0 DEF MutationOK, Mutating
<1>3. CASE /\ Mark(h, "superseded") /\ Ends(h)
           /\ mutation' = [mutation EXCEPT !.older = @ \ {h}]
           /\ NoFault
  <2>1. /\ mutation' \in MutationRecord /\ mutation'.at = "supersede"
        /\ mutation'.new = mutation.new /\ mutation'.older = mutation.older \ {h}
        /\ mutation'.clean = mutation.clean
    BY <1>0, <1>1, <1>3 DEF MutationRecord
  <2>2. /\ markers' = [markers EXCEPT ![h] = @ \cup {"superseded"}] /\ ended' = ended \cup {h}
        /\ UNCHANGED damaged
    BY <1>3 DEF Mark, Ends, NoFault
  <2>3. Active' = Active \ {h}
    BY <1>0, <2>2 DEF Active, Saved, Ended, HandoffTypeOK
  <2>4. HandoffTypeOK'
    BY <1>0, <2>1, <2>2 DEF HandoffTypeOK, Markers
  <2>5. MutationOK'
    BY <1>0, <1>2, <2>1, <2>3 DEF MutationOK, Mutating
  <2>6. OneCurrentHandoff'
    BY <1>0, <1>2, <2>1, <2>2, <2>3
    DEF OneCurrentHandoff, EndedStaysEnded, CurrentIsKept, OneIsActive, Mutating
  <2> QED
    BY <2>4, <2>5, <2>6 DEF HandoffInv
<1>4. CASE /\ HandoffFault
           /\ mutation' = [mutation EXCEPT !.older = @ \ {h}, !.clean = FALSE]
           /\ UNCHANGED <<markers, ended>>
  <2>1. /\ mutation' \in MutationRecord /\ mutation'.at = "supersede"
        /\ mutation'.new = mutation.new /\ mutation'.older = mutation.older \ {h}
        /\ mutation'.clean = FALSE
    BY <1>0, <1>1, <1>4 DEF MutationRecord
  <2>2. Active' = Active /\ damaged' \in BOOLEAN
    BY <1>0, <1>4 DEF Active, Saved, Ended, HandoffFault
  <2>3. HandoffTypeOK'
    BY <1>0, <1>4, <2>1, <2>2 DEF HandoffTypeOK
  <2>4. MutationOK'
    BY <1>0, <1>2, <2>1, <2>2 DEF MutationOK, Mutating
  <2>5. OneCurrentHandoff'
    BY <1>0, <1>4, <2>1, <2>2
    DEF OneCurrentHandoff, EndedStaysEnded, CurrentIsKept, OneIsActive, Mutating
  <2> QED
    BY <2>3, <2>4, <2>5 DEF HandoffInv
<1> QED
  BY <1>3, <1>4 DEF Supersede

LEMMA CountKeeps ==
  ASSUME HandoffInv, Count PROVE HandoffInv'
<1>0. /\ HandoffTypeOK /\ OneCurrentHandoff /\ MutationOK /\ mutation.at = "supersede"
      /\ UNCHANGED <<checkpoints, markers, current, ended, damaged>> /\ mutation.older = {}
  BY DEF HandoffInv, Count, Mutating, NoFault
<1>1. mutation \in MutationRecord /\ mutation.clean \in BOOLEAN
  BY <1>0, Mutation DEF Mutating
<1>2. Saved' = Saved /\ Active' = Active /\ Prunable \in SUBSET Handoffs
      /\ (\A h \in Prunable : Ended(h)') /\ Saved \subseteq Active \cup Prunable
  BY <1>0 DEF Saved, Active, Ended, Prunable
<1> DEFINE excess == IF Cardinality(Saved) > MaxRetained THEN Cardinality(Saved) - MaxRetained ELSE 0
<1>3. excess \in Nat /\ Cardinality(Saved) <= MaxRetained + excess
  BY <1>0, SavedFacts, HandoffAssumption DEF HandoffAssumption
<1>4. mutation' = [mutation EXCEPT !.at = "prune", !.excess = excess, !.older = Prunable]
  BY DEF Count
<1> HIDE DEF excess
<1>5. /\ mutation' \in MutationRecord /\ mutation'.at = "prune" /\ mutation'.new = mutation.new
      /\ mutation'.older = Prunable /\ mutation'.excess = excess /\ mutation'.clean = mutation.clean
  <2>1. DEFINE m1 == [mutation EXCEPT !.at = "prune"]
               m2 == [m1 EXCEPT !.excess = excess]
               m3 == [m2 EXCEPT !.older = Prunable]
  <2>2. m1 \in MutationRecord /\ m1.at = "prune" /\ m1.new = mutation.new /\ m1.clean = mutation.clean
    BY <1>1 DEF MutationRecord
  <2>3. /\ m2 \in MutationRecord /\ m2.at = "prune" /\ m2.new = mutation.new
        /\ m2.clean = mutation.clean /\ m2.excess = excess
    BY <1>3, <2>2 DEF MutationRecord
  <2>4. /\ m3 \in MutationRecord /\ m3.at = "prune" /\ m3.new = mutation.new
        /\ m3.clean = mutation.clean /\ m3.excess = excess /\ m3.older = Prunable
    BY <1>2, <2>3 DEF MutationRecord
  <2> QED
    BY <1>4, <2>4
<1>6. HandoffTypeOK'
  BY <1>0, <1>5 DEF HandoffTypeOK
<1>7. /\ mutation.new \in Active
      /\ mutation.clean => Active \subseteq {mutation.new}
  BY <1>0 DEF MutationOK, Mutating
<1>8. Saved \subseteq Active \cup Prunable
  BY <1>2
<1>9. /\ mutation'.new \in Active'
      /\ \A h \in mutation'.older : Ended(h)'
      /\ mutation'.clean => /\ Active' \subseteq {mutation'.new}
                            /\ Cardinality(Saved') <= MaxRetained + mutation'.excess
                            /\ Saved' \subseteq {mutation'.new} \cup mutation'.older
  BY <1>2, <1>3, <1>5, <1>7
<1>10. MutationOK'
  BY <1>5, <1>9 DEF MutationOK, Mutating
<1>11. OneCurrentHandoff'
  BY <1>0, <1>2, <1>5 DEF OneCurrentHandoff, EndedStaysEnded, CurrentIsKept, OneIsActive, Mutating
<1> QED
  BY <1>6, <1>10, <1>11 DEF HandoffInv

LEMMA PruneKeeps ==
  ASSUME HandoffInv, NEW h \in Handoffs, Prune(h) PROVE HandoffInv'
<1>0. /\ HandoffTypeOK /\ OneCurrentHandoff /\ MutationOK /\ mutation.at = "prune"
      /\ UNCHANGED <<checkpoints, markers, current, ended, damaged>>
      /\ mutation.excess > 0 /\ h \in mutation.older
      /\ mutation' = [mutation EXCEPT !.at = "unlink", !.victim = h, !.older = @ \ {h}]
  BY DEF HandoffInv, Prune, Mutating, NoFault, OldestOf
<1>1. mutation \in MutationRecord
  BY <1>0, Mutation DEF Mutating
<1>2. Saved' = Saved /\ Active' = Active /\ (\A g \in Handoffs : Ended(g)' <=> Ended(g))
  BY <1>0 DEF Saved, Active, Ended
<1>3. /\ mutation' \in MutationRecord /\ mutation'.at = "unlink" /\ mutation'.new = mutation.new
      /\ mutation'.victim = h /\ mutation'.older = mutation.older \ {h}
      /\ mutation'.excess = mutation.excess /\ mutation'.clean = mutation.clean
  <2>1. DEFINE m1 == [mutation EXCEPT !.at = "unlink"]
               m2 == [m1 EXCEPT !.victim = h]
               m3 == [m2 EXCEPT !.older = @ \ {h}]
  <2>2. /\ m1 \in MutationRecord /\ m1.at = "unlink" /\ m1.new = mutation.new
        /\ m1.clean = mutation.clean /\ m1.older = mutation.older /\ m1.excess = mutation.excess
    BY <1>1 DEF MutationRecord
  <2>3. /\ m2 \in MutationRecord /\ m2.at = "unlink" /\ m2.new = mutation.new /\ m2.victim = h
        /\ m2.clean = mutation.clean /\ m2.older = mutation.older /\ m2.excess = mutation.excess
    BY <2>2 DEF MutationRecord
  <2>4. /\ m3 \in MutationRecord /\ m3.at = "unlink" /\ m3.new = mutation.new /\ m3.victim = h
        /\ m3.clean = mutation.clean /\ m3.excess = mutation.excess
        /\ m3.older = mutation.older \ {h}
    BY <2>3 DEF MutationRecord
  <2> QED
    BY <1>0, <2>4
<1>4. HandoffTypeOK'
  BY <1>0, <1>3 DEF HandoffTypeOK
<1>5. /\ mutation.new \in Active
      /\ \A g \in mutation.older : Ended(g)
      /\ mutation.clean => /\ Active \subseteq {mutation.new}
                           /\ Cardinality(Saved) <= MaxRetained + mutation.excess
                           /\ Saved \subseteq {mutation.new} \cup mutation.older
  BY <1>0 DEF MutationOK, Mutating
<1>6. /\ mutation'.new \in Active'
      /\ \A g \in mutation'.older : Ended(g)'
      /\ Ended(mutation.victim)' /\ mutation'.excess > 0 /\ mutation'.victim \notin mutation'.older
      /\ mutation'.clean => /\ Active' \subseteq {mutation'.new}
                            /\ Cardinality(Saved') <= MaxRetained + mutation'.excess
                            /\ Saved' \subseteq {mutation'.new, mutation'.victim} \cup mutation'.older
  <2>1. mutation.older \subseteq Handoffs
    BY <1>1 DEF MutationRecord
  <2>2. \A g \in mutation.older : markers'[g] = markers[g]
    BY <1>0
  <2> QED
    BY <1>0, <1>2, <1>3, <1>5, <2>1, <2>2 DEF Ended
<1>7. MutationOK'
  BY <1>3, <1>6 DEF MutationOK, Mutating
<1>8. OneCurrentHandoff'
  BY <1>0, <1>2, <1>3 DEF OneCurrentHandoff, EndedStaysEnded, CurrentIsKept, OneIsActive, Mutating
<1> QED
  BY <1>4, <1>7, <1>8 DEF HandoffInv

LEMMA UnlinkKeeps ==
  ASSUME HandoffInv, NEW name \in {"checkpoint", "resumed", "superseded", "completed"}, Unlink(name)
  PROVE  HandoffInv'
<1> DEFINE v == mutation.victim
<1>0. /\ HandoffTypeOK /\ OneCurrentHandoff /\ MutationOK /\ mutation.at = "unlink"
      /\ UNCHANGED <<current, ended, damaged>> /\ name \in NextOut(v)
  BY DEF HandoffInv, Unlink, Mutating, NoFault
<1>1. mutation \in MutationRecord /\ v \in Handoffs /\ mutation.excess \in Nat
      /\ mutation.older \subseteq Handoffs
  BY <1>0, Mutation DEF Mutating
<1>2. /\ mutation.new \in Active
      /\ \A g \in mutation.older : Ended(g)
      /\ v \in Saved => Ended(v) /\ mutation.excess > 0
      /\ v \notin mutation.older
      /\ mutation.clean => /\ Active \subseteq {mutation.new}
                           /\ Cardinality(Saved) <= MaxRetained + mutation.excess
                           /\ Saved \subseteq {mutation.new, v} \cup mutation.older
  BY <1>0 DEF MutationOK, Mutating
<1>3. CASE name = "checkpoint"
  <2>1. checkpoints[v] # 0
    BY <1>0, <1>1, <1>3 DEF NextOut, HandoffTypeOK, Markers
  <2>2. /\ checkpoints' = [checkpoints EXCEPT ![v] = 0] /\ UNCHANGED markers
        /\ mutation' = [mutation EXCEPT !.excess = @ - 1]
    BY <1>3 DEF Unlink
  <2>3. v \in Saved /\ v \notin Active /\ Saved' = Saved \ {v} /\ Active' = Active
    BY <1>0, <1>1, <1>2, <2>1, <2>2 DEF Saved, Active, Ended, HandoffTypeOK
  <2>4. Cardinality(Saved') = Cardinality(Saved) - 1 /\ Cardinality(Saved) \in Nat
    BY <1>0, <2>3, SavedFacts, FS_RemoveElement
  <2>5. mutation.excess - 1 \in Nat
    BY <1>1, <1>2, <2>3
  <2>6. /\ mutation' \in MutationRecord /\ mutation'.at = "unlink" /\ mutation'.new = mutation.new
        /\ mutation'.victim = v /\ mutation'.older = mutation.older
        /\ mutation'.excess = mutation.excess - 1 /\ mutation'.clean = mutation.clean
    BY <1>0, <1>1, <2>2, <2>5 DEF MutationRecord
  <2>7. HandoffTypeOK'
    BY <1>0, <1>1, <2>2, <2>6 DEF HandoffTypeOK
  <2>8. /\ Cardinality(Saved) <= MaxRetained + mutation.excess =>
              Cardinality(Saved') <= MaxRetained + mutation'.excess
        /\ MaxRetained \in Nat
    BY <1>1, <2>4, <2>6, HandoffAssumption DEF HandoffAssumption
  <2>9. MutationOK'
    <3>1. \A g \in mutation'.older : Ended(g)'
      BY <1>2, <2>2, <2>6 DEF Ended
    <3>2. v \notin Saved'
      BY <2>3
    <3> QED
      BY <1>2, <2>3, <2>6, <2>8, <3>1, <3>2 DEF MutationOK, Mutating
  <2>10. OneCurrentHandoff'
    BY <1>0, <2>3, <2>6 DEF OneCurrentHandoff, EndedStaysEnded, CurrentIsKept, OneIsActive, Mutating
  <2> QED
    BY <2>7, <2>9, <2>10 DEF HandoffInv
<1>4. CASE name # "checkpoint"
  <2>1. checkpoints[v] = 0
    BY <1>0, <1>4 DEF NextOut
  <2>2. /\ markers' = [markers EXCEPT ![v] = @ \ {name}]
        /\ UNCHANGED <<checkpoints, mutation>>
    BY <1>4 DEF Unlink
  <2>3. v \notin Saved /\ Saved' = Saved /\ Active' = Active
    BY <1>0, <1>1, <2>1, <2>2 DEF Saved, Active, Ended, HandoffTypeOK
  <2>4. HandoffTypeOK'
    BY <1>0, <1>1, <2>2 DEF HandoffTypeOK
  <2>5. \A g \in mutation.older : markers'[g] = markers[g]
    BY <1>0, <1>1, <1>2, <2>2 DEF HandoffTypeOK
  <2>6. MutationOK'
    <3>1. \A g \in mutation.older : Ended(g)'
      BY <1>2, <2>5 DEF Ended
    <3> QED
      BY <1>0, <1>2, <2>2, <2>3, <3>1 DEF MutationOK, Mutating
  <2>7. OneCurrentHandoff'
    BY <1>0, <2>2, <2>3 DEF OneCurrentHandoff, EndedStaysEnded, CurrentIsKept, OneIsActive, Mutating
  <2> QED
    BY <2>4, <2>6, <2>7 DEF HandoffInv
<1> QED
  BY <1>3, <1>4

LEMMA UnlinkEndsKeep ==
  ASSUME HandoffInv, UnlinkFails \/ Unlinked PROVE HandoffInv'
<1>0. /\ HandoffTypeOK /\ OneCurrentHandoff /\ MutationOK /\ mutation.at = "unlink"
      /\ UNCHANGED <<checkpoints, markers, current, ended>> /\ damaged' \in BOOLEAN
  BY DEF HandoffInv, UnlinkFails, Unlinked, Mutating, NoFault, HandoffFault, HandoffTypeOK
<1>1. mutation \in MutationRecord /\ mutation.victim \in Handoffs
  BY <1>0, Mutation DEF Mutating
<1>2. Saved' = Saved /\ Active' = Active /\ \A g \in mutation.older : Ended(g)' <=> Ended(g)
  BY <1>0 DEF Saved, Active, Ended
<1>3. /\ mutation.new \in Active
      /\ \A g \in mutation.older : Ended(g)
      /\ mutation.clean => /\ Active \subseteq {mutation.new}
                           /\ Cardinality(Saved) <= MaxRetained + mutation.excess
                           /\ Saved \subseteq {mutation.new, mutation.victim} \cup mutation.older
  BY <1>0 DEF MutationOK, Mutating
<1>4. /\ mutation' \in MutationRecord /\ mutation'.at = "prune" /\ mutation'.new = mutation.new
      /\ mutation'.older = mutation.older
      /\ mutation'.clean =>
             mutation.clean /\ mutation'.excess = mutation.excess /\ mutation.victim \notin Saved
  <2>1. CASE UnlinkFails
    <3>1. DEFINE m == [mutation EXCEPT !.at = "prune"]
    <3>2. m \in MutationRecord /\ m.at = "prune" /\ m.new = mutation.new /\ m.older = mutation.older
      BY <1>1 DEF MutationRecord
    <3>3. LET n == [m EXCEPT !.clean = FALSE]
          IN  n \in MutationRecord /\ n.at = "prune" /\ n.new = mutation.new
              /\ n.older = mutation.older /\ n.clean = FALSE
      BY <3>2 DEF MutationRecord
    <3> QED
      BY <2>1, <3>3 DEF UnlinkFails
  <2>2. CASE Unlinked
    <3>1. mutation.victim \notin Saved
      BY <2>2 DEF Unlinked, Files, Saved
    <3> QED
      BY <1>1, <2>2, <3>1, Going DEF Unlinked
  <2> QED
    BY <2>1, <2>2
<1>5. HandoffTypeOK'
  BY <1>0, <1>4 DEF HandoffTypeOK
<1>6. MutationOK'
  BY <1>2, <1>3, <1>4 DEF MutationOK, Mutating
<1>7. OneCurrentHandoff'
  BY <1>0, <1>2, <1>4 DEF OneCurrentHandoff, EndedStaysEnded, CurrentIsKept, OneIsActive, Mutating
<1> QED
  BY <1>5, <1>6, <1>7 DEF HandoffInv

\* A creation that nothing disturbed leaves its checkpoint the only one to
\* resume, and no more than are retained.
LEMMA CreatedKeeps ==
  ASSUME HandoffInv, Created PROVE HandoffInv'
<1>0. /\ HandoffTypeOK /\ OneCurrentHandoff /\ MutationOK /\ mutation.at = "prune"
      /\ UNCHANGED <<checkpoints, markers, ended>> /\ damaged' = ~mutation.clean
      /\ current' = mutation.new /\ mutation' = NoMutation
      /\ mutation.excess = 0 \/ mutation.older = {}
  BY DEF HandoffInv, Created, Mutating
<1>1. /\ mutation.new \in Handoffs /\ mutation.excess \in Nat /\ mutation.clean \in BOOLEAN
      /\ mutation'.at = "none"
  BY <1>0, Mutation DEF Mutating, NoMutation
<1>2. Saved' = Saved /\ Active' = Active
  BY <1>0 DEF Saved, Active, Ended
<1>3. /\ mutation.new \in Active
      /\ mutation.clean => /\ Active \subseteq {mutation.new}
                           /\ Cardinality(Saved) <= MaxRetained + mutation.excess
                           /\ Saved \subseteq {mutation.new} \cup mutation.older
  BY <1>0 DEF MutationOK, Mutating
<1>4. MaxRetained \in Nat /\ MaxRetained >= 1
  BY HandoffAssumption DEF HandoffAssumption
<1>5. mutation.clean => Cardinality(Active) <= 1
  BY <1>3, AtMostOneOf
<1>6. mutation.clean => Cardinality(Saved) <= MaxRetained
  <2>1. CASE mutation.excess = 0
    BY <1>3, <1>4, <2>1
  <2>2. CASE mutation.older = {}
    <3>1. mutation.clean => Saved \subseteq {mutation.new}
      BY <1>3, <2>2
    <3>2. mutation.clean => Cardinality(Saved) <= 1
      BY <3>1, AtMostOneOf
    <3>3. Cardinality(Saved) \in Nat
      BY <1>0, SavedFacts
    <3> QED
      BY <1>4, <3>2, <3>3
  <2> QED
    BY <1>0, <2>1, <2>2
<1>7. HandoffTypeOK'
  BY <1>0, <1>1 DEF HandoffTypeOK
<1>8. OneCurrentHandoff'
  <2>1. OneIsActive'
    BY <1>0, <1>1, <1>2, <1>5, <1>6 DEF OneIsActive
  <2>2. EndedStaysEnded' /\ CurrentIsKept'
    BY <1>0, <1>2, <1>3 DEF OneCurrentHandoff, EndedStaysEnded, CurrentIsKept
  <2> QED
    BY <2>1, <2>2 DEF OneCurrentHandoff
<1> QED
  BY <1>1, <1>7, <1>8, AtRest DEF HandoffInv

LEMMA MarkingKeeps ==
  ASSUME HandoffInv, NEW h \in Handoffs, Resume(h) \/ Complete(h) PROVE HandoffInv'
<1>0. /\ HandoffTypeOK /\ OneCurrentHandoff /\ mutation.at = "none"
      /\ UNCHANGED <<checkpoints, mutation>> /\ damaged' \in BOOLEAN
      /\ damaged' \in {damaged, TRUE}
  BY DEF HandoffInv, Resume, Complete, Mutating, NoFault, HandoffFault, HandoffTypeOK
<1>1. \/ /\ markers' = markers \/ markers' = [markers EXCEPT ![h] = @ \cup {"resumed"}]
         /\ UNCHANGED <<ended, current>>
      \/ /\ markers' = [markers EXCEPT ![h] = @ \cup {"completed"}]
         /\ ended' = ended \cup {h} /\ current' = "none"
  BY DEF Resume, Complete, Mark, Ends, NoFault
<1>2. \/ Active' = Active /\ UNCHANGED <<ended, current>>
      \/ Active' = Active \ {h} /\ ended' = ended \cup {h} /\ current' = "none"
  BY <1>0, <1>1 DEF Active, Saved, Ended, HandoffTypeOK
<1>3. Saved' = Saved /\ Active' \subseteq Active
  BY <1>0, <1>2 DEF Saved
<1>4. Cardinality(Active') <= Cardinality(Active) /\ Cardinality(Active') \in Nat
      /\ Cardinality(Active) \in Nat
  BY <1>0, <1>3, SavedFacts, FS_Subset, FS_CardinalityType
<1>5. HandoffTypeOK'
  BY <1>0, <1>1 DEF HandoffTypeOK, Markers
<1>6. OneIsActive'
  <2>1. OneIsActive
    BY <1>0 DEF OneCurrentHandoff
  <2>2. ~damaged' => ~damaged
    BY <1>0
  <2>3. Cardinality(Active) <= 1 => Cardinality(Active') <= 1
    BY <1>4
  <2> QED
    BY <1>0, <1>3, <2>1, <2>2, <2>3 DEF OneIsActive, Mutating
<1>7. EndedStaysEnded' /\ CurrentIsKept'
  BY <1>0, <1>2 DEF OneCurrentHandoff, EndedStaysEnded, CurrentIsKept
<1> QED
  BY <1>0, <1>5, <1>6, <1>7, AtRest DEF HandoffInv, OneCurrentHandoff

LEMMA HandoffStep == HandoffInv /\ [HandoffNext]_handoffVars => HandoffInv'
<1> SUFFICES ASSUME HandoffInv, [HandoffNext]_handoffVars PROVE HandoffInv'
  OBVIOUS
<1>1. CASE UNCHANGED handoffVars
  BY <1>1 DEF handoffVars, HandoffInv, HandoffTypeOK, MutationOK, OneCurrentHandoff, EndedStaysEnded,
     CurrentIsKept, OneIsActive, Active, Saved, Ended, Mutating
<1>2. CASE PublishFails \/ HandoffCrash
  <2>1. /\ UNCHANGED <<checkpoints, markers, current, ended>> /\ damaged' = TRUE
        /\ mutation' = NoMutation /\ mutation'.at = "none"
    BY <1>2 DEF PublishFails, HandoffCrash, HandoffFault, NoMutation
  <2>2. Active' = Active /\ Saved' = Saved
    BY <2>1 DEF Active, Saved, Ended
  <2>3. HandoffTypeOK' /\ OneCurrentHandoff'
    BY <2>1, <2>2 DEF HandoffInv, HandoffTypeOK, OneCurrentHandoff, EndedStaysEnded, CurrentIsKept,
       OneIsActive
  <2> QED
    BY <2>1, <2>3, AtRest DEF HandoffInv
<1> QED
  BY <1>1, <1>2, BeginCreateKeeps, PublishKeeps, SupersedeKeeps, CountKeeps, PruneKeeps, UnlinkKeeps,
     UnlinkEndsKeep, CreatedKeeps, MarkingKeeps
  DEF HandoffNext

\* For any retention and any crashes: what was superseded or completed is
\* never offered again, the checkpoint reported is kept until it ends, and a
\* creation that nothing disturbed leaves one to resume.
THEOREM OneHandoffIsCurrent == HandoffSpec => []OneCurrentHandoff
<1>1. HandoffSpec => []HandoffInv
  BY HandoffInitInv, HandoffStep, PTL DEF HandoffSpec
<1>2. HandoffInv => OneCurrentHandoff
  BY DEF HandoffInv
<1> QED
  BY <1>1, <1>2, PTL

(***************************************************************************)
(* The registry of workspaces (WorkspaceRegistry).                         *)
(***************************************************************************)
Versions == [Workspaces -> Nat]
ConfigFiles == [present : BOOLEAN, versions : Versions, settings : Nat]
ChangeSteps == {"persist", "publish"}
RemoveSteps == {"revoke", "drain", "abort", "enable", "persist", "jobs", "workers",
                "commands", "publish"}
Changes == [kind : {"change"}, at : ChangeSteps, ws : Workspaces, versions : Versions, settings : Nat]
Removals == [kind : {"remove"}, at : RemoveSteps, ws : Workspaces, versions : Versions, settings : Nat]
Flushes == [kind : {"flush"}, at : {"replace", "if_present"}, versions : Versions, settings : Nat]

RegistryTypeOK ==
    /\ workspaces \in Versions /\ promised \in Versions
    /\ settings \in Nat /\ dirty \in BOOLEAN
    /\ file \in ConfigFiles
    /\ op \in {NoOp} \cup Changes \cup Removals
    /\ flush \in {NoOp} \cup Flushes
    /\ admitting \in [Workspaces -> BOOLEAN]
    /\ held \subseteq Workspaces /\ barred \subseteq Workspaces
    /\ rows \in [Workspaces -> SUBSET Kinds]
    /\ retry \in [Workspaces -> [Kinds -> Nat]]
    /\ removed \subseteq Workspaces

Removing(w) == op.kind = "remove" /\ op.ws = w

\* What is about to be written is what is registered, but for the one change
\* under way, and no setting that changed meanwhile is forgotten.
WritesTheRegistry ==
    /\ op = NoOp \/ flush = NoOp
    /\ flush # NoOp => /\ flush.versions = workspaces
                       /\ settings = flush.settings \/ dirty
    /\ op # NoOp => settings = op.settings \/ dirty

ChangeIsNew ==
    op.kind = "change" =>
        /\ op.versions[op.ws] # 0 /\ op.versions[op.ws] >= promised[op.ws]
        /\ op.versions = [workspaces EXCEPT ![op.ws] = op.versions[op.ws]]
        /\ op.ws \notin removed
        /\ op.at = "publish" => file.versions = op.versions

Recorded == op.at \in {"jobs", "workers", "commands", "publish"}
Due(w, k) == k \in rows[w] => retry[w][k] > 0

RemovalIsAlone ==
    op.kind = "remove" =>
        /\ Registered(op.ws)
        /\ op.versions = [workspaces EXCEPT ![op.ws] = 0]
        /\ op.at # "revoke" => ~admitting[op.ws]
        /\ op.at \notin {"revoke", "drain", "abort", "enable"} => op.ws \notin held
        /\ op.at = "enable" => op.ws \notin barred
        /\ Recorded => file.versions = op.versions
        /\ op.at \in {"workers", "commands", "publish"} => Due(op.ws, "jobs")
        /\ op.at \in {"commands", "publish"} => Due(op.ws, "workers")
        /\ op.at = "publish" => Due(op.ws, "commands")

\* A workspace is closed only by a removal, under way or done.
ClosedByRemoval ==
    \A w \in Workspaces : ~admitting[w] \/ w \in barred => Removing(w) \/ w \in removed

\* No version goes back, in memory or in the file, whether that is there or not.
VersionsAreKept ==
    \A w \in Workspaces :
        /\ Registered(w) => workspaces[w] >= promised[w]
        /\ file.versions[w] # 0 => file.versions[w] >= promised[w]
        /\ w \in removed => ~Registered(w) /\ file.versions[w] = 0

HeldIsRegistered == \A w \in held : Registered(w)

RegistryInv ==
    /\ RegistryTypeOK /\ WritesTheRegistry /\ ChangeIsNew /\ RemovalIsAlone
    /\ ClosedByRemoval /\ VersionsAreKept /\ HeldIsRegistered
    /\ UnsavedIsDirty /\ NothingLeftBehind

LEMMA RegistryInitInv == RegistryInit => RegistryInv
<1> SUFFICES ASSUME RegistryInit PROVE RegistryInv
  OBVIOUS
<1> USE DEF RegistryInit, NoOp
<1>1. /\ workspaces \in Versions /\ \A w \in Workspaces : w \in FirstOnes => workspaces[w] = 1
      /\ file.versions = workspaces
  BY RegistryAssumption DEF Versions
<1>2. RegistryTypeOK
  BY <1>1 DEF RegistryTypeOK, ConfigFiles
<1>3. WritesTheRegistry /\ ChangeIsNew /\ RemovalIsAlone
  BY DEF WritesTheRegistry, ChangeIsNew, RemovalIsAlone
<1>4. ClosedByRemoval /\ VersionsAreKept /\ HeldIsRegistered
  BY <1>1 DEF ClosedByRemoval, VersionsAreKept, HeldIsRegistered
<1>5. UnsavedIsDirty /\ NothingLeftBehind
  BY DEF UnsavedIsDirty, NothingLeftBehind
<1> QED BY <1>2, <1>3, <1>4, <1>5 DEF RegistryInv

LEMMA TakeLeaseKeeps ==
  ASSUME RegistryInv, NEW w \in Workspaces, TakeLease(w)
  PROVE  RegistryInv'
<1> USE DEF RegistryInv, TakeLease, Registered, OnlyRequests, configVars, historyVars
<1>1. RegistryTypeOK'
  BY DEF RegistryTypeOK
<1>2. RemovalIsAlone'
  BY DEF RemovalIsAlone, Recorded, Due
<1>3. HeldIsRegistered'
  BY DEF HeldIsRegistered
<1>4. WritesTheRegistry' /\ ChangeIsNew' /\ ClosedByRemoval' /\ VersionsAreKept' /\ UnsavedIsDirty' /\ NothingLeftBehind'
  BY DEF WritesTheRegistry, ChangeIsNew, ClosedByRemoval, VersionsAreKept, UnsavedIsDirty,
     NothingLeftBehind, Removing
<1> QED BY <1>1, <1>2, <1>3, <1>4

LEMMA ReturnLeaseKeeps ==
  ASSUME RegistryInv, NEW w \in Workspaces, ReturnLease(w)
  PROVE  RegistryInv'
<1> USE DEF RegistryInv, ReturnLease, OnlyRequests, configVars, historyVars
<1>1. RegistryTypeOK'
  BY DEF RegistryTypeOK
<1>2. RemovalIsAlone'
  BY DEF RemovalIsAlone, Registered, Recorded, Due
<1>3. HeldIsRegistered'
  BY DEF HeldIsRegistered, Registered
<1>4. WritesTheRegistry' /\ ChangeIsNew' /\ ClosedByRemoval' /\ VersionsAreKept' /\ UnsavedIsDirty' /\ NothingLeftBehind'
  BY DEF WritesTheRegistry, ChangeIsNew, ClosedByRemoval, VersionsAreKept, UnsavedIsDirty,
     NothingLeftBehind, Removing, Registered
<1> QED BY <1>1, <1>2, <1>3, <1>4

LEMMA WorkKeeps ==
  ASSUME RegistryInv, NEW w \in Workspaces, NEW k \in Kinds, Work(w, k)
  PROVE  RegistryInv'
<1> USE DEF RegistryInv, Work, OnlyRequests, configVars, historyVars
<1>1. RegistryTypeOK'
  BY DEF RegistryTypeOK
<1>2. RemovalIsAlone'
  BY DEF RemovalIsAlone, Registered, Recorded, Due
<1>3. NothingLeftBehind'
  BY DEF NothingLeftBehind, HeldIsRegistered, Registered, Recorded, Due, ChangeSteps, RemoveSteps
<1>4. WritesTheRegistry' /\ ChangeIsNew' /\ ClosedByRemoval' /\ VersionsAreKept' /\ HeldIsRegistered' /\ UnsavedIsDirty'
  BY DEF WritesTheRegistry, ChangeIsNew, ClosedByRemoval, VersionsAreKept, HeldIsRegistered,
     UnsavedIsDirty, Removing, Registered
<1> QED BY <1>1, <1>2, <1>3, <1>4

LEMMA BeginChangeKeeps ==
  ASSUME RegistryInv, NEW w \in Workspaces, BeginChange(w)
  PROVE  RegistryInv'
<1> USE DEF RegistryInv, BeginChange, LockFree, Registered, NewId, Fresh, configVars,
   leaseholdVars, cleanupVars, historyVars, NoOp
<1>1. RegistryTypeOK'
  BY DEF RegistryTypeOK, Versions, ConfigFiles, Changes, ChangeSteps
<1>2. WritesTheRegistry'
  BY DEF WritesTheRegistry
<1>3. ChangeIsNew'
  BY DEF RegistryTypeOK, ChangeIsNew, VersionsAreKept, Versions, ConfigFiles
<1>4. RemovalIsAlone'
  BY DEF RemovalIsAlone
<1>5. ClosedByRemoval'
  BY DEF ClosedByRemoval, Removing
<1>6. VersionsAreKept' /\ HeldIsRegistered' /\ UnsavedIsDirty' /\ NothingLeftBehind'
  BY DEF VersionsAreKept, HeldIsRegistered, UnsavedIsDirty, NothingLeftBehind
<1> QED BY <1>1, <1>2, <1>3, <1>4, <1>5, <1>6

LEMMA ChangePersistsKeeps ==
  ASSUME RegistryInv, ChangePersists
  PROVE  RegistryInv'
<1> USE DEF RegistryInv, ChangePersists, OpAt, SaveOk, Step, leaseholdVars, cleanupVars, Written
<1>1. RegistryTypeOK'
  BY DEF RegistryTypeOK, ConfigFiles, NoOp, Changes, Removals, Kinds, ChangeSteps
<1>2. WritesTheRegistry'
  BY DEF WritesTheRegistry, NoOp
<1>3. ChangeIsNew'
  BY DEF ChangeIsNew
<1>4. RemovalIsAlone'
  BY DEF RemovalIsAlone
<1>5. VersionsAreKept'
  BY DEF RegistryTypeOK, VersionsAreKept, ChangeIsNew, Versions, Registered
<1>6. UnsavedIsDirty'
  BY DEF WritesTheRegistry, UnsavedIsDirty, NoOp
<1>7. ClosedByRemoval' /\ HeldIsRegistered' /\ NothingLeftBehind'
  BY DEF ClosedByRemoval, HeldIsRegistered, NothingLeftBehind, Removing, Registered
<1> QED BY <1>1, <1>2, <1>3, <1>4, <1>5, <1>6, <1>7

LEMMA ChangeFailsKeeps ==
  ASSUME RegistryInv, ChangeFails
  PROVE  RegistryInv'
<1> USE DEF RegistryInv, ChangeFails, OpAt, WriteFails, NoOp, leaseholdVars, cleanupVars,
   Written, Fault
<1>1. RegistryTypeOK'
  <2>1. Written(op) \in ConfigFiles
    BY DEF RegistryTypeOK, Changes, Removals, ConfigFiles
  <2>2. file' \in ConfigFiles
    BY <2>1 DEF RegistryTypeOK
  <2> QED
    BY <2>2 DEF RegistryTypeOK
<1>2. WritesTheRegistry'
  BY DEF WritesTheRegistry
<1>3. ChangeIsNew'
  BY DEF ChangeIsNew
<1>4. RemovalIsAlone'
  BY DEF RemovalIsAlone
<1>5. VersionsAreKept'
  BY DEF RegistryTypeOK, VersionsAreKept, ChangeIsNew, Versions, Changes, Removals, Registered
<1>6. UnsavedIsDirty'
  BY DEF WritesTheRegistry, UnsavedIsDirty
<1>7. ClosedByRemoval' /\ HeldIsRegistered' /\ NothingLeftBehind'
  BY DEF ClosedByRemoval, HeldIsRegistered, NothingLeftBehind, Removing, Registered
<1> QED BY <1>1, <1>2, <1>3, <1>4, <1>5, <1>6, <1>7

LEMMA ChangePublishesKeeps ==
  ASSUME RegistryInv, ChangePublishes
  PROVE  RegistryInv'
<1> USE DEF RegistryInv, ChangePublishes, OpAt, NoOp, leaseholdVars, cleanupVars
<1>1. RegistryTypeOK'
  BY DEF RegistryTypeOK, Versions, Changes, Removals
<1>2. WritesTheRegistry'
  BY DEF WritesTheRegistry
<1>3. ChangeIsNew'
  BY DEF ChangeIsNew
<1>4. RemovalIsAlone'
  BY DEF RemovalIsAlone
<1>5. ClosedByRemoval'
  BY DEF ClosedByRemoval, Removing
<1>6. VersionsAreKept'
  BY DEF RegistryTypeOK, VersionsAreKept, ChangeIsNew, Versions, ConfigFiles, Registered
<1>7. HeldIsRegistered'
  BY DEF RegistryTypeOK, HeldIsRegistered, ChangeIsNew, Versions, Registered
<1>8. UnsavedIsDirty'
  BY DEF UnsavedIsDirty
<1>9. NothingLeftBehind'
  BY DEF RegistryTypeOK, NothingLeftBehind, ChangeIsNew, Versions, Registered, Recorded, Due,
     RemoveSteps
<1> QED BY <1>1, <1>2, <1>3, <1>4, <1>5, <1>6, <1>7, <1>8, <1>9

LEMMA BeginRemoveKeeps ==
  ASSUME RegistryInv, NEW w \in Workspaces, BeginRemove(w)
  PROVE  RegistryInv'
<1> USE DEF RegistryInv, BeginRemove, LockFree, Registered, configVars, leaseholdVars,
   historyVars, NoOp
<1>1. RegistryTypeOK'
  BY DEF RegistryTypeOK, Versions, Removals, RemoveSteps
<1>2. WritesTheRegistry'
  BY DEF WritesTheRegistry
<1>3. ChangeIsNew'
  BY DEF ChangeIsNew
<1>4. RemovalIsAlone'
  BY DEF RemovalIsAlone, Recorded
<1>5. ClosedByRemoval'
  BY DEF ClosedByRemoval, Removing
<1>6. VersionsAreKept' /\ HeldIsRegistered' /\ UnsavedIsDirty' /\ NothingLeftBehind'
  BY DEF VersionsAreKept, HeldIsRegistered, UnsavedIsDirty, NothingLeftBehind
<1> QED BY <1>1, <1>2, <1>3, <1>4, <1>5, <1>6

LEMMA StopAcceptingKeeps ==
  ASSUME RegistryInv, StopAccepting
  PROVE  RegistryInv'
<1> USE DEF RegistryInv, StopAccepting, OpAt, Step, configVars, cleanupVars, historyVars
<1>1. RegistryTypeOK'
  BY DEF RegistryTypeOK, NoOp, Changes, Removals, RemoveSteps
<1>2. WritesTheRegistry'
  BY DEF WritesTheRegistry, NoOp
<1>3. RemovalIsAlone'
  BY DEF RegistryTypeOK, RemovalIsAlone, NoOp, Changes, Removals, Registered, Recorded
<1>4. ClosedByRemoval'
  BY DEF ClosedByRemoval, Removing
<1>5. ChangeIsNew' /\ VersionsAreKept' /\ HeldIsRegistered' /\ UnsavedIsDirty' /\ NothingLeftBehind'
  BY DEF ChangeIsNew, VersionsAreKept, HeldIsRegistered, UnsavedIsDirty, NothingLeftBehind,
     Registered
<1> QED BY <1>1, <1>2, <1>3, <1>4, <1>5

LEMMA DrainsKeeps ==
  ASSUME RegistryInv, Drains
  PROVE  RegistryInv'
<1> USE DEF RegistryInv, Drains, OpAt, Drained, Step, configVars, leaseholdVars, cleanupVars,
   historyVars
<1>1. RegistryTypeOK'
  BY DEF RegistryTypeOK, NoOp, Changes, Removals, RemoveSteps
<1>2. WritesTheRegistry'
  BY DEF WritesTheRegistry, NoOp
<1>3. RemovalIsAlone'
  BY DEF RemovalIsAlone, Registered, Recorded
<1>4. ClosedByRemoval'
  BY DEF ClosedByRemoval, Removing
<1>5. ChangeIsNew' /\ VersionsAreKept' /\ HeldIsRegistered' /\ UnsavedIsDirty' /\ NothingLeftBehind'
  BY DEF ChangeIsNew, VersionsAreKept, HeldIsRegistered, UnsavedIsDirty, NothingLeftBehind,
     Registered
<1> QED BY <1>1, <1>2, <1>3, <1>4, <1>5

LEMMA DrainTimesOutKeeps ==
  ASSUME RegistryInv, DrainTimesOut
  PROVE  RegistryInv'
<1> USE DEF RegistryInv, DrainTimesOut, OpAt, Step, configVars, leaseholdVars, cleanupVars,
   historyVars
<1>1. RegistryTypeOK'
  BY DEF RegistryTypeOK, NoOp, Changes, Removals, RemoveSteps
<1>2. WritesTheRegistry'
  BY DEF WritesTheRegistry, NoOp
<1>3. RemovalIsAlone'
  BY DEF RemovalIsAlone, Registered, Recorded
<1>4. ClosedByRemoval'
  BY DEF ClosedByRemoval, Removing
<1>5. ChangeIsNew' /\ VersionsAreKept' /\ HeldIsRegistered' /\ UnsavedIsDirty' /\ NothingLeftBehind'
  BY DEF ChangeIsNew, VersionsAreKept, HeldIsRegistered, UnsavedIsDirty, NothingLeftBehind,
     Registered
<1> QED BY <1>1, <1>2, <1>3, <1>4, <1>5

LEMMA AbortJobsKeeps ==
  ASSUME RegistryInv, AbortJobs
  PROVE  RegistryInv'
<1> USE DEF RegistryInv, AbortJobs, OpAt, Step, configVars, leaseholdVars, historyVars
<1>1. RegistryTypeOK'
  BY DEF RegistryTypeOK, NoOp, Changes, Removals, RemoveSteps
<1>2. WritesTheRegistry'
  BY DEF WritesTheRegistry, NoOp
<1>3. RemovalIsAlone'
  BY DEF RemovalIsAlone, Registered, Recorded
<1>4. ClosedByRemoval'
  BY DEF ClosedByRemoval, Removing
<1>5. ChangeIsNew' /\ VersionsAreKept' /\ HeldIsRegistered' /\ UnsavedIsDirty' /\ NothingLeftBehind'
  BY DEF ChangeIsNew, VersionsAreKept, HeldIsRegistered, UnsavedIsDirty, NothingLeftBehind,
     Registered
<1> QED BY <1>1, <1>2, <1>3, <1>4, <1>5

LEMMA ReenableKeeps ==
  ASSUME RegistryInv, Reenable
  PROVE  RegistryInv'
<1> USE DEF RegistryInv, Reenable, OpAt, Reenabled, NoOp, configVars, cleanupVars, historyVars
<1>1. RegistryTypeOK'
  BY DEF RegistryTypeOK
<1>2. WritesTheRegistry'
  BY DEF WritesTheRegistry
<1>3. RemovalIsAlone'
  BY DEF RemovalIsAlone
<1>4. ClosedByRemoval'
  BY DEF RegistryTypeOK, ClosedByRemoval, RemovalIsAlone, Removing
<1>5. ChangeIsNew'
  BY DEF ChangeIsNew
<1>6. VersionsAreKept' /\ HeldIsRegistered' /\ UnsavedIsDirty' /\ NothingLeftBehind'
  BY DEF VersionsAreKept, HeldIsRegistered, UnsavedIsDirty, NothingLeftBehind, Registered
<1> QED BY <1>1, <1>2, <1>3, <1>4, <1>5, <1>6

LEMMA RemovePersistsKeeps ==
  ASSUME RegistryInv, RemovePersists
  PROVE  RegistryInv'
<1> USE DEF RegistryInv, RemovePersists, OpAt, SaveOk, Step, leaseholdVars, cleanupVars, Written
<1>1. RegistryTypeOK'
  BY DEF RegistryTypeOK, ConfigFiles, NoOp, Changes, Removals, Kinds, RemoveSteps
<1>2. WritesTheRegistry'
  BY DEF WritesTheRegistry, NoOp
<1>3. RemovalIsAlone'
  BY DEF RemovalIsAlone, Registered
<1>4. ClosedByRemoval'
  BY DEF ClosedByRemoval, Removing
<1>5. ChangeIsNew'
  BY DEF ChangeIsNew
<1>6. VersionsAreKept'
  BY DEF RegistryTypeOK, VersionsAreKept, RemovalIsAlone, Versions, Registered
<1>7. UnsavedIsDirty'
  BY DEF WritesTheRegistry, UnsavedIsDirty, NoOp
<1>8. HeldIsRegistered' /\ NothingLeftBehind'
  BY DEF HeldIsRegistered, NothingLeftBehind, Registered
<1> QED BY <1>1, <1>2, <1>3, <1>4, <1>5, <1>6, <1>7, <1>8

LEMMA RemoveFailsKeeps ==
  ASSUME RegistryInv, RemoveFails
  PROVE  RegistryInv'
<1> USE DEF RegistryInv, RemoveFails, OpAt, WriteFails, Step, leaseholdVars, cleanupVars,
   Written, Fault
<1>1. RegistryTypeOK'
  <2>1. Written(op) \in ConfigFiles
    BY DEF RegistryTypeOK, Changes, Removals, ConfigFiles, NoOp
  <2>2. file' \in ConfigFiles
    BY <2>1 DEF RegistryTypeOK
  <2> QED
    BY <2>2 DEF RegistryTypeOK, Changes, Removals, RemoveSteps, NoOp
<1>2. WritesTheRegistry'
  BY DEF WritesTheRegistry, NoOp
<1>3. RemovalIsAlone'
  BY DEF RemovalIsAlone, Registered, Recorded
<1>4. ClosedByRemoval'
  BY DEF ClosedByRemoval, Removing
<1>5. ChangeIsNew'
  BY DEF ChangeIsNew
<1>6. VersionsAreKept'
  BY DEF RegistryTypeOK, VersionsAreKept, RemovalIsAlone, Versions, NoOp, Changes, Removals,
     Registered
<1>7. UnsavedIsDirty'
  BY DEF WritesTheRegistry, UnsavedIsDirty, NoOp
<1>8. HeldIsRegistered' /\ NothingLeftBehind'
  BY DEF HeldIsRegistered, NothingLeftBehind, Registered
<1> QED BY <1>1, <1>2, <1>3, <1>4, <1>5, <1>6, <1>7, <1>8

LEMMA CleansKeeps ==
  ASSUME RegistryInv, NEW k \in Kinds, Cleans(k)
  PROVE  RegistryInv'
<1> USE DEF RegistryInv, Cleans, OpAt, Step, AfterCleaning, Purged, Fault, Retried, configVars,
   leaseholdVars
<1>1. RegistryTypeOK'
  <2>1. op' \in Removals /\ op' = [op EXCEPT !.at = AfterCleaning(k)]
    BY DEF RegistryTypeOK, NoOp, Changes, Removals, RemoveSteps
  <2>2. rows' \in [Workspaces -> SUBSET Kinds] /\ barred' \subseteq Workspaces
    BY DEF RegistryTypeOK
  <2>3. [retry[op.ws] EXCEPT ![k] = Attempts] \in [Kinds -> Nat]
    BY RegistryAssumption, <2>1 DEF RegistryTypeOK, Removals
  <2>4. retry' \in [Workspaces -> [Kinds -> Nat]]
    BY <2>3 DEF RegistryTypeOK
  <2> QED
    BY <2>1, <2>2, <2>4 DEF RegistryTypeOK
<1>2. WritesTheRegistry'
  BY DEF WritesTheRegistry, NoOp
<1>3. RemovalIsAlone'
  <2>1. /\ op \in Removals /\ op' \in Removals /\ op'.ws = op.ws
        /\ op'.at = AfterCleaning(k) /\ op'.versions = op.versions /\ op.at = k
    BY DEF RegistryTypeOK, NoOp, Changes, Removals, RemoveSteps
  <2>2. k \in rows'[op.ws] => retry'[op.ws][k] > 0
    BY <2>1, RegistryAssumption DEF RegistryTypeOK, Removals
  <2>3. \A j \in Kinds \ {k} :
            (j \in rows[op.ws] => retry[op.ws][j] > 0) => (j \in rows'[op.ws] => retry'[op.ws][j] > 0)
    BY <2>1 DEF RegistryTypeOK
  <2>4. /\ workspaces[op.ws] # 0 /\ op.ws \notin held /\ ~admitting[op.ws]
        /\ op.versions = [workspaces EXCEPT ![op.ws] = 0] /\ file.versions = op.versions
        /\ k # "jobs" => ("jobs" \in rows[op.ws] => retry[op.ws]["jobs"] > 0)
        /\ k = "commands" => ("workers" \in rows[op.ws] => retry[op.ws]["workers"] > 0)
    BY <2>1 DEF RemovalIsAlone, Kinds, Registered, Due, Recorded
  <2> QED
    BY <2>1, <2>2, <2>3, <2>4 DEF RemovalIsAlone, Kinds, Due, Registered
<1>4. ClosedByRemoval'
  BY DEF ClosedByRemoval, Removing
<1>5. NothingLeftBehind'
  <2>1. op.ws \in Workspaces /\ Registered(op.ws)
    BY DEF RegistryTypeOK, NoOp, Changes, Removals, RemovalIsAlone
  <2>2. \A w \in Workspaces \ {op.ws} : rows'[w] = rows[w] /\ retry'[w] = retry[w]
    BY <2>1 DEF RegistryTypeOK
  <2> QED
    BY <2>1, <2>2 DEF NothingLeftBehind, Registered
<1>6. ChangeIsNew' /\ VersionsAreKept' /\ HeldIsRegistered' /\ UnsavedIsDirty'
  BY DEF ChangeIsNew, VersionsAreKept, HeldIsRegistered, UnsavedIsDirty, Registered
<1> QED BY <1>1, <1>2, <1>3, <1>4, <1>5, <1>6

LEMMA RemovePublishesKeeps ==
  ASSUME RegistryInv, RemovePublishes
  PROVE  RegistryInv'
<1> USE DEF RegistryInv, RemovePublishes, OpAt, NoOp, leaseholdVars, cleanupVars
<1>1. RegistryTypeOK'
  BY DEF RegistryTypeOK, Changes, Removals
<1>2. WritesTheRegistry'
  BY DEF WritesTheRegistry
<1>3. ChangeIsNew'
  BY DEF ChangeIsNew
<1>4. RemovalIsAlone'
  BY DEF RemovalIsAlone
<1>5. ClosedByRemoval'
  BY DEF ClosedByRemoval, Removing
<1>6. VersionsAreKept'
  BY DEF RegistryTypeOK, VersionsAreKept, RemovalIsAlone, Versions, ConfigFiles, Registered,
     Recorded
<1>7. HeldIsRegistered'
  BY DEF RegistryTypeOK, HeldIsRegistered, RemovalIsAlone, Versions, Registered
<1>8. UnsavedIsDirty'
  BY DEF UnsavedIsDirty
<1>9. NothingLeftBehind'
  <2>1. op \in Removals /\ op.at = "publish"
    BY DEF RegistryTypeOK, Changes
  <2>2. workspaces' = [workspaces EXCEPT ![op.ws] = 0] /\ op.ws \in Workspaces
    BY <2>1 DEF RemovalIsAlone, Removals
  <2>3. \A k \in Kinds : k \in rows[op.ws] => retry[op.ws][k] > 0
    BY <2>1 DEF RemovalIsAlone, Due, Kinds
  <2>4. \A w \in Workspaces \ {op.ws} : workspaces'[w] = workspaces[w]
    BY <2>2
  <2> QED
    BY <2>3, <2>4 DEF NothingLeftBehind, Registered
<1> QED BY <1>1, <1>2, <1>3, <1>4, <1>5, <1>6, <1>7, <1>8, <1>9

LEMMA RetryKeeps ==
  ASSUME RegistryInv, NEW w \in Workspaces, NEW k \in Kinds, Retry(w, k)
  PROVE  RegistryInv'
<1> USE DEF RegistryInv, Retry, Purged, Fault, configVars, leaseholdVars
<1>1. RegistryTypeOK'
  <2>1. \A n \in Nat : [retry[w] EXCEPT ![k] = n] \in [Kinds -> Nat]
    BY DEF RegistryTypeOK
  <2>2. \E n \in Nat : retry' = [retry EXCEPT ![w] = [retry[w] EXCEPT ![k] = n]]
    <3>1. retry[w][k] \in Nat
      BY DEF RegistryTypeOK
    <3>2. retry[w][k] - 1 \in Nat
      BY <3>1
    <3> QED
      BY <3>2
  <2>3. retry' \in [Workspaces -> [Kinds -> Nat]]
    BY <2>1, <2>2 DEF RegistryTypeOK
  <2>4. rows' \in [Workspaces -> SUBSET Kinds] /\ barred' \subseteq Workspaces
    BY DEF RegistryTypeOK
  <2> QED
    BY <2>3, <2>4 DEF RegistryTypeOK
<1>2. RemovalIsAlone'
  BY DEF RegistryTypeOK, RemovalIsAlone, VersionsAreKept, NoOp, Changes, Removals, Kinds,
     Registered, Recorded, Due
<1>3. ClosedByRemoval'
  BY DEF ClosedByRemoval, Removing
<1>4. NothingLeftBehind'
  <2>1. retry[w] \in [Kinds -> Nat] /\ rows[w] \subseteq Kinds
    BY DEF RegistryTypeOK
  <2>2. \A v \in Workspaces, j \in Kinds : <<v, j>> # <<w, k>> =>
            retry'[v][j] = retry[v][j] /\ (j \in rows'[v] <=> j \in rows[v])
    BY <2>1 DEF RegistryTypeOK
  <2>3. k \in rows'[w] => retry'[w][k] > 0 \/ <<w, k>> \in warned'
    <3>1. CASE Purged(w, k)
      BY <2>1, <3>1 DEF RegistryTypeOK
    <3>2. CASE /\ retry' = [retry EXCEPT ![w][k] = @ - 1]
               /\ warned' = IF retry[w][k] = 1 THEN warned \cup {<<w, k>>} ELSE warned
      <4>1. retry'[w][k] = retry[w][k] - 1 /\ retry[w][k] \in Nat /\ retry[w][k] > 0
        BY <2>1, <3>2 DEF RegistryTypeOK
      <4> QED
        BY <3>2, <4>1
    <3> QED
      BY <3>1, <3>2
  <2>4. warned \subseteq warned' /\ UNCHANGED <<leftover, workspaces>>
    OBVIOUS
  <2> QED
    BY <2>2, <2>3, <2>4 DEF NothingLeftBehind, Registered
<1>5. WritesTheRegistry' /\ ChangeIsNew' /\ VersionsAreKept' /\ HeldIsRegistered' /\ UnsavedIsDirty'
  BY DEF WritesTheRegistry, ChangeIsNew, VersionsAreKept, HeldIsRegistered, UnsavedIsDirty,
     Registered
<1> QED BY <1>1, <1>2, <1>3, <1>4, <1>5

LEMMA ChangeSettingsKeeps ==
  ASSUME RegistryInv, ChangeSettings
  PROVE  RegistryInv'
<1> USE DEF RegistryInv, ChangeSettings, leaseholdVars, cleanupVars, historyVars
<1>1. RegistryTypeOK'
  BY DEF RegistryTypeOK
<1>2. WritesTheRegistry'
  BY DEF WritesTheRegistry
<1>3. UnsavedIsDirty'
  BY DEF UnsavedIsDirty
<1>4. ChangeIsNew' /\ RemovalIsAlone' /\ ClosedByRemoval' /\ VersionsAreKept' /\ HeldIsRegistered' /\ NothingLeftBehind'
  BY DEF ChangeIsNew, RemovalIsAlone, ClosedByRemoval, VersionsAreKept, HeldIsRegistered,
     NothingLeftBehind, Registered, Recorded, Due, Removing
<1> QED BY <1>1, <1>2, <1>3, <1>4

LEMMA FlushFindsNoFileKeeps ==
  ASSUME RegistryInv, FlushFindsNoFile
  PROVE  RegistryInv'
<1> USE DEF RegistryInv, FlushFindsNoFile, LockFree, leaseholdVars, cleanupVars, historyVars,
   NoOp
<1>1. RegistryTypeOK'
  BY DEF RegistryTypeOK
<1>2. WritesTheRegistry'
  BY DEF WritesTheRegistry
<1>3. UnsavedIsDirty'
  BY DEF UnsavedIsDirty
<1>4. ChangeIsNew' /\ RemovalIsAlone' /\ ClosedByRemoval' /\ VersionsAreKept' /\ HeldIsRegistered' /\ NothingLeftBehind'
  BY DEF ChangeIsNew, RemovalIsAlone, ClosedByRemoval, VersionsAreKept, HeldIsRegistered,
     NothingLeftBehind, Registered, Removing
<1> QED BY <1>1, <1>2, <1>3, <1>4

LEMMA FlushKeeps ==
  ASSUME RegistryInv, NEW force \in BOOLEAN, Flush(force)
  PROVE  RegistryInv'
<1> USE DEF RegistryInv, Flush, LockFree, leaseholdVars, cleanupVars, historyVars, NoOp
<1>1. RegistryTypeOK'
  BY DEF RegistryTypeOK, Flushes
<1>2. WritesTheRegistry'
  BY DEF WritesTheRegistry
<1>3. UnsavedIsDirty'
  BY DEF UnsavedIsDirty
<1>4. ChangeIsNew' /\ RemovalIsAlone' /\ ClosedByRemoval' /\ VersionsAreKept' /\ HeldIsRegistered' /\ NothingLeftBehind'
  BY DEF ChangeIsNew, RemovalIsAlone, ClosedByRemoval, VersionsAreKept, HeldIsRegistered,
     NothingLeftBehind, Registered, Removing
<1> QED BY <1>1, <1>2, <1>3, <1>4

LEMMA FlushSavesKeeps ==
  ASSUME RegistryInv, FlushSaves
  PROVE  RegistryInv'
<1> USE DEF RegistryInv, FlushSaves, NoOp, SaveOk, leaseholdVars, cleanupVars, Written
<1>1. RegistryTypeOK'
  BY DEF RegistryTypeOK, ConfigFiles, Flushes
<1>2. WritesTheRegistry'
  BY DEF WritesTheRegistry
<1>3. ChangeIsNew'
  BY DEF ChangeIsNew, WritesTheRegistry
<1>4. RemovalIsAlone'
  BY DEF RemovalIsAlone, WritesTheRegistry
<1>5. VersionsAreKept'
  BY DEF VersionsAreKept, WritesTheRegistry, Registered
<1>6. UnsavedIsDirty'
  BY DEF WritesTheRegistry, UnsavedIsDirty
<1>7. ClosedByRemoval' /\ HeldIsRegistered' /\ NothingLeftBehind'
  BY DEF ClosedByRemoval, HeldIsRegistered, NothingLeftBehind, Removing, Registered
<1> QED BY <1>1, <1>2, <1>3, <1>4, <1>5, <1>6, <1>7

LEMMA FlushFailsKeeps ==
  ASSUME RegistryInv, FlushFails
  PROVE  RegistryInv'
<1> USE DEF RegistryInv, FlushFails, NoOp, WriteFails, Fault, MarkedUnsaved, leaseholdVars,
   cleanupVars, Written
<1>1. RegistryTypeOK'
  <2>1. Written(flush) \in ConfigFiles
    BY DEF RegistryTypeOK, Flushes, ConfigFiles
  <2>2. file' \in ConfigFiles
    BY <2>1 DEF RegistryTypeOK
  <2> QED
    BY <2>2 DEF RegistryTypeOK
<1>2. WritesTheRegistry'
  BY DEF WritesTheRegistry
<1>3. ChangeIsNew'
  BY DEF ChangeIsNew, WritesTheRegistry
<1>4. RemovalIsAlone'
  BY DEF RemovalIsAlone, WritesTheRegistry
<1>5. VersionsAreKept'
  BY DEF VersionsAreKept, WritesTheRegistry, Registered
<1>6. UnsavedIsDirty'
  BY DEF UnsavedIsDirty
<1>7. ClosedByRemoval' /\ HeldIsRegistered' /\ NothingLeftBehind'
  BY DEF ClosedByRemoval, HeldIsRegistered, NothingLeftBehind, Removing, Registered
<1> QED BY <1>1, <1>2, <1>3, <1>4, <1>5, <1>6, <1>7

LEMMA FlushFindsItGoneKeeps ==
  ASSUME RegistryInv, FlushFindsItGone
  PROVE  RegistryInv'
<1> USE DEF RegistryInv, FlushFindsItGone, NoOp, leaseholdVars, cleanupVars, historyVars
<1>1. RegistryTypeOK'
  BY DEF RegistryTypeOK
<1>2. WritesTheRegistry'
  BY DEF WritesTheRegistry
<1>3. UnsavedIsDirty'
  BY DEF UnsavedIsDirty
<1>4. ChangeIsNew' /\ RemovalIsAlone' /\ ClosedByRemoval' /\ VersionsAreKept' /\ HeldIsRegistered' /\ NothingLeftBehind'
  BY DEF ChangeIsNew, RemovalIsAlone, ClosedByRemoval, VersionsAreKept, HeldIsRegistered,
     NothingLeftBehind, Registered, Recorded, Due, Removing
<1> QED BY <1>1, <1>2, <1>3, <1>4

LEMMA FileDeletedKeeps ==
  ASSUME RegistryInv, FileDeleted
  PROVE  RegistryInv'
<1> USE DEF RegistryInv, FileDeleted, Fault, leaseholdVars, cleanupVars
<1>1. RegistryTypeOK'
  BY DEF RegistryTypeOK, ConfigFiles
<1>2. ChangeIsNew'
  BY DEF ChangeIsNew
<1>3. RemovalIsAlone'
  BY DEF RemovalIsAlone, Registered, Recorded, Due
<1>4. VersionsAreKept'
  BY DEF VersionsAreKept, Registered
<1>5. UnsavedIsDirty'
  BY DEF UnsavedIsDirty
<1>6. WritesTheRegistry' /\ ClosedByRemoval' /\ HeldIsRegistered' /\ NothingLeftBehind'
  BY DEF WritesTheRegistry, ClosedByRemoval, HeldIsRegistered, NothingLeftBehind, Removing,
     Registered
<1> QED BY <1>1, <1>2, <1>3, <1>4, <1>5, <1>6

LEMMA CrashKeeps ==
  ASSUME RegistryInv, Crash
  PROVE  RegistryInv'
<1> USE DEF RegistryInv, Crash, Fault, NoOp, Kinds
<1>1. RegistryTypeOK'
  BY DEF RegistryTypeOK, ConfigFiles
<1>2. WritesTheRegistry'
  BY DEF WritesTheRegistry
<1>3. ChangeIsNew'
  BY DEF ChangeIsNew
<1>4. RemovalIsAlone'
  BY DEF RemovalIsAlone
<1>5. ClosedByRemoval'
  BY DEF ClosedByRemoval
<1>6. VersionsAreKept'
  BY DEF VersionsAreKept, Registered
<1>7. HeldIsRegistered'
  BY DEF HeldIsRegistered
<1>8. UnsavedIsDirty'
  BY DEF UnsavedIsDirty
<1>9. NothingLeftBehind'
  BY DEF NothingLeftBehind, Registered
<1> QED BY <1>1, <1>2, <1>3, <1>4, <1>5, <1>6, <1>7, <1>8, <1>9

LEMMA RegistryStep == RegistryInv /\ [RegistryNext]_registryVars => RegistryInv'
<1> SUFFICES ASSUME RegistryInv, [RegistryNext]_registryVars PROVE RegistryInv'
  OBVIOUS
<1>1. CASE UNCHANGED registryVars
  BY <1>1 DEF registryVars, configVars, leaseholdVars, cleanupVars, historyVars, RegistryInv,
     RegistryTypeOK, WritesTheRegistry, ChangeIsNew, RemovalIsAlone, ClosedByRemoval,
     VersionsAreKept, HeldIsRegistered, UnsavedIsDirty, NothingLeftBehind, Registered, Removing,
     Recorded, Due
<1>2. CASE RegistryNext
  BY <1>2, TakeLeaseKeeps, ReturnLeaseKeeps, WorkKeeps, BeginChangeKeeps, ChangePersistsKeeps,
     ChangeFailsKeeps, ChangePublishesKeeps, BeginRemoveKeeps, StopAcceptingKeeps, DrainsKeeps,
     DrainTimesOutKeeps, AbortJobsKeeps, ReenableKeeps, RemovePersistsKeeps, RemoveFailsKeeps,
     CleansKeeps, RemovePublishesKeeps, RetryKeeps, ChangeSettingsKeeps, FlushFindsNoFileKeeps,
     FlushKeeps, FlushSavesKeeps, FlushFailsKeeps, FlushFindsItGoneKeeps, FileDeletedKeeps,
     CrashKeeps DEF RegistryNext
<1> QED
  BY <1>1, <1>2

THEOREM RegistryInvariant == RegistrySpec => []RegistryInv
  BY RegistryInitInv, RegistryStep, PTL DEF RegistrySpec

(***************************************************************************)
(* Besides RegistryInv: what was reported is there.                        *)
(***************************************************************************)

\* What was reported is in memory and in the file, whether that is there or
\* not, unless a removal took it out of the file and nothing put it back.
ReportedIsThere ==
    /\ \A w \in Workspaces :
           promised[w] # 0 /\ w \notin removed \cup cutOff =>
               Registered(w) /\ file.versions[w] # 0
    /\ \A w \in cutOff : file.versions[w] = 0
    /\ op.kind = "change" => Registered(op.ws) \/ promised[op.ws] = 0

\* A save of what is registered, but for a workspace being removed, leaves
\* every other reported workspace in memory and in the file.
LEMMA SavesKeepReported ==
  ASSUME RegistryInv, ReportedIsThere, NEW o, NotesCutOff,
         file' = file \/ file' = Written(o),
         \A w \in Workspaces : Registered(w) =>
            o.versions[w] # 0 \/ (op.kind = "remove" /\ op.ws = w),
         \A w \in Workspaces : o.versions[w] # 0 => Registered(w) \/ promised[w] = 0,
         UNCHANGED <<workspaces, promised, removed>>,
         op'.kind = "change" => op.kind = "change" /\ op'.ws = op.ws
  PROVE  ReportedIsThere'
<1>1. ASSUME NEW w \in Workspaces, promised[w] # 0, w \notin removed, w \notin cutOff'
      PROVE  Registered(w) /\ file'.versions[w] # 0
  <2>1. file'.versions[w] = 0 => ~(w \in cutOff \/ (op.kind = "remove" /\ op.ws = w))
    BY <1>1 DEF NotesCutOff
  <2>2. CASE w \in cutOff
    <3>1. file'.versions[w] # 0 /\ file.versions[w] = 0
      BY <2>1, <2>2 DEF ReportedIsThere
    <3>2. o.versions[w] # 0
      BY <3>1 DEF Written
    <3> QED BY <1>1, <3>1, <3>2
  <2>3. CASE w \notin cutOff
    <3>1. Registered(w) /\ file.versions[w] # 0
      BY <1>1, <2>3 DEF ReportedIsThere
    <3>2. file'.versions[w] # 0
      BY <2>1, <3>1 DEF Written
    <3> QED BY <3>1, <3>2
  <2> QED BY <2>2, <2>3
<1>2. \A w \in cutOff' : file'.versions[w] = 0
  BY DEF NotesCutOff
<1>3. op'.kind = "change" => workspaces'[op'.ws] # 0 \/ promised'[op'.ws] = 0
  <2>1. CASE op'.kind = "change"
    <3>1. workspaces[op.ws] # 0 \/ promised[op.ws] = 0
      BY <2>1 DEF ReportedIsThere, Registered
    <3>2. op'.ws = op.ws /\ workspaces' = workspaces /\ promised' = promised
      BY <2>1
    <3> QED BY <3>1, <3>2
  <2> QED BY <2>1
<1> QED
  BY <1>1, <1>2, <1>3 DEF ReportedIsThere, Registered

LEMMA ChangesKeepReported ==
  ASSUME RegistryInv, ReportedIsThere, ChangePersists \/ ChangeFails
  PROVE  ReportedIsThere'
<1>1. op.kind = "change" /\ op.ws \in Workspaces
  BY DEF ChangePersists, ChangeFails, OpAt, RegistryInv, RegistryTypeOK, NoOp, Changes, Removals
<1>2. /\ NotesCutOff /\ (file' = file \/ file' = Written(op))
      /\ UNCHANGED <<workspaces, promised, removed>>
  BY DEF ChangePersists, ChangeFails, SaveOk, WriteFails
<1>3. op'.kind = "change" => op.kind = "change" /\ op'.ws = op.ws
  BY <1>1 DEF ChangePersists, ChangeFails, Step, NoOp, RegistryInv, RegistryTypeOK, Changes,
     Removals
<1>4. /\ op.versions[op.ws] # 0
      /\ \A w \in Workspaces : w # op.ws => op.versions[w] = workspaces[w]
  BY <1>1 DEF RegistryInv, RegistryTypeOK, ChangeIsNew, Versions
<1>5. \A w \in Workspaces : Registered(w) =>
         op.versions[w] # 0 \/ (op.kind = "remove" /\ op.ws = w)
  BY <1>4 DEF Registered
<1>6. \A w \in Workspaces : op.versions[w] # 0 => Registered(w) \/ promised[w] = 0
  BY <1>1, <1>4 DEF Registered, ReportedIsThere
<1> QED
  BY <1>2, <1>3, <1>5, <1>6, SavesKeepReported

LEMMA RemovalsKeepReported ==
  ASSUME RegistryInv, ReportedIsThere, RemovePersists \/ RemoveFails
  PROVE  ReportedIsThere'
<1>1. op.kind = "remove" /\ op.ws \in Workspaces
  BY DEF RemovePersists, RemoveFails, OpAt, RegistryInv, RegistryTypeOK, NoOp, Changes, Removals
<1>2. /\ NotesCutOff /\ (file' = file \/ file' = Written(op))
      /\ UNCHANGED <<workspaces, promised, removed>>
  BY DEF RemovePersists, RemoveFails, SaveOk, WriteFails
<1>3. op'.kind = "change" => op.kind = "change" /\ op'.ws = op.ws
  BY <1>1 DEF RemovePersists, RemoveFails, Step, RegistryInv, RegistryTypeOK, Changes, Removals,
     NoOp
<1>4. \A w \in Workspaces : w # op.ws => op.versions[w] = workspaces[w]
  BY <1>1 DEF RegistryInv, RegistryTypeOK, RemovalIsAlone, Versions
<1>5. \A w \in Workspaces : Registered(w) =>
         op.versions[w] # 0 \/ (op.kind = "remove" /\ op.ws = w)
  BY <1>1, <1>4 DEF Registered
<1>6. \A w \in Workspaces : op.versions[w] # 0 => Registered(w) \/ promised[w] = 0
  BY <1>1, <1>4 DEF Registered, RegistryInv, RemovalIsAlone
<1> QED
  BY <1>2, <1>3, <1>5, <1>6, SavesKeepReported

LEMMA FlushesKeepReported ==
  ASSUME RegistryInv, ReportedIsThere, FlushSaves \/ FlushFails
  PROVE  ReportedIsThere'
<1>1. flush # NoOp /\ flush.versions = workspaces
  BY DEF FlushSaves, FlushFails, RegistryInv, WritesTheRegistry
<1>2. UNCHANGED <<workspaces, promised, removed, op>>
  BY DEF FlushSaves, FlushFails
<1>3. CASE UNCHANGED <<file, cutOff>>
  BY <1>2, <1>3 DEF ReportedIsThere, Registered
<1>4. CASE NotesCutOff /\ (file' = file \/ file' = Written(flush))
  BY <1>1, <1>2, <1>4, SavesKeepReported DEF Registered
<1> QED
  BY <1>3, <1>4 DEF FlushSaves, FlushFails, SaveOk, WriteFails

LEMMA PublishingKeepsReported ==
  ASSUME RegistryInv, ReportedIsThere, ChangePublishes \/ RemovePublishes
  PROVE  ReportedIsThere'
<1>1. CASE ChangePublishes
  <2>1. /\ op.kind = "change" /\ op.at = "publish" /\ op.ws \in Workspaces
        /\ op.versions \in Versions
    BY <1>1 DEF ChangePublishes, OpAt, RegistryInv, RegistryTypeOK, NoOp, Changes, Removals
  <2>2. /\ op.versions[op.ws] # 0 /\ file.versions = op.versions
        /\ \A w \in Workspaces : w # op.ws => op.versions[w] = workspaces[w]
    BY <2>1 DEF RegistryInv, RegistryTypeOK, ChangeIsNew, Versions
  <2>3. /\ workspaces' = op.versions /\ op' = NoOp /\ UNCHANGED <<file, removed, cutOff>>
        /\ \A w \in Workspaces : w # op.ws => promised'[w] = promised[w]
    BY <1>1 DEF ChangePublishes, RegistryInv, RegistryTypeOK, Versions
  <2> QED
    BY <2>2, <2>3 DEF ReportedIsThere, Registered, NoOp
<1>2. CASE RemovePublishes
  <2>1. op.kind = "remove" /\ op.ws \in Workspaces
    BY <1>2 DEF RemovePublishes, OpAt, RegistryInv, RegistryTypeOK, NoOp, Changes, Removals
  <2>2. \A w \in Workspaces : w # op.ws => op.versions[w] = workspaces[w]
    BY <2>1 DEF RegistryInv, RegistryTypeOK, RemovalIsAlone, Versions
  <2>3. /\ workspaces' = op.versions /\ op' = NoOp /\ UNCHANGED <<file, promised, cutOff>>
        /\ removed' = removed \cup {op.ws}
    BY <1>2 DEF RemovePublishes
  <2> QED
    BY <2>2, <2>3 DEF ReportedIsThere, Registered, NoOp
<1> QED
  BY <1>1, <1>2

LEMMA ReportedStays ==
  ASSUME RegistryInv, ReportedIsThere, [RegistryNext]_registryVars
  PROVE  ReportedIsThere'
<1> USE DEF configVars, historyVars
<1>1. CASE UNCHANGED registryVars
  BY <1>1 DEF registryVars, ReportedIsThere, Registered
<1>2. ASSUME NEW w \in Workspaces, BeginChange(w) PROVE ReportedIsThere'
  BY <1>2 DEF BeginChange, NewId, ReportedIsThere, Registered
<1>3. ASSUME NEW w \in Workspaces, BeginRemove(w) PROVE ReportedIsThere'
  BY <1>3 DEF BeginRemove, ReportedIsThere, Registered
<1>4. ASSUME NEW w \in Workspaces,
             \/ TakeLease(w) \/ ReturnLease(w)
             \/ \E k \in Kinds : Work(w, k) \/ Retry(w, k)
      PROVE  ReportedIsThere'
  BY <1>4 DEF TakeLease, ReturnLease, Work, Retry, OnlyRequests, ReportedIsThere, Registered
<1>5. CASE \/ StopAccepting \/ Drains \/ DrainTimesOut \/ AbortJobs \/ Reenable
           \/ \E k \in Kinds : Cleans(k)
  <2>1. op.kind = "remove" /\ (op'.kind = "remove" \/ op' = NoOp)
    BY <1>5 DEF StopAccepting, Drains, DrainTimesOut, AbortJobs, Reenable, Cleans, OpAt, Step,
       RegistryInv, RegistryTypeOK, NoOp, Changes, Removals
  <2>2. UNCHANGED <<configVars, promised, removed, cutOff>>
    BY <1>5 DEF StopAccepting, Drains, DrainTimesOut, AbortJobs, Reenable, Cleans
  <2> QED
    BY <2>1, <2>2 DEF ReportedIsThere, Registered, NoOp
<1>6. CASE \/ ChangeSettings \/ FlushFindsNoFile \/ FlushFindsItGone
           \/ \E force \in BOOLEAN : Flush(force)
  BY <1>6 DEF ChangeSettings, FlushFindsNoFile, FlushFindsItGone, Flush, ReportedIsThere,
     Registered
<1>7. CASE FileDeleted
  <2>1. file'.versions = file.versions
    BY <1>7 DEF FileDeleted, RegistryInv, RegistryTypeOK, ConfigFiles
  <2> QED
    BY <1>7, <2>1 DEF FileDeleted, ReportedIsThere, Registered
<1>8. CASE Crash
  BY <1>8 DEF Crash, ReportedIsThere, Registered, NoOp
<1> QED
  BY <1>1, <1>2, <1>3, <1>4, <1>5, <1>6, <1>7, <1>8, ChangesKeepReported, RemovalsKeepReported,
     FlushesKeepReported, PublishingKeepsReported DEF RegistryNext

THEOREM ReportedStaysThere == RegistrySpec => []ReportedIsThere
<1>1. RegistryInit => ReportedIsThere
  BY DEF RegistryInit, ReportedIsThere, Registered, NoOp
<1> QED
  BY <1>1, ReportedStays, RegistryInvariant, PTL DEF RegistrySpec

\* A workspace is open to every request, or it is being removed behind the
\* back of none: whoever still holds a lease is drained before the removal is
\* written, and a removal that is refused opens the workspace again.
THEOREM OpenUntilRemoved == RegistrySpec => []OpenOrRemoved
<1>1. RegistryInv => OpenOrRemoved
  BY DEF RegistryInv, OpenOrRemoved, LeaseExcludesRemoval, RegisteredIsOpen, HeldIsRegistered,
     RemovalIsAlone, ClosedByRemoval, VersionsAreKept, Removing
<1> QED
  BY <1>1, RegistryInvariant, PTL

\* Whatever fails, is retried or crashes: a workspace reported as added,
\* renamed or rotated stays in memory and in the file, as reported or newer,
\* until its removal is reported or one that was cut short took it out; a
\* removed one never comes back; a setting is in the file or due for it; and
\* nothing of a removed workspace is forgotten.
THEOREM ReportedStaysDone == RegistrySpec => []ReportedIsDone
<1>1. RegistryInv /\ ReportedIsThere => ReportedIsDone
  BY DEF RegistryInv, ReportedIsDone, ReportedIsKept, VersionsAreKept, ReportedIsThere
<1> QED
  BY <1>1, RegistryInvariant, ReportedStaysThere, PTL
=============================================================================
