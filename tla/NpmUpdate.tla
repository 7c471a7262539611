------------------------------- MODULE NpmUpdate -------------------------------
(***************************************************************************)
(* Self-update of the global npm package, npm/moondesk.js (orchestrate)    *)
(* and npm/update-manager.js: every running wrapper is a process, and what *)
(* they share is a lock file, the installed package and the registry.      *)
(*                                                                         *)
(* A lock file is made empty and named with a pid in a second step; it is  *)
(* removed by its path, whoever made it.  Process ids are not reused.      *)
(***************************************************************************)
EXTENDS Naturals, FiniteSets

CONSTANTS
    Wrappers,           \* wrapper processes
    LastVersion,        \* bound: the last version published
    MaxNpmFaults        \* bound: wrappers killed, lock files that cannot be removed

ASSUME NpmAssumption ==
    IsFiniteSet(Wrappers) /\ LastVersion \in Nat \ {0} /\ MaxNpmFaults \in Nat

VARIABLES
    lockFile,           \* npm-update.lock, and who made it
    wrapper,            \* where each wrapper is, the version it runs, its target
    installed,          \* the version in the global package directory
    latest,             \* the version npm serves as latest
    npm,                \* the npm processes under way
    torn,               \* a wrapper removed the lock file of another that lives
    orphaned,           \* a wrapper died and left its npm running
    npmFaults

npmVars == <<lockFile, wrapper, installed, latest, npm, torn, orphaned, npmFaults>>

NoFile == [by |-> "nobody", named |-> FALSE, alive |-> FALSE]

NpmInit ==
    /\ lockFile = NoFile
    /\ wrapper = [w \in Wrappers |-> [at |-> "off", version |-> 0, target |-> 0]]
    /\ installed = 1
    /\ latest = 1
    /\ npm = {}
    /\ torn = FALSE /\ orphaned = FALSE
    /\ npmFaults = 0

\* With its process the pid a lock file names is dead.
LeftBy(w) == IF lockFile.by = w THEN [lockFile EXCEPT !.alive = FALSE] ELSE lockFile

Steps(w, from, to) == wrapper[w].at = from /\ wrapper' = [wrapper EXCEPT ![w].at = to]

(***************************************************************************)
(* The life of a wrapper around its update.                                *)
(***************************************************************************)
StartsUp(w) ==
    /\ wrapper[w].at = "off"
    /\ wrapper' = [wrapper EXCEPT ![w] = [at |-> "runs", version |-> installed, target |-> 0]]
    /\ UNCHANGED <<lockFile, installed, latest, npm, torn, orphaned, npmFaults>>

\* The native program exits for an update it was offered; readUpdateRequest
\* takes a target above the version of the wrapper only.
AsksForUpdate(w) ==
    /\ wrapper[w].at = "runs"
    /\ \E t \in (wrapper[w].version + 1)..latest :
           wrapper' = [wrapper EXCEPT ![w].at = "acquire", ![w].target = t]
    /\ UNCHANGED <<lockFile, installed, latest, npm, torn, orphaned, npmFaults>>

(***************************************************************************)
(* acquireUpdateLock.                                                      *)
(***************************************************************************)
\* Slip: the file is opened for writing whether or not it is there.
OpensAny == TRUE

Exclusive == lockFile = NoFile

OpensLock(w) ==
    /\ Steps(w, "acquire", "naming")
    /\ Exclusive
    /\ lockFile' = [by |-> w, named |-> FALSE, alive |-> TRUE]
    /\ UNCHANGED <<installed, latest, npm, torn, orphaned, npmFaults>>

FindsLock(w) ==
    /\ Steps(w, "acquire", "looking")
    /\ lockFile # NoFile
    /\ UNCHANGED <<lockFile, installed, latest, npm, torn, orphaned, npmFaults>>

\* The pid goes to the file this wrapper opened, which another may have unlinked.
NamesLock(w) ==
    /\ Steps(w, "naming", "refresh")
    /\ lockFile' = IF lockFile.by = w THEN [lockFile EXCEPT !.named = TRUE] ELSE lockFile
    /\ UNCHANGED <<installed, latest, npm, torn, orphaned, npmFaults>>

OwnerIsAlive == lockFile.named /\ lockFile.alive

\* It waits and tries again, or its time is up.
SeesOwner(w) ==
    /\ OwnerIsAlive
    /\ \/ Steps(w, "looking", "acquire") /\ UNCHANGED lockFile
       \/ Steps(w, "looking", "off") /\ lockFile' = LeftBy(w)
    /\ UNCHANGED <<installed, latest, npm, torn, orphaned, npmFaults>>

SeesNoOwner(w) ==
    /\ ~OwnerIsAlive
    /\ Steps(w, "looking", "removing")
    /\ UNCHANGED <<lockFile, installed, latest, npm, torn, orphaned, npmFaults>>

RemovesFile(w) ==
    /\ lockFile' = NoFile
    /\ torn' = (torn \/ (lockFile.alive /\ lockFile.by # w))

RemovesStale(w) ==
    /\ Steps(w, "removing", "acquire")
    /\ RemovesFile(w)
    /\ UNCHANGED <<installed, latest, npm, orphaned, npmFaults>>

(***************************************************************************)
(* Under the lock: the newest target, unless the registry cannot be asked; *)
(* what is installed; npm; what it installed.                              *)
(***************************************************************************)
RefreshesTarget(w) ==
    /\ wrapper[w].at = "refresh"
    /\ \E t \in {wrapper[w].target} \cup {latest} :
           /\ t >= wrapper[w].target
           /\ wrapper' = [wrapper EXCEPT ![w] = [at |-> "compare", version |-> @.version, target |-> t]]
    /\ UNCHANGED <<lockFile, installed, latest, npm, torn, orphaned, npmFaults>>

\* Slip: any other version is replaced.
Differs(w) == installed # wrapper[w].target

NeedsInstall(w) == installed < wrapper[w].target

FindsInstalled(w) ==
    /\ Steps(w, "compare", "done")
    /\ ~NeedsInstall(w)
    /\ UNCHANGED <<lockFile, installed, latest, npm, torn, orphaned, npmFaults>>

RunsNpm(w) ==
    /\ NeedsInstall(w)
    /\ Steps(w, "compare", "install")
    /\ npm' = npm \cup {[by |-> w, to |-> wrapper[w].target]}
    /\ UNCHANGED <<lockFile, installed, latest, torn, orphaned, npmFaults>>

\* The package is replaced, or npm fails and leaves it as it was; the wrapper
\* that waits for npm may be dead.
Learns(p, at) ==
    \/ p.by \in Wrappers /\ Steps(p.by, "install", at)
    \/ p.by \notin Wrappers /\ UNCHANGED wrapper

NpmEnds(p) ==
    /\ npm' = npm \ {p}
    /\ \/ installed' = p.to /\ Learns(p, "verify")
       \/ UNCHANGED installed /\ Learns(p, "failed")
    /\ UNCHANGED <<lockFile, latest, torn, orphaned, npmFaults>>

Verifies(w) ==
    /\ \/ installed = wrapper[w].target /\ Steps(w, "verify", "done")
       \/ installed # wrapper[w].target /\ Steps(w, "verify", "failed")
    /\ UNCHANGED <<lockFile, installed, latest, npm, torn, orphaned, npmFaults>>

ReleasesLock(w) ==
    /\ Steps(w, "done", "restart") \/ Steps(w, "failed", "off")
    /\ RemovesFile(w)
    /\ UNCHANGED <<installed, latest, npm, orphaned, npmFaults>>

\* A warning: the file stays, and names a process that goes on.
KeepsFile(w) ==
    /\ npmFaults < MaxNpmFaults
    /\ npmFaults' = npmFaults + 1
    /\ \/ Steps(w, "done", "restart") /\ UNCHANGED lockFile
       \/ Steps(w, "failed", "off") /\ lockFile' = LeftBy(w)
    /\ UNCHANGED <<installed, latest, npm, torn, orphaned>>

\* restartUpdatedWrapper loads what is installed by now, in the same process.
Restarts(w) ==
    /\ wrapper[w].at = "restart"
    /\ wrapper' = [wrapper EXCEPT ![w] = [at |-> "runs", version |-> installed, target |-> 0]]
    /\ UNCHANGED <<lockFile, installed, latest, npm, torn, orphaned, npmFaults>>

(***************************************************************************)
(* A version is published; a wrapper is killed and leaves its npm running. *)
(***************************************************************************)
VersionPublished ==
    /\ latest < LastVersion
    /\ latest' = latest + 1
    /\ UNCHANGED <<lockFile, wrapper, installed, npm, torn, orphaned, npmFaults>>

WrapperKilled(w) ==
    /\ npmFaults < MaxNpmFaults
    /\ wrapper[w].at # "off"
    /\ npmFaults' = npmFaults + 1
    /\ wrapper' = [wrapper EXCEPT ![w].at = "off"]
    /\ lockFile' = LeftBy(w)
    /\ npm' = {IF p.by = w THEN [p EXCEPT !.by = "init"] ELSE p : p \in npm}
    /\ orphaned' = (orphaned \/ \E p \in npm : p.by = w)
    /\ UNCHANGED <<installed, latest, torn>>

NpmNext ==
    \/ \E w \in Wrappers :
           \/ StartsUp(w) \/ AsksForUpdate(w)
           \/ OpensLock(w) \/ FindsLock(w) \/ NamesLock(w)
           \/ SeesOwner(w) \/ SeesNoOwner(w) \/ RemovesStale(w)
           \/ RefreshesTarget(w) \/ FindsInstalled(w) \/ RunsNpm(w)
           \/ Verifies(w) \/ ReleasesLock(w) \/ KeepsFile(w) \/ Restarts(w)
           \/ WrapperKilled(w)
    \/ \E p \in npm : NpmEnds(p)
    \/ VersionPublished

NpmSpec == NpmInit /\ [][NpmNext]_npmVars

(***************************************************************************)
(* Properties.                                                             *)
(***************************************************************************)
UnderLock(w) ==
    wrapper[w].at \in {"naming", "refresh", "compare", "install", "verify", "done", "failed"}

\* The lock serialises the updaters of a machine as long as nobody took the
\* file of a living wrapper for an abandoned one: crashes at any point, stale
\* files and the takeover of them never let two updaters in.
OnlyATearLetsTwoIn ==
    ~torn => Cardinality({w \in Wrappers : UnderLock(w)}) <= 1

\* The installed package never goes back to an older version, whatever target
\* a waiting wrapper still carries, but for a torn lock or an npm that
\* outlived its wrapper.
NeverDowngrades ==
    [][(~torn /\ ~orphaned) => installed' >= installed]_npmVars
=============================================================================
