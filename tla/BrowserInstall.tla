----------------------------- MODULE BrowserInstall -----------------------------
(***************************************************************************)
(* The installation of the managed Chromium (ensure_browser of             *)
(* src/src/browser_manager.rs).  Several host processes share one cache    *)
(* directory: they look for a verified install without a lock, then look   *)
(* again under a file lock, download, extract into a staging directory of  *)
(* their own, rename it into place and write the marker that makes it      *)
(* count.  A process may crash between any two steps (the system drops its *)
(* lock), and a dropped caller drops the lock while the extraction it      *)
(* started goes on.                                                        *)
(*                                                                         *)
(* The archive is checked against its pinned digest while it is            *)
(* downloaded, so what comes out of it is right file by file; a directory  *)
(* maps each file of the browser to "good", "bad" (what the check reads of *)
(* it, its size, mode, time or digest, tells) or "none".                   *)
(***************************************************************************)
EXTENDS Naturals, FiniteSets

CONSTANTS
    Installers,     \* the calls of ensure_browser
    BrowserFiles,   \* the files of the browser
    Executable,     \* the one that is started
    MaxBreaks       \* bound: crashes, dropped calls, failing steps

VARIABLES
    step,           \* where each call stands
    installLock,    \* who holds .install.lock
    final,          \* the published directory and its marker
    noted,          \* the marker each call read
    unchecked,      \* the files it has yet to compare with it
    staging,        \* the staging directories, by name
    unpacking,      \* what each extraction task has yet to do
    inventory,      \* what each call found in its staging directory
    backup,         \* the directory each call moved out of the way
    mixed,          \* calls whose check spans a change of the directory
    breaks

checkVars   == <<noted, unchecked, mixed>>
stageVars   == <<staging, unpacking, inventory, backup>>
installVars == <<step, installLock, final, checkVars, stageVars, breaks>>

Nobody   == "nobody"
NoTree   == [f \in BrowserFiles |-> "none"]
AllGood  == [f \in BrowserFiles |-> "good"]
NoMarker == NoTree              \* a marker lists the executable at least
Nothing  == [tree |-> NoTree, marker |-> NoMarker]
Sweep    == "sweep"             \* removing what the staging directory holds

ASSUME InstallAssumption ==
    /\ Nobody \notin Installers
    /\ Executable \in BrowserFiles /\ Sweep \notin BrowserFiles
    /\ MaxBreaks \in Nat

\* What an earlier version of the program, a crash or the user left there.
InstallInit ==
    /\ step = [c \in Installers |-> "look"]
    /\ installLock = Nobody
    /\ final \in {Nothing,
                  [tree |-> AllGood, marker |-> AllGood],
                  [tree |-> AllGood, marker |-> NoMarker]}
                 \cup {[tree |-> [AllGood EXCEPT ![f] = d], marker |-> AllGood] :
                           f \in BrowserFiles, d \in {"bad", "none"}}
    /\ noted = [c \in Installers |-> NoMarker]
    /\ unchecked = [c \in Installers |-> {}]
    /\ staging = [c \in Installers |-> NoTree]
    /\ unpacking = [c \in Installers |-> {}]
    /\ inventory = [c \in Installers |-> NoMarker]
    /\ backup = [c \in Installers |-> Nothing]
    /\ mixed = {}
    /\ breaks = 0

Break == breaks < MaxBreaks /\ breaks' = breaks + 1

Advances(c, where) == step' = [step EXCEPT ![c] = where]
Unlocked(c) == IF installLock = c THEN Nobody ELSE installLock

\* Slip: the staging directory is named without a nonce.
OneStaging(c) == CHOOSE d \in Installers : TRUE

\* The nonce of a call is in the names of its directories.
StagingOf(c) == c

(***************************************************************************)
(* installed_from: without the lock, and again under it.                   *)
(***************************************************************************)
Checking == {"check", "recheck"}

Missing(c) == Advances(c, IF step[c] \in {"look", "check"} THEN "wait" ELSE "download")

ReadMarker(c) ==
    /\ step[c] \in {"look", "relook"}
    /\ IF final.marker = NoMarker \/ final.tree[Executable] = "none"
       THEN Missing(c) /\ UNCHANGED <<noted, unchecked>>
       ELSE /\ Advances(c, IF step[c] = "look" THEN "check" ELSE "recheck")
            /\ noted' = [noted EXCEPT ![c] = final.marker]
            /\ unchecked' = [unchecked EXCEPT ![c] = {f \in BrowserFiles : final.marker[f] # "none"}]
    /\ UNCHANGED <<installLock, final, mixed, stageVars, breaks>>

CheckFile(c) ==
    /\ step[c] \in Checking
    /\ \E f \in unchecked[c] :
           IF final.tree[f] # noted[c][f]
           THEN Missing(c) /\ UNCHANGED <<unchecked, installLock>>
           ELSE /\ unchecked' = [unchecked EXCEPT ![c] = @ \ {f}]
                /\ IF unchecked[c] = {f}
                   THEN Advances(c, "told") /\ installLock' = Unlocked(c)
                   ELSE UNCHANGED <<step, installLock>>
    /\ UNCHANGED <<final, noted, mixed, stageVars, breaks>>

\* Slip: once under the lock, nobody looks again.
AcquiresAndDownloads(c) ==
    /\ step[c] = "wait" /\ installLock = Nobody
    /\ installLock' = c
    /\ Advances(c, "download")
    /\ UNCHANGED <<final, checkVars, stageVars, breaks>>

AcquireLock(c) ==
    /\ step[c] = "wait" /\ installLock = Nobody
    /\ installLock' = c
    /\ Advances(c, "relook")
    /\ UNCHANGED <<final, checkVars, stageVars, breaks>>

(***************************************************************************)
(* Download and extraction.                                                *)
(***************************************************************************)
Download(c) ==
    /\ step[c] = "download"
    /\ Advances(c, "extract")
    /\ unpacking' = [unpacking EXCEPT ![c] = BrowserFiles \cup {Sweep}]
    /\ UNCHANGED <<installLock, final, checkVars, staging, inventory, backup, breaks>>

\* extract_archive runs in a blocking task, which outlives its caller.
EmptyStaging(c) ==
    /\ Sweep \in unpacking[c]
    /\ staging' = [staging EXCEPT ![StagingOf(c)] = NoTree]
    /\ unpacking' = [unpacking EXCEPT ![c] = BrowserFiles]
    /\ UNCHANGED <<step, installLock, final, checkVars, inventory, backup, breaks>>

ExtractFile(c) ==
    /\ Sweep \notin unpacking[c]
    /\ \E f \in unpacking[c] :
           /\ staging' = [staging EXCEPT ![StagingOf(c)][f] = "good"]
           /\ unpacking' = [unpacking EXCEPT ![c] = @ \ {f}]
    /\ UNCHANGED <<step, installLock, final, checkVars, inventory, backup, breaks>>

(***************************************************************************)
(* Publication: without an await, so only a crash can come in between.     *)
(***************************************************************************)
Staged(c) == staging[StagingOf(c)]

CollectFiles(c) ==
    /\ step[c] = "extract" /\ unpacking[c] = {}
    /\ Staged(c)[Executable] # "none"
    /\ inventory' = [inventory EXCEPT ![c] = Staged(c)]
    /\ Advances(c, "set_aside")
    /\ UNCHANGED <<installLock, final, checkVars, staging, unpacking, backup, breaks>>

\* Whoever is comparing files now compares those of another directory.
MixesUp == mixed' = mixed \cup {c \in Installers : step[c] \in Checking}

SetAside(c) ==
    /\ step[c] = "set_aside"
    /\ IF final.tree = NoTree /\ final.marker = NoMarker
       THEN UNCHANGED <<final, backup, mixed>>
       ELSE /\ backup' = [backup EXCEPT ![c] = final]
            /\ final' = Nothing
            /\ MixesUp
    /\ Advances(c, "publish")
    /\ UNCHANGED <<installLock, noted, unchecked, staging, unpacking, inventory, breaks>>

Publishes(c) ==
    /\ step[c] = "publish"
    /\ final' = [tree |-> Staged(c), marker |-> NoMarker]
    /\ staging' = [staging EXCEPT ![StagingOf(c)] = NoTree]
    /\ MixesUp
    /\ Advances(c, "mark")
    /\ UNCHANGED <<installLock, noted, unchecked, unpacking, inventory, backup, breaks>>

WriteMarker(c) ==
    /\ step[c] = "mark"
    /\ final' = [final EXCEPT !.marker = inventory[c]]
    /\ backup' = [backup EXCEPT ![c] = Nothing]
    /\ Advances(c, "told")
    /\ installLock' = Unlocked(c)
    /\ UNCHANGED <<checkVars, staging, unpacking, inventory, breaks>>

(***************************************************************************)
(* What can go wrong.                                                      *)
(***************************************************************************)
\* Every failure ends in the cleanup of the staging directory.
Fail(c) ==
    /\ Advances(c, "failed")
    /\ installLock' = Unlocked(c)
    /\ staging' = [staging EXCEPT ![StagingOf(c)] = NoTree]

StepFails(c) ==
    /\ \/ step[c] \in {"download", "set_aside"} \cup Checking
       \/ step[c] = "extract" /\ unpacking[c] = {}
    /\ Break
    /\ Fail(c)
    /\ UNCHANGED <<final, checkVars, unpacking, inventory, backup>>

\* The archive, or a shared directory, did not hold the executable.
NoExecutable(c) ==
    /\ step[c] = "extract" /\ unpacking[c] = {} /\ Staged(c)[Executable] = "none"
    /\ Fail(c)
    /\ UNCHANGED <<final, checkVars, unpacking, inventory, backup, breaks>>

PublicationFails(c) ==
    /\ step[c] = "publish"
    /\ Break
    /\ Fail(c)
    /\ final' \in {backup[c], final}
    /\ MixesUp
    /\ UNCHANGED <<noted, unchecked, unpacking, inventory, backup>>

\* remove_dir_all may stop halfway; then the backup cannot be renamed back.
MarkFails(c) ==
    /\ step[c] = "mark"
    /\ Break
    /\ Fail(c)
    /\ final' \in {backup[c]} \cup
                  {[final EXCEPT !.tree[f] = "none"] : f \in BrowserFiles}
    /\ MixesUp
    /\ UNCHANGED <<noted, unchecked, unpacking, inventory, backup>>

\* At the await of the lock, of the download or of the extraction.
CallDropped(c) ==
    /\ step[c] \in {"wait", "download", "extract"}
    /\ Break
    /\ Advances(c, "gone")
    /\ installLock' = Unlocked(c)
    /\ UNCHANGED <<final, checkVars, stageVars>>

\* The process dies, and its extraction with it.
InstallerDies(c) ==
    /\ step[c] \notin {"told", "failed", "gone"}
    /\ Break
    /\ Advances(c, "gone")
    /\ installLock' = Unlocked(c)
    /\ unpacking' = [unpacking EXCEPT ![c] = {}]
    /\ UNCHANGED <<final, checkVars, staging, inventory, backup>>

InstallNext ==
    \E c \in Installers :
        \/ ReadMarker(c) \/ CheckFile(c) \/ AcquireLock(c)
        \/ Download(c) \/ EmptyStaging(c) \/ ExtractFile(c)
        \/ CollectFiles(c) \/ SetAside(c) \/ Publishes(c) \/ WriteMarker(c)
        \/ StepFails(c) \/ NoExecutable(c) \/ PublicationFails(c) \/ MarkFails(c)
        \/ CallDropped(c) \/ InstallerDies(c)

InstallSpec == InstallInit /\ [][InstallNext]_installVars

(***************************************************************************)
(* Properties.                                                             *)
(***************************************************************************)
\* Whoever was told of a browser has all of it, and keeps it: no other call
\* replaces, empties or completes that directory under the Chromium it runs,
\* whatever crashes, fails or is dropped.  The exception is a call that read
\* the marker of one directory and the files of the next.
ToldKeepsItsBrowser ==
    \A c \in Installers : step[c] = "told" /\ c \notin mixed => final.tree = AllGood
=============================================================================
