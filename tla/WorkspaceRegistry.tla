--------------------------- MODULE WorkspaceRegistry ---------------------------
(***************************************************************************)
(* The workspaces of the host: src/src/state.rs (add, rename, rotate,      *)
(* remove, flush) and the leases its requests hold (WorkspaceLeases has    *)
(* their counting and their drain; here the drain only waits for them).    *)
(*                                                                         *)
(* A change of the registry, or a flush of the settings, holds             *)
(* workspace_mutation_lock from its first read to its last write; op and   *)
(* flush say where they stand.  Requests run beside it, and so do the      *)
(* tasks that retry what a removal could not clean up.                     *)
(*                                                                         *)
(* A workspace's slug and name are a version; so are all other settings.   *)
(* A workspace id is a fresh UUID and never registered twice.              *)
(***************************************************************************)
EXTENDS Naturals, FiniteSets

CONSTANTS
    Workspaces,     \* ids ever made
    FirstOnes,      \* those registered at the start
    Attempts,       \* WORKSPACE_CLEANUP_RETRY_ATTEMPTS
    MaxVersion,     \* bound: changes of a workspace, of the settings
    MaxRegFaults    \* bound: failing writes, crashes, deletions of the file

ASSUME RegistryAssumption ==
    /\ FirstOnes \subseteq Workspaces
    /\ IsFiniteSet(Workspaces)
    /\ Attempts \in Nat \ {0} /\ MaxVersion \in Nat \ {0} /\ MaxRegFaults \in Nat

VARIABLES
    workspaces,     \* AppState.workspaces: the version of each, 0 if none
    settings,       \* the version of everything else in the configuration
    dirty,          \* config_dirty
    file,           \* config.toml
    op,             \* the change of the registry under way
    flush,          \* the flush of the settings under way
    admitting,      \* accepting_requests of each runtime
    held,           \* the workspaces some request holds a lease of
    barred,         \* closing_workspaces of the command jobs
    rows,           \* what is kept of each workspace outside the registry
    retry,          \* the retry tasks of a removal: attempts left
    warned,         \* removals whose retries were used up
    promised,       \* the version of each last reported as made
    removed,        \* the removals reported as made
    cutOff,         \* taken out of the file by a removal that did not report it
    leftover,       \* what a crash in the middle of a removal left for good
    registryFaults

configVars   == <<workspaces, settings, dirty, file>>
leaseholdVars  == <<admitting, held>>
cleanupVars  == <<barred, rows, retry, warned>>
historyVars  == <<promised, removed, cutOff, leftover, registryFaults>>
registryVars == <<configVars, op, flush, leaseholdVars, cleanupVars, historyVars>>

Kinds == {"jobs", "workers", "commands"}    \* jobs are in memory, the rest durable
NoOp == [kind |-> "none"]

RegistryInit ==
    /\ workspaces = [w \in Workspaces |-> IF w \in FirstOnes THEN 1 ELSE 0]
    /\ settings = 1
    /\ dirty = FALSE
    /\ file = [present |-> TRUE, versions |-> workspaces, settings |-> 1]
    /\ op = NoOp /\ flush = NoOp
    /\ admitting = [w \in Workspaces |-> TRUE]
    /\ held = {}
    /\ barred = {}
    /\ rows = [w \in Workspaces |-> {}]
    /\ retry = [w \in Workspaces |-> [k \in Kinds |-> 0]]
    /\ warned = {}
    /\ promised = workspaces
    /\ removed = {}
    /\ cutOff = {}
    /\ leftover = {}
    /\ registryFaults = 0

Registered(w) == workspaces[w] # 0
Fault == registryFaults < MaxRegFaults /\ registryFaults' = registryFaults + 1

(***************************************************************************)
(* The requests: resolve_workspace and try_acquire, the work a leased      *)
(* request does, and the last release.                                     *)
(***************************************************************************)
OnlyRequests == UNCHANGED <<configVars, op, flush, admitting, barred, retry, warned, historyVars>>

TakeLease(w) ==
    /\ Registered(w) /\ admitting[w]
    /\ w \notin held
    /\ held' = held \cup {w}
    /\ OnlyRequests /\ UNCHANGED rows

ReturnLease(w) ==
    /\ w \in held
    /\ held' = held \ {w}
    /\ OnlyRequests /\ UNCHANGED rows

\* A leased request starts a job or writes to one of the stores.
Work(w, k) ==
    /\ w \in held
    /\ k = "jobs" => w \notin barred
    /\ k \notin rows[w]
    /\ rows' = [rows EXCEPT ![w] = @ \cup {k}]
    /\ OnlyRequests /\ UNCHANGED held

(***************************************************************************)
(* Writing config.toml: a temporary file, synced, then renamed over the    *)
(* old one.  An error may come before the rename or after it (setting the  *)
(* new file's permissions, deleting the old one after an exchange).        *)
(***************************************************************************)
Written(o) == [present |-> TRUE, versions |-> o.versions, settings |-> o.settings]

\* A removal takes its workspace out of the file, any later save of a
\* registered workspace puts it back.
NotesCutOff ==
    cutOff' = {w \in Workspaces :
                  /\ file'.versions[w] = 0
                  /\ w \in cutOff \/ (op.kind = "remove" /\ op.ws = w)}

\* Slip: a change is left to the next flush.
SavesLater(o) == UNCHANGED <<file, cutOff, registryFaults>>

SaveOk(o) == file' = Written(o) /\ NotesCutOff /\ UNCHANGED registryFaults

WriteFails(o) == file' \in {file, Written(o)} /\ NotesCutOff /\ Fault

\* Slip: a flush does not wait for a change of the registry, nor it for a flush.
OwnLock(mine) == mine = NoOp

LockFree(mine) == op = NoOp /\ flush = NoOp

Step(at) == op' = [op EXCEPT !.at = at]
OpAt(kind, at) == op.kind = kind /\ op.at = at

(***************************************************************************)
(* add_workspace, rename_workspace, rotate_workspace_secret.               *)
(***************************************************************************)
\* A slug nobody has seen before, in memory or in the file.
Fresh(w) ==
    IF file.versions[w] > workspaces[w] THEN file.versions[w] + 1 ELSE workspaces[w] + 1

\* add_workspace makes a new id.
NewId(w) == promised[w] = 0 /\ file.versions[w] = 0 /\ w \notin removed /\ w \notin leftover

BeginChange(w) ==
    /\ LockFree(op)
    /\ Registered(w) \/ NewId(w)
    /\ Fresh(w) <= MaxVersion
    /\ op' = [kind |-> "change", at |-> "persist", ws |-> w,
              versions |-> [workspaces EXCEPT ![w] = Fresh(w)], settings |-> settings]
    /\ UNCHANGED <<configVars, flush, leaseholdVars, cleanupVars, historyVars>>

ChangePersists ==
    /\ OpAt("change", "persist")
    /\ SaveOk(op)
    /\ Step("publish")
    /\ UNCHANGED <<workspaces, settings, dirty, flush, leaseholdVars, cleanupVars, promised, removed, leftover>>

ChangeFails ==
    /\ OpAt("change", "persist")
    /\ WriteFails(op)
    /\ op' = NoOp
    /\ UNCHANGED <<workspaces, settings, dirty, flush, leaseholdVars, cleanupVars, promised, removed, leftover>>

ChangePublishes ==
    /\ OpAt("change", "publish")
    /\ workspaces' = op.versions
    /\ dirty' = TRUE
    /\ promised' = [promised EXCEPT ![op.ws] = op.versions[op.ws]]
    /\ op' = NoOp
    /\ UNCHANGED <<settings, file, flush, leaseholdVars, cleanupVars, removed, cutOff, leftover,
                   registryFaults>>

(***************************************************************************)
(* remove_workspace.                                                       *)
(***************************************************************************)
BeginRemove(w) ==
    /\ LockFree(op)
    /\ Registered(w)
    /\ \E v \in Workspaces \ {w} : Registered(v)
    /\ op' = [kind |-> "remove", at |-> "revoke", ws |-> w,
              versions |-> [workspaces EXCEPT ![w] = 0], settings |-> settings]
    /\ barred' = barred \cup {w}
    /\ UNCHANGED <<configVars, flush, leaseholdVars, rows, retry, warned, historyVars>>

StopAccepting ==
    /\ OpAt("remove", "revoke")
    /\ admitting' = [admitting EXCEPT ![op.ws] = FALSE]
    /\ Step("drain")
    /\ UNCHANGED <<configVars, flush, held, cleanupVars, historyVars>>

\* Slip: the removal does not wait for the requests under way.
DrainsAtOnce == TRUE

\* wait_for_drain came back.
Drained == op.ws \notin held

Drains ==
    /\ OpAt("remove", "drain")
    /\ Drained
    /\ Step("persist")
    /\ UNCHANGED <<configVars, flush, leaseholdVars, cleanupVars, historyVars>>

DrainTimesOut ==
    /\ OpAt("remove", "drain")
    /\ Step("abort")
    /\ UNCHANGED <<configVars, flush, leaseholdVars, cleanupVars, historyVars>>

AbortJobs ==
    /\ OpAt("remove", "abort")
    /\ barred' = barred \ {op.ws}
    /\ Step("enable")
    /\ UNCHANGED <<configVars, flush, leaseholdVars, rows, retry, warned, historyVars>>

\* Slip: a refused removal leaves the workspace closed.
StaysRevoked == UNCHANGED admitting

Reenabled == admitting' = [admitting EXCEPT ![op.ws] = TRUE]

Reenable ==
    /\ OpAt("remove", "enable")
    /\ Reenabled
    /\ op' = NoOp
    /\ UNCHANGED <<configVars, flush, held, cleanupVars, historyVars>>

RemovePersists ==
    /\ OpAt("remove", "persist")
    /\ SaveOk(op)
    /\ Step("jobs")
    /\ UNCHANGED <<workspaces, settings, dirty, flush, leaseholdVars, cleanupVars, promised, removed, leftover>>

RemoveFails ==
    /\ OpAt("remove", "persist")
    /\ WriteFails(op)
    /\ Step("abort")
    /\ UNCHANGED <<workspaces, settings, dirty, flush, leaseholdVars, cleanupVars, promised, removed, leftover>>

\* finalize_workspace_removal, then purge_workspace of either store; what
\* fails gets Attempts more tries once the removal returned.
AfterCleaning(k) == CASE k = "jobs" -> "workers" [] k = "workers" -> "commands" [] OTHER -> "publish"

\* Slip: a purge that fails is taken for done.
NeverRetries(k) == UNCHANGED retry

Retried(k) == retry' = [retry EXCEPT ![op.ws][k] = Attempts]

Purged(w, k) ==
    /\ rows' = [rows EXCEPT ![w] = @ \ {k}]
    /\ barred' = IF k = "jobs" THEN barred \ {w} ELSE barred

Cleans(k) ==
    /\ OpAt("remove", k)
    /\ Step(AfterCleaning(k))
    /\ \/ Purged(op.ws, k) /\ UNCHANGED <<retry, registryFaults>>
       \/ /\ Fault
          /\ Retried(k)
          /\ UNCHANGED <<rows, barred>>
    /\ UNCHANGED <<configVars, flush, leaseholdVars, warned, promised, removed, cutOff, leftover>>

RemovePublishes ==
    /\ OpAt("remove", "publish")
    /\ workspaces' = op.versions
    /\ dirty' = TRUE
    /\ removed' = removed \cup {op.ws}
    /\ op' = NoOp
    /\ UNCHANGED <<settings, file, flush, leaseholdVars, cleanupVars, promised, cutOff, leftover,
                   registryFaults>>

\* The retries start when the removal returned.
Retry(w, k) ==
    /\ retry[w][k] > 0
    /\ w \in removed
    /\ \/ /\ Purged(w, k)
          /\ retry' = [retry EXCEPT ![w][k] = 0]
          /\ UNCHANGED <<warned, registryFaults>>
       \/ /\ Fault
          /\ retry' = [retry EXCEPT ![w][k] = @ - 1]
          /\ warned' = IF retry[w][k] = 1 THEN warned \cup {<<w, k>>} ELSE warned
          /\ UNCHANGED <<rows, barred>>
    /\ UNCHANGED <<configVars, flush, op, leaseholdVars, promised, removed, cutOff, leftover>>

(***************************************************************************)
(* The settings: changed anywhere, flushed under the lock.                 *)
(***************************************************************************)
ChangeSettings ==
    /\ settings < MaxVersion
    /\ settings' = settings + 1
    /\ dirty' = TRUE
    /\ UNCHANGED <<workspaces, file, op, flush, leaseholdVars, cleanupVars, historyVars>>

\* flush_config finds no file: it gives up what is unsaved until the next
\* change.  A forced flush does not look.
FlushFindsNoFile ==
    /\ LockFree(flush)
    /\ ~file.present
    /\ dirty' = FALSE
    /\ UNCHANGED <<workspaces, settings, file, op, flush, leaseholdVars, cleanupVars, historyVars>>

\* take_config_snapshot.
Flush(force) ==
    /\ LockFree(flush)
    /\ force \/ (dirty /\ file.present)
    /\ dirty' = FALSE
    /\ flush' = [kind |-> "flush", at |-> IF force THEN "replace" ELSE "if_present",
              versions |-> workspaces, settings |-> settings]
    /\ UNCHANGED <<workspaces, settings, file, op, leaseholdVars, cleanupVars, historyVars>>

FlushSaves ==
    /\ flush # NoOp
    /\ flush.at = "replace" \/ file.present
    /\ SaveOk(flush)
    /\ flush' = NoOp
    /\ UNCHANGED <<workspaces, settings, dirty, op, leaseholdVars, cleanupVars, promised, removed, leftover>>

\* Slip: a failing flush does not mark the settings as unsaved again.
StaysClean == UNCHANGED dirty

MarkedUnsaved == dirty' = TRUE

FlushFails ==
    /\ flush # NoOp
    /\ IF flush.at = "replace" \/ file.present THEN WriteFails(flush)
       ELSE Fault /\ UNCHANGED <<file, cutOff>>
    /\ MarkedUnsaved
    /\ flush' = NoOp
    /\ UNCHANGED <<workspaces, settings, op, leaseholdVars, cleanupVars, promised, removed, leftover>>

\* The file was deleted since the flush looked.
FlushFindsItGone ==
    /\ flush # NoOp /\ flush.at = "if_present" /\ ~file.present
    /\ dirty' = FALSE
    /\ flush' = NoOp
    /\ UNCHANGED <<workspaces, settings, file, op, leaseholdVars, cleanupVars, historyVars>>

(***************************************************************************)
(* Somebody deletes the file; the host stops and starts from the file (a   *)
(* start without one is a first start, and no part of this).               *)
(***************************************************************************)
FileDeleted ==
    /\ file.present
    /\ file' = [file EXCEPT !.present = FALSE]
    /\ Fault
    /\ UNCHANGED <<workspaces, settings, dirty, op, flush, leaseholdVars, cleanupVars, promised,
                   removed, cutOff, leftover>>

Crash ==
    /\ file.present
    /\ Fault
    /\ workspaces' = file.versions
    /\ settings' = file.settings
    /\ dirty' = FALSE
    /\ op' = NoOp /\ flush' = NoOp
    /\ admitting' = [w \in Workspaces |-> TRUE]
    /\ held' = {}
    /\ barred' = {}
    /\ rows' = [w \in Workspaces |-> rows[w] \ {"jobs"}]
    /\ retry' = [w \in Workspaces |-> [k \in Kinds |-> 0]]
    /\ leftover' = leftover \cup {w \in Workspaces : file.versions[w] = 0 /\ rows[w] # {}}
    /\ UNCHANGED <<file, warned, promised, removed, cutOff>>

RegistryNext ==
    \/ \E w \in Workspaces :
           \/ TakeLease(w) \/ ReturnLease(w)
           \/ \E k \in Kinds : Work(w, k)
    \/ \E w \in Workspaces : BeginChange(w) \/ BeginRemove(w)
    \/ ChangePersists \/ ChangeFails \/ ChangePublishes
    \/ StopAccepting \/ Drains \/ DrainTimesOut
    \/ AbortJobs \/ Reenable
    \/ RemovePersists \/ RemoveFails
    \/ \E k \in Kinds : Cleans(k)
    \/ RemovePublishes
    \/ \E w \in Workspaces, k \in Kinds : Retry(w, k)
    \/ ChangeSettings
    \/ FlushFindsNoFile \/ FlushSaves \/ FlushFails \/ FlushFindsItGone
    \/ \E force \in BOOLEAN : Flush(force)
    \/ FileDeleted
    \/ Crash

RegistrySpec == RegistryInit /\ [][RegistryNext]_registryVars

(***************************************************************************)
(* Properties.                                                             *)
(***************************************************************************)

\* No request works in a workspace past the point where its removal took
\* the drain for done: whoever saw it admitting was waited for.
LeaseExcludesRemoval ==
    \A w \in held :
        /\ Registered(w)
        /\ op.kind = "remove" /\ op.ws = w => op.at \in {"revoke", "drain", "abort", "enable"}

\* A workspace that is registered and not being removed takes requests and
\* jobs: no refused, failed or retried removal leaves it closed.
RegisteredIsOpen ==
    \A w \in Workspaces :
        Registered(w) /\ ~(op.kind = "remove" /\ op.ws = w) => admitting[w] /\ w \notin barred

\* A workspace is either open to every request or being removed behind the
\* back of none.
OpenOrRemoved == LeaseExcludesRemoval /\ RegisteredIsOpen

\* What was reported stays, after whatever flush, failure or crash.  A
\* workspace reported as added, renamed or rotated is registered and in the
\* file, with that slug and name or newer ones, until its removal is reported;
\* it is missing only after a removal that was asked for and reached the file
\* but did not report it: the host stopped in the middle of it, or the write
\* failed past the rename.  A workspace whose removal was reported never comes
\* back.
ReportedIsKept ==
    \A w \in Workspaces :
        /\ promised[w] # 0 /\ w \notin removed \cup cutOff =>
               /\ workspaces[w] >= promised[w]
               /\ file.present => file.versions[w] >= promised[w]
        /\ Registered(w) => workspaces[w] >= promised[w]
        /\ file.present /\ file.versions[w] # 0 => file.versions[w] >= promised[w]
        /\ w \in removed => ~Registered(w) /\ (file.present => file.versions[w] = 0)

\* A setting that is not in the file is marked as unsaved, or a flush that
\* has it is under way, or the file was deleted and persistence is paused.
UnsavedIsDirty ==
    file.present /\ settings # file.settings =>
        dirty \/ (flush # NoOp /\ flush.settings = settings)

\* What a removed workspace left outside the registry is being removed, is
\* retried, was given up with a warning, or the host crashed meanwhile.
NothingLeftBehind ==
    \A w \in Workspaces, k \in Kinds :
        ~Registered(w) /\ k \in rows[w] =>
            retry[w][k] > 0 \/ <<w, k>> \in warned \/ w \in leftover

\* No change that was reported is lost or done by half: a registry change is
\* in memory and in the file, a setting at least due for it, and what a removal
\* has not reached yet is still on its way out.
ReportedIsDone == ReportedIsKept /\ UnsavedIsDirty /\ NothingLeftBehind
=============================================================================
