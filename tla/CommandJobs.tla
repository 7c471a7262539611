------------------------------ MODULE CommandJobs ------------------------------
(***************************************************************************)
(* The manager of background commands, src/src/command_jobs.rs, and the    *)
(* owner of their process trees, src/src/process_runner.rs.                *)
(*                                                                         *)
(* A job is a record of the manager and a task of its own (run_job).  The  *)
(* manager admits jobs under start_lock; the task spawns a shell in its    *)
(* own process group, waits for its exit, a cancel or the timeout, kills   *)
(* the group, waits until both pipes are closed and ends the job.  A       *)
(* descendant that left the group (setsid) survives the kill; while it     *)
(* keeps a pipe open, the task keeps waiting.                              *)
(*                                                                         *)
(* Time is abstracted: a request key's window, a job's retention time and  *)
(* the deadlines pass at any moment.  Output is in CommandOutput.          *)
(***************************************************************************)
EXTENDS Naturals, FiniteSets

CONSTANTS
    Workspaces,     \* workspaces of the host
    Jobs,           \* job ids (fresh UUIDs), bounding the starts
    Keys,           \* request keys of start_command (request id and arguments)
    Commands,       \* a command with its directory and timeout
    MaxActive,      \* MAX_ACTIVE_JOBS
    MaxRetained,    \* MAX_RETAINED_JOBS
    NoJob, NoRequest

ASSUME JobsAssumption ==
    /\ IsFiniteSet(Jobs) /\ NoJob \notin Jobs
    /\ NoRequest \notin Keys
    /\ MaxActive \in Nat \ {0}
    /\ MaxRetained \in Nat

VARIABLES
    job,            \* what is known of each job, by its record and its task
    registered,     \* the keys of ManagerState.jobs
    requestJobs,    \* the job a key started, while the key's window is open
    closing,        \* closing_workspaces
    removal,        \* where the removal of a workspace is: "none", "begun",
                    \* "winding" after cancel_workspace signalled its jobs
    shuttingDown,   \* the flag of cancel_all
    stopping        \* cancel_all waits and holds start_lock

jobsVars == <<job, registered, requestJobs, closing, removal,
              shuttingDown, stopping>>

\* "exited" stands for Succeeded and for Failed: no decision tells them apart.
Ends == {"exited", "cancelled", "timed_out"}

JobRecord ==
    [workspace : Workspaces,
     command   : Commands,
     state     : {"running"} \cup Ends,
     cancelled : BOOLEAN,                  \* the value of cancel_tx
     task      : {"new", "spawning", "selecting", "joining", "done"},
     ends      : Ends,                     \* the outcome the select chose
     finishedAt : Nat,                     \* its place among the ended jobs
     root      : BOOLEAN,                  \* the shell is alive
     group     : {"none", "quiet", "open"},\* its process group is gone, alive
                                           \* without a pipe, or with one
     holder    : BOOLEAN]                  \* a descendant outside the group
                                           \* keeps a pipe open
Unused == [state |-> "unused"]

JobsInit ==
    /\ job = [j \in Jobs |-> Unused]
    /\ registered = {}
    /\ requestJobs = [wk \in Workspaces \X Keys |-> NoJob]
    /\ closing = {}
    /\ removal = [w \in Workspaces |-> "none"]
    /\ shuttingDown = FALSE
    /\ stopping = FALSE

Running(j)   == job[j].state = "running"
Started(j)   == job[j].state # "unused"
TaskAt(j, t) == Started(j) /\ job[j].task = t
Owned(w)     == {j \in registered : job[j].workspace = w}
Active(w)    == {j \in Owned(w) : Running(j)}

(***************************************************************************)
(* Cleanup, run by every start, list, poll and cancel unless it ran in the *)
(* last second.  Of every workspace the oldest ended jobs go: those past   *)
(* their hour, those beyond MaxRetained, and those whose output is beyond  *)
(* the memory budget; how many the first and the last are is left open.    *)
(* A key whose job is gone is forgotten, its window open or not.           *)
(***************************************************************************)
EndedOf(w) == {j \in Owned(w) : ~Running(j)}

OldestFirst(E, w) ==
    \A i \in E \cap EndedOf(w), j \in EndedOf(w) :
        job[j].finishedAt < job[i].finishedAt => j \in E

WithinLimit(E, w) ==
    Cardinality(Owned(w) \ E) > MaxRetained => EndedOf(w) \subseteq E

\* Slip: the limit counts, and takes, jobs that still run.
EvictsRunning ==
    {E \in SUBSET registered :
        \A w \in Workspaces : OldestFirst(E, w) /\ WithinLimit(E, w)}

Evictions ==
    {E \in SUBSET {j \in registered : ~Running(j)} :
        \A w \in Workspaces : OldestFirst(E, w) /\ WithinLimit(E, w)}

\* Nothing, within a second of the last cleanup.
CleanupOutcomes == {{}} \cup Evictions

\* Slip: the keys of evicted jobs stay.
KeysKept(E) == requestJobs

\* Slip: a cleanup clears every key.
KeysDropped(E) == [wk \in Workspaces \X Keys |-> NoJob]

KeysWithout(E) ==
    [wk \in Workspaces \X Keys |->
        IF requestJobs[wk] \in E THEN NoJob ELSE requestJobs[wk]]

Evict(E) ==
    /\ registered' = registered \ E
    /\ requestJobs' = KeysWithout(E)

\* list_for_workspace, poll_for_workspace and cancel_for_workspace of a job
\* that is gone or ended change nothing else.
List ==
    /\ \E E \in Evictions : E # {} /\ Evict(E)
    /\ UNCHANGED <<job, closing, removal, shuttingDown, stopping>>

(***************************************************************************)
(* start_for_workspace_with_options: cleanup, then under start_lock the    *)
(* refusals, the key's job if it has one, a running twin unless duplicates *)
(* are allowed, and the limit.  Only the outcome that admits a job changes *)
(* anything beyond the cleanup.                                            *)
(***************************************************************************)
\* Slip: the removal of a workspace refuses no start.
RefusedAtShutdown(w) == shuttingDown

Refused(w) == shuttingDown \/ w \in closing

HasTwin(w, c, E) ==
    \E j \in Owned(w) \ E : job[j].command = c /\ Running(j)

Admits(w, k, c, allowDuplicate, E) ==
    /\ ~stopping
    /\ ~Refused(w)
    /\ k \in Keys => KeysWithout(E)[<<w, k>>] = NoJob
    /\ ~allowDuplicate => ~HasTwin(w, c, E)
    /\ Cardinality(Active(w)) < MaxActive

\* A fresh UUID: which of the unused ids it is makes no difference.
FreshId ==
    LET unused == {j \in Jobs : ~Started(j)}
    IN  IF unused = {} THEN {} ELSE {CHOOSE j \in unused : TRUE}

Start(w, k, c, allowDuplicate) ==
    \E E \in CleanupOutcomes, j \in FreshId :
        /\ Admits(w, k, c, allowDuplicate, E)
        /\ job' = [job EXCEPT ![j] =
                     [workspace |-> w, command |-> c, state |-> "running",
                      cancelled |-> FALSE, task |-> "new", ends |-> "exited",
                      finishedAt |-> 0, root |-> FALSE, group |-> "none", holder |-> FALSE]]
        /\ registered' = (registered \ E) \cup {j}
        /\ requestJobs' = IF k \in Keys
                          THEN [KeysWithout(E) EXCEPT ![<<w, k>>] = j]
                          ELSE KeysWithout(E)
        /\ UNCHANGED <<closing, removal, shuttingDown, stopping>>

\* IDEMPOTENCY_WINDOW passes: the lookup and the next cleanup ignore the key.
WindowCloses(w, k) ==
    /\ requestJobs[<<w, k>>] # NoJob
    /\ requestJobs' = [requestJobs EXCEPT ![<<w, k>>] = NoJob]
    /\ UNCHANGED <<job, registered, closing, removal, shuttingDown, stopping>>

Signalled(js) ==
    [j \in Jobs |-> IF j \in js /\ Running(j)
                    THEN [job[j] EXCEPT !.cancelled = TRUE] ELSE job[j]]

\* cancel_for_workspace of a running job; its wait is in CommandOutput.
Cancel(j) ==
    /\ j \in registered /\ Running(j)
    /\ job' = Signalled({j})
    /\ UNCHANGED <<registered, requestJobs, closing, removal, shuttingDown, stopping>>

(***************************************************************************)
(* The task of a job.                                                      *)
(***************************************************************************)
Becomes(j, r) ==
    /\ job' = [job EXCEPT ![j] = r]
    /\ UNCHANGED <<registered, requestJobs, closing, removal, shuttingDown, stopping>>

\* finish: the first end stands.
Finish(j, end) ==
    LET r == job[j]
    IN  Becomes(j, IF Running(j)
                   THEN [r EXCEPT !.state = end, !.task = "done", !.ends = end,
                                  !.finishedAt = Cardinality({i \in Jobs : Started(i) /\ ~Running(i)}) + 1]
                   ELSE [r EXCEPT !.task = "done"])

CancelledBeforeSpawn(j) ==
    /\ TaskAt(j, "new") /\ job[j].cancelled
    /\ Finish(j, "cancelled")

SpawnBegins(j) ==
    /\ TaskAt(j, "new") /\ ~job[j].cancelled
    /\ Becomes(j, [job[j] EXCEPT !.task = "spawning"])

SpawnFails(j) ==
    /\ TaskAt(j, "spawning")
    /\ Finish(j, "exited")

Spawned(j) ==
    /\ TaskAt(j, "spawning")
    /\ Becomes(j, [job[j] EXCEPT !.task = "selecting", !.root = TRUE, !.group = "open"])

\* disarm and terminate both kill what is left of the group.
\* Slip: only the shell is killed.
KillsShell(r) == [r EXCEPT !.root = FALSE]

AfterKill(r) == [r EXCEPT !.root = FALSE, !.group = "none"]

Selected(j, end) ==
    /\ Becomes(j, [AfterKill(job[j]) EXCEPT !.task = "joining", !.ends = end])

SelectExit(j) ==
    /\ TaskAt(j, "selecting") /\ ~job[j].root
    /\ Selected(j, "exited")

SelectCancel(j) ==
    /\ TaskAt(j, "selecting") /\ job[j].cancelled
    /\ Selected(j, "cancelled")

SelectTimeout(j) ==
    /\ TaskAt(j, "selecting")
    /\ Selected(j, "timed_out")

\* The readers see the end of a pipe once no process holds it.
\* Slip: the job does not wait for its readers.
GroupIsGone(j) == job[j].group # "open"

PipesClosed(j) == job[j].group # "open" /\ ~job[j].holder

Join(j) ==
    /\ TaskAt(j, "joining")
    /\ PipesClosed(j)
    /\ Finish(j, job[j].ends)

(***************************************************************************)
(* What the command's processes do: the shell exits, with or without       *)
(* children left in its group; a descendant leaves the group with a pipe   *)
(* and closes it later, or never.                                          *)
(***************************************************************************)
RootExits(j, children) ==
    /\ Started(j) /\ job[j].root
    /\ Becomes(j, [job[j] EXCEPT !.root = FALSE, !.group = children])

Detaches(j) ==
    /\ Started(j) /\ job[j].group = "open" /\ ~job[j].holder
    /\ Becomes(j, [job[j] EXCEPT !.holder = TRUE])

HolderEnds(j) ==
    /\ Started(j) /\ job[j].holder
    /\ Becomes(j, [job[j] EXCEPT !.holder = FALSE])

(***************************************************************************)
(* The removal of a workspace (see WorkspaceRegistry for its caller) and   *)
(* the shutdown of the host.                                               *)
(***************************************************************************)
BeginRemoval(w) ==
    /\ ~stopping /\ ~shuttingDown
    /\ w \notin closing
    /\ closing' = closing \cup {w}
    /\ removal' = [removal EXCEPT ![w] = "begun"]
    /\ UNCHANGED <<job, registered, requestJobs, shuttingDown, stopping>>

AbortRemoval(w) ==
    /\ ~stopping
    /\ removal[w] = "begun"
    /\ closing' = closing \ {w}
    /\ removal' = [removal EXCEPT ![w] = "none"]
    /\ UNCHANGED <<job, registered, requestJobs, shuttingDown, stopping>>

\* finalize_workspace_removal, first half: cancel_workspace signals.
CancelWorkspace(w) ==
    /\ ~stopping
    /\ w \in closing /\ removal[w] = "begun"
    /\ job' = Signalled(Owned(w))
    /\ removal' = [removal EXCEPT ![w] = "winding"]
    /\ UNCHANGED <<registered, requestJobs, closing, shuttingDown, stopping>>

\* Its five seconds pass with a job still running: the caller tries again.
FinalizeTimesOut(w) ==
    /\ removal[w] = "winding"
    /\ Active(w) # {}
    /\ removal' = [removal EXCEPT ![w] = "begun"]
    /\ UNCHANGED <<job, registered, requestJobs, closing, shuttingDown, stopping>>

\* Second half: purge_workspace_state once none of them runs.
PurgeJobs(w) ==
    /\ ~stopping
    /\ removal[w] = "winding"
    /\ Active(w) = {}
    /\ registered' = registered \ Owned(w)
    /\ requestJobs' = [wk \in Workspaces \X Keys |->
                          IF wk[1] = w THEN NoJob ELSE requestJobs[wk]]
    /\ closing' = closing \ {w}
    /\ removal' = [removal EXCEPT ![w] = "none"]
    /\ UNCHANGED <<job, shuttingDown, stopping>>

CancelAll ==
    /\ ~stopping
    /\ ~shuttingDown
    /\ shuttingDown' = TRUE
    /\ stopping' = TRUE
    /\ job' = Signalled(registered)
    /\ UNCHANGED <<registered, requestJobs, closing, removal>>

\* All ended, or five seconds passed.
CancelAllReturns ==
    /\ stopping
    /\ stopping' = FALSE
    /\ UNCHANGED <<job, registered, requestJobs, closing, removal, shuttingDown>>

TaskStep(j) ==
    \/ CancelledBeforeSpawn(j)
    \/ SpawnBegins(j)
    \/ SpawnFails(j)
    \/ Spawned(j)
    \/ SelectExit(j)
    \/ SelectCancel(j)
    \/ SelectTimeout(j)
    \/ Join(j)

JobsNext ==
    \/ List
    \/ \E w \in Workspaces, k \in Keys \cup {NoRequest}, c \in Commands, d \in BOOLEAN :
           Start(w, k, c, d)
    \/ \E w \in Workspaces, k \in Keys : WindowCloses(w, k)
    \/ \E j \in Jobs :
           \/ Cancel(j)
           \/ TaskStep(j)
           \/ \E children \in {"none", "quiet", "open"} : RootExits(j, children)
           \/ Detaches(j)
           \/ HolderEnds(j)
    \/ \E w \in Workspaces :
           \/ BeginRemoval(w)
           \/ AbortRemoval(w)
           \/ CancelWorkspace(w)
           \/ FinalizeTimesOut(w)
           \/ PurgeJobs(w)
    \/ CancelAll
    \/ CancelAllReturns

\* Every job has a task of its own on the runtime, and its timer fires.
JobsSpec ==
    /\ JobsInit /\ [][JobsNext]_jobsVars
    /\ \A j \in Jobs : WF_jobsVars(TaskStep(j))

(***************************************************************************)
(* Properties.                                                             *)
(***************************************************************************)

\* Every variable keeps its type.
JobsTypeOK ==
    /\ job \in [Jobs -> JobRecord \cup {Unused}]
    /\ registered \subseteq {j \in Jobs : Started(j)}
    /\ requestJobs \in [Workspaces \X Keys -> registered \cup {NoJob}]
    /\ closing = {w \in Workspaces : removal[w] # "none"}
    /\ removal \in [Workspaces -> {"none", "begun", "winding"}]
    /\ shuttingDown \in BOOLEAN /\ stopping \in BOOLEAN
    /\ stopping => shuttingDown

\* Neither retention nor the purge of a workspace drops the record of a job
\* that still runs: what runs can be listed, cancelled and shut down.
RunningIsRegistered ==
    \A j \in Jobs : Started(j) /\ Running(j) => j \in registered

\* No job slips past the signal that stops the host or a removed workspace:
\* a start either came first and was signalled, or was refused.
StoppedJobsAreSignalled ==
    \A j \in registered :
        Running(j) /\ (shuttingDown \/ removal[job[j].workspace] = "winding")
            => job[j].cancelled

\* A running job can always be found, and is stopped with what it belongs to.
NoJobEscapes == RunningIsRegistered /\ StoppedJobsAreSignalled

\* A job that is reported as ended has no process left in its group and
\* nobody who could still write its output, however exit, cancel and timeout
\* fell together.
EndedIsGone ==
    \A j \in Jobs :
        Started(j) /\ ~Running(j)
            => ~job[j].root /\ job[j].group = "none" /\ ~job[j].holder

\* While a key's window is open and the job it started is retained, the key
\* starts no second job.
KeyStartsOneJob ==
    [][\A wk \in Workspaces \X Keys :
          requestJobs[wk] \in registered' => requestJobs'[wk] \in {requestJobs[wk], NoJob}]_jobsVars

\* Every job ends, by itself, its cancel or its timeout, unless a descendant
\* that left the group keeps a pipe open for good.
JobEnds ==
    \A j \in Jobs :
        (Started(j) /\ Running(j)) ~> (~Running(j) \/ [](job[j].holder))
=============================================================================
