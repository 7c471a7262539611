------------------------------ MODULE MCSettling ------------------------------
(***************************************************************************)
(* What has begun and must end: a launch whose Send was granted, or a      *)
(* background command.  A behaviour is one of the component that `part`    *)
(* names, and the other's steps are never taken: only the fairness of that *)
(* component is assumed.                                                   *)
(***************************************************************************)
EXTENDS MCCompanionPump, CommandJobs

VARIABLE part

SettlingInit == PumpInit /\ JobsInit /\ part \in {"launch", "jobs"}

\* One workspace is removed, next to one that stays.
OneStays == \E w \in Workspaces : removal[w] = "none"

SettlingNext ==
    /\ UNCHANGED part
    /\ \/ part = "launch" /\ PumpNext /\ UNCHANGED jobsVars
       \/ part = "jobs" /\ JobsNext /\ OneStays' /\ UNCHANGED allVars

\* PumpFairness and the fairness of JobsSpec, each where it is the part.
SettlingFairness ==
    /\ \A c \in Client : WF_allVars(part = "launch" /\ PollProgress(c))
    /\ \A c \in Client, i \in Id :
           WF_allVars(part = "launch" /\ JobProgress(c, i))
    /\ \A kind \in {"sendStarted", "ack"} :
           WF_allVars(part = "launch" /\ \E m \in requests : m.kind = kind /\ Handle(m))
    /\ \A i \in Id : WF_allVars(part = "launch" /\ Expire(i))
    /\ \A j \in Jobs : WF_jobsVars(part = "jobs" /\ TaskStep(j))

SettlingSpec ==
    SettlingInit /\ [][SettlingNext]_<<part, allVars, jobsVars>> /\ SettlingFairness
=============================================================================
