-------------------------------- MODULE Handoff --------------------------------
(***************************************************************************)
(* The handoff checkpoints of one workspace, src/src/handoff.rs: a file a  *)
(* checkpoint, and beside it an empty file for each of resumed, superseded *)
(* and completed.  Creating, resuming and completing hold                  *)
(* HANDOFF_MUTATION_LOCK.                                                  *)
(*                                                                         *)
(* Every file is published by a rename, so a crash falls between files.    *)
(***************************************************************************)
EXTENDS Naturals, FiniteSets

CONSTANTS
    Handoffs,           \* handoff ids ever made
    MaxRetained,        \* MAX_RETAINED_CHECKPOINTS_PER_WORKSPACE
    MaxTime,            \* bound: values of the wall clock, which may step back
    MaxHandoffFaults    \* bound: crashes and failing file operations

ASSUME HandoffAssumption ==
    /\ IsFiniteSet(Handoffs)
    /\ MaxRetained \in Nat \ {0} /\ MaxTime \in Nat \ {0} /\ MaxHandoffFaults \in Nat

VARIABLES
    checkpoints,        \* created_at of each checkpoint on disk, 0 if there is none
    markers,            \* the marker files of each id
    mutation,           \* the operation that holds the lock
    current,            \* the handoff last reported as created, "none" once one is completed
    ended,              \* handoffs that were superseded or completed
    damaged,            \* a crash or a failure since the last clean creation
    handoffFaults

handoffVars ==
    <<checkpoints, markers, mutation, current, ended, damaged, handoffFaults>>

NoMutation == [at |-> "none"]

HandoffInit ==
    /\ checkpoints = [h \in Handoffs |-> 0]
    /\ markers = [h \in Handoffs |-> {}]
    /\ mutation = NoMutation
    /\ current = "none"
    /\ ended = {}
    /\ damaged = FALSE
    /\ handoffFaults = 0

Saved == {h \in Handoffs : checkpoints[h] # 0}
Ended(h) == markers[h] \cap {"completed", "superseded"} # {}
Active == {h \in Saved : ~Ended(h)}

HandoffFault ==
    /\ handoffFaults < MaxHandoffFaults
    /\ handoffFaults' = handoffFaults + 1
    /\ damaged' = TRUE

NoFault == UNCHANGED <<damaged, handoffFaults>>

Mark(h, marker) == markers' = [markers EXCEPT ![h] = @ \cup {marker}]
Ends(h) == ended' = ended \cup {h}

Mutating(at) == mutation.at = at
Goto(at) == mutation' = [mutation EXCEPT !.at = at]

(***************************************************************************)
(* create_handoff_at: publish, mark what was active as superseded, prune.  *)
(***************************************************************************)
\* Slip: a handoff that was resumed is taken for finished.
Pending == {h \in Active : markers[h] = {}}

ExistingActive == Active

BeginCreate(h) ==
    /\ Mutating("none")
    /\ checkpoints[h] = 0 /\ markers[h] = {} /\ h \notin ended
    /\ mutation' = [at |-> "publish", new |-> h, victim |-> h,
                    older |-> ExistingActive, excess |-> 0, clean |-> TRUE]
    /\ UNCHANGED <<checkpoints, markers, current, ended, damaged, handoffFaults>>

Publish ==
    /\ Mutating("publish")
    /\ \E t \in 1..MaxTime : checkpoints' = [checkpoints EXCEPT ![mutation.new] = t]
    /\ Goto("supersede")
    /\ NoFault /\ UNCHANGED <<markers, current, ended>>

PublishFails ==
    /\ Mutating("publish")
    /\ HandoffFault
    /\ mutation' = NoMutation
    /\ UNCHANGED <<checkpoints, markers, current, ended>>

\* A marker that cannot be written is a warning.
Supersede(h) ==
    /\ Mutating("supersede")
    /\ h \in mutation.older
    /\ \/ /\ Mark(h, "superseded") /\ Ends(h)
          /\ mutation' = [mutation EXCEPT !.older = @ \ {h}]
          /\ NoFault
       \/ /\ HandoffFault
          /\ mutation' = [mutation EXCEPT !.older = @ \ {h}, !.clean = FALSE]
          /\ UNCHANGED <<markers, ended>>
    /\ UNCHANGED <<checkpoints, current>>

\* Slip: active checkpoints are pruned too.
AnySaved == Saved

Prunable == {h \in Saved : Ended(h)}

\* prune_old_inactive_checkpoints counts once.
Count ==
    /\ Mutating("supersede")
    /\ mutation.older = {}
    /\ mutation' = [mutation EXCEPT !.at = "prune",
                        !.excess = IF Cardinality(Saved) > MaxRetained
                                   THEN Cardinality(Saved) - MaxRetained ELSE 0,
                        !.older = Prunable]
    /\ NoFault /\ UNCHANGED <<checkpoints, markers, current, ended>>

OldestOf(candidates) == {h \in candidates : \A g \in candidates : checkpoints[h] <= checkpoints[g]}

\* The oldest that ended goes next.
Prune(h) ==
    /\ Mutating("prune")
    /\ mutation.excess > 0
    /\ h \in OldestOf(mutation.older)
    /\ mutation' = [mutation EXCEPT !.at = "unlink", !.victim = h, !.older = @ \ {h}]
    /\ NoFault /\ UNCHANGED <<checkpoints, markers, current, ended>>

Files(h) == (IF checkpoints[h] # 0 THEN {"checkpoint"} ELSE {}) \cup markers[h]

\* Slip: the markers of a checkpoint are removed before it.
MarkersFirst(h) == IF markers[h] # {} THEN markers[h] ELSE Files(h)

\* What is removed next: the markers go after the checkpoint.
NextOut(h) == IF checkpoints[h] # 0 THEN {"checkpoint"} ELSE markers[h]

Unlink(file) ==
    /\ Mutating("unlink")
    /\ file \in NextOut(mutation.victim)
    /\ IF file = "checkpoint"
       THEN /\ checkpoints' = [checkpoints EXCEPT ![mutation.victim] = 0]
            /\ mutation' = [mutation EXCEPT !.excess = @ - 1]
            /\ UNCHANGED markers
       ELSE /\ markers' = [markers EXCEPT ![mutation.victim] = @ \ {file}]
            /\ UNCHANGED <<checkpoints, mutation>>
    /\ NoFault /\ UNCHANGED <<current, ended>>

\* What cannot be removed is a warning, and stays.
UnlinkFails ==
    /\ Mutating("unlink")
    /\ Files(mutation.victim) # {}
    /\ HandoffFault
    /\ mutation' = [mutation EXCEPT !.at = "prune", !.clean = FALSE]
    /\ UNCHANGED <<checkpoints, markers, current, ended>>

Unlinked ==
    /\ Mutating("unlink")
    /\ Files(mutation.victim) = {}
    /\ Goto("prune")
    /\ NoFault /\ UNCHANGED <<checkpoints, markers, current, ended>>

Created ==
    /\ Mutating("prune")
    /\ mutation.excess = 0 \/ mutation.older = {}
    /\ mutation' = NoMutation
    /\ current' = mutation.new
    /\ damaged' = ~mutation.clean
    /\ UNCHANGED <<checkpoints, markers, ended, handoffFaults>>

(***************************************************************************)
(* resume_handoff_at and complete_handoff_at, a marker each.               *)
(***************************************************************************)
Resume(h) ==
    /\ Mutating("none")
    /\ h \in Active
    /\ \/ Mark(h, "resumed") /\ NoFault
       \/ HandoffFault /\ UNCHANGED markers
    /\ UNCHANGED <<checkpoints, mutation, current, ended>>

Complete(h) ==
    /\ Mutating("none")
    /\ h \in Saved
    /\ \/ Mark(h, "completed") /\ Ends(h) /\ NoFault /\ current' = "none"
       \/ HandoffFault /\ UNCHANGED <<markers, ended, current>>
    /\ UNCHANGED <<checkpoints, mutation>>

HandoffCrash ==
    /\ ~Mutating("none")
    /\ HandoffFault
    /\ mutation' = NoMutation
    /\ UNCHANGED <<checkpoints, markers, current, ended>>

HandoffNext ==
    \/ \E h \in Handoffs :
           \/ BeginCreate(h) \/ Supersede(h) \/ Prune(h)
           \/ Resume(h) \/ Complete(h)
    \/ Publish \/ PublishFails \/ Count
    \/ \E file \in {"checkpoint", "resumed", "superseded", "completed"} : Unlink(file)
    \/ UnlinkFails \/ Unlinked
    \/ Created
    \/ HandoffCrash

HandoffSpec == HandoffInit /\ [][HandoffNext]_handoffVars

(***************************************************************************)
(* Properties.                                                             *)
(***************************************************************************)

\* A handoff that was superseded or completed is never offered again,
\* wherever a crash cut its removal short.
EndedStaysEnded == ended \cap Active = {}

\* From the report of a creation until a handoff is completed there is one
\* to resume, in the middle of the next creation and after a crash too; and
\* pruning never takes the one reported, even if the clock stepped back and
\* it looks older than those before it.
CurrentIsKept ==
    current # "none" => Active # {} /\ current \in Active \cup ended

\* Between operations there is at most one handoff to resume and no more
\* checkpoints than are retained, unless a crash or a failing file
\* operation fell in since the last clean creation: the next mends it.
OneIsActive ==
    Mutating("none") /\ ~damaged =>
        /\ Cardinality(Active) <= 1
        /\ Cardinality(Saved) <= MaxRetained

\* Whatever order files are published and removed in, there is one handoff to
\* resume, and it is the right one.
OneCurrentHandoff == EndedStaysEnded /\ CurrentIsKept /\ OneIsActive
=============================================================================
