------------------------------ MODULE RequestGate ------------------------------
(***************************************************************************)
(* What a workspace's runtime promises the removal of the workspace: once  *)
(* the drain is over, nobody holds a lease, and nobody gets one until the  *)
(* gate is opened again.                                                   *)
(***************************************************************************)
CONSTANT Requests
VARIABLES gate,     \* "open", "closed" or "drained"
          holders   \* the requests that hold a lease

GateInit == gate = "open" /\ holders = {}

Enter(r) == gate = "open" /\ holders' = holders \cup {r} /\ UNCHANGED gate
Leave(r) == r \in holders /\ holders' = holders \ {r} /\ UNCHANGED gate
Close    == gate = "open" /\ gate' = "closed" /\ UNCHANGED holders
Drain    == gate = "closed" /\ holders = {} /\ gate' = "drained" /\ UNCHANGED holders
Open     == gate # "open" /\ gate' = "open" /\ UNCHANGED holders

GateNext ==
    \/ \E r \in Requests : Enter(r) \/ Leave(r)
    \/ Close \/ Drain \/ Open

GateSpec == GateInit /\ [][GateNext]_<<gate, holders>>
=============================================================================
