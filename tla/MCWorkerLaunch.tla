---------------------------- MODULE MCWorkerLaunch ----------------------------
(* Instances of WorkerLaunch for TLC. *)
EXTENDS WorkerLaunch, TLC

CONSTANTS core, chat1, chat2, c1, c2, o1, o2

\* Operation ids are interchangeable.
Symmetry == Permutations(Op)

\* The launch of one task meets two faults; next to a second task there is one.
FewFaults == faults <= 1 \/ made.task <= 1

LaunchSpec == Init /\ [][Next /\ FewFaults']_vars
=============================================================================
