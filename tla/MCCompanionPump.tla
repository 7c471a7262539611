--------------------------- MODULE MCCompanionPump ---------------------------
(***************************************************************************)
(* Small instances of CompanionPump: a worker's first launch w1 or the     *)
(* reuse of its thread w1r, in one workspace of one Core.                  *)
(***************************************************************************)
EXTENDS CompanionPump, TLC

CONSTANTS w1, w1r, b1, b2, u1

MCThreadOf == [k \in Key |-> "t1"]
MCBoundConv == [k \in Key |-> IF k = w1r THEN u1 ELSE NoConv]
MCAnchorOf == [k \in Key |-> "core1"]
MCWorkspaceOf == [k \in Key |-> "ws"]

\* Browsers are interchangeable.
Symmetry == Permutations(Client)
=============================================================================
