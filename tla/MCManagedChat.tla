---------------------------- MODULE MCManagedChat ----------------------------
(***************************************************************************)
(* Small instances of ManagedChat: a worker's first launch w1 and the      *)
(* reuse of its thread w1r, and another Core's launch w2.  A behaviour     *)
(* stays within the shape it starts with, which only forbids what goes     *)
(* beyond its bounds.                                                      *)
(***************************************************************************)
EXTENDS ManagedChat

CONSTANTS w1, w1r, w2, b1, b2, u1, u2

MCThreadOf == [k \in Key |-> IF k = w2 THEN "t2" ELSE "t1"]
MCBoundConv == [k \in Key |-> IF k = w1r THEN u1 ELSE NoConv]
MCAnchorOf == [k \in Key |-> IF k = w2 THEN "core2" ELSE "core1"]
MCWorkspaceOf == [k \in Key |-> "ws"]

VARIABLE shape

\* Two browsers race over the launches of one thread.
OneThread == dedupe[w2] = NoId

\* One browser settles three launches, more than the history keeps.
OneBrowser ==
    /\ issued <= 2
    /\ \A i \in Id : /\ commands[i].target # b2
                     /\ commands[i].conv # u2

WithinShape == IF shape = "race" THEN OneThread ELSE OneBrowser

ShapesInit == Init /\ shape \in {"race", "history"}

ShapesNext == Next /\ UNCHANGED shape /\ WithinShape'

ShapesSpec == ShapesInit /\ [][ShapesNext]_<<vars, shape>>
=============================================================================
