--------------------------- MODULE UpdateMailbox ---------------------------
(***************************************************************************)
(* What the worker broker promises each Core about updates: a progress     *)
(* report or a task outcome, once posted, stays pending until one batch    *)
(* delivers it, and no update is in two batches.  Only destroying the      *)
(* whole family loses what is pending.                                     *)
(***************************************************************************)
CONSTANT Core

VARIABLES
  pending,    \* updates each Core has yet to collect
  delivered   \* updates some batch has delivered

Init ==
  /\ pending = [c \in Core |-> {}]
  /\ delivered = {}

\* New updates arrive, for one Core or (a sweep of timeouts) for several.
Post ==
  /\ \A c \in Core : pending[c] \subseteq pending'[c]
  /\ \A c \in Core : pending'[c] \cap delivered = {}
  /\ UNCHANGED delivered

Deliver(c) ==
  \E S \in SUBSET pending[c] :
     /\ S # {}
     /\ pending' = [pending EXCEPT ![c] = @ \ S]
     /\ delivered' = delivered \cup S

Destroy(C) ==
  /\ pending' = [c \in Core |-> IF c \in C THEN {} ELSE pending[c]]
  /\ UNCHANGED delivered

Next ==
  \/ Post
  \/ \E c \in Core : Deliver(c)
  \/ \E C \in SUBSET Core : Destroy(C)

Spec == Init /\ [][Next]_<<pending, delivered>>
=============================================================================
