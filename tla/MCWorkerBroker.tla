--------------------------- MODULE MCWorkerBroker ---------------------------
(* Instances of WorkerBroker for TLC. *)
EXTENDS WorkerBroker, TLC

CONSTANTS a, b, h1, h2, s1, s2, o1, o2

\* Every conversation is always seen the same way, and named like its identity.
SeenOnce == [h \in Chat |-> h]

\* Two conversations, h1 and h2, each also seen without its account: as a Core.
SeenTwice == [h \in Chat |-> IF h \in {h1, b} THEN h1 ELSE h2]

\* Two Worker conversations of one account, Cores of another.
OneAccount == [h \in Chat |-> IF h \in {h1, h2} THEN s1 ELSE None]

\* h1 and h2 are signed in to different accounts.
TwoAccounts == [h \in Chat |-> IF h = h1 THEN s1 ELSE IF h = h2 THEN s2 ELSE None]

\* Launches that only ever succeed.
OnlySuccess == {<<"WaitingClaim", TRUE>>}

\* Operation ids are interchangeable.
Symmetry == Permutations(Op)
=============================================================================
