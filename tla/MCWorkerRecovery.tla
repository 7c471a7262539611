--------------------------- MODULE MCWorkerRecovery ---------------------------
(* Instances of WorkerRecovery for TLC: each attempt makes two requests. *)
EXTENDS WorkerRecovery

MCAsks == Recoveries \X {"inspect", "continue"}
=============================================================================
