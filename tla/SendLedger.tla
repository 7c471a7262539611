----------------------------- MODULE SendLedger -----------------------------
(***************************************************************************)
(* What the launch broker promises its callers, per dedupe key: a launch   *)
(* is accepted, crosses the Send boundary at most once, and is never fresh *)
(* again afterwards.  Only forgetting the key altogether (an explicit      *)
(* clear, or compaction of a settled launch) makes room for another one.   *)
(***************************************************************************)
CONSTANT Key

VARIABLE ledger

Phase == {"none", "pending", "crossed", "delivered", "failed"}

Settled(k) == ledger[k] \in {"delivered", "failed"}

Init == ledger = [k \in Key |-> "none"]

\* A launch is accepted; settled launches K may be compacted away with it.
Accept(k, K) ==
  /\ ledger[k] = "none"
  /\ \A j \in K : Settled(j)
  /\ ledger' = [j \in Key |-> IF j = k THEN "pending"
                              ELSE IF j \in K THEN "none" ELSE ledger[j]]

Cross(k) ==
  /\ ledger[k] = "pending"
  /\ ledger' = [ledger EXCEPT ![k] = "crossed"]

Deliver(k) ==
  /\ ledger[k] = "crossed"
  /\ ledger' = [ledger EXCEPT ![k] = "delivered"]

Fail(k) ==
  /\ ledger[k] \in {"pending", "crossed"}
  /\ ledger' = [ledger EXCEPT ![k] = "failed"]

\* A cancelled launch, or everything an explicit clear or purge removes.
Forget(K) == ledger' = [j \in Key |-> IF j \in K THEN "none" ELSE ledger[j]]

Next ==
  \/ \E k \in Key, K \in SUBSET Key : Accept(k, K)
  \/ \E k \in Key : Cross(k) \/ Deliver(k) \/ Fail(k)
  \/ \E K \in SUBSET Key : Forget(K)

Spec == Init /\ [][Next]_ledger
=============================================================================
