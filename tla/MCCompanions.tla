----------------------------- MODULE MCCompanions -----------------------------
(***************************************************************************)
(* Two browsers: either through a launch and a Clear Workers, or through   *)
(* their pairing.  A behaviour is one of the component that `side` names.  *)
(***************************************************************************)
EXTENDS MCCompanionPump, CompanionAuth

VARIABLE side

CompanionsInit == PumpInit /\ AuthInit /\ side \in {"pump", "pairing"}

\* After a fault, two requests at most are under way at a time.
FewRequests == faults = 0 \/ Cardinality(requests) <= 2

CompanionsNext ==
    /\ UNCHANGED side
    /\ \/ side = "pump" /\ PumpNext /\ FewRequests' /\ UNCHANGED authVars
       \/ side = "pairing" /\ AuthNext /\ UNCHANGED allVars

CompanionsSpec == CompanionsInit /\ [][CompanionsNext]_<<side, allVars, authVars>>
=============================================================================
