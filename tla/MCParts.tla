-------------------------------- MODULE MCParts --------------------------------
(***************************************************************************)
(* Components that share no state, one at a time: every behaviour is one   *)
(* of the component that `part` names, the others stay where they start.   *)
(***************************************************************************)
EXTENDS Wakeups, RequestBroker, Handoff, NpmUpdate, WorkspaceRegistry,
        BrowserRouting, MCWorkerRecovery, BrowserInstall

CONSTANTS t1, t2, t3, v1, v2

\* t1 and t2 work in one workspace, t3 in another.
MCContextOf == [c \in Chats |-> IF c = t3 THEN "y" ELSE "x"]

\* Two requests are enough for the broker's own part.
BusyAsks == {v1} \X {"inspect", "continue"}

\* What one attempt does to another, it does by taking and clearing the fence:
\* the broker has no room for the requests of the second.
Crowded == \A a \in MCAsks \ BusyAsks : caller'[a] \in {"new", "answered"}

\* A failure, a change of the settings and one of a workspace: any two of them
\* meet, and the requests under way are of one workspace.
RegistryBound ==
    /\ \/ registryFaults < MaxRegFaults
       \/ settings < MaxVersion
       \/ \A w \in Workspaces : promised[w] < MaxVersion
    /\ Cardinality(held) <= 1

\* A loss, a tool call of the worker and a turn of its page: any two of them.
RecoveryBound ==
    losses < MaxLosses \/ activity < MaxActivity \/ page.turns < MaxTurns

VARIABLE part

Parts == {"output", "leases", "asks", "handoff", "npm", "registry", "collect",
          "browser", "recovery", "install"}

PartsInit ==
    /\ OutputInit /\ LeasesInit /\ AskInit /\ HandoffInit /\ NpmInit
    /\ RegistryInit /\ CollectInit /\ RoutingInit /\ RecoveryInit /\ InstallInit
    /\ part \in Parts
    /\ part = "asks" \/ service = "browser"
    /\ part = "install" \/ final = Nothing

PartsNext ==
    /\ UNCHANGED part
    /\ \/ /\ part = "output" /\ OutputNext
          /\ UNCHANGED <<leaseVars, askVars, handoffVars, npmVars,
                         registryVars, collectVars, routingVars,
                         recoveryVars, installVars>>
       \/ /\ part = "leases" /\ LeasesNext
          /\ UNCHANGED <<outputVars, askVars, handoffVars, npmVars,
                         registryVars, collectVars, routingVars,
                         recoveryVars, installVars>>
       \/ /\ part = "asks" /\ AskNext /\ \A a \in MCAsks \ BusyAsks : caller'[a] = "new"
          /\ UNCHANGED <<outputVars, leaseVars, handoffVars, npmVars,
                         registryVars, collectVars, routingVars,
                         recoveryVars, installVars>>
       \/ /\ part = "handoff" /\ HandoffNext
          /\ UNCHANGED <<outputVars, leaseVars, askVars, npmVars,
                         registryVars, collectVars, routingVars,
                         recoveryVars, installVars>>
       \/ /\ part = "npm" /\ NpmNext
          /\ UNCHANGED <<outputVars, leaseVars, askVars, handoffVars,
                         registryVars, collectVars, routingVars,
                         recoveryVars, installVars>>
       \/ /\ part = "registry" /\ RegistryNext /\ RegistryBound'
          /\ UNCHANGED <<outputVars, leaseVars, askVars, handoffVars,
                         npmVars, collectVars, routingVars, recoveryVars,
                         installVars>>
       \/ /\ part = "collect" /\ CollectNext
          /\ UNCHANGED <<outputVars, leaseVars, askVars, handoffVars,
                         npmVars, registryVars, routingVars, recoveryVars,
                         installVars>>
       \/ /\ part = "browser" /\ RoutingNext
          /\ UNCHANGED <<outputVars, leaseVars, askVars, handoffVars,
                         npmVars, registryVars, collectVars, recoveryVars,
                         installVars>>
       \/ /\ part = "recovery" /\ running /\ RecoveryNext /\ Crowded /\ RecoveryBound'
          /\ UNCHANGED <<outputVars, leaseVars, brokerVars, handoffVars,
                         npmVars, registryVars, collectVars, routingVars,
                         installVars>>
       \/ /\ part = "install" /\ InstallNext
          /\ UNCHANGED <<outputVars, leaseVars, askVars, handoffVars,
                         npmVars, registryVars, collectVars, routingVars,
                         recoveryVars>>

partsVars == <<part, outputVars, leaseVars, askVars, handoffVars, npmVars,
              registryVars, collectVars, routingVars, recoveryVars,
              installVars>>

PartsSpec == PartsInit /\ [][PartsNext]_partsVars
=============================================================================
