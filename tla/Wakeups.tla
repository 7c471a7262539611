-------------------------------- MODULE Wakeups --------------------------------
(***************************************************************************)
(* The three places of the host that enable a future or a notification,    *)
(* look at the state and then sleep.                                       *)
(***************************************************************************)
EXTENDS CommandOutput, CollectWait, WorkspaceLeases

\* Neither who polls or cancels a command (src/src/command_jobs.rs), nor a
\* Core that collects from its workers (src/src/workers/broker.rs), nor the
\* removal that drains a workspace (src/src/workspaces.rs) sleeps through the change
\* it waits for.
NoLostWakeup == PollerIsWoken /\ CollectorIsWoken /\ DrainIsWoken
=============================================================================
