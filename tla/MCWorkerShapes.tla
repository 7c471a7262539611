---------------------------- MODULE MCWorkerShapes ---------------------------
(***************************************************************************)
(* Several instances of WorkerBroker in one run: a behaviour stays within  *)
(* the shape it starts with.  A shape only forbids what would be created   *)
(* or claimed beyond it, so each is an instance with its own bounds.       *)
(***************************************************************************)
EXTENDS MCWorkerBroker

CONSTANT Shapes

VARIABLE shape

\* What a shape allows of each kind; what it does not name is not bounded.
Bounds == [cores |-> Core, chats |-> Chat, workers |-> NumWorkers, tasks |-> NumTasks,
           reports |-> NumReports, batches |-> NumBatches, guards |-> NumGuards,
           plans |-> NumPlans]

\* Two workers of one Core and three tasks.
Lives == [Bounds EXCEPT !.cores = {a}, !.chats = {h1}]

\* Workers of two Cores, and the four identities of two conversations to claim
\* them from.
Bindings == [Bounds EXCEPT !.tasks = 2, !.batches = 1]

\* One worker whose reports, outcomes and messages are collected in batches.
Deliveries == [Bounds EXCEPT !.cores = {a}, !.workers = 1, !.plans = 0, !.guards = 0]

\* Two Cores share the room for one family; a cleanup is previewed.
Cleanups == [Bounds EXCEPT !.tasks = 2, !.reports = 0, !.batches = 1]

LivesAndBindings == {Lives, Bindings}
DeliveriesAndCleanups == {Deliveries, Cleanups}

WithinShape ==
    /\ families \subseteq shape.cores
    /\ \A w \in Worker : workers[w].chat \in shape.chats \cup {None}
    /\ made.worker <= shape.workers
    /\ made.task <= shape.tasks
    /\ made.report <= shape.reports
    /\ made.guard <= shape.guards
    /\ made.plan <= shape.plans
    /\ Len(batches) <= shape.batches

ShapesInit == Init /\ shape \in Shapes

ShapesNext == Next /\ UNCHANGED shape /\ WithinShape'

ShapesSpec == ShapesInit /\ [][ShapesNext]_<<vars, shape>>
=============================================================================
