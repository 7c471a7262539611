------------------------- MODULE Companions_proofs -------------------------
(***************************************************************************)
(* The browsers and the host: the launch of a command through a companion, *)
(* and who is paired with the host at all.  Neither bounds the browsers or *)
(* the commands.                                                           *)
(***************************************************************************)
EXTENDS ManagedChat_proofs, CompanionPump, CompanionAuth

(***************************************************************************)
(* The inductive invariant of the pump, in parts.                          *)
(***************************************************************************)
Job ==
  [phase : Phase, lease : LeaseId \cup {NoLease}, reconcile : BOOLEAN,
   existing : BOOLEAN, found : BOOLEAN]

\* A job on its way to the Send boundary; the phases of a granted one; and
\* those in which a launch may still be counted as an attempt.
Approaching == {"offered", "prepared", "asking", "askingAgain"}
Beyond == {"granted", "synced", "committing", "observing"}

\* A number that was handed out and whose command was removed.
Gone(i) == i < nextSequence /\ commands[i].state = "Absent"

PumpShape ==
  /\ paired \subseteq Client /\ awaited \subseteq paired
  /\ epoch \in 0 .. MaxEpoch
  /\ clear.by \in Client \cup {NoClient}
  /\ clear.covers \subseteq Client \X Id
  /\ pump \in [Client -> {"idle", "connected", "redeeming"}]
  /\ jobs \in [Client -> [Id -> Job]]
  /\ session \in [Client -> SUBSET Id]
  /\ record \in [Client -> [Id -> NoRecord .. MaxAttempts]]
  /\ bound \in [Client -> SUBSET Id]
  /\ seen \in [Client -> 0 .. epoch]
  /\ resetting \in [Client -> 0 .. epoch]
  /\ clearing \in [Client -> {"no", "tabs", "posted"}]
  /\ tab \in [Client -> [Id -> {"none", "ready", "pending", "sent"}]]
  /\ clicks \in [Client -> [Id -> Nat]]
  /\ marker \subseteq Id
  /\ fenced \subseteq Client \X Id
  /\ faults \in 0 .. MaxFaults

\* A request carries a lease its sender was given; success is reported only
\* of a prompt that was seen.
RequestOK(m) ==
  /\ m.from \in Client
  /\ m.kind \in {"sendStarted", "ack"} =>
       m.id \in Id /\ m.lease \in 1 .. issued
  /\ m.kind = "ack" =>
       m.arg \in {"succeeded", "failed", "needs_reconcile", "paused"}
  /\ m.kind = "ack" /\ m.arg = "succeeded" => m.id \in marker
  /\ m.kind = "resetAck" => m.arg \in 0 .. epoch

RequestsOK == \A m \in requests : RequestOK(m)

\* A job holds a lease of its own, and one that passed the boundary holds the
\* lease that was granted.
JobLeases ==
  /\ \A c \in Client, i \in Id :
       /\ jobs[c][i].phase = "none" => jobs[c][i] = NoLaunch
       /\ jobs[c][i].phase # "none" => jobs[c][i].lease \in 1 .. issued
       /\ jobs[c][i].phase \in Beyond => grants[i] # {}
       /\ jobs[c][i].phase = "offered" /\ jobs[c][i].reconcile => grants[i] # {}
  /\ \A c, d \in Client, i, j \in Id :
       jobs[c][i].lease # NoLease /\ jobs[c][i].lease = jobs[d][j].lease =>
         c = d /\ i = j
  /\ \A i \in Id :
       /\ \A l \in grants[i] : l <= issued
       /\ commands[i].state = "SendStarted" => commands[i].lease \in grants[i]

\* The right to press Send, or its trace: with the job, in the tab, or used.
Sending(c, i) == InPhase(c, i, {"granted", "synced"}) /\ ~jobs[c][i].found
Live(c, i) == Sending(c, i) \/ tab[c][i] = "pending" \/ clicks[c][i] > 0

\* The right exists at most once per command, only after a grant, and no job
\* that could still be granted is left once it exists.
OneRight ==
  \A c \in Client, i \in Id :
    /\ InPhase(c, i, {"synced"}) => ~jobs[c][i].found
    /\ Sending(c, i) => tab[c][i] # "pending" /\ clicks[c][i] = 0
    /\ tab[c][i] = "pending" => clicks[c][i] = 0
    /\ clicks[c][i] <= 1
    /\ Live(c, i) => grants[i] # {} /\ \A d \in Client : Live(d, i) => d = c
    /\ InPhase(c, i, Approaching) /\ jobs[c][i].lease \in grants[i] =>
         \A d \in Client : ~Live(d, i)

\* What a revoked browser asked under, it does not hold.
RevokedOut ==
  \A m \in requests :
    m.kind = "sendStarted" /\ m.from \notin paired =>
      ~HoldsLease(m.id, m.lease, m.from)

\* No job of the browser is past the boundary; nor is a click on its way.
Quiet(c, i) == ~InPhase(c, i, {"granted", "synced"})
Silent(c, i) == Quiet(c, i) /\ tab[c][i] # "pending"

\* A browser that clears its own launches starts none meanwhile.
ClearingIsQuiet ==
  \A c \in Client : clearing[c] # "no" =>
    /\ pump[c] = "idle"
    /\ \A i \in Id : InPhase(c, i, {"none", "abandoned"})
    /\ clearing[c] = "posted" => \A i \in Id : tab[c][i] # "pending"

\* What a clear covers is gone, and silent in every browser that confirmed it:
\* applied its epoch, acknowledged it or is not waited for any more.
ClearIsSound ==
  clear # NoClear =>
    /\ clear.by \in Client /\ epoch > 0
    /\ \A p \in clear.covers :
         /\ Gone(p[2])
         /\ p[1] # clear.by =>
              /\ resetting[p[1]] = epoch => Quiet(p[1], p[2])
              /\ seen[p[1]] = epoch => Silent(p[1], p[2])
              /\ p[1] \notin awaited => Silent(p[1], p[2])
              /\ \A m \in requests :
                   m.kind = "resetAck" /\ m.from = p[1] /\ m.arg = epoch =>
                     Silent(p[1], p[2])

FencedIsSilent == \A p \in fenced : Gone(p[2]) /\ Silent(p[1], p[2])

\* Attempts are counted up to the limit, and only of what was granted.
AttemptsOK ==
  \A c \in Client, i \in Id :
    /\ InPhase(c, i, Approaching \cup Beyond) => record[c][i] < MaxAttempts
    /\ i \in session[c] => record[c][i] < MaxAttempts
    /\ record[c][i] > 0 => grants[i] # {}

PumpInv ==
  /\ IInv /\ PumpShape /\ RequestsOK /\ JobLeases /\ OneRight /\ RevokedOut
  /\ ClearingIsQuiet /\ ClearIsSound /\ FencedIsSilent /\ AttemptsOK
  /\ SuccessWasSeen

(***************************************************************************)
(* What a step of the command broker may do to a command.                  *)
(***************************************************************************)

\* No lease is new, and a command that is told to press Send was before.
Fades(c, d) ==
  /\ d.lease # NoLease => d.lease = c.lease /\ d.holder = c.holder
  /\ d.state = "SendStarted" => c.state = "SendStarted" /\ d.lease = c.lease

\* The same, but for a redeem and a grant; success only of what is in proven.
CommandGoes(i, proven) ==
  /\ commands'[i].lease # NoLease =>
       \/ commands'[i].lease = commands[i].lease /\ commands'[i].holder = commands[i].holder
       \/ commands'[i].lease = issued + 1 /\ issued' = issued + 1
  /\ commands'[i].state = "SendStarted" =>
       \/ commands[i].state = "SendStarted" /\ commands'[i].lease = commands[i].lease
       \/ commands'[i].lease \in grants'[i]
  /\ commands'[i].state = "Succeeded" => commands[i].state = "Succeeded" \/ i \in proven
  /\ Gone(i) => commands'[i].state = "Absent"

BrokerGoes(proven) ==
  /\ issued \in Nat /\ (issued' = issued \/ issued' = issued + 1)
  /\ nextSequence \in Nat /\ nextSequence' \in Nat /\ nextSequence <= nextSequence'
  /\ \A i \in Id : CommandGoes(i, proven)

\* One command changes and fades.
LEMMA OneFades ==
  ASSUME IInv, NEW i \in Id, NEW d, NEW proven, Fades(commands[i], d),
         commands[i].state # "Absent",
         d.state = "Succeeded" => i \in proven \/ commands[i].state = "Succeeded",
         commands' = [commands EXCEPT ![i] = d],
         UNCHANGED <<nextSequence, issued, grants>>
  PROVE  BrokerGoes(proven)
<1>1. ASSUME NEW j \in Id PROVE CommandGoes(j, proven)
  <2>1. CASE j = i
    <3>1. commands'[j] = d
      BY <2>1 DEF IInv, TypeOK
    <3> QED BY <2>1, <3>1 DEF Fades, CommandGoes, Gone
  <2>2. CASE j # i
    <3>1. commands'[j] = commands[j]
      BY <2>2 DEF IInv, TypeOK
    <3> QED BY <3>1 DEF CommandGoes, Gone
  <2> QED BY <2>1, <2>2
<1>2. issued \in Nat /\ nextSequence \in Nat
  BY ConstantsOK DEF IInv, TypeOK
<1> QED
  BY <1>1, <1>2 DEF BrokerGoes

\* The store does not change.
LEMMA NothingFades ==
  ASSUME IInv, UNCHANGED vars, NEW proven
  PROVE  BrokerGoes(proven)
<1>1. issued \in Nat /\ nextSequence \in Nat
  BY ConstantsOK DEF IInv, TypeOK
<1> QED
  BY <1>1 DEF vars, BrokerGoes, CommandGoes, Gone

LEMMA UnleasedLease ==
  ASSUME NEW c \in Command, NEW u, u = Unleased(c)
  PROVE  u \in Command /\ u.lease = NoLease /\ u.state = c.state
BY UnleasedFields, UpdateTypes

LEMMA RemovalFades ==
  ASSUME IInv, NEW S, NEW proven, RemoveCommands(S)
  PROVE  BrokerGoes(proven)
<1>1. NoCommand.state = "Absent" /\ NoCommand.lease = NoLease
  BY DEF NoCommand
<1>2. issued \in Nat /\ nextSequence \in Nat
  BY ConstantsOK DEF IInv, TypeOK
<1> QED
  BY <1>1, <1>2 DEF RemoveCommands, Without, BrokerGoes, CommandGoes, Gone

LEMMA FenceFades ==
  ASSUME IInv, NEW k \in Key, NEW proven, FenceUnclaimedAfterSend(k)
  PROVE  BrokerGoes(proven)
<1>1. dedupe[k] # NoId
  BY DEF FenceUnclaimedAfterSend
<1>2. PICK i \in Id : i = dedupe[k]
  BY <1>1, Indexed
<1>3. PICK c, r : c = commands[i] /\ r = Unrouted(c)
  OBVIOUS
<1>4. c \in Command /\ c.state # "Absent"
  BY <1>2, <1>3 DEF IInv, TypeOK, FenceUnclaimedAfterSend, AmbiguousPostSend
<1>5. r \in Command
  BY <1>3, <1>4, UpdateTypes
<1>6. PICK u, d : u = Unleased(r) /\ d = [u EXCEPT !.state = "Failed", !.history = TRUE]
  OBVIOUS
<1>7. d.lease = NoLease /\ d.state = "Failed"
  BY <1>5, <1>6, UnleasedLease DEF Command
<1>8. commands' = [commands EXCEPT ![i] = d] /\ UNCHANGED <<nextSequence, issued, grants>>
  BY <1>2, <1>3, <1>6 DEF FenceUnclaimedAfterSend, Become
<1> QED
  BY <1>3, <1>4, <1>7, <1>8, OneFades DEF Fades

LEMMA ConfirmFades ==
  ASSUME IInv, NEW k \in Key, NEW conv \in Conv, NEW proven, dedupe[k] \in proven,
         ConfirmWorkerStarted(k, conv)
  PROVE  BrokerGoes(proven)
<1>1. dedupe[k] # NoId
  BY DEF ConfirmWorkerStarted
<1>2. PICK i \in Id : i = dedupe[k]
  BY <1>1, Indexed
<1>3. PICK c : c = commands[i]
  OBVIOUS
<1>4. c \in Command /\ c.state # "Absent"
  BY <1>2, <1>3 DEF IInv, TypeOK, ConfirmWorkerStarted, AmbiguousPostSend
<1>6. PICK u, d : /\ u = Unleased(c)
                  /\ d = [u EXCEPT !.state = "Succeeded", !.history = TRUE, !.conv = conv]
  OBVIOUS
<1>7. d.lease = NoLease /\ d.state = "Succeeded"
  BY <1>4, <1>6, UnleasedLease DEF Command
<1>8. commands' = [commands EXCEPT ![i] = d] /\ UNCHANGED <<nextSequence, issued, grants>>
  BY <1>2, <1>3, <1>6 DEF ConfirmWorkerStarted, Become
<1> QED
  BY <1>2, <1>3, <1>4, <1>7, <1>8, OneFades DEF Fades

LEMMA ExpiryFades ==
  ASSUME IInv, NEW i \in Id, NEW proven, LeaseExpires(i) \/ ActivateDispatch(i)
  PROVE  BrokerGoes(proven)
<1>0. PICK c : c = commands[i]
  OBVIOUS
<1>1. c \in Command /\ CommandOK(i)
  BY <1>0 DEF IInv, TypeOK
<1>2. NoCommand.lease = NoLease
  BY DEF NoCommand
<1>3. c.state # "Absent"
  BY <1>0, <1>1, <1>2 DEF LeaseExpires, ActivateDispatch, CommandOK
<1>4. CASE LeaseExpires(i)
  <2>1. PICK d : d = [c EXCEPT !.expired = TRUE]
    OBVIOUS
  <2>2. d.lease = c.lease /\ d.holder = c.holder /\ d.state = c.state
    BY <1>1, <2>1 DEF Command
  <2>3. commands' = [commands EXCEPT ![i] = d] /\ UNCHANGED <<nextSequence, issued, grants>>
    BY <1>0, <1>4, <2>1 DEF LeaseExpires, Become
  <2> QED BY <1>0, <1>3, <2>2, <2>3, OneFades DEF Fades
<1>5. CASE ActivateDispatch(i)
  <2>1. PICK d : d = [c EXCEPT !.ready = TRUE]
    OBVIOUS
  <2>2. d.lease = c.lease /\ d.holder = c.holder /\ d.state = c.state
    BY <1>1, <2>1 DEF Command
  <2>3. commands' = [commands EXCEPT ![i] = d] /\ UNCHANGED <<nextSequence, issued, grants>>
    BY <1>0, <1>5, <2>1 DEF ActivateDispatch, Become
  <2> QED BY <1>0, <1>3, <2>2, <2>3, OneFades DEF Fades
<1> QED
  BY <1>4, <1>5

LEMMA AckFades ==
  ASSUME IInv, NEW i \in Id, NEW l, NEW client, NEW st, NEW hist \in BOOLEAN, NEW conv,
         NEW proven, st \notin {"SendStarted"}, st = "Succeeded" => i \in proven,
         Acknowledge(i, l, client, st, hist, conv)
  PROVE  BrokerGoes(proven)
<1>0. PICK c : c = commands[i]
  OBVIOUS
<1>1. c \in Command /\ c.state # "Absent"
  BY <1>0 DEF IInv, TypeOK, Acknowledge
<1>2. PICK u, d : /\ u = Unleased(c)
                  /\ d = [u EXCEPT !.state = st, !.history = hist, !.conv = conv]
  OBVIOUS
<1>3. d.lease = NoLease /\ d.state = st
  BY <1>1, <1>2, UnleasedLease DEF Command
<1>4. commands' = [commands EXCEPT ![i] = d] /\ UNCHANGED <<nextSequence, issued, grants>>
  BY <1>0, <1>2 DEF Acknowledge, Become
<1> QED
  BY <1>0, <1>1, <1>3, <1>4, OneFades DEF Fades

\* A grant is for the lease that the command has.
LEMMA MarkGoes ==
  ASSUME IInv, NEW i \in Id, NEW l, NEW client, NEW proven, MarkSendStarted(i, l, client)
  PROVE  /\ BrokerGoes(proven)
         /\ issued' = issued /\ l \in 1 .. issued
         /\ grants[i] = {} /\ grants' \in [Id -> SUBSET LeaseId] /\ grants'[i] = {l}
         /\ \A j \in Id \ {i} : grants'[j] = grants[j]
<1>0. PICK c : c = commands[i]
  OBVIOUS
<1>1. c \in Command /\ CommandOK(i) /\ c.state = "Leased" /\ ~c.history /\ c.lease = l
  BY <1>0 DEF IInv, TypeOK, MarkSendStarted, HoldsLease
<1>2. issued \in Nat /\ nextSequence \in Nat
  BY ConstantsOK DEF IInv, TypeOK
<1>3. /\ l \in LeaseId /\ l \in 1 .. issued /\ grants[i] = {}
  <2>1. l # NoLease /\ l <= issued /\ grants[i] = {}
    BY <1>0, <1>1 DEF CommandOK, StateOK
  <2>2. l \in LeaseId \cup {NoLease}
    BY <1>1 DEF Command
  <2>3. l \in Nat /\ l >= 1
    BY <2>1, <2>2 DEF LeaseId, NoLease
  <2> QED BY <1>2, <2>1, <2>2, <2>3
<1>4. PICK d : d = [c EXCEPT !.state = "SendStarted", !.history = TRUE]
  OBVIOUS
<1>5. d.lease = c.lease /\ d.holder = c.holder /\ d.state = "SendStarted"
  BY <1>1, <1>4 DEF Command
<1>6. /\ commands' = [commands EXCEPT ![i] = d] /\ grants' = [grants EXCEPT ![i] = @ \cup {l}]
      /\ UNCHANGED <<dedupe, nextSequence, issued>>
  BY <1>0, <1>4 DEF MarkSendStarted
<1>7. /\ grants' \in [Id -> SUBSET LeaseId] /\ grants'[i] = {l}
      /\ \A j \in Id \ {i} : grants'[j] = grants[j]
  BY <1>3, <1>6 DEF IInv, TypeOK
<1>8. ASSUME NEW j \in Id PROVE CommandGoes(j, proven)
  <2>1. CASE j = i
    <3>1. commands'[j] = d
      BY <1>6, <2>1 DEF IInv, TypeOK
    <3> QED BY <1>0, <1>1, <1>5, <1>7, <2>1, <3>1 DEF CommandGoes, Gone
  <2>2. CASE j # i
    <3>1. commands'[j] = commands[j]
      BY <1>6, <2>2 DEF IInv, TypeOK
    <3> QED BY <3>1 DEF CommandGoes, Gone
  <2> QED BY <2>1, <2>2
<1> QED
  BY <1>2, <1>3, <1>6, <1>7, <1>8 DEF BrokerGoes

LEMMA EnqueueFades ==
  ASSUME IInv, NEW k \in Key, NEW r, NEW proven, EnqueueHeld(k, r)
  PROVE  BrokerGoes(proven)
<1>1. nextSequence \in Id /\ nextSequence \in Nat /\ issued \in Nat
  BY ConstantsOK DEF EnqueueHeld, HasRoom, IInv, TypeOK, Id
<1>2. PICK kept : kept = Without(commands, CompactedAway(commands))
  OBVIOUS
<1>3. PICK t, q : /\ q = QueuedLaunch(k, t)
                  /\ commands' = [kept EXCEPT ![nextSequence] = q]
  BY <1>2 DEF EnqueueHeld
<1>4. q.lease = NoLease /\ q.state = "Queued"
  BY <1>3 DEF QueuedLaunch, NoCommand
<1>5. NoCommand.state = "Absent" /\ NoCommand.lease = NoLease
  BY DEF NoCommand
<1>6. \A i \in Id : kept[i] = commands[i] \/ kept[i] = NoCommand
  BY <1>2 DEF Without
<1>7. \A i \in Id : commands'[i] = IF i = nextSequence THEN q ELSE kept[i]
  BY <1>1, <1>2, <1>3 DEF Without
<1>8. issued' = issued /\ nextSequence' = nextSequence + 1
  BY DEF EnqueueHeld
<1>9. ASSUME NEW i \in Id PROVE CommandGoes(i, proven)
  <2>1. Gone(i) => i # nextSequence
    BY <1>1 DEF Gone
  <2>2. commands'[i] = q \/ commands'[i] = commands[i] \/ commands'[i] = NoCommand
    BY <1>6, <1>7
  <2>3. Gone(i) => commands'[i] = commands[i] \/ commands'[i] = NoCommand
    BY <1>6, <1>7, <2>1
  <2> QED BY <1>4, <1>5, <2>2, <2>3 DEF CommandGoes, Gone
<1> QED
  BY <1>1, <1>8, <1>9 DEF BrokerGoes

LEMMA RevokeFades ==
  ASSUME IInv, NEW client \in Client, NEW proven, SettleRevokedClient(client)
  PROVE  /\ BrokerGoes(proven)
         /\ \A i \in Id : commands'[i].lease # NoLease => commands'[i].holder # client
<1>0. issued \in Nat /\ nextSequence \in Nat /\ UNCHANGED <<nextSequence, issued, grants>>
  BY ConstantsOK DEF IInv, TypeOK, SettleRevokedClient
<1>1. ASSUME NEW i \in Id
      PROVE  CommandGoes(i, proven) /\ (commands'[i].lease # NoLease => commands'[i].holder # client)
  <2>0. PICK c, d : c = commands[i] /\ d = commands'[i]
    OBVIOUS
  <2>1. c \in Command /\ CommandOK(i) /\ c.target = commands[i].target
    BY <2>0 DEF IInv, TypeOK
  <2>2. CASE c.target # client
    <3>1. d = c
      BY <2>0, <2>2 DEF SettleRevokedClient
    <3>2. c.lease # NoLease => c.holder = c.target
      BY <2>0, <2>1 DEF CommandOK, StateOK, NoCommand
    <3> QED BY <2>0, <2>2, <3>1, <3>2 DEF CommandGoes, Gone
  <2>3. CASE c.target = client
    <3>1. d = AfterRevoke(c)
      BY <2>0, <2>3 DEF SettleRevokedClient
    <3>2. c.state # "Absent"
      BY <2>0, <2>1, <2>3, ConstantsOK DEF CommandOK, NoCommand
    <3>3. d.lease = NoLease /\ d.state # "SendStarted"
      BY <2>0, <2>1, <3>1, <3>2, AfterRevokeFields
         DEF AmbiguousPostSend, CommandOK, StateOK
    <3>4. d.state = "Succeeded" => c.state = "Succeeded"
      BY <2>1, <3>1, AfterRevokeFields
    <3> QED BY <2>0, <3>2, <3>3, <3>4 DEF CommandGoes, Gone
  <2> QED BY <2>2, <2>3
<1> QED
  BY <1>0, <1>1 DEF BrokerGoes

\* A redeem gives one command at most a lease, the next one.
LEMMA RedeemGoes ==
  ASSUME IInv, NEW client \in Client, NEW e, NEW proven, Redeem(client, e)
  PROVE  /\ BrokerGoes(proven) /\ grants' = grants
         /\ \A i \in Id : commands'[i].lease = issued + 1 =>
              /\ issued' = issued + 1 /\ commands'[i].state = "Leased"
<1>0. PICK settled : settled = [i \in Id |-> AfterExpiry(commands[i])]
  OBVIOUS
<1>1. /\ issued \in Nat /\ nextSequence \in Nat
      /\ UNCHANGED <<nextSequence, grants>>
  <2>1. issued \in Nat /\ nextSequence \in Nat
    BY ConstantsOK DEF IInv, TypeOK
  <2> QED BY <2>1 DEF Redeem
<1>2. ASSUME NEW i \in Id
      PROVE  /\ settled[i] \in Command
             /\ settled[i].lease <= issued
             /\ Fades(commands[i], settled[i])
             /\ settled[i].state = "Succeeded" => commands[i].state = "Succeeded"
             /\ commands[i].state = "Absent" => settled[i].state = "Absent"
             /\ settled[i].state = "Absent" => commands[i].state = "Absent"
  <2>1. PICK c, d : c = commands[i] /\ d = AfterExpiry(c)
    OBVIOUS
  <2>2. c \in Command /\ settled[i] = d
    BY <1>0, <2>1 DEF IInv, TypeOK
  <2>3. Fades(c, d) /\ (d.state = "Succeeded" => c.state = "Succeeded")
    BY <2>1, <2>2, AfterExpiryFields DEF Fades
  <2>4. /\ d \in Command /\ d.lease \in {NoLease, c.lease}
        /\ c.state = "Absent" => d = c
        /\ c.state # "Absent" => d.state # "Absent"
    BY <2>1, AfterExpiryOK
  <2>5. c.lease <= issued
    BY <1>1, <2>1 DEF IInv, CommandOK, StateOK, NoCommand, NoLease
  <2>6. NoLease <= issued
    BY <1>1 DEF NoLease
  <2> QED BY <2>1, <2>2, <2>3, <2>4, <2>5, <2>6
<1>3. CASE commands' = settled /\ issued' = issued
  <2>1. ASSUME NEW i \in Id PROVE CommandGoes(i, proven) /\ commands'[i].lease # issued + 1
    <3>1. settled[i].lease # issued + 1
      <4>1. settled[i].lease \in Nat
        BY <1>2 DEF Command, LeaseId, NoLease
      <4> QED BY <1>1, <1>2, <4>1
    <3> QED BY <1>2, <1>3, <3>1 DEF Fades, CommandGoes, Gone
  <2> QED
    BY <1>1, <1>3, <2>1 DEF BrokerGoes
<1>4. ASSUME NEW i \in Id, i \in Offer(settled, client, e), issued' = issued + 1,
             commands' = [settled EXCEPT ![i] =
               [settled[i] EXCEPT !.state = "Leased", !.lease = issued + 1,
                  !.holder = client, !.target = client]]
      PROVE  /\ BrokerGoes(proven)
             /\ \A j \in Id : commands'[j].lease = issued + 1 => commands'[j].state = "Leased"
  <2>1. PICK d : d = [settled[i] EXCEPT !.state = "Leased", !.lease = issued + 1,
                        !.holder = client, !.target = client]
    OBVIOUS
  <2>2. d.state = "Leased" /\ d.lease = issued + 1
    BY <1>2, <2>1 DEF Command
  <2>3. settled[i].state # "Absent"
    BY <1>4 DEF Offer, Offerable, InState
  <2>4. \A j \in Id : commands'[j] = IF j = i THEN d ELSE settled[j]
    BY <1>0, <1>4, <2>1
  <2>5. ASSUME NEW j \in Id
        PROVE  CommandGoes(j, proven) /\ (commands'[j].lease = issued + 1 => commands'[j].state = "Leased")
    <3>1. CASE j = i
      BY <1>2, <1>4, <2>2, <2>3, <2>4, <3>1 DEF CommandGoes, Gone
    <3>2. CASE j # i
      <4>1. settled[j].lease # issued + 1
        <5>1. settled[j].lease \in Nat
          BY <1>2 DEF Command, LeaseId, NoLease
        <5> QED BY <1>1, <1>2, <5>1
      <4> QED BY <1>2, <2>4, <3>2, <4>1 DEF Fades, CommandGoes, Gone
    <3> QED BY <3>1, <3>2
  <2> QED
    BY <1>1, <1>4, <2>5 DEF BrokerGoes
<1>5. Offer(settled, client, e) \subseteq Id
  BY DEF Offer, Offerable, InState
<1> QED
  BY <1>0, <1>1, <1>3, <1>4, <1>5 DEF Redeem

(***************************************************************************)
(* How a job moves when it is neither offered nor granted.                 *)
(***************************************************************************)
CalmJob(a, b) ==
  \/ b = NoLaunch
  \/ /\ b \in Job /\ a.phase # "none" /\ b.phase # "none"
     /\ b.lease = a.lease
     /\ b.phase = "offered" => b = a
     /\ b.phase \in Approaching => a.phase \in Approaching
     /\ b.phase \in Beyond => a.phase \in Beyond
     /\ b.phase \in {"granted", "synced"} =>
          /\ a.phase \in {"granted", "synced"} /\ b.found = a.found
          /\ b.phase = "synced" => b = a \/ ~b.found
     /\ b.phase # "abandoned" => a.phase # "abandoned"

CalmJobs ==
  /\ jobs' \in [Client -> [Id -> Job]]
  /\ \A c \in Client, i \in Id : CalmJob(jobs[c][i], jobs'[c][i])

\* Steps of a job that are calm: from one phase to another.
CalmMoves ==
  {"offered"} \X {"acking"} \cup {"prepared"} \X {"asking"} \cup
  {"asking"} \X {"askingAgain"} \cup {"synced"} \X {"committing"} \cup
  {"committing"} \X {"observing", "acking"} \cup
  {"granted", "observing"} \X {"acking"}

LEMMA NoLaunchIsJob == NoLaunch \in Job
BY DEF NoLaunch, Job, Phase, NoLease

LEMMA SameIsCalm ==
  ASSUME PumpInv, NEW c \in Client, NEW i \in Id
  PROVE  CalmJob(jobs[c][i], jobs[c][i])
<1>1. jobs[c][i] \in Job /\ (jobs[c][i].phase = "none" => jobs[c][i] = NoLaunch)
  BY DEF PumpInv, PumpShape, JobLeases
<1> QED
  BY <1>1 DEF CalmJob

\* No job moves.
LEMMA StillCalm ==
  ASSUME PumpInv, UNCHANGED jobs
  PROVE  CalmJobs
BY SameIsCalm DEF CalmJobs, PumpInv, PumpShape

\* One job moves.
LEMMA OneCalm ==
  ASSUME PumpInv, NEW c \in Client, NEW i \in Id, NEW b \in Job,
         CalmJob(jobs[c][i], b), jobs' = [jobs EXCEPT ![c][i] = b]
  PROVE  /\ CalmJobs /\ jobs'[c][i] = b
         /\ \A d \in Client, j \in Id : d # c \/ j # i => jobs'[d][j] = jobs[d][j]
<1>1. jobs \in [Client -> [Id -> Job]]
  BY DEF PumpInv, PumpShape
<1>2. /\ jobs' \in [Client -> [Id -> Job]] /\ jobs'[c][i] = b
      /\ \A d \in Client, j \in Id : d # c \/ j # i => jobs'[d][j] = jobs[d][j]
  BY <1>1
<1>3. ASSUME NEW d \in Client, NEW j \in Id PROVE CalmJob(jobs[d][j], jobs'[d][j])
  <2>1. CASE d = c /\ j = i
    BY <1>2, <2>1
  <2>2. CASE d # c \/ j # i
    BY <1>2, <2>2, SameIsCalm
  <2> QED BY <2>1, <2>2
<1> QED
  BY <1>2, <1>3 DEF CalmJobs

LEMMA JobToFields ==
  ASSUME PumpInv, NEW c \in Client, NEW i \in Id, NEW phase \in Phase, JobTo(c, i, phase)
  PROVE  \E a, b \in Job :
           /\ a = jobs[c][i] /\ jobs' = [jobs EXCEPT ![c][i] = b]
           /\ b = [phase |-> phase, lease |-> a.lease, reconcile |-> a.reconcile,
                   existing |-> a.existing, found |-> a.found]
<1>1. PICK a, b : a = jobs[c][i] /\ b = [a EXCEPT !.phase = phase]
  OBVIOUS
<1>2. a \in Job
  BY <1>1 DEF PumpInv, PumpShape
<1>3. b = [phase |-> phase, lease |-> a.lease, reconcile |-> a.reconcile,
           existing |-> a.existing, found |-> a.found]
  BY <1>1, <1>2 DEF Job
<1>4. b \in Job
  BY <1>2, <1>3 DEF Job
<1>5. jobs' = [jobs EXCEPT ![c][i] = b]
  BY <1>1 DEF JobTo
<1> QED
  BY <1>1, <1>2, <1>3, <1>4, <1>5

LEMMA MoveIsCalm ==
  ASSUME PumpInv, NEW c \in Client, NEW i \in Id, NEW phase,
         <<jobs[c][i].phase, phase>> \in CalmMoves
           \/ (jobs[c][i].phase = "granted" /\ phase = "synced" /\ ~jobs[c][i].found),
         JobTo(c, i, phase)
  PROVE  /\ CalmJobs /\ InPhase(c, i, {phase})' /\ jobs'[c][i].lease = jobs[c][i].lease
         /\ \A d \in Client, j \in Id : d # c \/ j # i => jobs'[d][j] = jobs[d][j]
<1>1. phase \in Phase
  BY DEF CalmMoves, Phase
<1>2. PICK a, b \in Job :
        /\ a = jobs[c][i] /\ jobs' = [jobs EXCEPT ![c][i] = b]
        /\ b = [phase |-> phase, lease |-> a.lease, reconcile |-> a.reconcile,
                existing |-> a.existing, found |-> a.found]
  BY <1>1, JobToFields
<1>3. b.phase = phase /\ b.lease = a.lease /\ b.found = a.found
  BY <1>2
<1>4. \/ <<a.phase, b.phase>> \in CalmMoves
      \/ (a.phase = "granted" /\ b.phase = "synced" /\ ~b.found)
  BY <1>2, <1>3
<1>5. CalmJob(a, b)
  BY <1>3, <1>4 DEF CalmJob, CalmMoves, Approaching, Beyond
<1>6. CalmJob(jobs[c][i], b)
  BY <1>2, <1>5
<1>7. /\ CalmJobs /\ jobs'[c][i] = b
      /\ \A d \in Client, j \in Id : d # c \/ j # i => jobs'[d][j] = jobs[d][j]
  <2>1. jobs' = [jobs EXCEPT ![c][i] = b]
    BY <1>2
  <2> QED BY <1>6, <2>1, OneCalm
<1>8. InPhase(c, i, {phase})'
  BY <1>3, <1>7 DEF InPhase
<1> QED
  BY <1>2, <1>3, <1>7, <1>8

LEMMA OverIsCalm ==
  ASSUME PumpInv, NEW c \in Client, NEW i \in Id, JobOver(c, i)
  PROVE  /\ CalmJobs /\ jobs'[c][i] = NoLaunch
         /\ \A d \in Client, j \in Id : d # c \/ j # i => jobs'[d][j] = jobs[d][j]
<1>1. CalmJob(jobs[c][i], NoLaunch)
  BY DEF CalmJob
<1> QED
  BY <1>1, NoLaunchIsJob, OneCalm DEF JobOver

LEMMA IdleIsCalm ==
  ASSUME PumpInv, NEW c \in Client, jobs' = [jobs EXCEPT ![c] = Idle]
  PROVE  CalmJobs /\ \A i \in Id : jobs'[c][i] = NoLaunch
<1>1. Idle \in [Id -> Job] /\ \A i \in Id : Idle[i] = NoLaunch
  BY NoLaunchIsJob DEF Idle
<1>2. /\ jobs' \in [Client -> [Id -> Job]] /\ jobs'[c] = Idle
      /\ \A d \in Client : d # c => jobs'[d] = jobs[d]
  BY <1>1 DEF PumpInv, PumpShape
<1>3. ASSUME NEW d \in Client, NEW j \in Id PROVE CalmJob(jobs[d][j], jobs'[d][j])
  <2>1. CASE d = c
    BY <1>1, <1>2, <2>1 DEF CalmJob
  <2>2. CASE d # c
    BY <1>2, <2>2, SameIsCalm
  <2> QED BY <2>1, <2>2
<1> QED
  BY <1>1, <1>2, <1>3 DEF CalmJobs

\* A dropped job leaves at most a commit that the tab has not answered.
LEMMA BumpIsCalm ==
  ASSUME PumpInv, NEW c \in Client, Bump(c)
  PROVE  /\ CalmJobs
         /\ \A i \in Id : jobs'[c][i].phase \in {"none", "abandoned"}
         /\ session' \in [Client -> SUBSET Id] /\ session'[c] = {}
         /\ \A d \in Client : session'[d] \subseteq session[d]
         /\ pump' \in [Client -> {"idle", "connected", "redeeming"}] /\ pump'[c] = "idle"
         /\ \A d \in Client : d # c => pump'[d] = pump[d]
<1>1. PICK after : after = AfterBump(c)
  OBVIOUS
<1>2. ASSUME NEW i \in Id
      PROVE  /\ after[i] \in Job /\ after[i].phase \in {"none", "abandoned"}
             /\ CalmJob(jobs[c][i], after[i])
  <2>1. PICK a : a = jobs[c][i]
    OBVIOUS
  <2>2. a \in Job
    BY <2>1 DEF PumpInv, PumpShape
  <2>3. CASE a.phase \in {"committing", "abandoned"}
    <3>1. PICK b : b = [a EXCEPT !.phase = "abandoned"]
      OBVIOUS
    <3>2. b = [phase |-> "abandoned", lease |-> a.lease, reconcile |-> a.reconcile,
               existing |-> a.existing, found |-> a.found]
      BY <2>2, <3>1 DEF Job
    <3>3. b \in Job
      BY <2>2, <3>2 DEF Job, Phase
    <3>4. after[i] = b
      BY <1>1, <2>1, <2>3, <3>1 DEF AfterBump, InPhase
    <3>5. b.phase = "abandoned" /\ b.lease = a.lease
      BY <3>2
    <3>6. CalmJob(a, b)
      BY <2>3, <3>3, <3>5 DEF CalmJob, Approaching, Beyond
    <3> QED BY <2>1, <3>3, <3>4, <3>5, <3>6
  <2>4. CASE a.phase \notin {"committing", "abandoned"}
    <3>1. after[i] = NoLaunch
      BY <1>1, <2>1, <2>4 DEF AfterBump, InPhase
    <3>2. NoLaunch.phase = "none"
      BY DEF NoLaunch
    <3> QED BY <3>1, <3>2, NoLaunchIsJob DEF CalmJob
  <2> QED BY <2>3, <2>4
<1>3. after \in [Id -> Job]
  BY <1>1, <1>2 DEF AfterBump
<1>4. /\ jobs' \in [Client -> [Id -> Job]] /\ jobs'[c] = after
      /\ \A d \in Client : d # c => jobs'[d] = jobs[d]
  BY <1>1, <1>3 DEF Bump, PumpInv, PumpShape
<1>5. ASSUME NEW d \in Client, NEW j \in Id PROVE CalmJob(jobs[d][j], jobs'[d][j])
  <2>1. CASE d = c
    BY <1>2, <1>4, <2>1
  <2>2. CASE d # c
    BY <1>4, <2>2, SameIsCalm
  <2> QED BY <2>1, <2>2
<1>6. /\ session' \in [Client -> SUBSET Id] /\ session'[c] = {}
      /\ \A d \in Client : session'[d] \subseteq session[d]
  BY DEF Bump, PumpInv, PumpShape
<1>7. /\ pump' \in [Client -> {"idle", "connected", "redeeming"}] /\ pump'[c] = "idle"
      /\ \A d \in Client : d # c => pump'[d] = pump[d]
  BY DEF Bump, PumpInv, PumpShape
<1> QED
  BY <1>2, <1>4, <1>5, <1>6, <1>7 DEF CalmJobs

(***************************************************************************)
(* What keeps each part of the invariant.                                  *)
(***************************************************************************)

\* A command is granted once.
GrantsGo ==
  \A i \in Id : /\ grants'[i] = grants[i] \/ grants[i] = {}
                /\ \A l \in grants'[i] : l <= issued'

StoreGoes == IInv' /\ BrokerGoes(marker) /\ GrantsGo

CalmTabs ==
  /\ tab' \in [Client -> [Id -> {"none", "ready", "pending", "sent"}]]
  /\ \A c \in Client, i \in Id : tab'[c][i] = "pending" => tab[c][i] = "pending"

CalmPump ==
  /\ pump' \in [Client -> {"idle", "connected", "redeeming"}]
  /\ \A c \in Client : clearing[c] # "no" => pump'[c] = "idle"

CalmRecords ==
  /\ session' \in [Client -> SUBSET Id]
  /\ record' \in [Client -> [Id -> NoRecord .. MaxAttempts]]
  /\ bound' \in [Client -> SUBSET Id]
  /\ \A c \in Client, i \in Id :
       \/ record'[c][i] = record[c][i] /\ (i \in session'[c] => i \in session[c])
       \/ record'[c][i] <= 0
       \/ /\ grants[i] # {} /\ jobs'[c][i].phase \notin Approaching \cup Beyond
          /\ i \in session'[c] => record'[c][i] < MaxAttempts

CalmRequests ==
  \A m \in requests' :
    \/ m \in requests
    \/ RequestOK(m) /\ m.from \in paired /\ m.kind # "resetAck"

\* What is gone stays gone, and who is silent about it stays silent.
SilenceStays ==
  \A i \in Id : Gone(i) =>
    /\ Gone(i)'
    /\ \A c \in Client : (Quiet(c, i) => Quiet(c, i)') /\ (Silent(c, i) => Silent(c, i)')

LEMMA GoneStays ==
  ASSUME BrokerGoes(marker), NEW i \in Id, Gone(i)
  PROVE  Gone(i)'
BY DEF BrokerGoes, CommandGoes, Gone, Id

LEMMA CalmSilence ==
  ASSUME PumpInv, StoreGoes, CalmJobs, CalmTabs
  PROVE  SilenceStays
<1>1. ASSUME NEW i \in Id, NEW c \in Client PROVE Quiet(c, i) => Quiet(c, i)'
  <2>1. CalmJob(jobs[c][i], jobs'[c][i])
    BY DEF CalmJobs
  <2>2. NoLaunch.phase = "none"
    BY DEF NoLaunch
  <2> QED BY <2>1, <2>2 DEF CalmJob, Quiet, InPhase
<1> QED
  BY <1>1, GoneStays DEF StoreGoes, SilenceStays, Silent, CalmTabs

\* The lease of a command that is told to press Send is one that was granted.
LEMMA GrantedLeases ==
  ASSUME PumpInv, StoreGoes, NEW i \in Id
  PROVE  /\ \A l \in grants'[i] : l <= issued'
         /\ commands'[i].state = "SendStarted" => commands'[i].lease \in grants'[i]
<1>1. CommandGoes(i, marker) /\ (grants'[i] = grants[i] \/ grants[i] = {})
  BY DEF StoreGoes, BrokerGoes, GrantsGo
<1>2. commands[i].state = "SendStarted" => commands[i].lease \in grants[i]
  BY DEF PumpInv, JobLeases
<1> QED
  BY <1>1, <1>2 DEF CommandGoes, StoreGoes, GrantsGo

LEMMA CalmLeases ==
  ASSUME PumpInv, StoreGoes, CalmJobs
  PROVE  JobLeases'
<1>0. NoLaunch.phase = "none" /\ NoLaunch.lease = NoLease
  BY DEF NoLaunch
<1>1. issued \in Nat /\ issued' \in Nat /\ issued <= issued'
  BY DEF StoreGoes, BrokerGoes
<1>2. \A i \in Id : grants[i] # {} => grants'[i] # {}
  BY DEF StoreGoes, GrantsGo
<1>3. ASSUME NEW c \in Client, NEW i \in Id
      PROVE  /\ jobs'[c][i].lease # NoLease => jobs'[c][i].lease = jobs[c][i].lease
             /\ jobs'[c][i].phase = "none" => jobs'[c][i] = NoLaunch
             /\ jobs'[c][i].phase # "none" => jobs'[c][i].lease \in 1 .. issued'
             /\ jobs'[c][i].phase \in Beyond => grants'[i] # {}
             /\ jobs'[c][i].phase = "offered" /\ jobs'[c][i].reconcile => grants'[i] # {}
  <2>1. PICK a, b : a = jobs[c][i] /\ b = jobs'[c][i]
    OBVIOUS
  <2>2. CalmJob(a, b)
    BY <2>1 DEF CalmJobs
  <2>3. /\ a.phase # "none" => a.lease \in 1 .. issued
        /\ a.phase \in Beyond => grants[i] # {}
        /\ a.phase = "offered" /\ a.reconcile => grants[i] # {}
    BY <2>1 DEF PumpInv, JobLeases
  <2>4. CASE b = NoLaunch
    BY <1>0, <2>1, <2>4 DEF Beyond
  <2>5. CASE b # NoLaunch
    <3>1. /\ a.phase # "none" /\ b.phase # "none" /\ b.lease = a.lease
          /\ b.phase = "offered" => b = a
          /\ b.phase \in Beyond => a.phase \in Beyond
      BY <2>2, <2>5 DEF CalmJob
    <3>2. b.lease \in 1 .. issued'
      BY <1>1, <2>3, <3>1
    <3>3. b.phase \in Beyond => grants'[i] # {}
      BY <1>2, <2>3, <3>1
    <3>4. b.phase = "offered" /\ b.reconcile => grants'[i] # {}
      BY <1>2, <2>3, <3>1
    <3> QED BY <2>1, <3>1, <3>2, <3>3, <3>4
  <2> QED BY <2>4, <2>5
<1>4. ASSUME NEW i \in Id
      PROVE  /\ \A l \in grants'[i] : l <= issued'
             /\ commands'[i].state = "SendStarted" => commands'[i].lease \in grants'[i]
  BY GrantedLeases
<1>5. ASSUME NEW c \in Client, NEW d \in Client, NEW i \in Id, NEW j \in Id,
             jobs'[c][i].lease # NoLease, jobs'[c][i].lease = jobs'[d][j].lease
      PROVE  c = d /\ i = j
  <2>1. jobs[c][i].lease # NoLease /\ jobs[c][i].lease = jobs[d][j].lease
    BY <1>3, <1>5
  <2> QED BY <2>1 DEF PumpInv, JobLeases
<1> QED
  BY <1>3, <1>4, <1>5 DEF JobLeases

\* The right to press Send does not come back by itself.
LEMMA SendingStays ==
  ASSUME PumpInv, CalmJobs, NEW c \in Client, NEW i \in Id
  PROVE  Sending(c, i)' => Sending(c, i)
<1>0. NoLaunch.phase = "none"
  BY DEF NoLaunch
<1>1. PICK a, b : a = jobs[c][i] /\ b = jobs'[c][i]
  OBVIOUS
<1>2. CalmJob(a, b)
  BY <1>1 DEF CalmJobs
<1>3. b.phase \in {"granted", "synced"} => a.phase \in {"granted", "synced"} /\ b.found = a.found
  BY <1>0, <1>2 DEF CalmJob
<1> QED
  BY <1>1, <1>3 DEF Sending, InPhase

\* No job comes closer to the boundary with a lease that was granted.
NoneApproaches ==
  \A c \in Client, i \in Id :
    InPhase(c, i, Approaching)' /\ jobs'[c][i].lease \in grants'[i] =>
      InPhase(c, i, Approaching) /\ jobs'[c][i].lease = jobs[c][i].lease

LEMMA RightMoves ==
  ASSUME PumpInv, StoreGoes, NoneApproaches,
         ASSUME NEW c \in Client, NEW i \in Id
         PROVE  /\ Live(c, i)' => Live(c, i)
                /\ Sending(c, i)' => tab'[c][i] # "pending" /\ clicks'[c][i] = 0
                /\ tab'[c][i] = "pending" => clicks'[c][i] = 0
                /\ clicks'[c][i] <= 1
                /\ InPhase(c, i, {"synced"})' => ~jobs'[c][i].found
  PROVE  OneRight'
<1>1. ASSUME NEW i \in Id
      PROVE  /\ grants'[i] = grants[i] \/ grants[i] = {}
             /\ \A d \in Client : Live(d, i) => grants[i] # {} /\ \A c \in Client : Live(c, i) => c = d
             /\ \A d \in Client : Live(d, i)' => Live(d, i)
  BY DEF StoreGoes, GrantsGo, PumpInv, OneRight
<1>2. ASSUME NEW c \in Client, NEW i \in Id, Live(c, i)'
      PROVE  grants'[i] # {} /\ \A d \in Client : Live(d, i)' => d = c
  BY <1>1, <1>2
<1>3. ASSUME NEW c \in Client, NEW i \in Id,
             InPhase(c, i, Approaching)', jobs'[c][i].lease \in grants'[i]
      PROVE  \A d \in Client : ~Live(d, i)'
  <2>1. InPhase(c, i, Approaching) /\ jobs'[c][i].lease = jobs[c][i].lease
    BY <1>3 DEF NoneApproaches
  <2>2. jobs[c][i].lease \in grants[i] => \A d \in Client : ~Live(d, i)
    BY <2>1 DEF PumpInv, OneRight
  <2> QED BY <1>1, <1>3, <2>1, <2>2
<1> QED
  BY <1>2, <1>3 DEF OneRight

LEMMA CalmApproach ==
  ASSUME PumpInv, CalmJobs
  PROVE  /\ NoneApproaches
         /\ \A c \in Client, i \in Id : InPhase(c, i, {"synced"})' => ~jobs'[c][i].found
<1>0. NoLaunch.phase = "none" /\ "none" \notin Approaching /\ "synced" # "none"
  BY DEF NoLaunch, Approaching
<1>1. ASSUME NEW c \in Client, NEW i \in Id
      PROVE  /\ jobs'[c][i].phase \in Approaching =>
                  jobs[c][i].phase \in Approaching /\ jobs'[c][i].lease = jobs[c][i].lease
             /\ jobs'[c][i].phase = "synced" => ~jobs'[c][i].found
  <2>1. PICK a, b : a = jobs[c][i] /\ b = jobs'[c][i]
    OBVIOUS
  <2>2. CalmJob(a, b) /\ (a.phase = "synced" => ~a.found)
    BY <2>1 DEF CalmJobs, PumpInv, OneRight, InPhase
  <2>3. b.phase = "synced" => b = a \/ ~b.found
    BY <1>0, <2>2 DEF CalmJob
  <2>4. b.phase \in Approaching => a.phase \in Approaching /\ b.lease = a.lease
    BY <1>0, <2>2 DEF CalmJob
  <2> QED BY <2>1, <2>2, <2>3, <2>4
<1> QED
  BY <1>1 DEF NoneApproaches, InPhase

LEMMA CalmRight ==
  ASSUME PumpInv, StoreGoes, CalmJobs, CalmTabs, UNCHANGED clicks
  PROVE  OneRight'
<1>1. ASSUME NEW c \in Client, NEW i \in Id
      PROVE  /\ Live(c, i)' => Live(c, i)
             /\ Sending(c, i)' => tab'[c][i] # "pending" /\ clicks'[c][i] = 0
             /\ tab'[c][i] = "pending" => clicks'[c][i] = 0
             /\ clicks'[c][i] <= 1
             /\ InPhase(c, i, {"synced"})' => ~jobs'[c][i].found
  <2>1. Sending(c, i)' => Sending(c, i)
    BY SendingStays
  <2>2. tab'[c][i] = "pending" => tab[c][i] = "pending"
    BY DEF CalmTabs
  <2>3. Live(c, i)' => Live(c, i)
    BY <2>1, <2>2 DEF Live
  <2>4. /\ Sending(c, i) => tab[c][i] # "pending" /\ clicks[c][i] = 0
        /\ tab[c][i] = "pending" => clicks[c][i] = 0
        /\ clicks[c][i] <= 1
    BY DEF PumpInv, OneRight
  <2> QED BY <2>1, <2>2, <2>3, <2>4, CalmApproach
<1> QED
  BY <1>1, CalmApproach, RightMoves

\* Requests that were right stay right, and what is new is.
LEMMA CalmAsking ==
  ASSUME PumpInv, StoreGoes, marker \subseteq marker', epoch' \in Nat, epoch <= epoch',
         \A m \in requests' : m \in requests \/ RequestOK(m)
  PROVE  RequestsOK'
<1>1. issued \in Nat /\ issued' \in Nat /\ issued <= issued'
  BY DEF StoreGoes, BrokerGoes
<1>2. epoch \in Nat
  BY DEF PumpInv, PumpShape
<1>3. ASSUME NEW m, RequestOK(m) PROVE RequestOK(m)'
  BY <1>1, <1>2, <1>3 DEF RequestOK
<1> QED
  BY <1>3 DEF PumpInv, RequestsOK

LEMMA HeldStays ==
  ASSUME BrokerGoes(marker), NEW m, m.id \in Id, m.lease \in 1 .. issued,
         HoldsLease(m.id, m.lease, m.from)'
  PROVE  HoldsLease(m.id, m.lease, m.from)
<1>1. CommandGoes(m.id, marker) /\ issued \in Nat
  BY DEF BrokerGoes
<1>2. m.lease # NoLease /\ m.lease # issued + 1
  BY <1>1 DEF NoLease
<1> QED
  BY <1>1, <1>2 DEF CommandGoes, HoldsLease

LEMMA CalmRevoked ==
  ASSUME PumpInv, StoreGoes, UNCHANGED paired,
         \A m \in requests' : m \in requests \/ m.from \in paired
  PROVE  RevokedOut'
<1>1. ASSUME NEW m \in requests', m.kind = "sendStarted", m.from \notin paired',
             HoldsLease(m.id, m.lease, m.from)'
      PROVE  FALSE
  <2>1. m \in requests /\ m.from \notin paired
    BY <1>1
  <2>2. m.id \in Id /\ m.lease \in 1 .. issued
    BY <1>1, <2>1 DEF PumpInv, RequestsOK, RequestOK
  <2>3. HoldsLease(m.id, m.lease, m.from)
    BY <1>1, <2>2, HeldStays DEF StoreGoes
  <2> QED BY <1>1, <2>1, <2>3 DEF PumpInv, RevokedOut
<1> QED
  BY <1>1 DEF RevokedOut

LEMMA CalmClearing ==
  ASSUME PumpInv, CalmJobs, CalmPump,
         \A c \in Client : clearing'[c] = clearing[c] \/ clearing'[c] = "no",
         \A c \in Client, i \in Id : clearing[c] = "posted" /\ tab'[c][i] = "pending" =>
                                     tab[c][i] = "pending"
  PROVE  ClearingIsQuiet'
<1>0. NoLaunch.phase = "none"
  BY DEF NoLaunch
<1>1. ASSUME NEW c \in Client, clearing'[c] # "no"
      PROVE  /\ pump'[c] = "idle"
             /\ \A i \in Id : InPhase(c, i, {"none", "abandoned"})'
             /\ clearing'[c] = "posted" => \A i \in Id : tab'[c][i] # "pending"
  <2>1. clearing'[c] = clearing[c] /\ clearing[c] # "no"
    BY <1>1
  <2>2. /\ \A i \in Id : InPhase(c, i, {"none", "abandoned"})
        /\ clearing[c] = "posted" => \A i \in Id : tab[c][i] # "pending"
    BY <2>1 DEF PumpInv, ClearingIsQuiet
  <2>3. ASSUME NEW i \in Id PROVE InPhase(c, i, {"none", "abandoned"})'
    <3>1. CalmJob(jobs[c][i], jobs'[c][i])
      BY DEF CalmJobs
    <3> QED BY <1>0, <2>2, <3>1 DEF CalmJob, InPhase
  <2> QED BY <2>1, <2>2, <2>3 DEF CalmPump
<1> QED
  BY <1>1 DEF ClearingIsQuiet

LEMMA CalmClear ==
  ASSUME PumpInv, SilenceStays, UNCHANGED <<epoch, awaited, clear, seen, resetting>>,
         \A m \in requests' : m \in requests \/ m.kind # "resetAck"
  PROVE  ClearIsSound'
<1>1. ASSUME clear # NoClear, NEW p \in clear.covers
      PROVE  /\ Gone(p[2])'
             /\ p[1] # clear.by =>
                  /\ resetting[p[1]] = epoch => Quiet(p[1], p[2])'
                  /\ seen[p[1]] = epoch => Silent(p[1], p[2])'
                  /\ p[1] \notin awaited => Silent(p[1], p[2])'
                  /\ \A m \in requests' :
                       m.kind = "resetAck" /\ m.from = p[1] /\ m.arg = epoch =>
                         Silent(p[1], p[2])'
  <2>1. p[1] \in Client /\ p[2] \in Id
    BY <1>1 DEF PumpInv, PumpShape
  <2>2. /\ Gone(p[2])
        /\ p[1] # clear.by =>
             /\ resetting[p[1]] = epoch => Quiet(p[1], p[2])
             /\ seen[p[1]] = epoch => Silent(p[1], p[2])
             /\ p[1] \notin awaited => Silent(p[1], p[2])
             /\ \A m \in requests :
                  m.kind = "resetAck" /\ m.from = p[1] /\ m.arg = epoch =>
                    Silent(p[1], p[2])
    BY <1>1 DEF PumpInv, ClearIsSound
  <2> QED BY <2>1, <2>2 DEF SilenceStays
<1> QED
  BY <1>1 DEF PumpInv, ClearIsSound

LEMMA CalmFenced ==
  ASSUME PumpInv, SilenceStays, UNCHANGED fenced
  PROVE  FencedIsSilent'
<1>1. \A p \in fenced : p[1] \in Client /\ p[2] \in Id
  BY DEF PumpInv, PumpShape
<1> QED
  BY <1>1 DEF PumpInv, FencedIsSilent, SilenceStays

LEMMA AttemptsMove ==
  ASSUME PumpInv, StoreGoes, CalmRecords,
         \A c \in Client, i \in Id : InPhase(c, i, Approaching \cup Beyond)' =>
           InPhase(c, i, Approaching \cup Beyond) \/ record'[c][i] < MaxAttempts
  PROVE  AttemptsOK'
<1>1. ASSUME NEW c \in Client, NEW i \in Id
      PROVE  /\ InPhase(c, i, Approaching \cup Beyond)' => record'[c][i] < MaxAttempts
             /\ i \in session'[c] => record'[c][i] < MaxAttempts
             /\ record'[c][i] > 0 => grants'[i] # {}
  <2>1. PICK a, b, r, s : /\ a = jobs[c][i] /\ b = jobs'[c][i]
                          /\ r = record[c][i] /\ s = record'[c][i]
    OBVIOUS
  <2>2. r \in NoRecord .. MaxAttempts /\ s \in NoRecord .. MaxAttempts
    BY <2>1 DEF CalmRecords, PumpInv, PumpShape
  <2>3. /\ a.phase \in Approaching \cup Beyond => r < MaxAttempts
        /\ i \in session[c] => r < MaxAttempts
        /\ r > 0 => grants[i] # {}
    BY <2>1 DEF PumpInv, AttemptsOK, InPhase
  <2>4. \/ s = r /\ (i \in session'[c] => i \in session[c])
        \/ s <= 0
        \/ /\ grants[i] # {} /\ b.phase \notin Approaching \cup Beyond
           /\ i \in session'[c] => s < MaxAttempts
    BY <2>1 DEF CalmRecords
  <2>5. b.phase \in Approaching \cup Beyond => a.phase \in Approaching \cup Beyond \/ s < MaxAttempts
    BY <2>1 DEF InPhase
  <2>6. grants[i] # {} => grants'[i] # {}
    BY DEF StoreGoes, GrantsGo
  <2>7. s <= 0 => s < MaxAttempts
    BY <2>2, PumpAssumption DEF NoRecord
  <2> QED BY <2>1, <2>2, <2>3, <2>4, <2>5, <2>6, <2>7 DEF InPhase, NoRecord
<1> QED
  BY <1>1 DEF AttemptsOK

LEMMA CalmAttempts ==
  ASSUME PumpInv, StoreGoes, CalmJobs, CalmRecords
  PROVE  AttemptsOK'
<1>0. NoLaunch.phase = "none" /\ "none" \notin Approaching \cup Beyond
  BY DEF NoLaunch, Approaching, Beyond
<1>1. ASSUME NEW c \in Client, NEW i \in Id, InPhase(c, i, Approaching \cup Beyond)'
      PROVE  InPhase(c, i, Approaching \cup Beyond)
  <2>1. CalmJob(jobs[c][i], jobs'[c][i])
    BY DEF CalmJobs
  <2> QED BY <1>0, <1>1, <2>1 DEF CalmJob, InPhase
<1> QED
  BY <1>1, AttemptsMove

LEMMA CalmSuccess ==
  ASSUME PumpInv, StoreGoes, marker \subseteq marker'
  PROVE  SuccessWasSeen'
<1>1. \A i \in Id : commands'[i].state = "Succeeded" =>
                      commands[i].state = "Succeeded" \/ i \in marker
  BY DEF StoreGoes, BrokerGoes, CommandGoes
<1> QED
  BY <1>1 DEF PumpInv, SuccessWasSeen, InState

(***************************************************************************)
(* Steps that are calm in every part keep the invariant.                   *)
(***************************************************************************)

LEMMA StoreStep ==
  ASSUME PumpInv, Next, BrokerGoes(marker), UNCHANGED grants
  PROVE  StoreGoes
<1>1. IInv'
  BY IInvStep DEF PumpInv
<1>2. ASSUME NEW i \in Id, NEW l \in grants[i] PROVE l <= issued'
  <2>1. l \in Nat /\ l <= issued
    BY DEF PumpInv, IInv, TypeOK, LeaseId, JobLeases
  <2> QED BY <2>1 DEF BrokerGoes
<1> QED
  BY <1>1, <1>2 DEF StoreGoes, GrantsGo

LEMMA StoreStill ==
  ASSUME PumpInv, UNCHANGED vars
  PROVE  StoreGoes
<1>1. IInv'
  BY IInvStep DEF PumpInv
<1>2. BrokerGoes(marker)
  BY NothingFades DEF PumpInv
<1>3. \A i \in Id : grants'[i] = grants[i] /\ \A l \in grants'[i] : l <= issued'
  BY DEF vars, PumpInv, JobLeases
<1> QED
  BY <1>1, <1>2, <1>3 DEF StoreGoes, GrantsGo

\* What does not move is calm.
LEMMA StillParts ==
  ASSUME PumpInv
  PROVE  /\ UNCHANGED vars => StoreGoes
         /\ UNCHANGED jobs => CalmJobs
         /\ UNCHANGED tab => CalmTabs
         /\ UNCHANGED pump => CalmPump
         /\ UNCHANGED <<session, record, bound>> => CalmRecords
         /\ requests' \subseteq requests => CalmRequests
         /\ UNCHANGED marker => marker' \subseteq Id /\ marker \subseteq marker'
         /\ Fault \/ UNCHANGED faults => faults' \in 0 .. MaxFaults
<1>1. UNCHANGED vars => StoreGoes
  BY StoreStill
<1>2. UNCHANGED jobs => CalmJobs
  BY StillCalm
<1>3. UNCHANGED tab => CalmTabs
  BY DEF PumpInv, PumpShape, CalmTabs
<1>4. UNCHANGED pump => CalmPump
  BY DEF PumpInv, PumpShape, ClearingIsQuiet, CalmPump
<1>5. UNCHANGED <<session, record, bound>> => CalmRecords
  BY DEF PumpInv, PumpShape, CalmRecords
<1>6. requests' \subseteq requests => CalmRequests
  BY DEF CalmRequests
<1>7. UNCHANGED marker => marker' \subseteq Id /\ marker \subseteq marker'
  BY DEF PumpInv, PumpShape
<1>8. Fault \/ UNCHANGED faults => faults' \in 0 .. MaxFaults
  BY PumpAssumption DEF PumpInv, PumpShape, Fault
<1> QED
  BY <1>1, <1>2, <1>3, <1>4, <1>5, <1>6, <1>7, <1>8

\* What is left to show of a step that no reset takes part in.
LEMMA HostStays ==
  ASSUME PumpInv, StoreGoes, JobLeases', OneRight', RequestsOK', ClearingIsQuiet', AttemptsOK',
         SilenceStays, CalmRecords,
         jobs' \in [Client -> [Id -> Job]],
         pump' \in [Client -> {"idle", "connected", "redeeming"}],
         tab' \in [Client -> [Id -> {"none", "ready", "pending", "sent"}]],
         clicks' \in [Client -> [Id -> Nat]],
         \A m \in requests' : m \in requests \/ (m.from \in paired /\ m.kind # "resetAck"),
         UNCHANGED <<hostVars, seen, resetVars>>,
         marker' \subseteq Id, marker \subseteq marker', faults' \in 0 .. MaxFaults
  PROVE  PumpInv'
<1>1. UNCHANGED <<paired, epoch, awaited, clear, seen, resetting, clearing, fenced>>
  BY DEF hostVars, resetVars
<1>2. PumpShape'
  BY <1>1 DEF PumpInv, PumpShape, CalmRecords
<1>3. RevokedOut'
  BY <1>1, CalmRevoked
<1>4. ClearIsSound'
  BY <1>1, CalmClear
<1>5. FencedIsSilent'
  BY <1>1, CalmFenced
<1>6. IInv'
  BY DEF StoreGoes
<1> QED
  BY <1>2, <1>3, <1>4, <1>5, <1>6, CalmSuccess DEF PumpInv

LEMMA CalmStep ==
  ASSUME PumpInv, StoreGoes, CalmJobs, CalmTabs, CalmPump, CalmRecords, CalmRequests,
         UNCHANGED clicks, UNCHANGED <<hostVars, seen, resetVars>>,
         marker' \subseteq Id, marker \subseteq marker', faults' \in 0 .. MaxFaults
  PROVE  PumpInv'
<1>1. epoch' = epoch /\ epoch \in Nat
  BY DEF PumpInv, PumpShape, hostVars
<1>2. /\ \A m \in requests' : m \in requests \/ RequestOK(m)
      /\ \A m \in requests' : m \in requests \/ (m.from \in paired /\ m.kind # "resetAck")
  BY DEF CalmRequests
<1>3. RequestsOK'
  BY <1>1, <1>2, CalmAsking
<1>4. ClearingIsQuiet'
  BY CalmClearing DEF CalmTabs, resetVars
<1>5. /\ jobs' \in [Client -> [Id -> Job]] /\ clicks' \in [Client -> [Id -> Nat]]
      /\ pump' \in [Client -> {"idle", "connected", "redeeming"}]
      /\ tab' \in [Client -> [Id -> {"none", "ready", "pending", "sent"}]]
  BY DEF CalmJobs, CalmTabs, CalmPump, PumpInv, PumpShape
<1> QED
  BY <1>2, <1>3, <1>4, <1>5, CalmLeases, CalmRight, CalmAttempts, CalmSilence, HostStays

-----------------------------------------------------------------------------
(* The job's own steps.                                                    *)

LEMMA LeaseOfJob ==
  ASSUME PumpInv, NEW c \in Client, NEW i \in Id, jobs[c][i].phase # "none"
  PROVE  jobs[c][i].lease \in 1 .. issued
BY DEF PumpInv, JobLeases

LEMMA ReportIsCalm ==
  ASSUME PumpInv, NEW c \in Client, NEW i \in Id,
         NEW outcome \in {"succeeded", "failed", "needs_reconcile", "paused"},
         outcome = "succeeded" => i \in marker,
         InPhase(c, i, {"offered", "granted", "committing", "observing"}),
         Report(c, i, outcome)
  PROVE  CalmJobs /\ CalmRequests /\ jobs'[c][i].phase \notin Approaching \cup Beyond
<1>0. NoLaunch.phase = "none"
  BY DEF NoLaunch
<1>1. CASE c \in paired
  <2>1. PICK m : m = Request("ack", c, i, jobs[c][i].lease, outcome)
    OBVIOUS
  <2>2. m.kind = "ack" /\ m.from = c /\ m.id = i /\ m.lease = jobs[c][i].lease /\ m.arg = outcome
    BY <2>1 DEF Request
  <2>3. m.lease \in 1 .. issued
    BY <2>2, LeaseOfJob DEF InPhase
  <2>4. RequestOK(m)
    BY <2>2, <2>3 DEF RequestOK
  <2>5. requests' = requests \cup {m} /\ JobTo(c, i, "acking")
    BY <1>1, <2>1 DEF Report
  <2>6. <<jobs[c][i].phase, "acking">> \in CalmMoves
    BY DEF CalmMoves, InPhase
  <2>7. CalmJobs /\ InPhase(c, i, {"acking"})'
    BY <2>5, <2>6, MoveIsCalm
  <2> QED BY <1>1, <2>2, <2>4, <2>5, <2>7 DEF CalmRequests, InPhase, Approaching, Beyond
<1>2. CASE c \notin paired
  <2>1. UNCHANGED requests /\ JobOver(c, i)
    BY <1>2 DEF Report
  <2>2. CalmJobs /\ jobs'[c][i] = NoLaunch
    BY <2>1, OverIsCalm
  <2> QED BY <1>0, <2>1, <2>2, StillParts DEF Approaching, Beyond
<1> QED
  BY <1>1, <1>2

LEMMA ReconcileIsCalm ==
  ASSUME PumpInv, NEW c \in Client, NEW i \in Id,
         InPhase(c, i, {"granted", "committing", "observing"})
           \/ (InPhase(c, i, {"offered"}) /\ jobs[c][i].reconcile),
         ReconcileOrBlock(c, i), UNCHANGED bound
  PROVE  CalmJobs /\ CalmRequests /\ CalmRecords
<1>1. PICK n : n = record[c][i] + 1
  OBVIOUS
<1>2. /\ record \in [Client -> [Id -> NoRecord .. MaxAttempts]]
      /\ session \in [Client -> SUBSET Id] /\ bound \in [Client -> SUBSET Id]
      /\ record[c][i] \in NoRecord .. MaxAttempts
  BY DEF PumpInv, PumpShape
<1>3. record[c][i] < MaxAttempts /\ grants[i] # {}
  BY DEF PumpInv, AttemptsOK, JobLeases, InPhase, Approaching, Beyond
<1>4. n \in NoRecord .. MaxAttempts
  BY <1>1, <1>2, <1>3, PumpAssumption DEF NoRecord
<1>5. record' = [record EXCEPT ![c][i] = n]
  BY <1>1 DEF ReconcileOrBlock
<1>6. session' = [session EXCEPT ![c] = IF n >= MaxAttempts THEN @ \ {i} ELSE @ \cup {i}]
  BY <1>1 DEF ReconcileOrBlock
<1>7. Report(c, i, IF n >= MaxAttempts THEN "paused" ELSE "needs_reconcile")
  BY <1>1 DEF ReconcileOrBlock
<1>8. CalmJobs /\ CalmRequests /\ jobs'[c][i].phase \notin Approaching \cup Beyond
  BY <1>7, ReportIsCalm DEF InPhase
<1>9. /\ record' \in [Client -> [Id -> NoRecord .. MaxAttempts]]
      /\ record'[c][i] = n
      /\ \A d \in Client, j \in Id : d # c \/ j # i => record'[d][j] = record[d][j]
  BY <1>2, <1>4, <1>5
<1>10. /\ session' \in [Client -> SUBSET Id]
       /\ i \in session'[c] => n < MaxAttempts
       /\ \A d \in Client, j \in Id : d # c \/ j # i =>
            (j \in session'[d] => j \in session[d])
  <2>1. i \in session'[c] => ~(n >= MaxAttempts)
    BY <1>2, <1>6
  <2>2. ~(n >= MaxAttempts) => n < MaxAttempts
    BY <1>4, PumpAssumption DEF NoRecord
  <2> QED BY <1>2, <1>6, <2>1, <2>2
<1>11. ASSUME NEW d \in Client, NEW j \in Id
       PROVE  \/ record'[d][j] = record[d][j] /\ (j \in session'[d] => j \in session[d])
              \/ /\ grants[j] # {} /\ jobs'[d][j].phase \notin Approaching \cup Beyond
                 /\ j \in session'[d] => record'[d][j] < MaxAttempts
  <2>1. CASE d = c /\ j = i
    BY <1>3, <1>8, <1>9, <1>10, <2>1
  <2>2. CASE d # c \/ j # i
    BY <1>9, <1>10, <2>2
  <2> QED BY <2>1, <2>2
<1> QED
  BY <1>2, <1>8, <1>9, <1>10, <1>11 DEF CalmRecords

\* A step of a job that stays in the browser.
LEMMA JobMoves ==
  ASSUME PumpInv, UNCHANGED vars, CalmJobs, CalmTabs, CalmPump, CalmRecords, CalmRequests,
         UNCHANGED clicks, UNCHANGED <<hostVars, seen, resetVars>>, UNCHANGED marker,
         Fault \/ UNCHANGED faults
  PROVE  PumpInv'
BY CalmStep, StillParts

LEMMA FailBeforeSendStep ==
  ASSUME PumpInv, NEW c \in Client, NEW i \in Id, FailBeforeSend(c, i)
  PROVE  PumpInv'
<1>1. CalmJobs /\ CalmRequests
  BY ReportIsCalm DEF FailBeforeSend, Processing, InPhase
<1>2. /\ UNCHANGED <<pump, session, record, bound, seen, tab, clicks, marker, faults>>
      /\ UNCHANGED <<vars, hostVars, resetVars>>
  BY DEF FailBeforeSend, diskVars, tabVars
<1> QED
  BY <1>1, <1>2, JobMoves, StillParts

LEMMA ReconcilePausesStep ==
  ASSUME PumpInv, NEW c \in Client, NEW i \in Id, ReconcilePauses(c, i)
  PROVE  PumpInv'
<1>1. CalmJobs /\ CalmRequests
  BY ReportIsCalm DEF ReconcilePauses, Processing, InPhase
<1>2. /\ UNCHANGED <<pump, session, record, bound, seen, tab, clicks, marker, faults>>
      /\ UNCHANGED <<vars, hostVars, resetVars>>
  BY DEF ReconcilePauses, diskVars, tabVars
<1> QED
  BY <1>1, <1>2, JobMoves, StillParts

LEMMA PrepareStep ==
  ASSUME PumpInv, NEW c \in Client, NEW i \in Id, Prepare(c, i)
  PROVE  PumpInv'
<1>1. PICK a : a = jobs[c][i]
  OBVIOUS
<1>2. a \in Job /\ a.phase = "offered"
  BY <1>1 DEF PumpInv, PumpShape, Prepare, Processing, InPhase
<1>3. PICK found \in BOOLEAN :
        /\ tab' = [tab EXCEPT ![c][i] = IF found THEN "sent" ELSE "ready"]
        /\ jobs' = [jobs EXCEPT ![c][i].phase = "prepared", ![c][i].found = found]
  BY DEF Prepare
<1>4. PICK b : b = [phase |-> "prepared", lease |-> a.lease, reconcile |-> a.reconcile,
                    existing |-> a.existing, found |-> found]
  OBVIOUS
<1>5. b \in Job
  BY <1>2, <1>4 DEF Job, Phase
<1>6. jobs' = [jobs EXCEPT ![c][i] = b]
  <2>1. b = [a EXCEPT !.phase = "prepared", !.found = found]
    <3>1. PICK d : d = [a EXCEPT !.phase = "prepared"]
      OBVIOUS
    <3>2. d = [phase |-> "prepared", lease |-> a.lease, reconcile |-> a.reconcile,
               existing |-> a.existing, found |-> a.found]
      BY <1>2, <3>1 DEF Job
    <3>3. [d EXCEPT !.found = found] = b
      BY <1>4, <3>2
    <3> QED BY <3>1, <3>3
  <2>2. jobs \in [Client -> [Id -> Job]]
    BY DEF PumpInv, PumpShape
  <2>3. jobs' = [jobs EXCEPT ![c][i] = [@ EXCEPT !.phase = "prepared", !.found = found]]
    BY <1>3, <2>2 DEF Job
  <2> QED BY <1>1, <2>1, <2>3
<1>7. CalmJob(jobs[c][i], b)
  BY <1>1, <1>2, <1>4, <1>5 DEF CalmJob, Approaching, Beyond
<1>8. CalmJobs
  BY <1>5, <1>6, <1>7, OneCalm
<1>9. CalmTabs
  BY <1>3 DEF CalmTabs, PumpInv, PumpShape
<1>10. CalmRecords
  <2>1. record' = [record EXCEPT ![c][i] = IF @ = NoRecord THEN 0 ELSE @]
    BY DEF Prepare
  <2>2. /\ record \in [Client -> [Id -> NoRecord .. MaxAttempts]]
        /\ session \in [Client -> SUBSET Id] /\ bound \in [Client -> SUBSET Id]
    BY DEF PumpInv, PumpShape
  <2>3. 0 \in NoRecord .. MaxAttempts
    BY PumpAssumption DEF NoRecord
  <2>4. /\ record' \in [Client -> [Id -> NoRecord .. MaxAttempts]]
        /\ \A d \in Client, j \in Id : record'[d][j] = record[d][j] \/ record'[d][j] <= 0
    BY <2>1, <2>2, <2>3
  <2>5. bound' \in [Client -> SUBSET Id] /\ session' = session
    BY <2>2 DEF Prepare
  <2> QED BY <2>2, <2>4, <2>5 DEF CalmRecords
<1>11. UNCHANGED <<vars, hostVars, requests, pump, seen, resetVars, clicks, marker, faults>>
  BY DEF Prepare
<1> QED
  BY <1>8, <1>9, <1>10, <1>11, JobMoves, StillParts

LEMMA AskSendStartedStep ==
  ASSUME PumpInv, NEW c \in Client, NEW i \in Id, NEW try \in {1, 2},
         AskSendStarted(c, i, try)
  PROVE  PumpInv'
<1>1. /\ UNCHANGED <<pump, session, record, bound, seen, tab, clicks, marker>>
      /\ UNCHANGED <<vars, hostVars, resetVars>> /\ (Fault \/ UNCHANGED faults)
  BY DEF AskSendStarted, diskVars, tabVars
<1>2. CalmJobs /\ CalmRequests
  <2>1. CASE c \in paired
    <3>1. PICK phase : phase = IF try = 1 THEN "asking" ELSE "askingAgain"
      OBVIOUS
    <3>2. <<jobs[c][i].phase, phase>> \in CalmMoves /\ JobTo(c, i, phase)
      <4>1. JobTo(c, i, IF try = 1 THEN "asking" ELSE "askingAgain")
        BY <2>1 DEF AskSendStarted
      <4>2. (try = 1 /\ jobs[c][i].phase = "prepared") \/ (try = 2 /\ jobs[c][i].phase = "asking")
        BY DEF AskSendStarted, InPhase
      <4>3. <<jobs[c][i].phase, phase>> \in CalmMoves
        BY <3>1, <4>2 DEF CalmMoves
      <4> QED BY <3>1, <4>1, <4>3
    <3>3. PICK m : m = Request("sendStarted", c, i, jobs[c][i].lease, "")
      OBVIOUS
    <3>4. m.kind = "sendStarted" /\ m.from = c /\ m.id = i /\ m.lease = jobs[c][i].lease
      BY <3>3 DEF Request
    <3>5. m.lease \in 1 .. issued
      BY <3>4, LeaseOfJob DEF AskSendStarted, InPhase
    <3>6. RequestOK(m)
      BY <3>4, <3>5 DEF RequestOK
    <3>7. requests' = requests \cup {m}
      BY <2>1, <3>3 DEF AskSendStarted
    <3>8. CalmRequests
      BY <2>1, <3>4, <3>6, <3>7 DEF CalmRequests
    <3> QED BY <3>2, <3>8, MoveIsCalm
  <2>2. CASE c \notin paired
    BY <2>2, OverIsCalm, StillParts DEF AskSendStarted
  <2> QED BY <2>1, <2>2
<1> QED
  BY <1>1, <1>2, JobMoves, StillParts

LEMMA SyncBeforeCommitStep ==
  ASSUME PumpInv, NEW c \in Client, NEW i \in Id, SyncBeforeCommit(c, i)
  PROVE  PumpInv'
<1>1. CalmJobs
  BY MoveIsCalm DEF SyncBeforeCommit, InPhase
<1>2. /\ UNCHANGED <<requests, pump, session, record, bound, seen, tab, clicks, marker, faults>>
      /\ UNCHANGED <<vars, hostVars, resetVars>>
  BY DEF SyncBeforeCommit, diskVars, tabVars
<1> QED
  BY <1>1, <1>2, JobMoves, StillParts

LEMMA JobDropped ==
  ASSUME PumpInv, NEW c \in Client, NEW i \in Id, SyncFails(c, i) \/ JobGivesUp(c, i)
  PROVE  PumpInv'
<1>1. CalmJobs
  BY OverIsCalm DEF SyncFails, JobGivesUp
<1>2. /\ UNCHANGED <<requests, pump, session, record, bound, seen, tab, clicks, marker>>
      /\ UNCHANGED <<vars, hostVars, resetVars>> /\ (Fault \/ UNCHANGED faults)
  BY DEF SyncFails, JobGivesUp, diskVars, tabVars
<1> QED
  BY <1>1, <1>2, JobMoves, StillParts

LEMMA TabRefusesStep ==
  ASSUME PumpInv, NEW c \in Client, NEW i \in Id, TabRefuses(c, i)
  PROVE  PumpInv'
<1>1. CalmJobs /\ CalmRequests
  <2>1. CASE InPhase(c, i, {"committing"})
    BY <2>1, ReportIsCalm DEF TabRefuses, InPhase
  <2>2. CASE ~InPhase(c, i, {"committing"})
    BY <2>2, OverIsCalm, StillParts DEF TabRefuses
  <2> QED BY <2>1, <2>2
<1>2. CalmTabs
  BY DEF TabRefuses, CalmTabs, PumpInv, PumpShape
<1>3. UNCHANGED <<vars, hostVars, pump, session, record, bound, seen, resetVars, clicks, marker,
                  faults>>
  BY DEF TabRefuses, diskVars
<1> QED
  BY <1>1, <1>2, <1>3, JobMoves, StillParts

LEMMA CommitTimesOutStep ==
  ASSUME PumpInv, NEW c \in Client, NEW i \in Id, CommitTimesOut(c, i)
  PROVE  PumpInv'
<1>1. /\ UNCHANGED <<vars, hostVars, pump, bound, seen, resetVars, tab, clicks, marker>>
      /\ Fault
  BY DEF CommitTimesOut, tabVars
<1>2. CalmJobs /\ CalmRequests /\ CalmRecords
  <2>1. CASE InPhase(c, i, {"committing"}) /\ ReconcileOrBlock(c, i)
    BY <1>1, <2>1, ReconcileIsCalm DEF InPhase
  <2>2. CASE JobOver(c, i) /\ UNCHANGED <<requests, record, session>>
    BY <1>1, <2>2, OverIsCalm, StillParts
  <2> QED BY <2>1, <2>2 DEF CommitTimesOut
<1> QED
  BY <1>1, <1>2, JobMoves, StillParts

\* Accept and Unsure, wherever they are taken.
LEMMA AcceptStep ==
  ASSUME PumpInv, NEW c \in Client, NEW i \in Id,
         InPhase(c, i, {"offered", "granted", "observing"}), Accept(c, i)
  PROVE  PumpInv'
<1>1. /\ UNCHANGED <<vars, hostVars, pump, session, record, seen, resetVars, tab, clicks, marker,
                     faults>>
      /\ i \in marker /\ Report(c, i, "succeeded")
  BY DEF Accept, tabVars
<1>2. CalmJobs /\ CalmRequests
  BY <1>1, ReportIsCalm DEF InPhase
<1>3. CalmRecords
  BY DEF Accept, CalmRecords, PumpInv, PumpShape
<1> QED
  BY <1>1, <1>2, <1>3, JobMoves, StillParts

LEMMA UnsureStep ==
  ASSUME PumpInv, NEW c \in Client, NEW i \in Id,
         InPhase(c, i, {"granted", "observing"})
           \/ (InPhase(c, i, {"offered"}) /\ jobs[c][i].reconcile),
         Unsure(c, i)
  PROVE  PumpInv'
<1>1. UNCHANGED <<vars, hostVars, pump, bound, seen, resetVars, tab, clicks, marker, faults>>
  BY DEF Unsure, tabVars
<1>2. CalmJobs /\ CalmRequests /\ CalmRecords
  BY <1>1, ReconcileIsCalm DEF Unsure, InPhase
<1> QED
  BY <1>1, <1>2, JobMoves, StillParts

LEMMA ObserveStep ==
  ASSUME PumpInv, NEW c \in Client, NEW i \in Id, Observe(c, i) \/ ReconcileReads(c, i)
  PROVE  PumpInv'
<1>1. /\ \/ InPhase(c, i, {"granted", "observing"})
         \/ (InPhase(c, i, {"offered"}) /\ jobs[c][i].reconcile)
      /\ Accept(c, i) \/ Unsure(c, i)
  BY DEF Observe, ReconcileReads, Processing, InPhase
<1>2. InPhase(c, i, {"offered", "granted", "observing"})
  BY <1>1 DEF InPhase
<1> QED
  BY <1>1, <1>2, AcceptStep, UnsureStep

LEMMA UserSendsStep ==
  ASSUME PumpInv, NEW c \in Client, NEW i \in Id, UserSends(c, i)
  PROVE  PumpInv'
<1>1. /\ UNCHANGED <<vars, hostVars, requests, pump, jobs, session, record, bound, seen, resetVars,
                     clicks>>
      /\ Fault
  BY DEF UserSends, jobVars, diskVars
<1>2. CalmTabs
  BY DEF UserSends, CalmTabs, PumpInv, PumpShape
<1>3. marker \subseteq marker' /\ marker' \subseteq Id
  BY DEF UserSends, PumpInv, PumpShape
<1> QED
  BY <1>1, <1>2, <1>3, CalmStep, StillParts

LEMMA TabClosesStep ==
  ASSUME PumpInv, NEW c \in Client, NEW i \in Id, TabCloses(c, i)
  PROVE  PumpInv'
<1>1. /\ UNCHANGED <<vars, hostVars, requests, pump, jobs, session, record, bound, seen, resetVars,
                     clicks, marker>>
      /\ Fault
  BY DEF TabCloses, jobVars, diskVars
<1>2. CalmTabs
  BY DEF TabCloses, CalmTabs, PumpInv, PumpShape
<1> QED
  BY <1>1, <1>2, JobMoves, StillParts

-----------------------------------------------------------------------------
(* The commit and the click.                                               *)

LEMMA SendCommitStep ==
  ASSUME PumpInv, NEW c \in Client, NEW i \in Id, SendCommit(c, i)
  PROVE  PumpInv'
<1>1. /\ UNCHANGED <<vars, hostVars, requests, pump, session, record, bound, seen, resetVars,
                     clicks, marker, faults>>
      /\ InPhase(c, i, {"synced"})
      /\ tab' = [tab EXCEPT ![c][i] = IF @ = "ready" THEN "pending" ELSE @]
  BY DEF SendCommit, diskVars
<1>2. CalmJobs /\ InPhase(c, i, {"committing"})'
  BY MoveIsCalm DEF SendCommit, InPhase, CalmMoves
<1>3. /\ tab' \in [Client -> [Id -> {"none", "ready", "pending", "sent"}]]
      /\ \A d \in Client, j \in Id : d # c \/ j # i => tab'[d][j] = tab[d][j]
  BY <1>1 DEF PumpInv, PumpShape
<1>4. /\ Sending(c, i) /\ clicks[c][i] = 0
  BY <1>1 DEF PumpInv, OneRight, Sending, InPhase
<1>5. StoreGoes /\ CalmRecords /\ CalmPump /\ CalmRequests
  BY <1>1, StillParts
<1>6. ASSUME NEW d \in Client, NEW j \in Id
      PROVE  /\ Live(d, j)' => Live(d, j)
             /\ Sending(d, j)' => tab'[d][j] # "pending" /\ clicks'[d][j] = 0
             /\ tab'[d][j] = "pending" => clicks'[d][j] = 0
             /\ clicks'[d][j] <= 1
             /\ InPhase(d, j, {"synced"})' => ~jobs'[d][j].found
  <2>1. InPhase(d, j, {"synced"})' => ~jobs'[d][j].found
    BY <1>2, CalmApproach
  <2>2. clicks'[d][j] <= 1 /\ clicks'[d][j] = clicks[d][j]
    BY <1>1 DEF PumpInv, OneRight
  <2>3. CASE d = c /\ j = i
    <3>1. ~Sending(d, j)'
      BY <1>2, <2>3 DEF Sending, InPhase
    <3> QED BY <1>4, <2>1, <2>2, <2>3, <3>1 DEF Live
  <2>4. CASE d # c \/ j # i
    <3>1. Sending(d, j)' => Sending(d, j)
      BY <1>2, SendingStays
    <3>2. /\ Sending(d, j) => tab[d][j] # "pending" /\ clicks[d][j] = 0
          /\ tab[d][j] = "pending" => clicks[d][j] = 0
      BY DEF PumpInv, OneRight
    <3> QED BY <1>3, <2>1, <2>2, <2>4, <3>1, <3>2 DEF Live
  <2> QED BY <2>3, <2>4
<1>7. OneRight'
  BY <1>2, <1>5, <1>6, CalmApproach, RightMoves
<1>8. SilenceStays
  <2>1. ~Quiet(c, i)
    BY <1>1 DEF Quiet, InPhase
  <2>2. ASSUME NEW j \in Id, NEW d \in Client
        PROVE  (Quiet(d, j) => Quiet(d, j)') /\ (Silent(d, j) => Silent(d, j)')
    <3>1. Quiet(d, j) => Quiet(d, j)'
      <4>1. CalmJob(jobs[d][j], jobs'[d][j]) /\ NoLaunch.phase = "none"
        BY <1>2 DEF CalmJobs, NoLaunch
      <4> QED BY <4>1 DEF CalmJob, Quiet, InPhase
    <3>2. Silent(d, j) => d # c \/ j # i
      BY <2>1 DEF Silent
    <3> QED BY <1>3, <3>1, <3>2 DEF Silent
  <2> QED BY <1>5, <2>2, GoneStays DEF StoreGoes, SilenceStays
<1>9. ClearingIsQuiet'
  <2>1. clearing' = clearing /\ clearing[c] = "no"
    BY <1>1 DEF resetVars, PumpInv, ClearingIsQuiet, InPhase
  <2>2. \A d \in Client, j \in Id : clearing[d] = "posted" /\ tab'[d][j] = "pending" =>
                                      tab[d][j] = "pending"
    BY <1>3, <2>1
  <2> QED BY <1>2, <1>5, <2>1, <2>2, CalmClearing
<1>10. JobLeases' /\ AttemptsOK'
  BY <1>2, <1>5, CalmLeases, CalmAttempts
<1>11. RequestsOK' /\ \A m \in requests' : m \in requests
  BY <1>1 DEF PumpInv, RequestsOK, RequestOK, vars, hostVars
<1>12. /\ jobs' \in [Client -> [Id -> Job]] /\ clicks' \in [Client -> [Id -> Nat]]
       /\ pump' \in [Client -> {"idle", "connected", "redeeming"}]
       /\ faults' \in 0 .. MaxFaults /\ marker' \subseteq Id /\ marker \subseteq marker'
  BY <1>1, <1>2 DEF CalmJobs, PumpInv, PumpShape
<1> QED
  BY <1>1, <1>3, <1>5, <1>7, <1>8, <1>9, <1>10, <1>11, <1>12, HostStays

LEMMA AnswerIsCalm ==
  ASSUME PumpInv, NEW c \in Client, NEW i \in Id, CommitAnswered(c, i, "observing")
  PROVE  CalmJobs
<1>1. CASE InPhase(c, i, {"committing"})
  BY <1>1, MoveIsCalm DEF CommitAnswered, InPhase, CalmMoves
<1>2. CASE InPhase(c, i, {"abandoned"}) /\ ~InPhase(c, i, {"committing"})
  BY <1>2, OverIsCalm DEF CommitAnswered
<1>3. CASE ~InPhase(c, i, {"committing"}) /\ ~InPhase(c, i, {"abandoned"})
  BY <1>3, StillCalm DEF CommitAnswered
<1> QED
  BY <1>1, <1>2, <1>3

LEMMA TabClicksStep ==
  ASSUME PumpInv, NEW c \in Client, NEW i \in Id, TabClicks(c, i)
  PROVE  PumpInv'
<1>1. /\ UNCHANGED <<vars, hostVars, requests, pump, session, record, bound, seen, resetVars,
                     faults>>
      /\ tab[c][i] = "pending"
      /\ tab' = [tab EXCEPT ![c][i] = "sent"]
      /\ clicks' = [clicks EXCEPT ![c][i] = @ + 1]
      /\ marker' = marker \cup {i}
  BY DEF TabClicks, diskVars
<1>2. CalmJobs
  BY AnswerIsCalm DEF TabClicks
<1>3. CalmTabs /\ tab'[c][i] = "sent"
  BY <1>1 DEF CalmTabs, PumpInv, PumpShape
<1>4. /\ clicks' \in [Client -> [Id -> Nat]]
      /\ clicks'[c][i] = clicks[c][i] + 1
      /\ \A d \in Client, j \in Id : d # c \/ j # i => clicks'[d][j] = clicks[d][j]
  BY <1>1 DEF PumpInv, PumpShape
<1>5. StoreGoes /\ CalmRecords /\ CalmPump /\ CalmRequests
  BY <1>1, StillParts
<1>6. ASSUME NEW d \in Client, NEW j \in Id
      PROVE  /\ Live(d, j)' => Live(d, j)
             /\ Sending(d, j)' => tab'[d][j] # "pending" /\ clicks'[d][j] = 0
             /\ tab'[d][j] = "pending" => clicks'[d][j] = 0
             /\ clicks'[d][j] <= 1
             /\ InPhase(d, j, {"synced"})' => ~jobs'[d][j].found
  <2>1. InPhase(d, j, {"synced"})' => ~jobs'[d][j].found
    BY <1>2, CalmApproach
  <2>2. /\ Sending(d, j) => tab[d][j] # "pending" /\ clicks[d][j] = 0
        /\ tab[d][j] = "pending" => clicks[d][j] = 0
        /\ clicks[d][j] <= 1
    BY DEF PumpInv, OneRight
  <2>3. Sending(d, j)' => Sending(d, j)
    BY <1>2, SendingStays
  <2>4. CASE d = c /\ j = i
    <3>1. ~Sending(d, j) /\ clicks'[d][j] = 1 /\ Live(d, j)
      BY <1>1, <1>4, <2>2, <2>4 DEF Live
    <3> QED BY <1>3, <2>1, <2>3, <2>4, <3>1
  <2>5. CASE d # c \/ j # i
    BY <1>3, <1>4, <2>1, <2>2, <2>3, <2>5 DEF Live, CalmTabs
  <2> QED BY <2>4, <2>5
<1>7. OneRight'
  BY <1>2, <1>5, <1>6, CalmApproach, RightMoves
<1>8. ClearingIsQuiet'
  BY <1>1, <1>2, <1>3, <1>5, CalmClearing DEF CalmTabs, resetVars
<1>9. RequestsOK' /\ \A m \in requests' : m \in requests
  BY <1>1 DEF PumpInv, RequestsOK, RequestOK, vars, hostVars
<1>10. /\ jobs' \in [Client -> [Id -> Job]]
       /\ tab' \in [Client -> [Id -> {"none", "ready", "pending", "sent"}]]
       /\ pump' \in [Client -> {"idle", "connected", "redeeming"}]
       /\ faults' \in 0 .. MaxFaults /\ marker' \subseteq Id /\ marker \subseteq marker'
  BY <1>1, <1>2, <1>3 DEF CalmJobs, CalmTabs, PumpInv, PumpShape
<1>11. JobLeases' /\ AttemptsOK' /\ SilenceStays
  BY <1>2, <1>3, <1>5, CalmLeases, CalmAttempts, CalmSilence
<1> QED
  BY <1>1, <1>4, <1>5, <1>7, <1>8, <1>9, <1>10, <1>11, HostStays

-----------------------------------------------------------------------------
(* The pump.                                                               *)

LEMMA ConnectStep ==
  ASSUME PumpInv, NEW c \in Client, Connect(c)
  PROVE  PumpInv'
<1>1. /\ UNCHANGED <<vars, hostVars, requests, jobs, session, record, bound, seen, resetVars,
                     tab, clicks, marker, faults>>
      /\ clearing[c] = "no" /\ pump' = [pump EXCEPT ![c] = "connected"]
  BY DEF Connect, diskVars, tabVars
<1>2. CalmPump
  BY <1>1 DEF PumpInv, PumpShape, ClearingIsQuiet, CalmPump
<1> QED
  BY <1>1, <1>2, JobMoves, StillParts

LEMMA AskRedeemStep ==
  ASSUME PumpInv, NEW c \in Client, AskRedeem(c)
  PROVE  PumpInv'
<1>1. /\ UNCHANGED <<vars, hostVars, jobs, session, record, bound, seen, resetVars,
                     tab, clicks, marker, faults>>
      /\ clearing[c] = "no" /\ pump' = [pump EXCEPT ![c] = "redeeming"]
  BY DEF AskRedeem, diskVars, tabVars
<1>2. CalmPump
  BY <1>1 DEF PumpInv, PumpShape, ClearingIsQuiet, CalmPump
<1>3. PICK m : m = Request("redeem", c, NoId, NoLease, "")
  OBVIOUS
<1>4. m.kind = "redeem" /\ m.from = c
  BY <1>3 DEF Request
<1>5. requests' = requests \cup {m} /\ c \in paired
  BY <1>3 DEF AskRedeem
<1>6. CalmRequests
  BY <1>4, <1>5 DEF CalmRequests, RequestOK
<1> QED
  BY <1>1, <1>2, <1>6, JobMoves, StillParts

LEMMA BatchFailsStep ==
  ASSUME PumpInv, NEW c \in Client, BatchFails(c)
  PROVE  PumpInv'
<1>1. /\ UNCHANGED <<vars, hostVars, requests, session, record, bound, seen, resetVars,
                     tab, clicks, marker>>
      /\ Fault \/ UNCHANGED faults
      /\ jobs' = [jobs EXCEPT ![c] = Idle] /\ pump' = [pump EXCEPT ![c] = "idle"]
  BY DEF BatchFails, diskVars, tabVars
<1>2. CalmPump
  BY <1>1 DEF PumpInv, PumpShape, ClearingIsQuiet, CalmPump
<1>3. CalmJobs
  BY <1>1, IdleIsCalm
<1> QED
  BY <1>1, <1>2, <1>3, JobMoves, StillParts

LEMMA HandleRedeemEmptyStep ==
  ASSUME PumpInv, NEW c \in Client, NEW e, HandleRedeemEmpty(c, e)
  PROVE  PumpInv'
<1>1. /\ UNCHANGED <<vars, hostVars, jobs, session, record, bound, seen, resetVars,
                     tab, clicks, marker, faults>>
      /\ requests' \subseteq requests
      /\ pump' = [pump EXCEPT ![c] = IF @ = "redeeming" THEN "idle" ELSE @]
  BY DEF HandleRedeemEmpty, diskVars, tabVars
<1>2. CalmPump
  BY <1>1 DEF PumpInv, PumpShape, ClearingIsQuiet, CalmPump
<1> QED
  BY <1>1, <1>2, JobMoves, StillParts

LEMMA RedeemStore ==
  ASSUME PumpInv, NEW c \in Client, NEW e \in SUBSET Anchors, Redeem(c, e)
  PROVE  StoreGoes
<1>1. Next
  BY DEF Next, Browser
<1> QED
  BY <1>1, RedeemGoes, StoreStep DEF PumpInv

\* The answer was lost, or nobody waits for it.
LEMMA LostOfferStep ==
  ASSUME PumpInv, StoreGoes, NEW c \in Client,
         requests' \subseteq requests, pump' = [pump EXCEPT ![c] = "idle"],
         UNCHANGED <<jobs, session, hostVars, diskVars, resetVars, tabVars, faults>>
  PROVE  PumpInv'
<1>1. CalmPump
  BY DEF PumpInv, PumpShape, ClearingIsQuiet, CalmPump
<1>2. UNCHANGED <<session, record, bound, seen, tab, clicks, marker>>
  BY DEF diskVars, tabVars
<1> QED
  BY <1>1, <1>2, CalmStep, StillParts

\* The offer is heard: it starts a job with the new lease.
LEMMA OfferStep ==
  ASSUME PumpInv, StoreGoes, NEW c \in Client, NEW i \in Id,
         issued' = issued + 1, UNCHANGED grants,
         commands'[i].lease = issued + 1, commands'[i].state = "Leased",
         pump[c] = "redeeming", Offered(c, i), UNCHANGED session,
         \A m \in requests' :
           m \in requests \/ (m = Request("ack", c, i, issued + 1, "paused") /\ c \in paired),
         UNCHANGED <<hostVars, diskVars, resetVars, tabVars, faults>>
  PROVE  PumpInv'
<1>1. PICK w : w = commands'[i]
  OBVIOUS
<1>2. PICK b : b = [phase |-> IF w.history /\ i \notin session[c] THEN "inheriting" ELSE "offered",
                    lease |-> issued + 1, reconcile |-> w.history,
                    existing |-> ExistingThread(w.key), found |-> FALSE]
  OBVIOUS
<1>3. /\ jobs' = [jobs EXCEPT ![c][i] = b]
      /\ pump' = [pump EXCEPT ![c] = "connected"]
  BY <1>1, <1>2 DEF Offered
<1>4. /\ w \in Command /\ w.lease = issued + 1 /\ w.state = "Leased"
      /\ w.history <=> grants[i] # {}
  <2>1. CommandOK(i)' /\ w \in Command
    BY <1>1 DEF StoreGoes, IInv, TypeOK
  <2> QED BY <1>1, <2>1 DEF CommandOK, StateOK
<1>5. issued \in Nat /\ issued' \in Nat
  BY DEF StoreGoes, BrokerGoes
<1>6. /\ b.phase \in {"offered", "inheriting"} /\ b.lease = issued + 1 /\ b.reconcile = w.history
      /\ b.phase = "offered" /\ w.history => i \in session[c]
      /\ b.found = FALSE
  BY <1>2
<1>7. b \in Job
  <2>1. w.history \in BOOLEAN /\ issued + 1 \in LeaseId
    BY <1>4, <1>5 DEF Command, NoLease
  <2> QED BY <1>2, <2>1 DEF Job, Phase, ExistingThread
<1>8. /\ jobs \in [Client -> [Id -> Job]] /\ pump \in [Client -> {"idle", "connected", "redeeming"}]
      /\ clearing[c] = "no"
  BY DEF PumpInv, PumpShape, ClearingIsQuiet
<1>9. /\ jobs' \in [Client -> [Id -> Job]] /\ jobs'[c][i] = b
      /\ \A d \in Client, j \in Id : d # c \/ j # i => jobs'[d][j] = jobs[d][j]
  BY <1>3, <1>7, <1>8
<1>10. pump' \in [Client -> {"idle", "connected", "redeeming"}]
       /\ \A d \in Client : clearing[d] # "no" => pump'[d] = pump[d]
  BY <1>3, <1>8
<1>11. UNCHANGED <<session, record, bound, seen, tab, clicks, marker>>
  BY DEF diskVars, tabVars
<1>12. CalmRecords
  BY <1>11, StillParts
<1>13. ASSUME NEW d \in Client, NEW j \in Id
       PROVE  /\ jobs[d][j].lease # NoLease => jobs[d][j].lease # issued + 1
              /\ jobs[d][j].phase = "none" => jobs[d][j] = NoLaunch
              /\ jobs[d][j].phase # "none" => jobs[d][j].lease \in 1 .. issued
  <2>1. /\ jobs[d][j].phase = "none" => jobs[d][j] = NoLaunch
        /\ jobs[d][j].phase # "none" => jobs[d][j].lease \in 1 .. issued
    BY DEF PumpInv, JobLeases
  <2>2. NoLaunch.lease = NoLease
    BY DEF NoLaunch
  <2> QED BY <1>5, <2>1, <2>2
<1>14. JobLeases'
  <2>1. ASSUME NEW d \in Client, NEW j \in Id
        PROVE  /\ jobs'[d][j].phase = "none" => jobs'[d][j] = NoLaunch
               /\ jobs'[d][j].phase # "none" => jobs'[d][j].lease \in 1 .. issued'
               /\ jobs'[d][j].phase \in Beyond => grants'[j] # {}
               /\ jobs'[d][j].phase = "offered" /\ jobs'[d][j].reconcile => grants'[j] # {}
    <3>1. CASE d = c /\ j = i
      BY <1>4, <1>5, <1>6, <1>9, <3>1 DEF Beyond
    <3>2. CASE d # c \/ j # i
      <4>1. /\ jobs[d][j].phase \in Beyond => grants[j] # {}
            /\ jobs[d][j].phase = "offered" /\ jobs[d][j].reconcile => grants[j] # {}
        BY DEF PumpInv, JobLeases
      <4>2. jobs[d][j].lease \in 1 .. issued => jobs[d][j].lease \in 1 .. issued'
        BY <1>5
      <4> QED BY <1>9, <1>13, <3>2, <4>1, <4>2
    <3> QED BY <3>1, <3>2
  <2>2. ASSUME NEW d1 \in Client, NEW d2 \in Client, NEW j1 \in Id, NEW j2 \in Id,
               jobs'[d1][j1].lease # NoLease, jobs'[d1][j1].lease = jobs'[d2][j2].lease
        PROVE  d1 = d2 /\ j1 = j2
    <3>1. issued + 1 # NoLease
      BY <1>5 DEF NoLease
    <3>2. /\ jobs'[d1][j1].lease = issued + 1 <=> d1 = c /\ j1 = i
          /\ jobs'[d2][j2].lease = issued + 1 <=> d2 = c /\ j2 = i
      BY <1>6, <1>9, <1>13, <2>2, <3>1
    <3>3. CASE jobs'[d1][j1].lease = issued + 1
      BY <2>2, <3>2, <3>3
    <3>4. CASE jobs'[d1][j1].lease # issued + 1
      <4>1. jobs'[d1][j1] = jobs[d1][j1] /\ jobs'[d2][j2] = jobs[d2][j2]
        BY <1>9, <2>2, <3>2, <3>4
      <4> QED BY <2>2, <4>1 DEF PumpInv, JobLeases
    <3> QED BY <3>3, <3>4
  <2> QED BY <2>1, <2>2, GrantedLeases DEF JobLeases
<1>15. OneRight'
  <2>1. NoneApproaches
    <3>1. ASSUME NEW d \in Client, NEW j \in Id,
                 InPhase(d, j, Approaching)', jobs'[d][j].lease \in grants'[j]
          PROVE  InPhase(d, j, Approaching) /\ jobs'[d][j].lease = jobs[d][j].lease
      <4>1. jobs'[d][j].lease # issued + 1
        <5>1. jobs'[d][j].lease \in Nat /\ jobs'[d][j].lease <= issued
          BY <1>5, <3>1 DEF PumpInv, JobLeases, IInv, TypeOK, LeaseId
        <5> QED BY <1>5, <5>1
      <4>2. d # c \/ j # i
        BY <1>6, <1>9, <4>1
      <4> QED BY <1>9, <3>1, <4>2 DEF InPhase
    <3> QED BY <3>1 DEF NoneApproaches
  <2>2. ASSUME NEW d \in Client, NEW j \in Id
        PROVE  /\ Live(d, j)' => Live(d, j)
               /\ Sending(d, j)' => tab'[d][j] # "pending" /\ clicks'[d][j] = 0
               /\ tab'[d][j] = "pending" => clicks'[d][j] = 0
               /\ clicks'[d][j] <= 1
               /\ InPhase(d, j, {"synced"})' => ~jobs'[d][j].found
    <3>1. Sending(d, j)' => Sending(d, j)
      BY <1>6, <1>9 DEF Sending, InPhase
    <3>2. InPhase(d, j, {"synced"})' => ~jobs'[d][j].found
      BY <1>6, <1>9 DEF InPhase, PumpInv, OneRight
    <3> QED BY <1>11, <3>1, <3>2 DEF Live, PumpInv, OneRight
  <2> QED BY <2>1, <2>2, RightMoves
<1>16. SilenceStays
  <2>1. \A d \in Client, j \in Id : Quiet(d, j) => Quiet(d, j)'
    BY <1>6, <1>9 DEF Quiet, InPhase
  <2> QED BY <1>11, <2>1, GoneStays DEF StoreGoes, SilenceStays, Silent
<1>17. ClearingIsQuiet'
  <2>1. clearing' = clearing
    BY DEF resetVars
  <2>2. ASSUME NEW d \in Client, clearing[d] # "no"
        PROVE  /\ pump'[d] = "idle"
               /\ \A j \in Id : InPhase(d, j, {"none", "abandoned"})'
               /\ clearing[d] = "posted" => \A j \in Id : tab'[d][j] # "pending"
    BY <1>8, <1>9, <1>10, <1>11, <2>2 DEF PumpInv, ClearingIsQuiet, InPhase
  <2> QED BY <2>1, <2>2 DEF ClearingIsQuiet
<1>18. AttemptsOK'
  <2>1. ASSUME NEW d \in Client, NEW j \in Id, InPhase(d, j, Approaching \cup Beyond)'
        PROVE  InPhase(d, j, Approaching \cup Beyond) \/ record'[d][j] < MaxAttempts
    <3>1. CASE d # c \/ j # i
      BY <1>9, <2>1, <3>1 DEF InPhase
    <3>2. CASE d = c /\ j = i
      <4>1. b.phase = "offered"
        BY <1>6, <1>9, <2>1, <3>2 DEF InPhase, Approaching, Beyond
      <4>2. CASE w.history
        BY <1>6, <1>11, <3>2, <4>1, <4>2 DEF PumpInv, AttemptsOK
      <4>3. CASE ~w.history
        <5>1. record[c][i] \in NoRecord .. MaxAttempts /\ ~(record[c][i] > 0)
          BY <1>4, <4>3 DEF PumpInv, PumpShape, AttemptsOK
        <5> QED BY <1>11, <3>2, <5>1, PumpAssumption DEF NoRecord
      <4> QED BY <4>2, <4>3
    <3> QED BY <3>1, <3>2
  <2> QED BY <1>12, <2>1, AttemptsMove
<1>19. /\ RequestsOK'
       /\ \A m \in requests' : m \in requests \/ (m.from \in paired /\ m.kind # "resetAck")
  <2>1. PICK r : r = Request("ack", c, i, issued + 1, "paused")
    OBVIOUS
  <2>2. r.kind = "ack" /\ r.from = c /\ r.id = i /\ r.lease = issued + 1 /\ r.arg = "paused"
    BY <2>1 DEF Request
  <2>3. RequestOK(r)'
    <3>1. r.lease \in 1 .. issued'
      BY <1>5, <2>2
    <3> QED BY <2>2, <3>1 DEF RequestOK
  <2>4. ASSUME NEW m, RequestOK(m) PROVE RequestOK(m)'
    BY <1>5, <1>11, <2>4 DEF RequestOK, hostVars
  <2>5. \A m \in requests' : m \in requests \/ (m = r /\ c \in paired)
    BY <2>1
  <2> QED BY <2>2, <2>3, <2>4, <2>5 DEF PumpInv, RequestsOK
<1>20. /\ tab' \in [Client -> [Id -> {"none", "ready", "pending", "sent"}]]
       /\ clicks' \in [Client -> [Id -> Nat]]
       /\ marker' \subseteq Id /\ marker \subseteq marker' /\ faults' \in 0 .. MaxFaults
  BY <1>11 DEF PumpInv, PumpShape
<1> QED
  BY <1>9, <1>10, <1>11, <1>12, <1>14, <1>15, <1>16, <1>17, <1>18, <1>19, <1>20, HostStays

LEMMA HandleRedeemStep ==
  ASSUME PumpInv, NEW c \in Client, NEW e \in SUBSET Anchors, HandleRedeem(c, e)
  PROVE  PumpInv'
<1>1. Redeem(c, e) /\ UNCHANGED <<hostVars, diskVars, resetVars, tabVars, faults>>
  BY DEF HandleRedeem
<1>2. StoreGoes
  BY <1>1, RedeemStore
<1>3. /\ grants' = grants
      /\ \A i \in Id : commands'[i].lease = issued + 1 =>
           issued' = issued + 1 /\ commands'[i].state = "Leased"
  BY <1>1, RedeemGoes DEF PumpInv
<1>4. CASE \E i \in Id : /\ commands'[i].lease = issued + 1
                         /\ pump[c] = "redeeming" /\ Offered(c, i) /\ UNCHANGED session
                         /\ \A m \in requests' :
                              m \in requests \/ (m = Request("ack", c, i, issued + 1, "paused")
                                                 /\ c \in paired)
  BY <1>1, <1>2, <1>3, <1>4, OfferStep
<1>5. CASE /\ requests' \subseteq requests /\ pump' = [pump EXCEPT ![c] = "idle"]
           /\ UNCHANGED <<jobs, session>>
  BY <1>1, <1>2, <1>5, LostOfferStep
<1> QED
  BY <1>4, <1>5 DEF HandleRedeem

-----------------------------------------------------------------------------
(* Crossing the boundary.                                                  *)

\* The answer is heard by the job that asked.
LEMMA GrantedStep ==
  ASSUME PumpInv, StoreGoes, NEW c \in Client, NEW i \in Id,
         InPhase(c, i, {"asking", "askingAgain"}), JobTo(c, i, "granted"),
         jobs[c][i].lease \in grants'[i], \A l \in grants'[i] : l = jobs[c][i].lease,
         \A j \in Id \ {i} : grants'[j] = grants[j],
         \A d \in Client : ~Live(d, i), ~Gone(i), requests' \subseteq requests,
         UNCHANGED <<hostVars, pump, session, diskVars, resetVars, tabVars, faults>>
  PROVE  PumpInv'
<1>1. PICK a, b \in Job :
        /\ a = jobs[c][i] /\ jobs' = [jobs EXCEPT ![c][i] = b]
        /\ b = [phase |-> "granted", lease |-> a.lease, reconcile |-> a.reconcile,
                existing |-> a.existing, found |-> a.found]
  <2>1. "granted" \in Phase
    BY DEF Phase
  <2> QED BY <2>1, JobToFields
<1>2. b.phase = "granted" /\ b.lease = a.lease
  BY <1>1
<1>3. /\ jobs' \in [Client -> [Id -> Job]] /\ jobs'[c][i] = b
      /\ \A d \in Client, j \in Id : d # c \/ j # i => jobs'[d][j] = jobs[d][j]
  BY <1>1 DEF PumpInv, PumpShape
<1>4. UNCHANGED <<session, record, bound, seen, tab, clicks, marker>>
  BY DEF diskVars, tabVars
<1>5. a.lease \in 1 .. issued
  BY <1>1, LeaseOfJob DEF InPhase
<1>6. issued \in Nat /\ issued' \in Nat /\ issued <= issued'
  BY DEF StoreGoes, BrokerGoes
<1>7. CalmRecords /\ CalmPump
  BY <1>4, StillParts
<1>8. \A d \in Client, j \in Id : jobs'[d][j].lease = jobs[d][j].lease
  BY <1>1, <1>2, <1>3
<1>9. JobLeases'
  <2>1. ASSUME NEW d \in Client, NEW j \in Id
        PROVE  /\ jobs'[d][j].phase = "none" => jobs'[d][j] = NoLaunch
               /\ jobs'[d][j].phase # "none" => jobs'[d][j].lease \in 1 .. issued'
               /\ jobs'[d][j].phase \in Beyond => grants'[j] # {}
               /\ jobs'[d][j].phase = "offered" /\ jobs'[d][j].reconcile => grants'[j] # {}
    <3>1. CASE d = c /\ j = i
      <4>1. a.lease \in 1 .. issued'
        BY <1>5, <1>6
      <4> QED BY <1>2, <1>3, <3>1, <4>1
    <3>2. CASE d # c \/ j # i
      <4>1. /\ jobs[d][j].phase = "none" => jobs[d][j] = NoLaunch
            /\ jobs[d][j].phase # "none" => jobs[d][j].lease \in 1 .. issued
            /\ jobs[d][j].phase \in Beyond => grants[j] # {}
            /\ jobs[d][j].phase = "offered" /\ jobs[d][j].reconcile => grants[j] # {}
        BY DEF PumpInv, JobLeases
      <4>2. jobs[d][j].lease \in 1 .. issued => jobs[d][j].lease \in 1 .. issued'
        BY <1>6
      <4>3. grants[j] # {} => grants'[j] # {}
        BY DEF StoreGoes, GrantsGo
      <4> QED BY <1>3, <3>2, <4>1, <4>2, <4>3
    <3> QED BY <3>1, <3>2
  <2>2. ASSUME NEW d1 \in Client, NEW d2 \in Client, NEW j1 \in Id, NEW j2 \in Id,
               jobs'[d1][j1].lease # NoLease, jobs'[d1][j1].lease = jobs'[d2][j2].lease
        PROVE  d1 = d2 /\ j1 = j2
    <3>1. jobs[d1][j1].lease # NoLease /\ jobs[d1][j1].lease = jobs[d2][j2].lease
      BY <1>8, <2>2
    <3> QED BY <3>1 DEF PumpInv, JobLeases
  <2> QED BY <2>1, <2>2, GrantedLeases DEF JobLeases
<1>10. ASSUME NEW d \in Client, NEW j \in Id, d # c \/ j # i
       PROVE  Live(d, j)' <=> Live(d, j)
  BY <1>3, <1>4, <1>10 DEF Live, Sending, InPhase
<1>11. OneRight'
  <2>1. ASSUME NEW d \in Client, NEW j \in Id
        PROVE  /\ InPhase(d, j, {"synced"})' => ~jobs'[d][j].found
               /\ Sending(d, j)' => tab'[d][j] # "pending" /\ clicks'[d][j] = 0
               /\ tab'[d][j] = "pending" => clicks'[d][j] = 0
               /\ clicks'[d][j] <= 1
    <3>1. tab'[d][j] = tab[d][j] /\ clicks'[d][j] = clicks[d][j] /\ clicks[d][j] \in Nat
      BY <1>4 DEF PumpInv, PumpShape
    <3>2. /\ InPhase(d, j, {"synced"}) => ~jobs[d][j].found
          /\ Sending(d, j) => tab[d][j] # "pending" /\ clicks[d][j] = 0
          /\ tab[d][j] = "pending" => clicks[d][j] = 0
          /\ clicks[d][j] <= 1
      BY DEF PumpInv, OneRight
    <3>3. CASE d = c /\ j = i
      <4>1. tab[d][j] # "pending" /\ ~(clicks[d][j] > 0)
        BY <3>3 DEF Live
      <4> QED BY <1>2, <1>3, <3>1, <3>2, <3>3, <4>1 DEF InPhase
    <3>4. CASE d # c \/ j # i
      BY <1>3, <3>1, <3>2, <3>4 DEF InPhase, Sending
    <3> QED BY <3>3, <3>4
  <2>2. ASSUME NEW d \in Client, NEW j \in Id, Live(d, j)'
        PROVE  grants'[j] # {} /\ \A f \in Client : Live(f, j)' => f = d
    <3>1. CASE j = i
      <4>1. \A f \in Client : Live(f, i)' => f = c
        BY <1>10
      <4> QED BY <2>2, <3>1, <4>1
    <3>2. CASE j # i
      <4>1. Live(d, j) /\ \A f \in Client : Live(f, j)' => Live(f, j)
        BY <1>10, <2>2, <3>2
      <4> QED BY <3>2, <4>1 DEF PumpInv, OneRight
    <3> QED BY <3>1, <3>2
  <2>3. ASSUME NEW d \in Client, NEW j \in Id,
               InPhase(d, j, Approaching)', jobs'[d][j].lease \in grants'[j]
        PROVE  \A f \in Client : ~Live(f, j)'
    <3>1. d # c \/ j # i
      BY <1>2, <1>3, <2>3 DEF InPhase, Approaching
    <3>2. CASE j = i
      <4>1. jobs[d][j].lease = jobs[c][i].lease /\ jobs[c][i].lease # NoLease
        BY <1>1, <1>5, <1>6, <1>8, <2>3, <3>2 DEF NoLease
      <4>2. FALSE
        BY <3>1, <4>1 DEF PumpInv, JobLeases
      <4> QED BY <4>2
    <3>3. CASE j # i
      <4>1. InPhase(d, j, Approaching) /\ jobs[d][j].lease \in grants[j]
        BY <1>3, <1>8, <2>3, <3>3 DEF InPhase
      <4>2. \A f \in Client : ~Live(f, j)
        BY <4>1 DEF PumpInv, OneRight
      <4> QED BY <1>10, <3>3, <4>2
    <3> QED BY <3>2, <3>3
  <2> QED BY <2>1, <2>2, <2>3 DEF OneRight
<1>12. SilenceStays
  <2>1. ASSUME NEW j \in Id, Gone(j), NEW d \in Client
        PROVE  Quiet(d, j) => Quiet(d, j)'
    BY <1>3, <2>1 DEF Quiet, InPhase
  <2> QED BY <1>4, <2>1, GoneStays DEF StoreGoes, SilenceStays, Silent
<1>13. ClearingIsQuiet'
  <2>1. clearing' = clearing /\ clearing[c] = "no"
    BY DEF resetVars, PumpInv, ClearingIsQuiet, InPhase
  <2>2. ASSUME NEW d \in Client, clearing[d] # "no"
        PROVE  /\ pump'[d] = "idle"
               /\ \A j \in Id : InPhase(d, j, {"none", "abandoned"})'
               /\ clearing[d] = "posted" => \A j \in Id : tab'[d][j] # "pending"
    BY <1>3, <1>4, <2>1, <2>2 DEF PumpInv, ClearingIsQuiet, InPhase
  <2> QED BY <2>1, <2>2 DEF ClearingIsQuiet
<1>14. AttemptsOK'
  <2>1. InPhase(c, i, Approaching \cup Beyond)
    BY DEF InPhase, Approaching
  <2>2. ASSUME NEW d \in Client, NEW j \in Id, InPhase(d, j, Approaching \cup Beyond)'
        PROVE  InPhase(d, j, Approaching \cup Beyond)
    BY <1>3, <2>1, <2>2 DEF InPhase
  <2> QED BY <1>7, <2>2, AttemptsMove
<1>15. /\ RequestsOK'
       /\ \A m \in requests' : m \in requests
  <2>1. epoch' = epoch /\ epoch \in Nat
    BY DEF PumpInv, PumpShape, hostVars
  <2> QED BY <1>4, <2>1, CalmAsking
<1>16. /\ tab' \in [Client -> [Id -> {"none", "ready", "pending", "sent"}]]
       /\ clicks' \in [Client -> [Id -> Nat]]
       /\ pump' \in [Client -> {"idle", "connected", "redeeming"}]
       /\ marker' \subseteq Id /\ marker \subseteq marker' /\ faults' \in 0 .. MaxFaults
  BY <1>4 DEF PumpInv, PumpShape
<1> QED
  BY <1>3, <1>4, <1>7, <1>9, <1>11, <1>12, <1>13, <1>14, <1>15, <1>16, HostStays

\* The answer was lost, or nobody waits for it, or it is a refusal.
LEMMA UnheardStep ==
  ASSUME PumpInv, StoreGoes, NEW c \in Client, NEW i \in Id,
         JobOver(c, i) \/ UNCHANGED jobs, requests' \subseteq requests,
         UNCHANGED <<hostVars, pump, session, diskVars, resetVars, tabVars, faults>>
  PROVE  PumpInv'
<1>1. CalmJobs
  BY OverIsCalm, StillCalm
<1>2. UNCHANGED <<session, record, bound, seen, tab, clicks, marker>>
  BY DEF diskVars, tabVars
<1> QED
  BY <1>1, <1>2, CalmStep, StillParts

LEMMA HandleSendStartedStep ==
  ASSUME PumpInv, NEW m \in requests, HandleSendStarted(m)
  PROVE  PumpInv'
<1>1. PICK c, i, l : c = m.from /\ i = m.id /\ l = m.lease
  OBVIOUS
<1>2. c \in Client /\ i \in Id /\ l \in 1 .. issued
  BY <1>1 DEF HandleSendStarted, PumpInv, RequestsOK, RequestOK
<1>3. l \in LeaseId
  BY <1>2, ConstantsOK DEF PumpInv, IInv, TypeOK, LeaseId
<1>4. /\ requests' \subseteq requests
      /\ UNCHANGED <<hostVars, pump, session, diskVars, resetVars, tabVars, faults>>
  BY DEF HandleSendStarted
<1>5. CASE MarkSendStarted(i, l, c)
  <2>1. /\ BrokerGoes(marker)
        /\ issued' = issued
        /\ grants[i] = {} /\ grants'[i] = {l}
        /\ \A j \in Id \ {i} : grants'[j] = grants[j]
    BY <1>2, <1>5, MarkGoes DEF PumpInv
  <2>2. Next
    BY <1>2, <1>3, <1>5 DEF Next, Browser
  <2>3. IInv'
    BY <2>2, IInvStep DEF PumpInv
  <2>4. GrantsGo
    <3>1. ASSUME NEW j \in Id
          PROVE  /\ grants'[j] = grants[j] \/ grants[j] = {}
                 /\ \A x \in grants'[j] : x <= issued'
      BY <1>2, <2>1 DEF PumpInv, JobLeases
    <3> QED BY <3>1 DEF GrantsGo
  <2>5. StoreGoes
    BY <2>1, <2>3, <2>4 DEF StoreGoes
  <2>6. ~Gone(i)
    BY <1>5 DEF MarkSendStarted, Gone
  <2>7. \A d \in Client : ~Live(d, i)
    BY <1>2, <2>1 DEF PumpInv, OneRight
  <2>8. CASE InPhase(c, i, {"asking", "askingAgain"}) /\ jobs[c][i].lease = l /\ JobTo(c, i, "granted")
    BY <1>2, <1>4, <2>1, <2>5, <2>6, <2>7, <2>8, GrantedStep
  <2>9. CASE JobOver(c, i) \/ UNCHANGED jobs
    BY <1>2, <1>4, <2>5, <2>9, UnheardStep
  <2>10. \/ (InPhase(c, i, {"asking", "askingAgain"}) /\ jobs[c][i].lease = l /\ JobTo(c, i, "granted"))
         \/ JobOver(c, i) \/ UNCHANGED jobs
    BY <1>1, <1>5 DEF HandleSendStarted, Awaiting, MarkSendStarted
  <2> QED BY <2>8, <2>9, <2>10
<1>6. CASE UNCHANGED vars
  <2>1. StoreGoes /\ grants' = grants
    BY <1>6, StoreStill DEF vars
  <2>2. CASE /\ commands[i].state = "SendStarted" /\ HoldsLease(i, l, c)
             /\ InPhase(c, i, {"asking", "askingAgain"}) /\ jobs[c][i].lease = l
             /\ JobTo(c, i, "granted")
    <3>1. l \in grants[i] /\ \A x \in grants[i] : x = l
      BY <1>2, <2>2 DEF HoldsLease, PumpInv, JobLeases, IInv, SendGrantedAtMostOnce
    <3>2. ~Gone(i)
      BY <2>2 DEF Gone
    <3>3. \A d \in Client : ~Live(d, i)
      <4>1. InPhase(c, i, Approaching)
        BY <2>2 DEF InPhase, Approaching
      <4> QED BY <1>2, <2>2, <3>1, <4>1 DEF PumpInv, OneRight
    <3> QED BY <1>2, <1>4, <2>1, <2>2, <3>1, <3>2, <3>3, GrantedStep
  <2>3. CASE JobOver(c, i) \/ UNCHANGED jobs
    BY <1>2, <1>4, <2>1, <2>3, UnheardStep
  <2>4. CASE ~(JobOver(c, i) \/ UNCHANGED jobs)
    <3>1. ~MarkSendStarted(i, l, c)
      <4>1. ASSUME MarkSendStarted(i, l, c) PROVE grants[i] = {} /\ grants'[i] = {l}
        BY <1>2, <4>1, MarkGoes DEF PumpInv
      <4> QED BY <2>1, <4>1
    <3> QED BY <1>1, <2>2, <2>4, <3>1 DEF HandleSendStarted, Awaiting
  <2> QED BY <2>3, <2>4
<1> QED
  BY <1>1, <1>5, <1>6 DEF HandleSendStarted

-----------------------------------------------------------------------------
(* Acknowledgements, leases and the host's own steps.                      *)

LEMMA AckStore ==
  ASSUME PumpInv, NEW m \in requests, HandleAck(m)
  PROVE  StoreGoes /\ [Next]_vars /\ UNCHANGED grants
<1>1. PICK c, i, l : c = m.from /\ i = m.id /\ l = m.lease
  OBVIOUS
<1>2. /\ c \in Client /\ i \in Id /\ l \in 1 .. issued
      /\ m.arg \in {"succeeded", "failed", "needs_reconcile", "paused"}
      /\ m.arg = "succeeded" => i \in marker
  BY <1>1 DEF HandleAck, PumpInv, RequestsOK, RequestOK
<1>3. l \in LeaseId
  BY <1>2, ConstantsOK DEF PumpInv, IInv, TypeOK, LeaseId
<1>4. commands[i].history \in BOOLEAN
  BY <1>2 DEF PumpInv, IInv, TypeOK, Command
<1>5. CASE AckApplies(m)
  <2>1. CASE m.arg = "succeeded"
    <3>1. PICK conv \in Conv : AckSucceeded(i, l, c, conv)
      BY <1>1, <1>5, <2>1 DEF AckApplies
    <3>2. Acknowledge(i, l, c, "Succeeded", commands[i].history, conv) /\ i \in marker
      BY <1>2, <2>1, <3>1 DEF AckSucceeded
    <3>3. BrokerGoes(marker)
      BY <1>2, <1>4, <3>2, AckFades DEF PumpInv
    <3>4. Next /\ grants' = grants
      BY <1>2, <1>3, <3>1, <3>2 DEF Next, Browser, Acknowledge, Become
    <3> QED BY <3>3, <3>4, StoreStep
  <2>2. CASE m.arg = "failed"
    <3>1. AckFailed(i, l, c)
      BY <1>1, <1>5, <2>2 DEF AckApplies
    <3>2. Acknowledge(i, l, c, "Failed", FALSE, NoConv)
      BY <3>1 DEF AckFailed
    <3>3. BrokerGoes(marker)
      <4>1. /\ "Failed" \notin {"SendStarted"} /\ FALSE \in BOOLEAN
            /\ "Failed" = "Succeeded" => i \in marker
        OBVIOUS
      <4>2. IInv
        BY DEF PumpInv
      <4> QED BY <1>2, <3>2, <4>1, <4>2, AckFades, Zenon
    <3>4. Next /\ grants' = grants
      BY <1>2, <1>3, <3>1, <3>2 DEF Next, Browser, Acknowledge, Become
    <3> QED BY <3>3, <3>4, StoreStep
  <2>3. CASE m.arg = "needs_reconcile"
    <3>1. AckNeedsReconcile(i, l, c)
      BY <1>1, <1>5, <2>3 DEF AckApplies
    <3>2. Acknowledge(i, l, c, "NeedsReconcile", TRUE, NoConv)
      BY <3>1 DEF AckNeedsReconcile
    <3>3. BrokerGoes(marker)
      <4>1. /\ "NeedsReconcile" \notin {"SendStarted"} /\ TRUE \in BOOLEAN
            /\ "NeedsReconcile" = "Succeeded" => i \in marker
        OBVIOUS
      <4>2. IInv
        BY DEF PumpInv
      <4> QED BY <1>2, <3>2, <4>1, <4>2, AckFades, Zenon
    <3>4. Next /\ grants' = grants
      BY <1>2, <1>3, <3>1, <3>2 DEF Next, Browser, Acknowledge, Become
    <3> QED BY <3>3, <3>4, StoreStep
  <2>4. CASE m.arg = "paused"
    <3>1. AckPaused(i, l, c)
      BY <1>1, <1>5, <2>4 DEF AckApplies
    <3>2. Acknowledge(i, l, c, "Paused", TRUE, NoConv)
      BY <3>1 DEF AckPaused
    <3>3. BrokerGoes(marker)
      <4>1. /\ "Paused" \notin {"SendStarted"} /\ TRUE \in BOOLEAN
            /\ "Paused" = "Succeeded" => i \in marker
        OBVIOUS
      <4>2. IInv
        BY DEF PumpInv
      <4> QED BY <1>2, <3>2, <4>1, <4>2, AckFades, Zenon
    <3>4. Next /\ grants' = grants
      BY <1>2, <1>3, <3>1, <3>2 DEF Next, Browser, Acknowledge, Become
    <3> QED BY <3>3, <3>4, StoreStep
  <2> QED BY <1>2, <2>1, <2>2, <2>3, <2>4
<1>6. CASE UNCHANGED vars
  BY <1>6, StoreStill DEF vars
<1> QED
  BY <1>5, <1>6 DEF HandleAck

LEMMA HandleAckStep ==
  ASSUME PumpInv, NEW m \in requests, HandleAck(m)
  PROVE  PumpInv'
<1>1. StoreGoes
  BY AckStore
<1>2. PICK c, i : c = m.from /\ i = m.id
  OBVIOUS
<1>3. c \in Client /\ i \in Id
  BY <1>2 DEF HandleAck, PumpInv, RequestsOK, RequestOK
<1>4. /\ requests' \subseteq requests
      /\ UNCHANGED <<hostVars, record, bound, seen, resetVars, tab, clicks, marker, faults>>
  BY DEF HandleAck, diskVars, tabVars
<1>5. CASE /\ JobOver(c, i) /\ UNCHANGED pump
           /\ session' = session \/ session' = [session EXCEPT ![c] = @ \ {i}]
  <2>1. CalmJobs
    BY <1>3, <1>5, OverIsCalm
  <2>2. CalmRecords
    <3>1. /\ session \in [Client -> SUBSET Id] /\ bound \in [Client -> SUBSET Id]
          /\ record \in [Client -> [Id -> NoRecord .. MaxAttempts]]
      BY DEF PumpInv, PumpShape
    <3>2. /\ session' \in [Client -> SUBSET Id]
          /\ \A d \in Client : session'[d] \subseteq session[d]
      <4>1. CASE session' = session
        BY <3>1, <4>1
      <4>2. CASE session' = [session EXCEPT ![c] = @ \ {i}]
        BY <3>1, <4>2
      <4> QED BY <1>5, <4>1, <4>2
    <3> QED BY <1>4, <3>1, <3>2 DEF CalmRecords
  <2> QED BY <1>1, <1>4, <1>5, <2>1, <2>2, CalmStep, StillParts
<1>6. CASE /\ jobs' = [jobs EXCEPT ![c] = Idle] /\ pump' = [pump EXCEPT ![c] = "idle"]
           /\ UNCHANGED session
  <2>1. CalmJobs
    BY <1>3, <1>6, IdleIsCalm
  <2>2. CalmPump
    BY <1>3, <1>6 DEF PumpInv, PumpShape, ClearingIsQuiet, CalmPump
  <2> QED BY <1>1, <1>4, <1>6, <2>1, <2>2, CalmStep, StillParts
<1>7. CASE UNCHANGED <<jobs, session, pump>>
  BY <1>1, <1>4, <1>7, CalmStep, StillParts
<1> QED
  BY <1>2, <1>5, <1>6, <1>7 DEF HandleAck

\* Steps of the store that no browser takes part in.
LEMMA StoreOnly ==
  ASSUME PumpInv, Next, BrokerGoes(marker), UNCHANGED grants, Fault \/ UNCHANGED faults,
         UNCHANGED <<hostVars, requests, jobVars, diskVars, resetVars, tabVars>>
  PROVE  PumpInv'
<1>1. StoreGoes
  BY StoreStep
<1>2. UNCHANGED <<jobs, pump, session, record, bound, seen, tab, clicks, marker>>
  BY DEF jobVars, diskVars, tabVars
<1> QED
  BY <1>1, <1>2, CalmStep, StillParts

LEMMA ExpireStep ==
  ASSUME PumpInv, NEW i \in Id, Expire(i)
  PROVE  PumpInv'
<1>1. LeaseExpires(i) /\ Next /\ grants' = grants
  BY DEF Expire, Next, Browser, LeaseExpires, Become
<1>2. BrokerGoes(marker)
  BY <1>1, ExpiryFades DEF PumpInv
<1> QED
  BY <1>1, <1>2, StoreOnly DEF Expire

LEMMA WorkerStartsStep ==
  ASSUME PumpInv, NEW k \in Key, NEW conv \in Conv, WorkerStarts(k, conv)
  PROVE  PumpInv'
<1>1. ConfirmWorkerStarted(k, conv) /\ dedupe[k] \in marker /\ UNCHANGED pumpVars
  BY DEF WorkerStarts
<1>2. Next /\ grants' = grants
  BY <1>1 DEF Next, Host, ConfirmWorkerStarted, Become
<1>3. BrokerGoes(marker)
  BY <1>1, ConfirmFades DEF PumpInv
<1> QED
  BY <1>1, <1>2, <1>3, StoreOnly DEF pumpVars

LEMMA HostStepStep ==
  ASSUME PumpInv, HostStep
  PROVE  PumpInv'
<1>1. UNCHANGED pumpVars
  BY DEF HostStep
<1>2. ASSUME NEW k \in Key, NEW r \in Client \cup {NoClient}, EnqueueHeld(k, r) PROVE PumpInv'
  <2>1. Next /\ grants' = grants
    BY <1>2 DEF Next, Host, EnqueueHeld
  <2>2. BrokerGoes(marker)
    BY <1>2, EnqueueFades DEF PumpInv
  <2> QED BY <1>1, <2>1, <2>2, StoreOnly DEF pumpVars
<1>3. ASSUME NEW i \in Id, ActivateDispatch(i) PROVE PumpInv'
  <2>1. Next /\ grants' = grants
    BY <1>3 DEF Next, Host, ActivateDispatch, Become
  <2>2. BrokerGoes(marker)
    BY <1>3, ExpiryFades DEF PumpInv
  <2> QED BY <1>1, <2>1, <2>2, StoreOnly DEF pumpVars
<1>4. ASSUME NEW k \in Key, SettleForWorkerRetire(k) PROVE PumpInv'
  <2>1. RemoveCommands({dedupe[k]})
    BY <1>4 DEF SettleForWorkerRetire, CancelPreSend
  <2>2. Next /\ grants' = grants
    BY <1>4, <2>1 DEF Next, Host, RemoveCommands
  <2>3. BrokerGoes(marker)
    BY <2>1, RemovalFades DEF PumpInv
  <2> QED BY <1>1, <2>2, <2>3, StoreOnly DEF pumpVars
<1>5. ASSUME NEW k \in Key, FenceUnclaimedAfterSend(k) PROVE PumpInv'
  <2>1. Next /\ grants' = grants
    BY <1>5 DEF Next, Host, FenceUnclaimedAfterSend, Become
  <2>2. BrokerGoes(marker)
    BY <1>5, FenceFades DEF PumpInv
  <2> QED BY <1>1, <2>1, <2>2, StoreOnly DEF pumpVars
<1> QED
  BY <1>2, <1>3, <1>4, <1>5 DEF HostStep

-----------------------------------------------------------------------------
(* Resets.                                                                 *)

\* What is left to show of a step in which jobs, tabs and records are calm.
LEMMA ResetStays ==
  ASSUME PumpInv, StoreGoes, CalmJobs, CalmTabs, CalmRecords, UNCHANGED <<clicks, marker>>,
         pump' \in [Client -> {"idle", "connected", "redeeming"}],
         RequestsOK', RevokedOut', ClearingIsQuiet', ClearIsSound', FencedIsSilent',
         paired' \subseteq Client, awaited' \subseteq paired', epoch' \in 0 .. MaxEpoch,
         clear'.by \in Client \cup {NoClient}, clear'.covers \subseteq Client \X Id,
         seen' \in [Client -> 0 .. epoch'], resetting' \in [Client -> 0 .. epoch'],
         clearing' \in [Client -> {"no", "tabs", "posted"}], fenced' \subseteq Client \X Id,
         Fault \/ UNCHANGED faults
  PROVE  PumpInv'
<1>1. faults' \in 0 .. MaxFaults
  BY StillParts
<1>2. PumpShape'
  BY <1>1 DEF PumpInv, PumpShape, CalmJobs, CalmTabs, CalmRecords
<1>3. IInv'
  BY DEF StoreGoes
<1> QED
  BY <1>2, <1>3, CalmLeases, CalmRight, CalmAttempts, CalmSuccess DEF PumpInv

\* A clear that goes on stays sound if every browser that newly confirms it is
\* silent.
LEMMA ClearMoves ==
  ASSUME PumpInv, SilenceStays, UNCHANGED <<epoch, clear>>,
         ASSUME NEW c \in Client, NEW i \in Id, epoch > 0,
                Quiet(c, i) => Quiet(c, i)', Silent(c, i) => Silent(c, i)',
                resetting[c] = epoch => Quiet(c, i),
                seen[c] = epoch => Silent(c, i)
         PROVE  /\ resetting'[c] = epoch => resetting[c] = epoch \/ Quiet(c, i)'
                /\ seen'[c] = epoch => seen[c] = epoch \/ Silent(c, i)'
                /\ \A m \in requests' : m.kind = "resetAck" /\ m.from = c /\ m.arg = epoch =>
                     m \in requests \/ Silent(c, i)',
         \A c \in Client : c \notin awaited' => c \notin awaited
           \/ \E m \in requests : m.kind = "resetAck" /\ m.from = c /\ m.arg = epoch
  PROVE  ClearIsSound'
<1>1. ASSUME clear # NoClear, NEW p \in clear.covers
      PROVE  /\ Gone(p[2])'
             /\ p[1] # clear.by =>
                  /\ resetting'[p[1]] = epoch => Quiet(p[1], p[2])'
                  /\ seen'[p[1]] = epoch => Silent(p[1], p[2])'
                  /\ p[1] \notin awaited' => Silent(p[1], p[2])'
                  /\ \A m \in requests' :
                       m.kind = "resetAck" /\ m.from = p[1] /\ m.arg = epoch =>
                         Silent(p[1], p[2])'
  <2>1. p[1] \in Client /\ p[2] \in Id
    BY <1>1 DEF PumpInv, PumpShape
  <2>2. /\ Gone(p[2]) /\ epoch > 0
        /\ p[1] # clear.by =>
             /\ resetting[p[1]] = epoch => Quiet(p[1], p[2])
             /\ seen[p[1]] = epoch => Silent(p[1], p[2])
             /\ p[1] \notin awaited => Silent(p[1], p[2])
             /\ \A m \in requests :
                  m.kind = "resetAck" /\ m.from = p[1] /\ m.arg = epoch =>
                    Silent(p[1], p[2])
    BY <1>1 DEF PumpInv, ClearIsSound
  <2>3. PICK c \in Client, i \in Id : c = p[1] /\ i = p[2]
    BY <2>1
  <2>4. Gone(i)' /\ (Quiet(c, i) => Quiet(c, i)') /\ (Silent(c, i) => Silent(c, i)')
    BY <2>2, <2>3 DEF SilenceStays
  <2>5. CASE c # clear.by
    <3>1. /\ resetting'[c] = epoch => resetting[c] = epoch \/ Quiet(c, i)'
          /\ seen'[c] = epoch => seen[c] = epoch \/ Silent(c, i)'
          /\ \A m \in requests' : m.kind = "resetAck" /\ m.from = c /\ m.arg = epoch =>
               m \in requests \/ Silent(c, i)'
      BY <2>2, <2>3, <2>4, <2>5
    <3> QED BY <2>2, <2>3, <2>4, <2>5, <3>1
  <2> QED BY <2>2, <2>3, <2>4, <2>5
<1> QED
  BY <1>1 DEF PumpInv, ClearIsSound

LEMMA BumpIsQuiet ==
  ASSUME PumpInv, NEW c \in Client, Bump(c)
  PROVE  \A i \in Id : Quiet(c, i)'
BY BumpIsCalm DEF Quiet, InPhase

LEMMA BumpRecords ==
  ASSUME PumpInv, NEW c \in Client, Bump(c), UNCHANGED <<record, bound>>
  PROVE  CalmRecords
<1>1. session' \in [Client -> SUBSET Id] /\ \A d \in Client : session'[d] \subseteq session[d]
  BY BumpIsCalm
<1> QED
  BY <1>1 DEF CalmRecords, PumpInv, PumpShape

\* Requests of a step that only adds rightful ones.
LEMMA SameRequests ==
  ASSUME PumpInv, StoreGoes, UNCHANGED <<marker, epoch, paired>>, CalmRequests
  PROVE  RequestsOK' /\ RevokedOut'
<1>1. epoch' \in Nat /\ epoch <= epoch'
  BY DEF PumpInv, PumpShape
<1>2. /\ \A m \in requests' : m \in requests \/ RequestOK(m)
      /\ \A m \in requests' : m \in requests \/ m.from \in paired
  BY DEF CalmRequests
<1> QED
  BY <1>1, <1>2, CalmAsking, CalmRevoked

LEMMA BeginResetStep ==
  ASSUME PumpInv, NEW c \in Client, BeginReset(c)
  PROVE  PumpInv'
<1>1. /\ UNCHANGED <<vars, paired, epoch, awaited, clear, requests, record, bound, seen, clearing,
                     fenced, tab, clicks, marker, faults>>
      /\ Bump(c) /\ resetting' = [resetting EXCEPT ![c] = epoch]
  BY DEF BeginReset, hostVars, diskVars, tabVars
<1>2. /\ CalmJobs /\ pump' \in [Client -> {"idle", "connected", "redeeming"}]
      /\ pump'[c] = "idle" /\ \A d \in Client : d # c => pump'[d] = pump[d]
  BY <1>1, BumpIsCalm
<1>3. StoreGoes /\ CalmTabs /\ CalmRequests /\ CalmRecords
  BY <1>1, StillParts, BumpRecords
<1>4. SilenceStays
  BY <1>2, <1>3, CalmSilence
<1>5. CalmPump
  BY <1>2 DEF CalmPump, PumpInv, ClearingIsQuiet
<1>6. RequestsOK' /\ RevokedOut'
  BY <1>1, <1>3, SameRequests
<1>7. ClearingIsQuiet'
  BY <1>1, <1>2, <1>5, CalmClearing
<1>8. FencedIsSilent'
  BY <1>1, <1>4, CalmFenced
<1>9. resetting' \in [Client -> 0 .. epoch] /\ \A d \in Client : d # c => resetting'[d] = resetting[d]
  BY <1>1 DEF PumpInv, PumpShape
<1>10. ClearIsSound'
  <2>1. ASSUME NEW d \in Client, NEW i \in Id
        PROVE  resetting'[d] = epoch => resetting[d] = epoch \/ Quiet(d, i)'
    BY <1>1, <1>9, BumpIsQuiet
  <2> QED BY <1>1, <1>4, <2>1, ClearMoves
<1>11. /\ paired \subseteq Client /\ awaited \subseteq paired /\ epoch \in 0 .. MaxEpoch
       /\ clear.by \in Client \cup {NoClient} /\ clear.covers \subseteq Client \X Id
       /\ seen \in [Client -> 0 .. epoch]
       /\ clearing \in [Client -> {"no", "tabs", "posted"}] /\ fenced \subseteq Client \X Id
  BY DEF PumpInv, PumpShape
<1> QED
  BY <1>1, <1>2, <1>3, <1>6, <1>7, <1>8, <1>9, <1>10, <1>11, ResetStays

LEMMA ErasedRecords ==
  ASSUME PumpInv, NEW c \in Client, EraseRecords(c), UNCHANGED session
  PROVE  CalmRecords
<1>1. /\ record \in [Client -> [Id -> NoRecord .. MaxAttempts]]
      /\ bound \in [Client -> SUBSET Id] /\ session \in [Client -> SUBSET Id]
  BY DEF PumpInv, PumpShape
<1>2. NoRecord \in NoRecord .. MaxAttempts /\ NoRecord <= 0
  BY PumpAssumption DEF NoRecord
<1>3. [i \in Id |-> NoRecord] \in [Id -> NoRecord .. MaxAttempts]
  BY <1>2
<1>4. /\ record' \in [Client -> [Id -> NoRecord .. MaxAttempts]]
      /\ \A i \in Id : record'[c][i] = NoRecord
      /\ \A d \in Client : d # c => record'[d] = record[d]
  BY <1>1, <1>3 DEF EraseRecords
<1>5. bound' \in [Client -> SUBSET Id]
  BY <1>1 DEF EraseRecords
<1> QED
  BY <1>1, <1>2, <1>4, <1>5 DEF CalmRecords

\* The tab forgot its launches.
LEMMA ClearedIsCalm ==
  ASSUME PumpInv, NEW c \in Client, tab' = [tab EXCEPT ![c] = ClearedTabs(c)]
  PROVE  CalmTabs /\ \A i \in Id : tab'[c][i] # "pending"
<1>1. /\ ClearedTabs(c) \in [Id -> {"none", "ready", "pending", "sent"}]
      /\ \A i \in Id : ClearedTabs(c)[i] # "pending"
  BY DEF ClearedTabs
<1>2. /\ tab' \in [Client -> [Id -> {"none", "ready", "pending", "sent"}]]
      /\ tab'[c] = ClearedTabs(c) /\ \A d \in Client : d # c => tab'[d] = tab[d]
  BY <1>1 DEF PumpInv, PumpShape
<1> QED
  BY <1>1, <1>2 DEF CalmTabs

LEMMA FinishResetStep ==
  ASSUME PumpInv, NEW c \in Client, FinishReset(c)
  PROVE  PumpInv'
<1>1. /\ UNCHANGED <<vars, paired, epoch, awaited, clear, requests, pump, jobs, session, clearing,
                     fenced, clicks, marker, faults>>
      /\ EraseRecords(c) /\ tab' = [tab EXCEPT ![c] = ClearedTabs(c)]
      /\ resetting' = [resetting EXCEPT ![c] = NoReset]
      /\ seen' = [seen EXCEPT ![c] = resetting[c]]
  BY DEF FinishReset, hostVars, jobVars
<1>2. /\ paired \subseteq Client /\ awaited \subseteq paired /\ epoch \in 0 .. MaxEpoch
      /\ clear.by \in Client \cup {NoClient} /\ clear.covers \subseteq Client \X Id
      /\ seen \in [Client -> 0 .. epoch] /\ resetting \in [Client -> 0 .. epoch]
      /\ clearing \in [Client -> {"no", "tabs", "posted"}] /\ fenced \subseteq Client \X Id
      /\ pump \in [Client -> {"idle", "connected", "redeeming"}]
  BY DEF PumpInv, PumpShape
<1>3. StoreGoes /\ CalmJobs /\ CalmPump /\ CalmRequests /\ CalmRecords
  BY <1>1, StillParts, ErasedRecords
<1>4. CalmTabs /\ \A i \in Id : tab'[c][i] # "pending"
  BY <1>1, ClearedIsCalm
<1>5. SilenceStays
  BY <1>3, <1>4, CalmSilence
<1>6. RequestsOK' /\ RevokedOut'
  BY <1>1, <1>3, SameRequests
<1>7. ClearingIsQuiet'
  BY <1>1, <1>3, <1>4, CalmClearing DEF CalmTabs
<1>8. FencedIsSilent'
  BY <1>1, <1>5, CalmFenced
<1>9. /\ resetting' \in [Client -> 0 .. epoch] /\ resetting'[c] = 0
      /\ seen' \in [Client -> 0 .. epoch] /\ seen'[c] = resetting[c]
      /\ \A d \in Client : d # c => resetting'[d] = resetting[d] /\ seen'[d] = seen[d]
  BY <1>1, <1>2 DEF NoReset
<1>10. ClearIsSound'
  <2>1. ASSUME NEW d \in Client, NEW i \in Id, epoch > 0, Quiet(d, i) => Quiet(d, i)',
               resetting[d] = epoch => Quiet(d, i)
        PROVE  /\ resetting'[d] = epoch => resetting[d] = epoch
               /\ seen'[d] = epoch => seen[d] = epoch \/ Silent(d, i)'
    BY <1>4, <1>9, <2>1 DEF Silent
  <2> QED BY <1>1, <1>5, <2>1, ClearMoves
<1> QED
  BY <1>1, <1>2, <1>3, <1>4, <1>6, <1>7, <1>8, <1>9, <1>10, ResetStays

LEMMA ResetFailsStep ==
  ASSUME PumpInv, NEW c \in Client, ResetFails(c)
  PROVE  PumpInv'
<1>1. /\ UNCHANGED <<vars, paired, epoch, awaited, clear, requests, pump, jobs, session, record,
                     bound, seen, clearing, fenced, tab, clicks, marker>>
      /\ Fault /\ resetting' = [resetting EXCEPT ![c] = NoReset]
  BY DEF ResetFails, hostVars, jobVars, diskVars, tabVars
<1>2. /\ paired \subseteq Client /\ awaited \subseteq paired /\ epoch \in 0 .. MaxEpoch
      /\ clear.by \in Client \cup {NoClient} /\ clear.covers \subseteq Client \X Id
      /\ seen \in [Client -> 0 .. epoch] /\ resetting \in [Client -> 0 .. epoch]
      /\ clearing \in [Client -> {"no", "tabs", "posted"}] /\ fenced \subseteq Client \X Id
      /\ pump \in [Client -> {"idle", "connected", "redeeming"}]
  BY DEF PumpInv, PumpShape
<1>3. StoreGoes /\ CalmJobs /\ CalmPump /\ CalmRequests /\ CalmRecords /\ CalmTabs
  BY <1>1, StillParts
<1>4. SilenceStays
  BY <1>3, CalmSilence
<1>5. RequestsOK' /\ RevokedOut'
  BY <1>1, <1>3, SameRequests
<1>6. ClearingIsQuiet'
  BY <1>1, <1>3, CalmClearing
<1>7. FencedIsSilent'
  BY <1>1, <1>4, CalmFenced
<1>8. /\ resetting' \in [Client -> 0 .. epoch] /\ resetting'[c] = 0
      /\ \A d \in Client : d # c => resetting'[d] = resetting[d]
  BY <1>1, <1>2 DEF NoReset
<1>9. ClearIsSound'
  <2>1. ASSUME NEW d \in Client, epoch > 0
        PROVE  resetting'[d] = epoch => resetting[d] = epoch
    BY <1>8, <2>1
  <2> QED BY <1>1, <1>4, <2>1, ClearMoves
<1> QED
  BY <1>1, <1>2, <1>3, <1>5, <1>6, <1>7, <1>8, <1>9, ResetStays

LEMMA AskResetAckStep ==
  ASSUME PumpInv, NEW c \in Client, AskResetAck(c)
  PROVE  PumpInv'
<1>1. /\ UNCHANGED <<vars, paired, epoch, awaited, clear, pump, jobs, session, record,
                     bound, seen, resetting, clearing, fenced, tab, clicks, marker, faults>>
      /\ seen[c] = epoch /\ c \in paired
  BY DEF AskResetAck, hostVars, jobVars, diskVars, tabVars, resetVars
<1>2. /\ paired \subseteq Client /\ awaited \subseteq paired /\ epoch \in 0 .. MaxEpoch
      /\ clear.by \in Client \cup {NoClient} /\ clear.covers \subseteq Client \X Id
      /\ seen \in [Client -> 0 .. epoch] /\ resetting \in [Client -> 0 .. epoch]
      /\ clearing \in [Client -> {"no", "tabs", "posted"}] /\ fenced \subseteq Client \X Id
      /\ pump \in [Client -> {"idle", "connected", "redeeming"}]
  BY DEF PumpInv, PumpShape
<1>3. StoreGoes /\ CalmJobs /\ CalmPump /\ CalmRecords /\ CalmTabs
  BY <1>1, StillParts
<1>4. SilenceStays
  BY <1>3, CalmSilence
<1>5. PICK r : r = Request("resetAck", c, NoId, NoLease, epoch)
  OBVIOUS
<1>6. r.kind = "resetAck" /\ r.from = c /\ r.arg = epoch
  BY <1>5 DEF Request
<1>7. requests' = requests \cup {r}
  BY <1>5 DEF AskResetAck
<1>8. RequestsOK' /\ RevokedOut'
  <2>1. RequestOK(r)
    BY <1>2, <1>6 DEF RequestOK
  <2>2. epoch' \in Nat /\ epoch <= epoch'
    BY <1>1, <1>2
  <2>3. RequestsOK'
    BY <1>1, <1>3, <1>7, <2>1, <2>2, CalmAsking
  <2> QED BY <1>1, <1>3, <1>6, <1>7, <2>3, CalmRevoked
<1>9. ClearingIsQuiet'
  BY <1>1, <1>3, CalmClearing
<1>10. FencedIsSilent'
  BY <1>1, <1>4, CalmFenced
<1>11. ClearIsSound'
  <2>1. ASSUME NEW d \in Client, NEW i \in Id, Silent(d, i) => Silent(d, i)',
               seen[d] = epoch => Silent(d, i)
        PROVE  \A m \in requests' : m.kind = "resetAck" /\ m.from = d /\ m.arg = epoch =>
                 m \in requests \/ Silent(d, i)'
    BY <1>1, <1>6, <1>7, <2>1
  <2> QED BY <1>1, <1>4, <2>1, ClearMoves
<1> QED
  BY <1>1, <1>2, <1>3, <1>8, <1>9, <1>10, <1>11, ResetStays

LEMMA ClearStartStep ==
  ASSUME PumpInv, NEW c \in Client, ClearStart(c)
  PROVE  PumpInv'
<1>1. /\ UNCHANGED <<vars, paired, epoch, awaited, clear, requests, record, bound, seen, resetting,
                     fenced, tab, clicks, marker, faults>>
      /\ Bump(c) /\ clearing' = [clearing EXCEPT ![c] = "tabs"]
  BY DEF ClearStart, hostVars, diskVars, tabVars
<1>2. /\ CalmJobs /\ pump' \in [Client -> {"idle", "connected", "redeeming"}]
      /\ pump'[c] = "idle" /\ \A d \in Client : d # c => pump'[d] = pump[d]
      /\ \A i \in Id : jobs'[c][i].phase \in {"none", "abandoned"}
  BY <1>1, BumpIsCalm
<1>3. StoreGoes /\ CalmTabs /\ CalmRequests /\ CalmRecords
  BY <1>1, StillParts, BumpRecords
<1>4. SilenceStays
  BY <1>2, <1>3, CalmSilence
<1>5. RequestsOK' /\ RevokedOut'
  BY <1>1, <1>3, SameRequests
<1>6. /\ paired \subseteq Client /\ awaited \subseteq paired /\ epoch \in 0 .. MaxEpoch
      /\ clear.by \in Client \cup {NoClient} /\ clear.covers \subseteq Client \X Id
      /\ seen \in [Client -> 0 .. epoch] /\ resetting \in [Client -> 0 .. epoch]
      /\ clearing \in [Client -> {"no", "tabs", "posted"}] /\ fenced \subseteq Client \X Id
  BY DEF PumpInv, PumpShape
<1>7. /\ clearing' \in [Client -> {"no", "tabs", "posted"}] /\ clearing'[c] = "tabs"
      /\ \A d \in Client : d # c => clearing'[d] = clearing[d]
  BY <1>1, <1>6
<1>8. ClearingIsQuiet'
  <2>1. ASSUME NEW d \in Client, clearing'[d] # "no"
        PROVE  /\ pump'[d] = "idle"
               /\ \A i \in Id : InPhase(d, i, {"none", "abandoned"})'
               /\ clearing'[d] = "posted" => \A i \in Id : tab'[d][i] # "pending"
    <3>1. CASE d = c
      BY <1>2, <1>7, <3>1 DEF InPhase
    <3>2. CASE d # c
      <4>1. jobs'[d] = jobs[d]
        BY <1>1, <3>2 DEF Bump, PumpInv, PumpShape
      <4> QED BY <1>1, <1>2, <1>7, <2>1, <3>2, <4>1 DEF InPhase, PumpInv, ClearingIsQuiet
    <3> QED BY <3>1, <3>2
  <2> QED BY <2>1 DEF ClearingIsQuiet
<1>9. FencedIsSilent'
  BY <1>1, <1>4, CalmFenced
<1>10. ClearIsSound'
  BY <1>1, <1>4, CalmClear
<1> QED
  BY <1>1, <1>2, <1>3, <1>5, <1>6, <1>7, <1>8, <1>9, <1>10, ResetStays

LEMMA ClearPostStep ==
  ASSUME PumpInv, NEW c \in Client, ClearPost(c)
  PROVE  PumpInv'
<1>1. /\ UNCHANGED <<vars, paired, epoch, awaited, clear, pump, jobs, session, record, bound, seen,
                     resetting, fenced, clicks, marker, faults>>
      /\ tab' = [tab EXCEPT ![c] = ClearedTabs(c)] /\ clearing[c] = "tabs"
  BY DEF ClearPost, hostVars, jobVars, diskVars
<1>2. /\ paired \subseteq Client /\ awaited \subseteq paired /\ epoch \in 0 .. MaxEpoch
      /\ clear.by \in Client \cup {NoClient} /\ clear.covers \subseteq Client \X Id
      /\ seen \in [Client -> 0 .. epoch] /\ resetting \in [Client -> 0 .. epoch]
      /\ clearing \in [Client -> {"no", "tabs", "posted"}] /\ fenced \subseteq Client \X Id
      /\ pump \in [Client -> {"idle", "connected", "redeeming"}]
  BY DEF PumpInv, PumpShape
<1>3. StoreGoes /\ CalmJobs /\ CalmPump /\ CalmRecords
  BY <1>1, StillParts
<1>4. CalmTabs /\ \A i \in Id : tab'[c][i] # "pending"
  BY <1>1, ClearedIsCalm
<1>5. SilenceStays
  BY <1>3, <1>4, CalmSilence
<1>6. CalmRequests
  <2>1. PICK r : r = Request("clear", c, NoId, NoLease, "")
    OBVIOUS
  <2>2. r.kind = "clear" /\ r.from = c
    BY <2>1 DEF Request
  <2>3. requests' = requests \/ (requests' = requests \cup {r} /\ c \in paired)
    BY <2>1 DEF ClearPost
  <2> QED BY <2>2, <2>3 DEF CalmRequests, RequestOK
<1>7. RequestsOK' /\ RevokedOut'
  BY <1>1, <1>3, <1>6, SameRequests
<1>8. /\ clearing' \in [Client -> {"no", "tabs", "posted"}]
      /\ \A d \in Client : d # c => clearing'[d] = clearing[d]
  BY <1>2 DEF ClearPost
<1>9. ClearingIsQuiet'
  <2>1. ASSUME NEW d \in Client, clearing'[d] # "no"
        PROVE  /\ pump'[d] = "idle"
               /\ \A i \in Id : InPhase(d, i, {"none", "abandoned"})'
               /\ clearing'[d] = "posted" => \A i \in Id : tab'[d][i] # "pending"
    <3>1. clearing[d] # "no"
      BY <1>1, <1>8, <2>1
    <3>2. /\ pump[d] = "idle" /\ \A i \in Id : InPhase(d, i, {"none", "abandoned"})
          /\ clearing[d] = "posted" => \A i \in Id : tab[d][i] # "pending"
      BY <3>1 DEF PumpInv, ClearingIsQuiet
    <3>3. clearing'[d] = "posted" => \A i \in Id : tab'[d][i] # "pending"
      BY <1>4, <1>8, <3>2 DEF CalmTabs
    <3> QED BY <1>1, <3>2, <3>3 DEF InPhase
  <2> QED BY <2>1 DEF ClearingIsQuiet
<1>10. FencedIsSilent'
  BY <1>1, <1>5, CalmFenced
<1>11. ClearIsSound'
  BY <1>1, <1>5, <1>6, CalmClear DEF CalmRequests
<1> QED
  BY <1>1, <1>2, <1>3, <1>4, <1>7, <1>8, <1>9, <1>10, <1>11, ResetStays

LEMMA ClearFailsStep ==
  ASSUME PumpInv, NEW c \in Client, ClearFails(c)
  PROVE  PumpInv'
<1>1. /\ UNCHANGED <<vars, paired, epoch, awaited, clear, requests, pump, jobs, session, record,
                     bound, seen, resetting, fenced, tab, clicks, marker>>
      /\ Fault /\ clearing' = [clearing EXCEPT ![c] = "no"]
  BY DEF ClearFails, ClearHeard, hostVars, jobVars, diskVars, tabVars
<1>2. /\ paired \subseteq Client /\ awaited \subseteq paired /\ epoch \in 0 .. MaxEpoch
      /\ clear.by \in Client \cup {NoClient} /\ clear.covers \subseteq Client \X Id
      /\ seen \in [Client -> 0 .. epoch] /\ resetting \in [Client -> 0 .. epoch]
      /\ clearing \in [Client -> {"no", "tabs", "posted"}] /\ fenced \subseteq Client \X Id
      /\ pump \in [Client -> {"idle", "connected", "redeeming"}]
  BY DEF PumpInv, PumpShape
<1>3. StoreGoes /\ CalmJobs /\ CalmPump /\ CalmRequests /\ CalmRecords /\ CalmTabs
  BY <1>1, StillParts
<1>4. SilenceStays
  BY <1>3, CalmSilence
<1>5. RequestsOK' /\ RevokedOut'
  BY <1>1, <1>3, SameRequests
<1>6. /\ clearing' \in [Client -> {"no", "tabs", "posted"}]
      /\ \A d \in Client : clearing'[d] = clearing[d] \/ clearing'[d] = "no"
  BY <1>1, <1>2
<1>7. ClearingIsQuiet'
  BY <1>1, <1>3, <1>6, CalmClearing
<1>8. FencedIsSilent' /\ ClearIsSound'
  BY <1>1, <1>4, CalmFenced, CalmClear
<1> QED
  BY <1>1, <1>2, <1>3, <1>5, <1>6, <1>7, <1>8, ResetStays

LEMMA HandleResetAckStep ==
  ASSUME PumpInv, NEW m \in requests, HandleResetAck(m)
  PROVE  PumpInv'
<1>1. /\ UNCHANGED <<vars, paired, epoch, clear, pump, jobs, session, record, bound, seen,
                     resetting, clearing, fenced, tab, clicks, marker, faults>>
      /\ requests' \subseteq requests /\ m.kind = "resetAck"
      /\ awaited' = awaited \/ (awaited' = awaited \ {m.from} /\ m.arg = epoch)
  BY DEF HandleResetAck, jobVars, diskVars, tabVars, resetVars
<1>2. /\ paired \subseteq Client /\ awaited \subseteq paired /\ epoch \in 0 .. MaxEpoch
      /\ clear.by \in Client \cup {NoClient} /\ clear.covers \subseteq Client \X Id
      /\ seen \in [Client -> 0 .. epoch] /\ resetting \in [Client -> 0 .. epoch]
      /\ clearing \in [Client -> {"no", "tabs", "posted"}] /\ fenced \subseteq Client \X Id
      /\ pump \in [Client -> {"idle", "connected", "redeeming"}]
  BY DEF PumpInv, PumpShape
<1>3. StoreGoes /\ CalmJobs /\ CalmPump /\ CalmRequests /\ CalmRecords /\ CalmTabs
  BY <1>1, StillParts
<1>4. SilenceStays
  BY <1>3, CalmSilence
<1>5. RequestsOK' /\ RevokedOut'
  BY <1>1, <1>3, SameRequests
<1>6. ClearingIsQuiet'
  BY <1>1, <1>3, CalmClearing
<1>7. FencedIsSilent'
  BY <1>1, <1>4, CalmFenced
<1>8. ClearIsSound'
  <2>1. ASSUME NEW c \in Client, c \notin awaited'
        PROVE  \/ c \notin awaited
               \/ \E r \in requests : r.kind = "resetAck" /\ r.from = c /\ r.arg = epoch
    BY <1>1, <2>1
  <2> QED BY <1>1, <1>4, <2>1, ClearMoves
<1>9. awaited' \subseteq paired
  BY <1>1, <1>2
<1> QED
  BY <1>1, <1>2, <1>3, <1>5, <1>6, <1>7, <1>8, <1>9, ResetStays

LEMMA HandleClearStep ==
  ASSUME PumpInv, NEW m \in requests, HandleClear(m)
  PROVE  PumpInv'
<1>1. /\ UNCHANGED <<paired, pump, jobs, session, record, bound, seen,
                     resetting, clearing, fenced, tab, clicks, marker, faults>>
      /\ requests' \subseteq requests /\ m.kind = "clear"
      /\ epoch' = epoch + 1 /\ epoch < MaxEpoch
      /\ ClearAllWorkerCommands \/ (InStore(commands) = {} /\ UNCHANGED vars)
  BY DEF HandleClear, jobVars, diskVars, tabVars, resetVars
<1>2. /\ paired \subseteq Client /\ awaited \subseteq paired /\ epoch \in 0 .. MaxEpoch
      /\ seen \in [Client -> 0 .. epoch] /\ resetting \in [Client -> 0 .. epoch]
      /\ clearing \in [Client -> {"no", "tabs", "posted"}] /\ fenced \subseteq Client \X Id
      /\ pump \in [Client -> {"idle", "connected", "redeeming"}]
  BY DEF PumpInv, PumpShape
<1>3. m.from \in Client
  BY DEF PumpInv, RequestsOK, RequestOK
<1>4. PICK fresh \in SUBSET MustConfirm(m.from) :
        /\ awaited' = awaited \cup fresh
        /\ clear' = [by |-> m.from, covers |-> (fresh \cup {m.from}) \X InStore(commands)]
  BY DEF HandleClear
<1>5. fresh \subseteq paired
  BY DEF MustConfirm
<1>6. StoreGoes
  <2>1. CASE ClearAllWorkerCommands
    <3>1. RemoveCommands(InStore(commands)) /\ Next
      BY <2>1 DEF ClearAllWorkerCommands, Next, Clear
    <3>2. BrokerGoes(marker) /\ grants' = grants
      BY <3>1, RemovalFades DEF PumpInv, RemoveCommands
    <3> QED BY <3>1, <3>2, StoreStep
  <2>2. CASE UNCHANGED vars
    BY <2>2, StoreStill
  <2> QED BY <1>1, <2>1, <2>2
<1>7. CalmJobs /\ CalmPump /\ CalmRecords /\ CalmTabs
  BY <1>1, StillParts
<1>8. SilenceStays
  BY <1>6, <1>7, CalmSilence
<1>9. epoch' \in 0 .. MaxEpoch /\ epoch' \in Nat /\ epoch <= epoch'
  BY <1>1, <1>2, PumpAssumption
<1>10. RequestsOK' /\ RevokedOut'
  BY <1>1, <1>6, <1>9, CalmAsking, CalmRevoked
<1>11. ClearingIsQuiet'
  BY <1>1, <1>7, CalmClearing
<1>12. FencedIsSilent'
  BY <1>1, <1>8, CalmFenced
<1>13. /\ clear'.by = m.from /\ clear'.covers = (fresh \cup {m.from}) \X InStore(commands)
  BY <1>4
<1>14. clear'.covers \subseteq Client \X Id
  BY <1>2, <1>3, <1>5, <1>13 DEF InStore
<1>15. /\ seen' \in [Client -> 0 .. epoch'] /\ resetting' \in [Client -> 0 .. epoch']
       /\ \A d \in Client : seen'[d] # epoch' /\ resetting'[d] # epoch'
  BY <1>1, <1>2
<1>16. ClearIsSound'
  <2>1. ASSUME NEW i \in InStore(commands) PROVE Gone(i)'
    <3>1. i \in Id /\ commands[i].state # "Absent"
      BY DEF InStore
    <3>2. i < nextSequence
      <4>1. ~(i >= nextSequence)
        BY <3>1 DEF PumpInv, IInv, UnusedBlank, NoCommand
      <4>2. nextSequence \in Int
        BY <1>6 DEF StoreGoes, BrokerGoes
      <4>3. i \in Int
        BY <3>1 DEF Id
      <4> QED BY <4>1, <4>2, <4>3
    <3>3. ClearAllWorkerCommands
      BY <1>1
    <3>4. commands'[i] = NoCommand
      BY <3>1, <3>3 DEF ClearAllWorkerCommands, RemoveCommands, Without
    <3>5. nextSequence' = nextSequence
      BY <3>3 DEF ClearAllWorkerCommands, RemoveCommands
    <3> QED BY <3>2, <3>4, <3>5 DEF Gone, NoCommand
  <2>2. \A r \in requests' : r.kind = "resetAck" => r.arg # epoch'
    <3>1. ASSUME NEW r \in requests, r.kind = "resetAck" PROVE r.arg # epoch'
      <4>1. r.arg \in 0 .. epoch
        BY <3>1 DEF PumpInv, RequestsOK, RequestOK
      <4> QED BY <1>1, <1>2, <4>1
    <3> QED BY <1>1, <3>1
  <2>3. ASSUME NEW p \in clear'.covers
        PROVE  Gone(p[2])' /\ (p[1] # m.from => p[1] \in awaited') /\ p[1] \in Client
    BY <1>2, <1>3, <1>4, <1>5, <1>13, <2>1, <2>3
  <2>4. epoch' > 0
    BY <1>1, <1>2
  <2> QED BY <1>3, <1>13, <1>15, <2>2, <2>3, <2>4 DEF ClearIsSound
<1>17. awaited' \subseteq paired'
  BY <1>1, <1>2, <1>4, <1>5
<1> QED
  BY <1>1, <1>2, <1>3, <1>6, <1>7, <1>9, <1>10, <1>11, <1>12, <1>13, <1>14, <1>15, <1>16, <1>17,
     ResetStays

LEMMA NoClearIsSound ==
  ASSUME clear' = NoClear
  PROVE  /\ ClearIsSound'
         /\ clear'.by \in Client \cup {NoClient} /\ clear'.covers \subseteq Client \X Id
BY DEF NoClear, ClearIsSound

LEMMA ClearSucceedsStep ==
  ASSUME PumpInv, ClearSucceeds
  PROVE  PumpInv'
<1>0. PICK c : c = clear.by
  OBVIOUS
<1>1. /\ UNCHANGED <<vars, paired, epoch, awaited, requests, pump, jobs, session,
                     resetting, tab, clicks, marker, faults>>
      /\ clear # NoClear /\ awaited = {} /\ clear' = NoClear
  BY DEF ClearSucceeds, jobVars, tabVars
<1>2. /\ paired \subseteq Client /\ awaited \subseteq paired /\ epoch \in 0 .. MaxEpoch
      /\ clear.covers \subseteq Client \X Id
      /\ seen \in [Client -> 0 .. epoch] /\ resetting \in [Client -> 0 .. epoch]
      /\ clearing \in [Client -> {"no", "tabs", "posted"}] /\ fenced \subseteq Client \X Id
      /\ pump \in [Client -> {"idle", "connected", "redeeming"}]
  BY DEF PumpInv, PumpShape
<1>3. /\ c \in Client
      /\ \A p \in clear.covers :
           Gone(p[2]) /\ (p[1] # c /\ p[1] \notin awaited => Silent(p[1], p[2]))
  BY <1>0, <1>1 DEF PumpInv, ClearIsSound
<1>4. StoreGoes /\ CalmJobs /\ CalmPump /\ CalmRequests /\ CalmTabs
  BY <1>1, StillParts
<1>5. SilenceStays
  BY <1>4, CalmSilence
<1>6. RequestsOK' /\ RevokedOut'
  BY <1>1, <1>4, SameRequests
<1>7. ClearIsSound' /\ clear'.by \in Client \cup {NoClient} /\ clear'.covers \subseteq Client \X Id
  BY <1>1, NoClearIsSound
<1>8. CASE clearing[c] = "posted"
  <2>1. /\ fenced' = fenced \cup clear.covers
        /\ clearing' = [clearing EXCEPT ![c] = "no"]
        /\ EraseRecords(c) /\ seen' = [seen EXCEPT ![c] = epoch]
    BY <1>0, <1>8 DEF ClearSucceeds, ClearHeard
  <2>2. CalmRecords
    BY <1>1, <1>3, <2>1, ErasedRecords
  <2>3. /\ clearing' \in [Client -> {"no", "tabs", "posted"}]
        /\ \A d \in Client : clearing'[d] = clearing[d] \/ clearing'[d] = "no"
    BY <1>2, <2>1
  <2>8. seen' \in [Client -> 0 .. epoch]
    <3>1. epoch \in 0 .. epoch
      BY <1>2
    <3> QED BY <1>2, <2>1, <3>1
  <2>9. fenced' \subseteq Client \X Id
    BY <1>2, <2>1
  <2>4. ClearingIsQuiet'
    BY <1>1, <1>4, <2>3, CalmClearing
  <2>5. \A i \in Id : Silent(c, i)
    BY <1>3, <1>8 DEF PumpInv, ClearingIsQuiet, Silent, Quiet, InPhase
  <2>6. ASSUME NEW p \in fenced' PROVE Gone(p[2]) /\ Silent(p[1], p[2])
    <3>1. CASE p \in fenced
      BY <3>1 DEF PumpInv, FencedIsSilent
    <3>2. CASE p \in clear.covers
      <4>1. p[1] \in Client /\ p[2] \in Id
        BY <1>2, <3>2
      <4> QED BY <1>1, <1>3, <2>5, <3>2, <4>1
    <3> QED BY <2>1, <3>1, <3>2
  <2>7. FencedIsSilent'
    <3>1. \A p \in fenced' : p[1] \in Client /\ p[2] \in Id
      BY <2>9
    <3> QED BY <1>5, <2>6, <3>1 DEF FencedIsSilent, SilenceStays
  <2> QED BY <1>1, <1>2, <1>4, <1>6, <1>7, <2>2, <2>3, <2>4, <2>7, <2>8, <2>9, ResetStays
<1>9. CASE clearing[c] # "posted"
  <2>1. UNCHANGED <<clearing, fenced, record, bound, seen>>
    BY <1>0, <1>9 DEF ClearSucceeds, diskVars
  <2>2. CalmRecords /\ FencedIsSilent' /\ ClearingIsQuiet'
    BY <1>1, <1>4, <1>5, <2>1, StillParts, CalmFenced, CalmClearing
  <2> QED BY <1>1, <1>2, <1>4, <1>6, <1>7, <2>1, <2>2, ResetStays
<1> QED
  BY <1>8, <1>9

LEMMA ClearConflictsStep ==
  ASSUME PumpInv, ClearConflicts
  PROVE  PumpInv'
<1>1. /\ UNCHANGED <<vars, paired, epoch, awaited, requests, pump, jobs, session, record, bound,
                     seen, resetting, fenced, tab, clicks, marker, faults>>
      /\ clear # NoClear /\ clear' = NoClear
      /\ clearing' = [clearing EXCEPT ![clear.by] = "no"]
  BY DEF ClearConflicts, ClearHeard, jobVars, diskVars, tabVars
<1>2. /\ paired \subseteq Client /\ awaited \subseteq paired /\ epoch \in 0 .. MaxEpoch
      /\ seen \in [Client -> 0 .. epoch] /\ resetting \in [Client -> 0 .. epoch]
      /\ clearing \in [Client -> {"no", "tabs", "posted"}] /\ fenced \subseteq Client \X Id
      /\ pump \in [Client -> {"idle", "connected", "redeeming"}]
  BY DEF PumpInv, PumpShape
<1>3. StoreGoes /\ CalmJobs /\ CalmPump /\ CalmRequests /\ CalmRecords /\ CalmTabs
  BY <1>1, StillParts
<1>4. SilenceStays
  BY <1>3, CalmSilence
<1>5. RequestsOK' /\ RevokedOut'
  BY <1>1, <1>3, SameRequests
<1>6. /\ clearing' \in [Client -> {"no", "tabs", "posted"}]
      /\ \A d \in Client : clearing'[d] = clearing[d] \/ clearing'[d] = "no"
  BY <1>1, <1>2
<1>7. ClearingIsQuiet'
  BY <1>1, <1>3, <1>6, CalmClearing
<1>8. FencedIsSilent'
  BY <1>1, <1>4, CalmFenced
<1> QED
  BY <1>1, <1>2, <1>3, <1>5, <1>6, <1>7, <1>8, NoClearIsSound, ResetStays

LEMMA RevokeStep ==
  ASSUME PumpInv, NEW c \in Client, Revoke(c)
  PROVE  PumpInv'
<1>1. /\ UNCHANGED <<epoch, clear, requests, pump, jobs, session, record, bound, seen, resetting,
                     clearing, fenced, tab, clicks, marker, faults>>
      /\ clear = NoClear /\ paired' = paired \ {c} /\ awaited' = awaited \ {c}
  BY DEF Revoke, LockFree, jobVars, diskVars, tabVars, resetVars
<1>2. /\ paired \subseteq Client /\ awaited \subseteq paired /\ epoch \in 0 .. MaxEpoch
      /\ seen \in [Client -> 0 .. epoch] /\ resetting \in [Client -> 0 .. epoch]
      /\ clearing \in [Client -> {"no", "tabs", "posted"}] /\ fenced \subseteq Client \X Id
      /\ pump \in [Client -> {"idle", "connected", "redeeming"}]
  BY DEF PumpInv, PumpShape
<1>3. /\ StoreGoes
      /\ \A i \in Id : commands'[i].lease # NoLease => commands'[i].holder # c
  <2>1. CASE SettleRevokedClient(c)
    <3>1. Next /\ grants' = grants
      BY <2>1 DEF Next, Host, SettleRevokedClient
    <3> QED BY <2>1, <3>1, RevokeFades, StoreStep DEF PumpInv
  <2>2. CASE (\A i \in Id : commands[i].target # c) /\ UNCHANGED vars
    <3>1. ASSUME NEW i \in Id, commands[i].lease # NoLease PROVE commands[i].holder # c
      <4>1. CommandOK(i) /\ NoCommand.lease = NoLease
        BY DEF PumpInv, IInv, NoCommand
      <4> QED BY <2>2, <3>1, <4>1 DEF CommandOK, StateOK
    <3>2. commands' = commands
      BY <2>2 DEF vars
    <3> QED BY <2>2, <3>1, <3>2, StoreStill
  <2> QED BY <2>1, <2>2 DEF Revoke
<1>4. CalmJobs /\ CalmPump /\ CalmRecords /\ CalmTabs
  BY <1>1, StillParts
<1>5. SilenceStays
  BY <1>3, <1>4, CalmSilence
<1>6. RequestsOK'
  BY <1>1, <1>2, <1>3, CalmAsking
<1>7. RevokedOut'
  <2>1. ASSUME NEW m \in requests, m.kind = "sendStarted", m.from \notin paired',
               HoldsLease(m.id, m.lease, m.from)'
        PROVE  FALSE
    <3>1. m.id \in Id /\ m.lease \in 1 .. issued /\ issued \in Nat
      BY <1>3, <2>1 DEF PumpInv, RequestsOK, RequestOK, StoreGoes, BrokerGoes
    <3>2. m.lease # NoLease
      BY <3>1 DEF NoLease
    <3>3. m.from # c
      BY <1>3, <2>1, <3>1, <3>2 DEF HoldsLease
    <3>4. HoldsLease(m.id, m.lease, m.from)
      BY <1>3, <2>1, <3>1, HeldStays DEF StoreGoes
    <3> QED BY <1>1, <2>1, <3>3, <3>4 DEF PumpInv, RevokedOut
  <2> QED BY <1>1, <2>1 DEF RevokedOut
<1>8. ClearingIsQuiet' /\ FencedIsSilent'
  BY <1>1, <1>4, <1>5, CalmClearing, CalmFenced
<1>9. paired' \subseteq Client /\ awaited' \subseteq paired' /\ clear' = NoClear
  BY <1>1, <1>2
<1> QED
  BY <1>1, <1>2, <1>3, <1>4, <1>6, <1>7, <1>8, <1>9, NoClearIsSound, ResetStays

LEMMA RestartStep ==
  ASSUME PumpInv, NEW c \in Client, Restart(c)
  PROVE  PumpInv'
<1>1. /\ UNCHANGED <<vars, paired, epoch, awaited, clear, requests, record, bound, seen,
                     fenced, tab, clicks, marker>>
      /\ Fault /\ clearing' = [clearing EXCEPT ![c] = "no"]
      /\ resetting' = [resetting EXCEPT ![c] = NoReset]
      /\ pump' = [pump EXCEPT ![c] = "idle"] /\ jobs' = [jobs EXCEPT ![c] = Idle]
      /\ session' = [session EXCEPT ![c] = {}]
  BY DEF Restart, hostVars, diskVars, tabVars
<1>2. /\ paired \subseteq Client /\ awaited \subseteq paired /\ epoch \in 0 .. MaxEpoch
      /\ clear.by \in Client \cup {NoClient} /\ clear.covers \subseteq Client \X Id
      /\ seen \in [Client -> 0 .. epoch] /\ resetting \in [Client -> 0 .. epoch]
      /\ clearing \in [Client -> {"no", "tabs", "posted"}] /\ fenced \subseteq Client \X Id
      /\ pump \in [Client -> {"idle", "connected", "redeeming"}]
      /\ session \in [Client -> SUBSET Id] /\ bound \in [Client -> SUBSET Id]
      /\ record \in [Client -> [Id -> NoRecord .. MaxAttempts]]
  BY DEF PumpInv, PumpShape
<1>3. StoreGoes /\ CalmJobs /\ CalmRequests /\ CalmTabs
  BY <1>1, StillParts, IdleIsCalm
<1>4. CalmPump
  BY <1>1, <1>2 DEF CalmPump, PumpInv, ClearingIsQuiet
<1>5. CalmRecords
  <2>1. session' \in [Client -> SUBSET Id] /\ \A d \in Client : session'[d] \subseteq session[d]
    BY <1>1, <1>2
  <2> QED BY <1>1, <1>2, <2>1 DEF CalmRecords
<1>6. SilenceStays
  BY <1>3, CalmSilence
<1>7. RequestsOK' /\ RevokedOut'
  BY <1>1, <1>3, SameRequests
<1>8. /\ clearing' \in [Client -> {"no", "tabs", "posted"}]
      /\ \A d \in Client : clearing'[d] = clearing[d] \/ clearing'[d] = "no"
  BY <1>1, <1>2
<1>9. ClearingIsQuiet'
  BY <1>1, <1>3, <1>4, <1>8, CalmClearing
<1>10. FencedIsSilent'
  BY <1>1, <1>6, CalmFenced
<1>11. /\ resetting' \in [Client -> 0 .. epoch] /\ resetting'[c] = 0
       /\ \A d \in Client : d # c => resetting'[d] = resetting[d]
  BY <1>1, <1>2 DEF NoReset
<1>12. ClearIsSound'
  <2>1. ASSUME NEW d \in Client, epoch > 0
        PROVE  resetting'[d] = epoch => resetting[d] = epoch
    BY <1>11, <2>1
  <2> QED BY <1>1, <1>6, <2>1, ClearMoves
<1>13. pump' \in [Client -> {"idle", "connected", "redeeming"}]
  BY <1>4 DEF CalmPump
<1> QED
  BY <1>1, <1>2, <1>3, <1>5, <1>7, <1>8, <1>9, <1>10, <1>11, <1>12, <1>13, ResetStays

-----------------------------------------------------------------------------
(* The theorems.                                                           *)

LEMMA PumpInvInit == PumpInit => PumpInv
<1> SUFFICES ASSUME PumpInit PROVE PumpInv
  OBVIOUS
<1>1. IInv
  BY IInvInit DEF PumpInit
<1>2. /\ NoLaunch \in Job /\ NoLaunch.phase = "none" /\ NoLaunch.lease = NoLease
      /\ NoLaunch.reconcile = FALSE /\ NoLaunch.found = FALSE
  BY NoLaunchIsJob DEF NoLaunch
<1>3. jobs \in [Client -> [Id -> Job]] /\ \A c \in Client, i \in Id : jobs[c][i] = NoLaunch
  BY <1>2 DEF PumpInit, Idle
<1>4. /\ paired = Client /\ epoch = 0 /\ awaited = {} /\ clear = NoClear /\ requests = {}
      /\ marker = {} /\ fenced = {} /\ faults = 0
      /\ pump = [c \in Client |-> "idle"] /\ clearing = [c \in Client |-> "no"]
      /\ seen = [c \in Client |-> 0] /\ resetting = [c \in Client |-> 0]
      /\ session = [c \in Client |-> {}] /\ bound = [c \in Client |-> {}]
      /\ record = [c \in Client |-> [i \in Id |-> NoRecord]]
      /\ tab = [c \in Client |-> [i \in Id |-> "none"]]
      /\ clicks = [c \in Client |-> [i \in Id |-> 0]]
  BY DEF PumpInit, NoReset
<1>5. NoRecord \in NoRecord .. MaxAttempts /\ NoRecord < MaxAttempts /\ ~(NoRecord > 0)
  BY PumpAssumption DEF NoRecord
<1>6. PumpShape
  BY <1>3, <1>4, <1>5, PumpAssumption DEF PumpShape, NoClear
<1>7. /\ commands = [i \in Id |-> NoCommand] /\ grants = [i \in Id |-> {}]
      /\ NoCommand.state = "Absent"
  BY DEF PumpInit, Init, NoCommand
<1>8. RequestsOK /\ RevokedOut /\ FencedIsSilent /\ ClearIsSound
  BY <1>4 DEF RequestsOK, RevokedOut, FencedIsSilent, ClearIsSound
<1>9. JobLeases
  BY <1>2, <1>3, <1>7 DEF JobLeases, Beyond
<1>10. OneRight /\ ClearingIsQuiet
  BY <1>2, <1>3, <1>4 DEF OneRight, Live, Sending, InPhase, Approaching, ClearingIsQuiet
<1>11. AttemptsOK
  BY <1>2, <1>3, <1>4, <1>5 DEF AttemptsOK, InPhase, Approaching, Beyond
<1>12. SuccessWasSeen
  BY <1>7 DEF SuccessWasSeen, InState
<1> QED
  BY <1>1, <1>6, <1>8, <1>9, <1>10, <1>11, <1>12 DEF PumpInv

LEMMA PumpInvStep == PumpInv /\ [PumpNext]_allVars => PumpInv'
<1> SUFFICES ASSUME PumpInv, [PumpNext]_allVars PROVE PumpInv'
  OBVIOUS
<1>1. ASSUME NEW c \in Client, PumpStep(c) PROVE PumpInv'
  BY <1>1, ConnectStep, AskRedeemStep, BatchFailsStep, HandleRedeemStep, HandleRedeemEmptyStep
     DEF PumpStep
<1>2. ASSUME NEW c \in Client, ResetStep(c) PROVE PumpInv'
  BY <1>2, BeginResetStep, FinishResetStep, ResetFailsStep, AskResetAckStep, ClearStartStep,
     ClearPostStep, ClearFailsStep DEF ResetStep
<1>3. ASSUME NEW c \in Client, NEW i \in Id, JobStep(c, i) PROVE PumpInv'
  BY <1>3, FailBeforeSendStep, PrepareStep, AskSendStartedStep, SyncBeforeCommitStep, JobDropped,
     SendCommitStep, TabClicksStep, TabRefusesStep, CommitTimesOutStep, ObserveStep,
     ReconcilePausesStep DEF JobStep
<1>4. ASSUME NEW m \in requests, Handle(m) PROVE PumpInv'
  BY <1>4, HandleSendStartedStep, HandleAckStep, HandleResetAckStep, HandleClearStep DEF Handle
<1>5. ASSUME UNCHANGED allVars PROVE PumpInv'
  BY <1>5, JobMoves, StillParts
     DEF allVars, pumpVars, jobVars, diskVars, tabVars
<1>6. CASE PumpNext
  BY <1>1, <1>2, <1>3, <1>4, <1>6, RevokeStep, RestartStep, UserSendsStep, TabClosesStep,
     ClearSucceedsStep, ClearConflictsStep, WorkerStartsStep, ExpireStep, HostStepStep
     DEF PumpNext
<1> QED
  BY <1>5, <1>6

\* The invariant of the browsers, their tabs and the host together: every way
\* to a Send click leads through one grant of the broker.
THEOREM PumpInvariant == PumpSpec => []PumpInv
<1> QED
  BY PumpInvInit, PumpInvStep, PTL DEF PumpSpec

\* The extension presses Send at most once for a command, however requests are
\* delayed, answers lost, service workers restarted and launches reconciled,
\* and the host never takes a clicked command for a fresh one.
THEOREM OneClick == PumpSpec => []SendClickedOnce
<1>1. PumpInv => SendClickedOnce
  <2> SUFFICES ASSUME PumpInv PROVE SendClickedOnce
    OBVIOUS
  <2>1. ASSUME NEW c \in Client, NEW d \in Client, NEW i \in Id, clicks[c][i] > 0, clicks[d][i] > 0
        PROVE  c = d /\ clicks[c][i] = 1
    <3>1. Live(c, i) /\ Live(d, i)
      BY <2>1 DEF Live
    <3>2. clicks[c][i] <= 1 /\ clicks[c][i] \in Nat
      BY DEF PumpInv, OneRight, PumpShape
    <3> QED BY <2>1, <3>1, <3>2 DEF PumpInv, OneRight
  <2>2. ASSUME NEW c \in Client, NEW i \in InStore(commands), clicks[c][i] > 0
        PROVE  ~CancellablePreSend(commands[i])
    <3>1. i \in Id /\ commands[i].state # "Absent"
      BY DEF InStore
    <3>2. grants[i] # {}
      BY <2>2, <3>1 DEF Live, PumpInv, OneRight
    <3>3. StateOK(commands[i], grants[i], issued)
      BY <3>1 DEF PumpInv, IInv, CommandOK
    <3> QED BY <3>2, <3>3 DEF StateOK, CancellablePreSend
  <2> QED BY <2>1, <2>2 DEF SendClickedOnce, ClickedOnce, ClickIsNeverFresh
<1> QED
  BY <1>1, PumpInvariant, PTL

\* A launch the host records as succeeded is one its conversation has read.
THEOREM SuccessIsDelivered == PumpSpec => []SuccessWasDelivered
<1>1. PumpInv => SuccessWasDelivered
  BY DEF PumpInv, IInv, PumpShape, Job, SuccessWasDelivered, PumpTypeOK
<1> QED
  BY <1>1, PumpInvariant, PTL

\* What a step does to the store is a step of the broker or nothing, and only
\* the answer to a request grants a lease.
Told(m) ==
  m.kind = "sendStarted" /\ MarkSendStarted(m.id, m.lease, m.from)

LEMMA BrokerSteps ==
  ASSUME PumpInv, [PumpNext]_allVars
  PROVE  [Next]_vars /\ (UNCHANGED grants \/ \E m \in requests : Told(m))
<1>1. UNCHANGED vars => [Next]_vars /\ UNCHANGED grants
  BY DEF vars
<1>2. ASSUME NEW c \in Client, PumpStep(c) PROVE [Next]_vars /\ UNCHANGED grants
  <2>1. CASE \E e \in SUBSET Anchors : HandleRedeem(c, e)
    BY <2>1, RedeemGoes DEF HandleRedeem, Next, Browser, PumpInv
  <2>2. CASE ~\E e \in SUBSET Anchors : HandleRedeem(c, e)
    BY <1>1, <1>2, <2>2 DEF PumpStep, Connect, AskRedeem, BatchFails, HandleRedeemEmpty
  <2> QED BY <2>1, <2>2
<1>3. ASSUME NEW c \in Client, ResetStep(c) PROVE [Next]_vars /\ UNCHANGED grants
  BY <1>1, <1>3 DEF ResetStep, BeginReset, FinishReset, ResetFails, AskResetAck, ClearStart,
     ClearPost, ClearFails
<1>4. ASSUME NEW c \in Client, NEW i \in Id, JobStep(c, i) PROVE [Next]_vars /\ UNCHANGED grants
  BY <1>1, <1>4 DEF JobStep, FailBeforeSend, Prepare, AskSendStarted, SyncBeforeCommit, SyncFails,
     SendCommit, TabClicks, TabRefuses, CommitTimesOut, Observe, ReconcilePauses, ReconcileReads,
     JobGivesUp, Accept, Unsure
<1>5. ASSUME NEW m \in requests, HandleSendStarted(m)
      PROVE  [Next]_vars /\ (UNCHANGED grants \/ Told(m))
  <2>1. m.id \in Id /\ m.lease \in 1 .. issued /\ m.from \in Client
    BY <1>5 DEF HandleSendStarted, PumpInv, RequestsOK, RequestOK
  <2>2. m.lease \in LeaseId
    BY <2>1, ConstantsOK DEF PumpInv, IInv, TypeOK, LeaseId
  <2>3. m.kind = "sendStarted" /\ (MarkSendStarted(m.id, m.lease, m.from) \/ UNCHANGED vars)
    BY <1>5 DEF HandleSendStarted
  <2> QED BY <1>1, <2>1, <2>2, <2>3 DEF Told, Next, Browser
<1>6. ASSUME NEW m \in requests, HandleClear(m) PROVE [Next]_vars /\ UNCHANGED grants
  BY <1>1, <1>6 DEF HandleClear, Next, Clear, ClearAllWorkerCommands, RemoveCommands
<1>7. ASSUME NEW m \in requests, HandleResetAck(m) PROVE [Next]_vars /\ UNCHANGED grants
  BY <1>1, <1>7 DEF HandleResetAck
<1>8. ASSUME NEW c \in Client, Revoke(c) PROVE [Next]_vars /\ UNCHANGED grants
  BY <1>1, <1>8 DEF Revoke, Next, Host, SettleRevokedClient
<1>9. ASSUME NEW k \in Key, NEW conv \in Conv, WorkerStarts(k, conv)
      PROVE  [Next]_vars /\ UNCHANGED grants
  BY <1>9 DEF WorkerStarts, Next, Host, ConfirmWorkerStarted, Become
<1>10. ASSUME NEW i \in Id, Expire(i) PROVE [Next]_vars /\ UNCHANGED grants
  BY <1>10 DEF Expire, Next, Browser, LeaseExpires, Become
<1>11. ASSUME HostStep PROVE [Next]_vars /\ UNCHANGED grants
  <2>1. Next
    BY <1>11 DEF HostStep, Next, Host
  <2>2. UNCHANGED grants
    BY <1>11 DEF HostStep, EnqueueHeld, ActivateDispatch, SettleForWorkerRetire, CancelPreSend,
       RemoveCommands, FenceUnclaimedAfterSend, Become
  <2> QED BY <2>1, <2>2
<1>12. CASE \E c \in Client, i \in Id : UserSends(c, i) \/ TabCloses(c, i)
  BY <1>1, <1>12 DEF UserSends, TabCloses
<1>13. CASE \/ ClearSucceeds \/ ClearConflicts \/ \E c \in Client : Restart(c)
            \/ UNCHANGED allVars
  BY <1>1, <1>13 DEF ClearSucceeds, ClearConflicts, Restart, allVars
<1> QED
  BY <1>2, <1>3, <1>4, <1>5, <1>6, <1>7, <1>8, <1>9, <1>10, <1>11, <1>12, <1>13, AckStore
     DEF PumpNext, Handle

\* What browsers, tabs, user and host do together to the store is what the
\* broker's own specification allows, so its theorems hold here as well.
THEOREM PumpIsABroker == PumpSpec => Spec
<1>1. PumpInit => Init
  BY DEF PumpInit
<1>2. PumpInv /\ [PumpNext]_allVars => [Next]_vars
  BY BrokerSteps
<1> QED
  BY <1>1, <1>2, PumpInvariant, PTL DEF PumpSpec, Spec

\* A browser whose revocation returned is never told to press Send, not even by
\* a request that was authorized before it and waited for the lock.
THEOREM RevokedIsNotTold == PumpSpec => RevokedNeverGranted
<1>1. PumpInv /\ [PumpNext]_allVars =>
        [\A i \in Id : grants'[i] # grants[i] => commands[i].holder \in paired]_allVars
  <2> SUFFICES ASSUME PumpInv, [PumpNext]_allVars, NEW i \in Id, grants'[i] # grants[i]
               PROVE  commands[i].holder \in paired
    OBVIOUS
  <2>1. PICK m \in requests : Told(m)
    BY BrokerSteps
  <2>2. m.id \in Id /\ m.from \in Client /\ m.kind = "sendStarted" /\ HoldsLease(m.id, m.lease, m.from)
    BY <2>1 DEF Told, MarkSendStarted, PumpInv, RequestsOK, RequestOK
  <2>3. m.id = i
    BY <2>1, <2>2, MarkGoes DEF Told, PumpInv
  <2>4. m.from \in paired
    BY <2>2 DEF PumpInv, RevokedOut
  <2> QED BY <2>2, <2>3, <2>4 DEF HoldsLease
<1> QED
  BY <1>1, PumpInvariant, PTL DEF PumpSpec, RevokedNeverGranted

LEMMA OnlyTabsClick ==
  ASSUME PumpInv, [PumpNext]_allVars
  PROVE  UNCHANGED clicks \/ \E c \in Client, i \in Id : TabClicks(c, i)
<1>1. UNCHANGED tabVars => UNCHANGED clicks
  BY DEF tabVars
<1>2. ASSUME NEW c \in Client, PumpStep(c) PROVE UNCHANGED clicks
  BY <1>1, <1>2 DEF PumpStep, Connect, AskRedeem, BatchFails, HandleRedeem, HandleRedeemEmpty
<1>3. ASSUME NEW c \in Client, ResetStep(c) PROVE UNCHANGED clicks
  BY <1>1, <1>3 DEF ResetStep, BeginReset, FinishReset, ResetFails, AskResetAck, ClearStart,
     ClearPost, ClearFails
<1>4. ASSUME NEW c \in Client, NEW i \in Id, JobStep(c, i)
      PROVE  UNCHANGED clicks \/ TabClicks(c, i)
  BY <1>1, <1>4 DEF JobStep, FailBeforeSend, Prepare, AskSendStarted, SyncBeforeCommit, SyncFails,
     SendCommit, TabRefuses, CommitTimesOut, Observe, ReconcilePauses, ReconcileReads,
     JobGivesUp, Accept, Unsure
<1>5. ASSUME NEW m \in requests, Handle(m) PROVE UNCHANGED clicks
  BY <1>1, <1>5 DEF Handle, HandleSendStarted, HandleAck, HandleResetAck, HandleClear
<1>6. ASSUME UNCHANGED pumpVars PROVE UNCHANGED clicks
  BY <1>1, <1>6 DEF pumpVars
<1>7. CASE \E c \in Client : Revoke(c) \/ Restart(c)
  BY <1>1, <1>7 DEF Revoke, Restart
<1>8. CASE \E c \in Client, i \in Id : UserSends(c, i) \/ TabCloses(c, i)
  BY <1>8 DEF UserSends, TabCloses
<1>9. CASE ClearSucceeds \/ ClearConflicts \/ \E i \in Id : Expire(i)
  BY <1>1, <1>9 DEF ClearSucceeds, ClearConflicts, Expire
<1>10. CASE HostStep \/ (\E k \in Key, conv \in Conv : WorkerStarts(k, conv)) \/ UNCHANGED allVars
  BY <1>6, <1>10 DEF HostStep, WorkerStarts, allVars
<1> QED
  BY <1>2, <1>3, <1>4, <1>5, <1>7, <1>8, <1>9, <1>10 DEF PumpNext

\* Once a browser hears that its Clear Workers succeeded, no browser it covers
\* presses Send for a removed command.
THEOREM ClearedStaysSilent == PumpSpec => NoClickAfterClear
<1>1. PumpInv /\ [PumpNext]_allVars =>
        [\A p \in fenced : clicks'[p[1]][p[2]] = clicks[p[1]][p[2]]]_allVars
  <2> SUFFICES ASSUME PumpInv, [PumpNext]_allVars, NEW p \in fenced
               PROVE  clicks'[p[1]][p[2]] = clicks[p[1]][p[2]]
    OBVIOUS
  <2>1. p[1] \in Client /\ p[2] \in Id /\ Silent(p[1], p[2])
    BY DEF PumpInv, PumpShape, FencedIsSilent
  <2>2. CASE UNCHANGED clicks
    BY <2>2
  <2>3. ASSUME NEW c \in Client, NEW i \in Id, TabClicks(c, i)
        PROVE  clicks'[p[1]][p[2]] = clicks[p[1]][p[2]]
    <3>1. tab[c][i] = "pending" /\ clicks' = [clicks EXCEPT ![c][i] = @ + 1]
      BY <2>3 DEF TabClicks
    <3>2. p[1] # c \/ p[2] # i
      BY <2>1, <3>1 DEF Silent
    <3> QED BY <2>1, <3>1, <3>2 DEF PumpInv, PumpShape
  <2> QED BY <2>2, <2>3, OnlyTabsClick
<1> QED
  BY <1>1, PumpInvariant, PTL DEF PumpSpec, NoClickAfterClear

(***************************************************************************)
(* Pairing: who may bring a revoked browser back, and which acknowledgement*)
(* a Clear Workers may count.                                              *)
(***************************************************************************)

AuthState == [standing : [Browsers -> {"unknown", "paired", "revoked"}],
              epoch : Nat, awaited : SUBSET Browsers]

ChangeRecord == [kind : {"pair", "revoke", "reset", "ack"}, browser : Browsers, next : AuthState]

AuthStatesOK ==
    /\ auth \in AuthState
    /\ authDisk \in AuthState
    /\ change \in ChangeRecord \cup {NoChange}
    /\ loose \subseteq [state : AuthState, late : BOOLEAN]
    /\ sentAway \subseteq Browsers
    /\ overtaken \in BOOLEAN

\* A state that has no browser back that was sent away.
Respects(state) == \A b \in sentAway : state.standing[b] = "revoked"

\* Memory, the file, the save under way and each save that could still land
\* without replacing a later one respect the tombstones.  The file has to be
\* named because a restart loads it, the saves because they become it.
TombstonesKept ==
    /\ Respects(auth)
    /\ Respects(authDisk)
    /\ change = NoChange \/ Respects(change.next)
    /\ \A s \in loose : s.late \/ Respects(s.state)

\* The save of a revocation is of a state that has the tombstone.
RevokesItsBrowser ==
    change.kind = "revoke" => change.next.standing[change.browser] = "revoked"

AuthInv == AuthStatesOK /\ RevokesItsBrowser /\ (overtaken \/ TombstonesKept)

LEMMA NoChangeIsNone == NoChange \notin ChangeRecord
  <1>1. NoChange.kind = "none"
    BY DEF NoChange
  <1> QED
    BY <1>1 DEF ChangeRecord

LEMMA AuthInitInv == AuthInit => AuthInv
  <1> SUFFICES ASSUME AuthInit PROVE AuthInv
    OBVIOUS
  <1>1. auth \in AuthState
    BY DEF AuthInit, AuthState
  <1>2. AuthStatesOK
    BY <1>1 DEF AuthInit, AuthStatesOK
  <1>3. RevokesItsBrowser
    BY DEF AuthInit, RevokesItsBrowser, NoChange
  <1> QED
    BY <1>2, <1>3 DEF AuthInit, AuthInv, TombstonesKept, Respects

LEMMA AwaitedType ==
    ASSUME NEW r \in AuthState, NEW e \in Nat, NEW a \in SUBSET Browsers
    PROVE  /\ [r EXCEPT !.awaited = a] \in AuthState
           /\ [r EXCEPT !.awaited = a].standing = r.standing
           /\ [r EXCEPT !.epoch = e, !.awaited = a] \in AuthState
           /\ [r EXCEPT !.epoch = e, !.awaited = a].standing = r.standing
  BY DEF AuthState

\* The saves still to land, once another is in the file.
LEMMA LateOnes ==
    ASSUME AuthInv, loose' = {[s EXCEPT !.late = TRUE] : s \in loose}
    PROVE  /\ loose' \subseteq [state : AuthState, late : BOOLEAN]
           /\ \A s \in loose' : s.late
  <1>1. \A s \in loose : s \in [state : AuthState, late : BOOLEAN]
    BY DEF AuthInv, AuthStatesOK
  <1>2. \A s \in loose : /\ [s EXCEPT !.late = TRUE] \in [state : AuthState, late : BOOLEAN]
                         /\ [s EXCEPT !.late = TRUE].late
    BY <1>1
  <1> QED
    BY <1>2

LEMMA StandingType ==
    ASSUME AuthInv, NEW b \in Browsers, NEW v \in {"unknown", "paired", "revoked"}
    PROVE  /\ Standing(b, v) \in AuthState
           /\ \A c \in Browsers : Standing(b, v).standing[c] = IF c = b THEN v ELSE auth.standing[c]
           /\ Standing(b, v).awaited = auth.awaited
  BY DEF AuthInv, AuthStatesOK, AuthState, Standing

\* A change that starts: its next state has to respect the tombstones.
LEMMA ChangeStarts ==
    ASSUME AuthInv, NEW kind \in {"pair", "revoke", "reset", "ack"}, NEW b \in Browsers,
           NEW next \in AuthState, Changes(kind, b, next),
           sentAway' \subseteq sentAway,
           TombstonesKept => \A c \in sentAway' : next.standing[c] = "revoked",
           kind = "revoke" => next.standing[b] = "revoked"
    PROVE  AuthInv'
  <1>1. /\ change' \in ChangeRecord
        /\ change'.next = next /\ change'.browser = b /\ change'.kind = kind
    BY DEF Changes, ChangeRecord
  <1>2. AuthStatesOK'
    BY <1>1 DEF AuthInv, AuthStatesOK, Changes
  <1>3. TombstonesKept => TombstonesKept'
    BY <1>1 DEF TombstonesKept, Respects, Changes
  <1> QED
    BY <1>1, <1>2, <1>3 DEF AuthInv, RevokesItsBrowser, Changes

\* A step that ends a change without publishing it.
LEMMA SaveIsGone ==
    ASSUME AuthInv, change' = NoChange, UNCHANGED <<auth, sentAway, overtaken>>,
           Saving,
           \/ InFile(change.next)
           \/ UNCHANGED <<authDisk, loose>>
           \/ UNCHANGED authDisk /\ loose' = loose \cup {[state |-> change.next, late |-> FALSE]}
    PROVE  AuthInv'
  <1>1. change \in ChangeRecord /\ change.next \in AuthState
    BY DEF AuthInv, AuthStatesOK, Saving, ChangeRecord
  <1>2. AuthStatesOK'
    <2>1. loose' \subseteq [state : AuthState, late : BOOLEAN]
      <3>1. CASE InFile(change.next)
        BY <3>1, LateOnes DEF InFile
      <3>2. CASE loose' = loose \cup {[state |-> change.next, late |-> FALSE]}
        <4>1. [state |-> change.next, late |-> FALSE] \in [state : AuthState, late : BOOLEAN]
          BY <1>1
        <4>2. loose \subseteq [state : AuthState, late : BOOLEAN]
          BY DEF AuthInv, AuthStatesOK
        <4> QED
          BY <3>2, <4>1, <4>2
      <3>3. CASE UNCHANGED loose
        BY <3>3 DEF AuthInv, AuthStatesOK
      <3> QED
        BY <3>1, <3>2, <3>3
    <2>2. authDisk' \in AuthState
      BY <1>1 DEF AuthInv, AuthStatesOK, InFile
    <2> QED
      BY <2>1, <2>2 DEF AuthInv, AuthStatesOK
  <1>3. TombstonesKept => TombstonesKept'
    <2>1. CASE InFile(change.next)
      BY <1>1, <2>1, NoChangeIsNone, LateOnes DEF TombstonesKept, Respects, InFile
    <2>2. CASE UNCHANGED <<authDisk, loose>>
      BY <2>2 DEF TombstonesKept, Respects
    <2>3. CASE UNCHANGED authDisk /\ loose' = loose \cup {[state |-> change.next, late |-> FALSE]}
      BY <1>1, <2>3, NoChangeIsNone DEF TombstonesKept, Respects
    <2> QED
      BY <2>1, <2>2, <2>3
  <1>4. RevokesItsBrowser'
    BY DEF RevokesItsBrowser, NoChange
  <1> QED
    BY <1>2, <1>3, <1>4 DEF AuthInv

LEMMA AuthStepInv == ASSUME AuthInv, [AuthNext]_authVars PROVE AuthInv'
  <1> DEFINE same == UNCHANGED <<auth, authDisk, change, loose, sentAway, overtaken>>
  <1>0. ASSUME same PROVE AuthInv'
    BY <1>0 DEF AuthInv, AuthStatesOK, RevokesItsBrowser, TombstonesKept, Respects
  <1>1. ASSUME NEW b \in Browsers, AutoPairs(b) PROVE AuthInv'
    <2>1. TombstonesKept => b \notin sentAway
      BY <1>1 DEF AutoPairs, MayAutoPair, TombstonesKept, Respects
    <2>2. TombstonesKept => \A c \in sentAway' : Standing(b, "paired").standing[c] = "revoked"
      BY <1>1, <2>1, StandingType DEF AutoPairs, TombstonesKept, Respects, AuthInv, AuthStatesOK
    <2> QED
      BY <1>1, <2>2, StandingType, ChangeStarts DEF AutoPairs
  <1>2. ASSUME NEW b \in Browsers, BindsOrigin(b) PROVE AuthInv'
    BY <1>2, ChangeStarts DEF BindsOrigin, TombstonesKept, Respects, AuthInv, AuthStatesOK
  <1>3. ASSUME NEW b \in Browsers, Repairs(b) PROVE AuthInv'
    <2>1. TombstonesKept => \A c \in sentAway' : Standing(b, "paired").standing[c] = "revoked"
      BY <1>3, StandingType DEF Repairs, TombstonesKept, Respects, AuthInv, AuthStatesOK
    <2> QED
      BY <1>3, <2>1, StandingType, ChangeStarts DEF Repairs
  <1>4. ASSUME NEW b \in Browsers, Revokes(b) PROVE AuthInv'
    <2> DEFINE next == [Standing(b, "revoked") EXCEPT !.awaited = @ \ {b}]
    <2>1. next \in AuthState /\ next.standing = Standing(b, "revoked").standing
      <3>1. Standing(b, "revoked") \in AuthState
        BY StandingType
      <3>2. Standing(b, "revoked").awaited \ {b} \in SUBSET Browsers
        BY <3>1 DEF AuthState
      <3> QED
        BY <3>1, <3>2, AwaitedType
    <2>2. TombstonesKept => \A c \in sentAway' : next.standing[c] = "revoked"
      BY <1>4, <2>1, StandingType DEF Revokes, TombstonesKept, Respects, AuthInv, AuthStatesOK
    <2> HIDE DEF next
    <2>3. Changes("revoke", b, next)
      BY <1>4 DEF Revokes, next
    <2> QED
      BY <1>4, <2>1, <2>2, <2>3, StandingType, ChangeStarts DEF Revokes
  <1>5. ASSUME NEW b \in Browsers, NEW required \in SUBSET (Browsers \ {b}),
               BeginsReset(b, required)
        PROVE  AuthInv'
    <2> DEFINE next == [auth EXCEPT !.epoch = NextEpoch, !.awaited = @ \cup (required \cap Paired)]
    <2>1. next \in AuthState /\ next.standing = auth.standing
      <3>1. auth \in AuthState
        BY DEF AuthInv, AuthStatesOK
      <3>2. NextEpoch \in Nat /\ auth.awaited \cup (required \cap Paired) \in SUBSET Browsers
        BY <3>1 DEF AuthState, NextEpoch
      <3> QED
        BY <3>1, <3>2, AwaitedType
    <2>2. TombstonesKept => \A c \in sentAway' : next.standing[c] = "revoked"
      BY <1>5, <2>1 DEF BeginsReset, TombstonesKept, Respects
    <2> HIDE DEF next
    <2>3. Changes("reset", b, next)
      BY <1>5 DEF BeginsReset, next
    <2> QED
      BY <1>5, <2>1, <2>2, <2>3, ChangeStarts DEF BeginsReset
  <1>6. ASSUME NEW b \in Browsers, ReadsEpoch(b) PROVE AuthInv'
    BY <1>0, <1>6 DEF ReadsEpoch
  <1>7. CASE ReadsAwaited \/ AppliesReset
    BY <1>0, <1>7 DEF ReadsAwaited, AppliesReset
  <1>8. ASSUME NEW ack \in acks, Acknowledges(ack) PROVE AuthInv'
    <2> DEFINE next == [auth EXCEPT !.awaited = @ \ {ack.browser}]
    <2>1. next \in AuthState /\ next.standing = auth.standing
      <3>1. auth \in AuthState
        BY DEF AuthInv, AuthStatesOK
      <3>2. auth.awaited \ {ack.browser} \in SUBSET Browsers
        BY <3>1 DEF AuthState
      <3> QED
        BY <3>1, <3>2, AwaitedType
    <2>2. TombstonesKept => \A c \in sentAway' : next.standing[c] = "revoked"
      BY <1>8, <2>1 DEF Acknowledges, TombstonesKept, Respects
    <2>3. ack.browser \in Browsers
      BY <1>8 DEF Acknowledges, Paired
    <2> HIDE DEF next
    <2>4. Changes("ack", ack.browser, next)
      BY <1>8 DEF Acknowledges, next
    <2> QED
      BY <1>8, <2>1, <2>2, <2>3, <2>4, ChangeStarts DEF Acknowledges
  <1>9. ASSUME NEW ack \in acks, AckComesToNothing(ack) PROVE AuthInv'
    BY <1>0, <1>9 DEF AckComesToNothing
  <1>10. CASE ChangeSaved
    <2>1. change \in ChangeRecord /\ change.next \in AuthState /\ change.browser \in Browsers
      BY <1>10 DEF ChangeSaved, AuthInv, AuthStatesOK, Saving, ChangeRecord
    <2>2. AuthStatesOK'
      BY <1>10, <2>1, LateOnes DEF ChangeSaved, AuthInv, AuthStatesOK, InFile
    <2>3. change.kind = "revoke" => change.next.standing[change.browser] = "revoked"
      BY DEF AuthInv, RevokesItsBrowser
    <2>4. TombstonesKept => TombstonesKept'
      <3>1. TombstonesKept => Respects(auth)' /\ Respects(authDisk)'
        BY <1>10, <2>1, <2>3, NoChangeIsNone DEF ChangeSaved, InFile, TombstonesKept, Respects
      <3> QED
        BY <1>10, <3>1, LateOnes DEF ChangeSaved, InFile, TombstonesKept
    <2> QED
      BY <1>10, <2>2, <2>4 DEF AuthInv, RevokesItsBrowser, NoChange, ChangeSaved
  <1>11. CASE SaveFails \/ HandlerDropped
    BY <1>11, SaveIsGone DEF SaveFails, HandlerDropped
  <1>12. ASSUME NEW s \in loose, LooseSaveLands(s) PROVE AuthInv'
    <2>1. s \in [state : AuthState, late : BOOLEAN]
      BY DEF AuthInv, AuthStatesOK
    <2>2. AuthStatesOK'
      BY <1>12, <2>1 DEF LooseSaveLands, AuthInv, AuthStatesOK
    <2>3. TombstonesKept /\ ~s.late => TombstonesKept'
      BY <1>12 DEF LooseSaveLands, TombstonesKept, Respects
    <2> QED
      BY <1>12, <2>1, <2>2, <2>3 DEF LooseSaveLands, AuthInv, RevokesItsBrowser
  <1>13. ASSUME NEW s \in loose, LooseSaveFails(s) PROVE AuthInv'
    BY <1>13 DEF LooseSaveFails, AuthInv, AuthStatesOK, RevokesItsBrowser, TombstonesKept, Respects
  <1>14. CASE Notifies \/ ClearLooks \/ ClearWaits \/ ClearEnds
    BY <1>0, <1>14 DEF Notifies, ClearLooks, ClearWaits, ClearEnds
  <1>15. CASE AuthRestarts
    <2>1. authDisk' = authDisk \/ (change # NoChange /\ authDisk' = change.next)
      BY <1>15 DEF AuthRestarts
    <2>2. AuthStatesOK'
      BY <1>15, <2>1 DEF AuthRestarts, AuthInv, AuthStatesOK, ChangeRecord
    <2>3. TombstonesKept => TombstonesKept'
      BY <1>15, <2>1 DEF AuthRestarts, TombstonesKept, Respects
    <2> QED
      BY <1>15, <2>2, <2>3 DEF AuthRestarts, AuthInv, RevokesItsBrowser, NoChange
  <1>16. CASE UNCHANGED authVars
    BY <1>0, <1>16 DEF authVars
  <1> QED
    BY <1>1, <1>2, <1>3, <1>4, <1>5, <1>6, <1>7, <1>8, <1>9, <1>10, <1>11, <1>12, <1>13,
       <1>14, <1>15, <1>16 DEF AuthNext

\* The inductive invariant of companion.rs about revocation.
THEOREM AuthInvariant == AuthSpec => []AuthInv
  BY AuthInitInv, AuthStepInv, PTL DEF AuthSpec

\* Nothing but a manual repair brings a revoked browser back: not its own
\* automatic pairing, not a failing save, not a restart, unless the save of a
\* dropped handler landed after a later one.
THEOREM RevokedStaysRevoked == AuthSpec => []OnlyLateSavesRestore
  <1>1. AuthInv => OnlyLateSavesRestore
    BY DEF AuthInv, TombstonesKept, Respects, OnlyLateSavesRestore, Paired
  <1> QED
    BY <1>1, AuthInvariant, PTL

(***************************************************************************)
(* The reset of the workers, over the same steps.                          *)
(***************************************************************************)
WaitRecord == [at : {"publish", "look", "looked", "asleep", "acknowledged"}, epoch : Nat,
               required : SUBSET Browsers, told : BOOLEAN]

ReadRecord == [at : {"epoch", "read"}, browser : Browsers, epoch : Nat, awaited : BOOLEAN]

ResetTypes ==
    /\ waiting \in WaitRecord \cup {NoWait}
    /\ reading \in ReadRecord \cup {NotReading}
    /\ reset \in [Browsers -> [epoch : Nat, clears : Nat]]
    /\ acks \subseteq [browser : Browsers, epoch : Nat]
    /\ clears \in Nat
    /\ notifyDue \in BOOLEAN

\* A change is of the state in memory: nothing else changes that under its lock.
Follows ==
    change # NoChange =>
        /\ change.next.epoch = IF change.kind = "reset" THEN NextEpoch ELSE auth.epoch
        /\ change.kind = "pair" => change.next.awaited = auth.awaited
        /\ change.kind = "ack" => change.next.awaited = auth.awaited \ {change.browser}
        /\ change.kind = "revoke" => waiting = NoWait

\* A reset being saved has its Clear Workers waiting for the save.
OneClear == (change.kind = "reset") <=> (waiting.at = "publish")

\* What the waiter saw last is still so, or it has been or will be told.
WaiterHears ==
    waiting.at \in {"looked", "asleep"} /\ ~waiting.told => auth.awaited # {} \/ notifyDue

\* The browser dropped its workers after the last reset was published.
Fresh(b) == reset[b].clears >= clears

\* No epoch anybody holds is ahead of memory's, and the file is not behind it:
\* so a browser at memory's epoch has applied the last reset.
EpochsGrow ==
    /\ authDisk.epoch >= auth.epoch
    /\ \A s \in loose : s.late \/ s.state.epoch >= auth.epoch
    /\ \A b \in Browsers :
        /\ reset[b].epoch <= auth.epoch
        /\ reset[b].epoch = auth.epoch => Fresh(b)
    /\ reading # NotReading => reading.epoch <= auth.epoch
    /\ \A ack \in acks : ack.epoch <= reset[ack.browser].epoch

\* A browser leaves the awaited ones by an acknowledgement that is true.
AcksAreTrue ==
    /\ change.kind = "ack" => Fresh(change.browser)
    /\ waiting.at \in {"look", "looked", "asleep"} =>
        \A b \in waiting.required : b \in auth.awaited \/ Fresh(b)
    /\ waiting.at = "acknowledged" => \A b \in waiting.required : Fresh(b)

ResetInv ==
    /\ ResetTypes /\ Follows /\ OneClear /\ WaiterHears
    /\ overtaken \/ (EpochsGrow /\ AcksAreTrue)

LEMMA ResetInitInv == AuthInit => ResetInv
  <1> SUFFICES ASSUME AuthInit PROVE ResetInv
    OBVIOUS
  <1>1. NoChange.kind = "none" /\ NoWait.at = "none"
    BY DEF NoChange, NoWait
  <1>2. ResetTypes
    BY DEF AuthInit, ResetTypes
  <1>3. Follows /\ OneClear /\ WaiterHears
    BY <1>1 DEF AuthInit, Follows, OneClear, WaiterHears
  <1>4. EpochsGrow
    BY DEF AuthInit, EpochsGrow, Fresh
  <1>5. AcksAreTrue
    BY <1>1 DEF AuthInit, AcksAreTrue
  <1> QED
    BY <1>2, <1>3, <1>4, <1>5 DEF ResetInv

\* The change under way, or none.
LEMMA ChangeFacts ==
    ASSUME AuthInv
    PROVE  /\ change = NoChange => change.kind = "none"
           /\ change # NoChange =>
                /\ change.kind \in {"pair", "revoke", "reset", "ack"}
                /\ change.browser \in Browsers /\ change.next \in AuthState
           /\ auth \in AuthState /\ auth.epoch \in Nat
           /\ authDisk \in AuthState /\ authDisk.epoch \in Nat
           /\ \A s \in loose : s.state.epoch \in Nat
  BY DEF AuthInv, AuthStatesOK, ChangeRecord, NoChange, AuthState

\* The wait under way, and what its next moment is.
LEMMA WaitFacts ==
    ASSUME ResetTypes
    PROVE  /\ waiting = NoWait => waiting.at = "none"
           /\ waiting # NoWait => waiting \in WaitRecord
  BY DEF ResetTypes, NoWait

\* A change other than a reset begins.
LEMMA ResetChangeStarts ==
    ASSUME AuthInv, ResetInv, NEW kind \in {"pair", "revoke", "ack"}, NEW b \in Browsers,
           NEW next \in AuthState, Changes(kind, b, next),
           next.epoch = auth.epoch,
           kind = "pair" => next.awaited = auth.awaited,
           kind = "ack" => next.awaited = auth.awaited \ {b} /\ (overtaken \/ Fresh(b)),
           kind = "revoke" => waiting = NoWait,
           UNCHANGED waiting, acks' \subseteq acks
    PROVE  ResetInv'
  <1>1. /\ change'.kind = kind /\ change'.browser = b /\ change'.next = next
        /\ change = NoChange /\ change.kind = "none"
    BY ChangeFacts DEF Changes, AuthLockFree
  <1>2. ResetTypes'
    BY DEF ResetInv, ResetTypes, Changes
  <1>3. Follows'
    BY <1>1 DEF Follows, Changes
  <1>4. OneClear'
    BY <1>1 DEF ResetInv, OneClear
  <1>5. WaiterHears'
    BY DEF ResetInv, WaiterHears, Changes
  <1>6. EpochsGrow => EpochsGrow'
    BY DEF EpochsGrow, Fresh, Changes
  <1>7. AcksAreTrue => (overtaken \/ AcksAreTrue')
    BY <1>1 DEF AcksAreTrue, Fresh, Changes
  <1> QED
    BY <1>2, <1>3, <1>4, <1>5, <1>6, <1>7 DEF ResetInv, Changes

LEMMA AuthChangesKeepReset ==
    ASSUME AuthInv, ResetInv, NEW b \in Browsers,
           AutoPairs(b) \/ BindsOrigin(b) \/ Repairs(b) \/ Revokes(b)
    PROVE  ResetInv'
  <1>0. /\ Standing(b, "paired") \in AuthState
        /\ Standing(b, "paired").epoch = auth.epoch
        /\ Standing(b, "paired").awaited = auth.awaited
    BY StandingType DEF Standing, AuthInv, AuthStatesOK, AuthState
  <1>1. CASE AutoPairs(b) \/ Repairs(b)
    <2>1. Changes("pair", b, Standing(b, "paired")) /\ UNCHANGED <<waiting, acks>>
      BY <1>1 DEF AutoPairs, Repairs
    <2> QED
      BY <1>0, <2>1, ResetChangeStarts
  <1>2. CASE BindsOrigin(b)
    <2>1. Changes("pair", b, auth) /\ UNCHANGED <<waiting, acks>>
      BY <1>2 DEF BindsOrigin
    <2> QED
      BY <2>1, ChangeFacts, ResetChangeStarts
  <1>3. CASE Revokes(b)
    <2>1. PICK s : s = Standing(b, "revoked")
      OBVIOUS
    <2>2. s \in AuthState /\ s.epoch = auth.epoch
      BY <2>1, StandingType DEF Standing, AuthInv, AuthStatesOK, AuthState
    <2>3. PICK next : next = [s EXCEPT !.awaited = @ \ {b}]
      OBVIOUS
    <2>4. next \in AuthState /\ next.epoch = auth.epoch
      BY <2>2, <2>3 DEF AuthState
    <2>5. Changes("revoke", b, next) /\ UNCHANGED <<waiting, acks>> /\ waiting = NoWait
      BY <1>3, <2>1, <2>3 DEF Revokes
    <2> QED
      BY <2>4, <2>5, ResetChangeStarts
  <1> QED
    BY <1>1, <1>2, <1>3

\* An acknowledgement of memory's epoch is of a browser that applied it.
LEMMA AckKeepsReset ==
    ASSUME AuthInv, ResetInv, NEW ack \in acks, Acknowledges(ack)
    PROVE  ResetInv'
  <1>1. ack.browser \in Browsers /\ ack.epoch = auth.epoch /\ ack.epoch \in Nat
    BY DEF Acknowledges, Paired, Current, ResetInv, ResetTypes
  <1>2. PICK next : next = [auth EXCEPT !.awaited = @ \ {ack.browser}]
    OBVIOUS
  <1>3. /\ next \in AuthState /\ next.epoch = auth.epoch
        /\ next.awaited = auth.awaited \ {ack.browser}
    BY <1>2, ChangeFacts DEF AuthState
  <1>4. Changes("ack", ack.browser, next) /\ UNCHANGED waiting /\ acks' \subseteq acks
    BY <1>2 DEF Acknowledges
  <1>5. overtaken \/ Fresh(ack.browser)
    <2>1. reset[ack.browser].epoch \in Nat /\ auth.epoch \in Nat
      BY <1>1, ChangeFacts DEF ResetInv, ResetTypes
    <2>2. EpochsGrow => reset[ack.browser].epoch = auth.epoch
      BY <1>1, <2>1 DEF EpochsGrow
    <2> QED
      BY <1>1, <2>2 DEF ResetInv, EpochsGrow
  <1> QED
    BY <1>1, <1>3, <1>4, <1>5, ResetChangeStarts

LEMMA BeginKeepsReset ==
    ASSUME AuthInv, ResetInv, NEW b \in Browsers, NEW required \in SUBSET Browsers,
           BeginsReset(b, required)
    PROVE  ResetInv'
  <1>1. PICK next : next = [auth EXCEPT !.epoch = NextEpoch,
                                        !.awaited = @ \cup (required \cap Paired)]
    OBVIOUS
  <1>2. next.epoch = NextEpoch /\ NextEpoch \in Nat
    BY <1>1, ChangeFacts DEF AuthState, NextEpoch
  <1>3. /\ change' = [kind |-> "reset", browser |-> b, next |-> next]
        /\ UNCHANGED <<auth, authDisk, loose, notifyDue, reset, reading, clears, overtaken, acks>>
        /\ waiting' = [at |-> "publish", epoch |-> NextEpoch, required |-> {}, told |-> FALSE]
    BY <1>1 DEF BeginsReset, Changes
  <1>4. ResetTypes'
    BY <1>2, <1>3 DEF ResetInv, ResetTypes, WaitRecord
  <1>5. Follows' /\ OneClear' /\ WaiterHears'
    BY <1>2, <1>3 DEF Follows, OneClear, WaiterHears, NextEpoch
  <1>6. EpochsGrow => EpochsGrow'
    BY <1>3 DEF EpochsGrow, Fresh
  <1>7. AcksAreTrue'
    BY <1>3 DEF AcksAreTrue
  <1> QED
    BY <1>3, <1>4, <1>5, <1>6, <1>7 DEF ResetInv

LEMMA SavedKeepsReset ==
    ASSUME AuthInv, ResetInv, ChangeSaved PROVE ResetInv'
  <1>1. /\ change.kind \in {"pair", "revoke", "reset", "ack"}
        /\ change.browser \in Browsers /\ change.next \in AuthState
        /\ change # NoChange /\ change.next.epoch \in Nat
        /\ auth.epoch \in Nat /\ change.next.awaited \in SUBSET Browsers
    BY ChangeFacts DEF ChangeSaved, Saving, AuthState
  <1>2. /\ change.next.epoch = IF change.kind = "reset" THEN NextEpoch ELSE auth.epoch
        /\ change.kind = "pair" => change.next.awaited = auth.awaited
        /\ change.kind = "ack" => change.next.awaited = auth.awaited \ {change.browser}
        /\ change.kind = "revoke" => waiting.at = "none"
        /\ (change.kind = "reset") <=> (waiting.at = "publish")
    BY <1>1, WaitFacts DEF ResetInv, Follows, OneClear
  <1>3. /\ auth' = change.next /\ authDisk' = change.next /\ change' = NoChange
        /\ change'.kind = "none"
        /\ UNCHANGED <<reset, reading, acks, overtaken>>
        /\ \A s \in loose' : s.late
        /\ notifyDue' = (notifyDue \/ change.kind = "ack" \/
                         (change.kind = "revoke" /\ change.browser \in auth.awaited))
    BY LateOnes DEF ChangeSaved, InFile, NoChange
  <1>4. CASE change.kind = "reset"
    <2>1. waiting \in WaitRecord /\ clears \in Nat
      BY <1>2, <1>4, WaitFacts DEF ResetInv, ResetTypes
    <2>2. /\ clears' = clears + 1
          /\ waiting' = IF change.next.awaited = {} THEN NoWait
                        ELSE [waiting EXCEPT !.at = "look", !.required = change.next.awaited]
      BY <1>4 DEF ChangeSaved
    <2>3. CASE change.next.awaited = {}
      <3>1. waiting' = NoWait /\ waiting'.at = "none"
        BY <2>2, <2>3 DEF NoWait
      <3>2. ResetTypes' /\ Follows' /\ OneClear' /\ WaiterHears' /\ AcksAreTrue'
        BY <1>3, <2>1, <2>2, <3>1
           DEF ResetInv, ResetTypes, Follows, OneClear, WaiterHears, AcksAreTrue
      <3>3. EpochsGrow => EpochsGrow'
        BY <1>1, <1>2, <1>3, <1>4 DEF EpochsGrow, NextEpoch, ResetInv, ResetTypes, ReadRecord
      <3> QED
        BY <1>3, <3>2, <3>3 DEF ResetInv
    <2>4. CASE change.next.awaited # {}
      <3>1. PICK w : w = [waiting EXCEPT !.at = "look", !.required = change.next.awaited]
        OBVIOUS
      <3>2. /\ w \in WaitRecord /\ w.at = "look" /\ w.required = change.next.awaited
            /\ waiting' = w
        BY <1>1, <2>1, <2>2, <2>4, <3>1 DEF WaitRecord
      <3>3. ResetTypes' /\ Follows' /\ OneClear' /\ WaiterHears' /\ AcksAreTrue'
        BY <1>3, <2>1, <2>2, <3>2
           DEF ResetInv, ResetTypes, Follows, OneClear, WaiterHears, AcksAreTrue
      <3>4. EpochsGrow => EpochsGrow'
        BY <1>1, <1>2, <1>3, <1>4 DEF EpochsGrow, NextEpoch, ResetInv, ResetTypes, ReadRecord
      <3> QED
        BY <1>3, <3>3, <3>4 DEF ResetInv
    <2> QED
      BY <2>3, <2>4
  <1>5. CASE change.kind # "reset"
    <2>1. UNCHANGED <<clears, waiting>>
      BY <1>5 DEF ChangeSaved
    <2>2. ResetTypes'
      BY <1>3, <2>1 DEF ResetInv, ResetTypes
    <2>3. Follows' /\ OneClear'
      BY <1>2, <1>3, <1>5, <2>1 DEF Follows, OneClear
    <2>4. WaiterHears'
      BY <1>1, <1>2, <1>3, <2>1 DEF ResetInv, WaiterHears
    <2>5. EpochsGrow => EpochsGrow'
      BY <1>1, <1>2, <1>3, <1>5, <2>1 DEF EpochsGrow, Fresh
    <2>6. AcksAreTrue => AcksAreTrue'
      BY <1>1, <1>2, <1>3, <2>1 DEF AcksAreTrue, Fresh
    <2> QED
      BY <1>3, <2>2, <2>3, <2>4, <2>5, <2>6 DEF ResetInv
  <1> QED
    BY <1>4, <1>5

LEMMA LostSavesKeepReset ==
    ASSUME AuthInv, ResetInv, SaveFails \/ HandlerDropped PROVE ResetInv'
  <1>1. /\ change # NoChange
        /\ UNCHANGED <<auth, notifyDue, reset, reading, acks, clears, overtaken>>
        /\ change' = NoChange /\ change'.kind = "none"
        /\ waiting' = IF change.kind = "reset" THEN NoWait ELSE waiting
        /\ \/ InFile(change.next)
           \/ UNCHANGED <<authDisk, loose>>
           \/ UNCHANGED authDisk /\ loose' = loose \cup {[state |-> change.next, late |-> FALSE]}
    BY DEF SaveFails, HandlerDropped, Saving, NoChange
  <1>2. /\ change.next.epoch >= auth.epoch
        /\ change.kind # "reset" => waiting.at # "publish"
        /\ NoWait.at = "none"
    BY <1>1, ChangeFacts DEF ResetInv, Follows, OneClear, NextEpoch, NoWait
  <1>3. ResetTypes' /\ Follows' /\ OneClear' /\ WaiterHears'
    BY <1>1, <1>2 DEF ResetInv, ResetTypes, Follows, OneClear, WaiterHears
  <1>4. EpochsGrow => authDisk'.epoch >= auth.epoch
    BY <1>1, <1>2 DEF EpochsGrow, InFile
  <1>5. EpochsGrow => \A s \in loose' : s.late \/ s.state.epoch >= auth.epoch
    BY <1>1, <1>2, LateOnes DEF EpochsGrow, InFile
  <1>6. EpochsGrow => EpochsGrow'
    BY <1>1, <1>4, <1>5 DEF EpochsGrow, Fresh
  <1>7. AcksAreTrue => AcksAreTrue'
    BY <1>1, <1>2 DEF AcksAreTrue, Fresh
  <1> QED
    BY <1>1, <1>3, <1>6, <1>7 DEF ResetInv

LEMMA LooseSavesKeepReset ==
    ASSUME AuthInv, ResetInv, NEW s \in loose, LooseSaveLands(s) \/ LooseSaveFails(s)
    PROVE  ResetInv'
  <1>1. /\ UNCHANGED <<auth, change, waiting, notifyDue, reset, reading, acks, clears>>
        /\ loose' \subseteq loose
        /\ \/ authDisk' = s.state /\ overtaken' = (overtaken \/ s.late)
           \/ UNCHANGED <<authDisk, overtaken>>
    BY DEF LooseSaveLands, LooseSaveFails
  <1>2. ResetTypes' /\ Follows' /\ OneClear' /\ WaiterHears'
    BY <1>1 DEF ResetInv, ResetTypes, Follows, OneClear, WaiterHears, NextEpoch
  <1>3. EpochsGrow => overtaken' \/ EpochsGrow'
    BY <1>1 DEF EpochsGrow, Fresh
  <1>4. AcksAreTrue => AcksAreTrue'
    BY <1>1 DEF AcksAreTrue, Fresh
  <1>5. overtaken => overtaken'
    BY <1>1
  <1> QED
    BY <1>2, <1>3, <1>4, <1>5 DEF ResetInv

\* A waiter moves on.
LEMMA WaitMoves ==
    ASSUME waiting \in WaitRecord,
           NEW at \in {"look", "looked", "asleep", "acknowledged"}
    PROVE  /\ [waiting EXCEPT !.at = at] \in WaitRecord
           /\ [waiting EXCEPT !.at = at].at = at
           /\ [waiting EXCEPT !.at = at].told = waiting.told
           /\ [waiting EXCEPT !.at = at].required = waiting.required
           /\ [waiting EXCEPT !.told = TRUE] \in WaitRecord
           /\ [waiting EXCEPT !.told = TRUE].at = waiting.at
           /\ [waiting EXCEPT !.told = TRUE].told
           /\ [waiting EXCEPT !.told = TRUE].required = waiting.required
           /\ [waiting EXCEPT !.at = at, !.told = FALSE] \in WaitRecord
           /\ [waiting EXCEPT !.at = at, !.told = FALSE].at = at
           /\ [waiting EXCEPT !.at = at, !.told = FALSE].required = waiting.required
  BY DEF WaitRecord

LEMMA WaitingKeepsReset ==
    ASSUME AuthInv, ResetInv, Notifies \/ ClearLooks \/ ClearWaits \/ ClearEnds
    PROVE  ResetInv'
  <1>0. UNCHANGED <<auth, authDisk, change, loose, reset, reading, acks, clears, overtaken>>
    BY DEF Notifies, ClearLooks, ClearWaits, ClearEnds
  <1>1. EpochsGrow => EpochsGrow'
    BY <1>0 DEF EpochsGrow, Fresh
  <1>2. waiting.at \in {"publish", "look", "looked", "asleep", "acknowledged"} => waiting \in WaitRecord
    BY WaitFacts DEF ResetInv
  <1>3. CASE waiting' = waiting /\ waiting.at \notin {"look", "looked", "asleep"}
    <2>1. notifyDue' \in BOOLEAN
      BY DEF Notifies, ClearLooks, ClearWaits, ClearEnds, ResetInv, ResetTypes
    <2> QED
      BY <1>0, <1>1, <1>3, <2>1
         DEF ResetInv, ResetTypes, Follows, OneClear, WaiterHears, AcksAreTrue, Fresh, NextEpoch
  <1>4. CASE waiting' = NoWait /\ waiting.at \in {"look", "looked", "asleep", "acknowledged"}
    <2>1. waiting'.at = "none" /\ notifyDue' \in BOOLEAN
      BY <1>4 DEF NoWait, Notifies, ClearLooks, ClearWaits, ClearEnds, ResetInv, ResetTypes
    <2> QED
      BY <1>0, <1>1, <1>4, <2>1
         DEF ResetInv, ResetTypes, Follows, OneClear, WaiterHears, AcksAreTrue, Fresh, NextEpoch
  <1>5. ASSUME waiting \in WaitRecord,
               waiting' \in WaitRecord, waiting'.required = waiting.required,
               \/ /\ waiting'.told /\ waiting'.at = waiting.at
                  /\ waiting.at \in {"look", "looked", "asleep"} /\ notifyDue' = FALSE
               \/ /\ UNCHANGED notifyDue
                  /\ \/ waiting.at = "look" /\ waiting'.at = "acknowledged" /\ auth.awaited = {}
                     \/ waiting.at = "look" /\ waiting'.at = "looked" /\ auth.awaited # {}
                     \/ /\ waiting.at = "looked" /\ waiting'.at = "asleep"
                        /\ waiting'.told = waiting.told
                     \/ waiting.at = "asleep" /\ waiting'.at = "look"
        PROVE  ResetInv'
    <2>1. ResetTypes'
      BY <1>0, <1>5 DEF ResetInv, ResetTypes
    <2>2. Follows' /\ OneClear'
      <3>1. waiting # NoWait
        BY <1>5 DEF NoWait
      <3> QED
        BY <1>0, <1>5, <3>1 DEF ResetInv, Follows, OneClear, NextEpoch
    <2>3. WaiterHears'
      BY <1>0, <1>5 DEF ResetInv, WaiterHears
    <2>4. AcksAreTrue => AcksAreTrue'
      BY <1>0, <1>5 DEF AcksAreTrue, Fresh
    <2> QED
      BY <1>0, <1>1, <2>1, <2>2, <2>3, <2>4 DEF ResetInv
  <1>6. CASE Notifies
    <2>1. CASE waiting.at \in {"look", "looked", "asleep"}
      BY <1>2, <1>5, <1>6, <2>1, WaitMoves DEF Notifies, HearsNotice
    <2>2. CASE waiting.at \notin {"look", "looked", "asleep"}
      BY <1>3, <1>6, <2>2 DEF Notifies, HearsNotice
    <2> QED
      BY <2>1, <2>2
  <1>7. CASE ClearLooks
    <2>1. CASE auth.epoch # waiting.epoch
      BY <1>4, <1>7, <2>1 DEF ClearLooks
    <2>2. CASE auth.epoch = waiting.epoch
      BY <1>2, <1>5, <1>7, <2>2, WaitMoves DEF ClearLooks
    <2> QED
      BY <2>1, <2>2
  <1>8. CASE ClearWaits
    <2>1. CASE waiting.at = "looked" /\ waiting' = [waiting EXCEPT !.at = "asleep"]
      BY <1>2, <1>5, <1>8, <2>1, WaitMoves DEF ClearWaits
    <2>2. CASE waiting.at = "asleep" /\ waiting' = [waiting EXCEPT !.at = "look", !.told = FALSE]
      BY <1>2, <1>5, <1>8, <2>2, WaitMoves DEF ClearWaits
    <2> QED
      BY <1>8, <2>1, <2>2 DEF ClearWaits
  <1>9. CASE ClearEnds
    BY <1>4, <1>9 DEF ClearEnds
  <1> QED
    BY <1>6, <1>7, <1>8, <1>9

\* A browser reads the epoch and applies it.
LEMMA ReadingKeepsReset ==
    ASSUME AuthInv, ResetInv, (\E b \in Browsers : ReadsEpoch(b)) \/ ReadsAwaited \/ AppliesReset
    PROVE  ResetInv'
  <1>0. /\ UNCHANGED <<auth, authDisk, change, loose, waiting, notifyDue, clears, overtaken>>
        /\ auth.epoch \in Nat
    BY ChangeFacts DEF ReadsEpoch, ReadsAwaited, AppliesReset
  <1>1. Follows' /\ OneClear' /\ WaiterHears'
    BY <1>0 DEF ResetInv, Follows, OneClear, WaiterHears, NextEpoch
  <1>2. ASSUME NEW b \in Browsers, ReadsEpoch(b) PROVE ResetInv'
    <2>1. reading' \in ReadRecord /\ reading'.epoch = auth.epoch /\ UNCHANGED <<reset, acks>>
      BY <1>0, <1>2 DEF ReadsEpoch, ReadRecord
    <2>2. ResetTypes'
      BY <1>0, <2>1 DEF ResetInv, ResetTypes
    <2>3. EpochsGrow => EpochsGrow'
      BY <1>0, <2>1 DEF EpochsGrow, Fresh
    <2>4. AcksAreTrue => AcksAreTrue'
      BY <1>0, <2>1 DEF AcksAreTrue, Fresh
    <2> QED
      BY <1>0, <1>1, <2>2, <2>3, <2>4 DEF ResetInv
  <1>3. CASE ReadsAwaited
    <2>1. reading \in ReadRecord
      BY <1>3 DEF ReadsAwaited, ResetInv, ResetTypes, NotReading
    <2>2. /\ reading' \in ReadRecord /\ reading'.epoch = reading.epoch /\ UNCHANGED <<reset, acks>>
          /\ reading # NotReading
      <3>0. PICK v : v = (reading.browser \in auth.awaited)
        OBVIOUS
      <3>1. v \in BOOLEAN
        BY <3>0
      <3>2. reading' = [reading EXCEPT !.at = "read", !.awaited = v]
        BY <1>3, <3>0 DEF ReadsAwaited
      <3> QED
        BY <1>3, <2>1, <3>1, <3>2 DEF ReadsAwaited, ReadRecord, NotReading
    <2>3. ResetTypes'
      BY <1>0, <2>2 DEF ResetInv, ResetTypes
    <2>4. EpochsGrow => EpochsGrow'
      BY <1>0, <2>2 DEF EpochsGrow, Fresh
    <2>5. AcksAreTrue => AcksAreTrue'
      BY <1>0, <2>2 DEF AcksAreTrue, Fresh
    <2> QED
      BY <1>0, <1>1, <2>3, <2>4, <2>5 DEF ResetInv
  <1>4. CASE AppliesReset
    <2>1. reading \in ReadRecord /\ reading # NotReading
      BY <1>4 DEF AppliesReset, ResetInv, ResetTypes, NotReading
    <2>2. PICK b, applied :
            /\ b = reading.browser
            /\ applied = IF reading.epoch > reset[b].epoch
                         THEN [epoch |-> reading.epoch, clears |-> clears] ELSE reset[b]
            /\ reset' = [reset EXCEPT ![b] = applied]
            /\ acks' = IF reading.awaited /\ applied.epoch = reading.epoch
                       THEN acks \cup {[browser |-> b, epoch |-> applied.epoch]} ELSE acks
            /\ reading' = NotReading
      BY <1>4 DEF AppliesReset
    <2>3. /\ b \in Browsers /\ reading.epoch \in Nat /\ clears \in Nat
          /\ reset[b] \in [epoch : Nat, clears : Nat]
      BY <2>1, <2>2 DEF ReadRecord, ResetInv, ResetTypes
    <2>4. applied \in [epoch : Nat, clears : Nat] /\ applied.epoch >= reset[b].epoch
      BY <2>2, <2>3
    <2>5. /\ reset'[b] = applied
          /\ \A c \in Browsers : c # b => reset'[c] = reset[c]
      BY <2>2, <2>3 DEF ResetInv, ResetTypes
    <2>6. ResetTypes'
      BY <1>0, <2>2, <2>3, <2>4 DEF ResetInv, ResetTypes
    <2>7. \A c \in Browsers : Fresh(c) => Fresh(c)'
      <3>1. clears >= clears
        BY <2>3
      <3> QED
        BY <1>0, <2>2, <2>5, <3>1 DEF Fresh
    <2>8. EpochsGrow => EpochsGrow'
      <3> SUFFICES ASSUME EpochsGrow PROVE EpochsGrow'
        OBVIOUS
      <3>1. applied.epoch <= auth.epoch /\ (applied.epoch = auth.epoch => Fresh(b)')
        BY <1>0, <2>1, <2>2, <2>3, <2>5 DEF EpochsGrow, Fresh
      <3>2. \A c \in Browsers :
                /\ reset'[c].epoch <= auth.epoch
                /\ reset'[c].epoch = auth.epoch => Fresh(c)'
        BY <2>5, <2>7, <3>1 DEF EpochsGrow
      <3>3. \A ack \in acks' : ack.epoch <= reset'[ack.browser].epoch
        <4>1. ASSUME NEW ack \in acks PROVE ack.epoch <= reset'[ack.browser].epoch
          <5>1. ack.browser \in Browsers /\ ack.epoch \in Nat
            BY DEF ResetInv, ResetTypes
          <5> QED
            BY <2>3, <2>4, <2>5, <5>1 DEF EpochsGrow
        <4> QED
          BY <2>2, <2>4, <2>5, <4>1
      <3> QED
        BY <1>0, <2>2, <3>2, <3>3 DEF EpochsGrow
    <2>9. AcksAreTrue => AcksAreTrue'
      <3>1. waiting.at \in {"look", "looked", "asleep", "acknowledged"} =>
              waiting.required \subseteq Browsers
        BY WaitFacts DEF ResetInv, WaitRecord
      <3>2. change.kind = "ack" => change.browser \in Browsers
        BY ChangeFacts
      <3> QED
        BY <1>0, <2>7, <3>1, <3>2 DEF AcksAreTrue
    <2> QED
      BY <1>0, <1>1, <2>6, <2>8, <2>9 DEF ResetInv
  <1> QED
    BY <1>2, <1>3, <1>4

LEMMA RestartKeepsReset ==
    ASSUME AuthInv, ResetInv, AuthRestarts PROVE ResetInv'
  <1>1. /\ authDisk' = authDisk \/ (change # NoChange /\ authDisk' = change.next)
        /\ auth' = authDisk' /\ change' = NoChange /\ loose' = {} /\ waiting' = NoWait
        /\ notifyDue' = FALSE /\ change'.kind = "none" /\ waiting'.at = "none"
        /\ UNCHANGED <<reset, reading, acks, clears, overtaken>>
    BY DEF AuthRestarts, NoChange, NoWait
  <1>2. ResetTypes' /\ Follows' /\ OneClear' /\ WaiterHears' /\ AcksAreTrue'
    BY <1>1 DEF ResetInv, ResetTypes, Follows, OneClear, WaiterHears, AcksAreTrue
  <1>3. EpochsGrow => EpochsGrow'
    <2> SUFFICES ASSUME EpochsGrow PROVE EpochsGrow'
      OBVIOUS
    <2>1. auth'.epoch >= auth.epoch /\ auth'.epoch \in Nat /\ auth.epoch \in Nat
      BY <1>1, ChangeFacts DEF EpochsGrow, ResetInv, Follows, NextEpoch
    <2>2. \A b \in Browsers : reset[b].epoch \in Nat
      BY DEF ResetInv, ResetTypes
    <2>3. reading # NotReading => reading.epoch \in Nat
      BY DEF ResetInv, ResetTypes, ReadRecord
    <2> QED
      BY <1>1, <2>1, <2>2, <2>3 DEF EpochsGrow, Fresh
  <1> QED
    BY <1>1, <1>2, <1>3 DEF ResetInv

LEMMA ResetStepInv == ASSUME AuthInv, ResetInv, [AuthNext]_authVars PROVE ResetInv'
  <1>1. ASSUME NEW ack \in acks, AckComesToNothing(ack) PROVE ResetInv'
    <2>1. /\ acks' \subseteq acks
          /\ UNCHANGED <<auth, authDisk, change, loose, waiting, notifyDue, reset, reading,
                         clears, overtaken>>
      BY <1>1 DEF AckComesToNothing
    <2> QED
      BY <2>1 DEF ResetInv, ResetTypes, Follows, OneClear, WaiterHears, EpochsGrow, AcksAreTrue,
                  Fresh, NextEpoch
  <1>2. CASE UNCHANGED authVars
    BY <1>2 DEF authVars, ResetInv, ResetTypes, Follows, OneClear, WaiterHears, EpochsGrow,
                AcksAreTrue, Fresh, NextEpoch
  <1>3. ASSUME NEW b \in Browsers, NEW required \in SUBSET (Browsers \ {b}),
               BeginsReset(b, required)
        PROVE  ResetInv'
    BY <1>3, BeginKeepsReset
  <1> QED
    BY <1>1, <1>2, <1>3, AuthChangesKeepReset, AckKeepsReset, SavedKeepsReset,
       LostSavesKeepReset, LooseSavesKeepReset, WaitingKeepsReset, ReadingKeepsReset,
       RestartKeepsReset DEF AuthNext

\* The inductive invariant of the worker reset, over that of the pairing.
THEOREM ResetInvariant == AuthSpec => []ResetInv
  BY ResetInitInv, ResetStepInv, AuthInvariant, PTL DEF AuthSpec

\* Clear Workers reports success only once every browser it waited for dropped
\* its workers, whatever older acknowledgements, failing saves and restarts come
\* between, and its waiter is told of the last acknowledgement. The first is
\* claimed until a save of a dropped handler replaces a later one: it can take
\* the host back to an older epoch, which a newer reset then gives out again.
THEOREM ClearIsExact == AuthSpec => []ResetIsExact
  <1>1. ResetInv => ResetIsExact
    BY DEF ResetInv, AcksAreTrue, WaiterHears, ResetIsExact, ResetWasApplied, ResetIsHeard, Fresh
  <1> QED
    BY <1>1, ResetInvariant, PTL
=============================================================================
