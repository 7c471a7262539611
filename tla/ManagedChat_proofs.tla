-------------------------- MODULE ManagedChat_proofs --------------------------
(***************************************************************************)
(* Proofs about the launch-command broker, for every set of keys, clients  *)
(* and conversations and every limit.                                      *)
(***************************************************************************)
EXTENDS ManagedChat, FiniteSetTheorems, TLAPS

(***************************************************************************)
(* Typing.                                                                 *)
(***************************************************************************)

\* A record with every field in range is a command.
LEMMA NoCommandType == NoCommand \in Command
BY DEF NoCommand, Command

LEMMA InitType == Init => TypeOK
<1> SUFFICES ASSUME Init PROVE TypeOK
  OBVIOUS
<1>1. commands \in [Id -> Command]
  BY NoCommandType DEF Init
<1>2. dedupe \in [Key -> Id \cup {NoId}]
  BY DEF Init
<1> QED
  BY <1>1, <1>2, ConstantsOK DEF Init, TypeOK

\* Removing commands keeps the store well typed.
LEMMA WithoutType ==
  ASSUME TypeOK, NEW S
  PROVE  /\ Without(commands, S) \in [Id -> Command]
         /\ Unindexed(dedupe, S) \in [Key -> Id \cup {NoId}]
BY NoCommandType DEF TypeOK, Without, Unindexed

(***************************************************************************)
(* The record updates the broker is made of, field by field.               *)
(***************************************************************************)

LEMMA UnleasedFields ==
  ASSUME NEW c \in Command, NEW d, d = Unleased(c)
  PROVE  d = [key |-> c.key, state |-> c.state, ready |-> c.ready,
              history |-> c.history, lease |-> NoLease,
              holder |-> NoClient, expired |-> FALSE,
              target |-> c.target, pinned |-> c.pinned, conv |-> c.conv]
BY DEF Unleased, Command

LEMMA UnroutedFields ==
  ASSUME NEW c \in Command, NEW d, d = Unrouted(c)
  PROVE  d = [key |-> c.key, state |-> c.state, ready |-> c.ready,
              history |-> c.history, lease |-> c.lease,
              holder |-> c.holder, expired |-> c.expired,
              target |-> NoClient, pinned |-> FALSE, conv |-> c.conv]
BY DEF Unrouted, Command

\* Releasing a lease, or a route, leaves a well-typed command.
LEMMA UpdateTypes ==
  ASSUME NEW c \in Command
  PROVE  /\ Unleased(c) \in Command
         /\ Unrouted(c) \in Command
<1>1. Unleased(c) \in Command
  <2>1. PICK d : d = Unleased(c)
    OBVIOUS
  <2>2. d = [key |-> c.key, state |-> c.state, ready |-> c.ready,
             history |-> c.history, lease |-> NoLease,
             holder |-> NoClient, expired |-> FALSE,
             target |-> c.target, pinned |-> c.pinned, conv |-> c.conv]
    BY <2>1, UnleasedFields
  <2>3. d \in Command
    BY <2>2 DEF Command
  <2> QED BY <2>1, <2>3
<1>2. Unrouted(c) \in Command
  <2>1. PICK d : d = Unrouted(c)
    OBVIOUS
  <2>2. d = [key |-> c.key, state |-> c.state, ready |-> c.ready,
             history |-> c.history, lease |-> c.lease,
             holder |-> c.holder, expired |-> c.expired,
             target |-> NoClient, pinned |-> FALSE, conv |-> c.conv]
    BY <2>1, UnroutedFields
  <2>3. d \in Command
    BY <2>2 DEF Command
  <2> QED BY <2>1, <2>3
<1> QED
  BY <1>1, <1>2

\* An unleased command moved to another state.
LEMMA ResettledFields ==
  ASSUME NEW c \in Command, NEW st, NEW hist \in BOOLEAN, NEW conv, NEW d,
         d = [Unleased(c) EXCEPT !.state = st, !.history = hist, !.conv = conv]
  PROVE  d = [key |-> c.key, state |-> st, ready |-> c.ready,
              history |-> hist, lease |-> NoLease,
              holder |-> NoClient, expired |-> FALSE,
              target |-> c.target, pinned |-> c.pinned, conv |-> conv]
<1> DEFINE u == Unleased(c)
<1>1. u \in Command
  BY UpdateTypes
<1>2. d = [u EXCEPT !.state = st, !.history = hist, !.conv = conv]
  OBVIOUS
<1>3. /\ u.key = c.key /\ u.ready = c.ready /\ u.lease = NoLease
      /\ u.holder = NoClient /\ u.expired = FALSE
      /\ u.target = c.target /\ u.pinned = c.pinned
  BY UnleasedFields
<1> HIDE DEF u
<1>4. d = [key |-> u.key, state |-> st, ready |-> u.ready,
           history |-> hist, lease |-> u.lease, holder |-> u.holder,
           expired |-> u.expired, target |-> u.target,
           pinned |-> u.pinned, conv |-> conv]
  BY <1>1, <1>2 DEF Command
<1> QED
  BY <1>3, <1>4

\* The same without a new conversation.
LEMMA FallenBackFields ==
  ASSUME NEW c \in Command, NEW st, NEW d,
         d = [Unleased(c) EXCEPT !.state = st, !.history = TRUE]
  PROVE  d = [key |-> c.key, state |-> st, ready |-> c.ready,
              history |-> TRUE, lease |-> NoLease,
              holder |-> NoClient, expired |-> FALSE,
              target |-> c.target, pinned |-> c.pinned, conv |-> c.conv]
<1> DEFINE u == Unleased(c)
<1>1. u \in Command
  BY UpdateTypes
<1>2. d = [u EXCEPT !.state = st, !.history = TRUE]
  OBVIOUS
<1>3. /\ u.key = c.key /\ u.ready = c.ready /\ u.lease = NoLease
      /\ u.holder = NoClient /\ u.expired = FALSE /\ u.conv = c.conv
      /\ u.target = c.target /\ u.pinned = c.pinned
  BY UnleasedFields
<1> HIDE DEF u
<1>4. d = [key |-> u.key, state |-> st, ready |-> u.ready,
           history |-> TRUE, lease |-> u.lease, holder |-> u.holder,
           expired |-> u.expired, target |-> u.target,
           pinned |-> u.pinned, conv |-> u.conv]
  BY <1>1, <1>2 DEF Command
<1> QED
  BY <1>3, <1>4

\* A fresh leased command returned to the queue.
LEMMA RequeuedFields ==
  ASSUME NEW c \in Command, NEW t, NEW d,
         d = [Unleased(c) EXCEPT !.state = "Queued", !.target = t]
  PROVE  d = [key |-> c.key, state |-> "Queued", ready |-> c.ready,
              history |-> c.history, lease |-> NoLease,
              holder |-> NoClient, expired |-> FALSE,
              target |-> t, pinned |-> c.pinned, conv |-> c.conv]
<1> DEFINE u == Unleased(c)
<1>1. u \in Command
  BY UpdateTypes
<1>2. d = [u EXCEPT !.state = "Queued", !.target = t]
  OBVIOUS
<1>3. /\ u.key = c.key /\ u.ready = c.ready /\ u.lease = NoLease
      /\ u.holder = NoClient /\ u.expired = FALSE /\ u.conv = c.conv
      /\ u.history = c.history /\ u.pinned = c.pinned
  BY UnleasedFields
<1> HIDE DEF u
<1>4. d = [key |-> u.key, state |-> "Queued", ready |-> u.ready,
           history |-> u.history, lease |-> u.lease, holder |-> u.holder,
           expired |-> u.expired, target |-> t,
           pinned |-> u.pinned, conv |-> u.conv]
  BY <1>1, <1>2 DEF Command
<1> QED
  BY <1>3, <1>4

(***************************************************************************)
(* The three shapes a step can have.                                       *)
(***************************************************************************)

LEMMA IInvInit == Init => IInv
<1> SUFFICES ASSUME Init PROVE IInv
  OBVIOUS
<1>1. TypeOK
  BY InitType
<1>2. \A i \in Id : commands[i] = NoCommand /\ grants[i] = {}
  BY DEF Init
<1>3. /\ NoCommand.state = "Absent"
      /\ NoCommand.lease = NoLease
  BY DEF NoCommand
<1>4. \A i \in Id : CommandOK(i)
  BY <1>2, <1>3 DEF CommandOK, StateOK
<1>5. UnusedBlank
  BY <1>2 DEF UnusedBlank
<1>6. DedupePoints
  BY DEF DedupePoints, Init
<1>7. LeasesDiffer
  BY <1>2, <1>3 DEF LeasesDiffer
<1>8. SendGrantedAtMostOnce
  BY <1>2 DEF SendGrantedAtMostOnce
<1> QED
  BY <1>1, <1>4, <1>5, <1>6, <1>7, <1>8 DEF IInv

\* Commands change where they are: every stored command stays stored under
\* its key and stays right, and nothing is added or removed.
LEMMA InPlace ==
  ASSUME IInv,
         commands' \in [Id -> Command],
         \A i \in Id : IF commands[i].state = "Absent"
                       THEN commands'[i] = commands[i] /\ grants'[i] = grants[i]
                       ELSE /\ commands'[i].state # "Absent"
                            /\ commands'[i].key = commands[i].key
                            /\ CommandOK(i)',
         issued' \in 0 .. MaxLease,
         UNCHANGED <<dedupe, nextSequence>>,
         grants' \in [Id -> SUBSET LeaseId],
         LeasesDiffer', SendGrantedAtMostOnce'
  PROVE  IInv'
<1>1. TypeOK'
  BY DEF IInv, TypeOK
<1>2. \A i \in Id : CommandOK(i)'
  BY DEF IInv, CommandOK, StateOK
<1>3. UnusedBlank'
  <2>1. NoCommand.state = "Absent"
    BY DEF NoCommand
  <2> QED BY <2>1 DEF IInv, UnusedBlank
<1>4. DedupePoints'
  <2> SUFFICES ASSUME NEW k \in Key, dedupe[k] # NoId
               PROVE  /\ commands'[dedupe[k]].state # "Absent"
                      /\ commands'[dedupe[k]].key = k
    BY DEF DedupePoints
  <2>1. dedupe[k] \in Id
    BY DEF IInv, TypeOK
  <2> QED BY <2>1 DEF IInv, DedupePoints
<1> QED
  BY <1>1, <1>2, <1>3, <1>4 DEF IInv

\* Commands are removed together with their dedupe keys.
LEMMA Removal ==
  ASSUME IInv, NEW S, RemoveCommands(S) PROVE IInv'
<1> USE DEF RemoveCommands
<1>0. NoCommand.state = "Absent" /\ NoCommand.lease = NoLease
  BY DEF NoCommand
<1>1. TypeOK'
  BY WithoutType DEF IInv, TypeOK
<1>2. \A i \in Id : commands'[i] = IF i \in S THEN NoCommand ELSE commands[i]
  BY DEF Without
<1>3. \A k \in Key : dedupe'[k] = IF dedupe[k] \in S THEN NoId ELSE dedupe[k]
  BY DEF Unindexed
<1>4. \A i \in Id : CommandOK(i)'
  <2> SUFFICES ASSUME NEW i \in Id PROVE CommandOK(i)'
    OBVIOUS
  <2>1. CASE i \in S
    BY <2>1, <1>0, <1>2 DEF CommandOK, StateOK
  <2>2. CASE i \notin S
    BY <2>2, <1>2, <1>3 DEF IInv, CommandOK, StateOK
  <2> QED BY <2>1, <2>2
<1>5. UnusedBlank'
  BY <1>2 DEF IInv, UnusedBlank
<1>6. DedupePoints'
  <2> SUFFICES ASSUME NEW k \in Key, dedupe'[k] # NoId
               PROVE  /\ commands'[dedupe'[k]].state # "Absent"
                      /\ commands'[dedupe'[k]].key = k
    BY DEF DedupePoints
  <2>1. dedupe[k] \in Id /\ dedupe[k] \notin S /\ dedupe'[k] = dedupe[k]
    BY <1>3 DEF IInv, TypeOK
  <2> QED BY <2>1, <1>2 DEF IInv, DedupePoints
<1>7. LeasesDiffer'
  BY <1>0, <1>2 DEF IInv, LeasesDiffer
<1>8. SendGrantedAtMostOnce'
  BY DEF IInv, SendGrantedAtMostOnce
<1> QED
  BY <1>1, <1>4, <1>5, <1>6, <1>7, <1>8 DEF IInv

\* One stored command becomes another; no lease is issued.
LEMMA OneCommand ==
  ASSUME IInv, NEW i \in Id, commands[i].state # "Absent",
         NEW d \in Command, commands' = [commands EXCEPT ![i] = d],
         d.state # "Absent", d.key = commands[i].key,
         d.lease \in {NoLease, commands[i].lease},
         UNCHANGED <<dedupe, nextSequence, issued>>,
         NEW g \in SUBSET LeaseId, grants' = [grants EXCEPT ![i] = g],
         \A l, m \in g : l = m,
         CommandOK(i)'
  PROVE  IInv'
<1>1. commands' \in [Id -> Command] /\ grants' \in [Id -> SUBSET LeaseId]
  BY DEF IInv, TypeOK
<1>2. /\ commands'[i] = d /\ grants'[i] = g
      /\ \A j \in Id : j # i => commands'[j] = commands[j]
                              /\ grants'[j] = grants[j]
  BY DEF IInv, TypeOK
<1>3. \A j \in Id : j # i => CommandOK(j)'
  BY <1>2 DEF IInv, CommandOK, StateOK
<1>4. LeasesDiffer'
  BY <1>2 DEF IInv, LeasesDiffer
<1>5. SendGrantedAtMostOnce'
  BY <1>2 DEF IInv, SendGrantedAtMostOnce
<1>6. issued' \in 0 .. MaxLease
  BY DEF IInv, TypeOK
<1>7. ASSUME NEW j \in Id
      PROVE IF commands[j].state = "Absent"
            THEN commands'[j] = commands[j] /\ grants'[j] = grants[j]
            ELSE /\ commands'[j].state # "Absent"
                 /\ commands'[j].key = commands[j].key
                 /\ CommandOK(j)'
  <2>1. CASE j = i
    BY <2>1, <1>2
  <2>2. CASE j # i
    BY <2>2, <1>2, <1>3
  <2> QED BY <2>1, <2>2
<1> QED
  BY <1>1, <1>4, <1>5, <1>6, <1>7, InPlace

\* The same when no Send is granted either.
LEMMA OneSettled ==
  ASSUME IInv, NEW i \in Id, commands[i].state # "Absent",
         NEW d \in Command, commands' = [commands EXCEPT ![i] = d],
         d.state # "Absent", d.key = commands[i].key, d.lease = NoLease,
         UNCHANGED <<dedupe, nextSequence, issued, grants>>,
         CommandOK(i)'
  PROVE  IInv'
<1>1. /\ grants' = [grants EXCEPT ![i] = grants[i]]
      /\ grants[i] \in SUBSET LeaseId
      /\ \A l, m \in grants[i] : l = m
  BY DEF IInv, TypeOK, SendGrantedAtMostOnce
<1>2. d.lease \in {NoLease, commands[i].lease}
  OBVIOUS
<1> QED
  BY <1>1, <1>2, OneCommand

(***************************************************************************)
(* Each operation keeps the invariant.                                     *)
(***************************************************************************)

\* The index names stored commands of its own key.
LEMMA Indexed ==
  ASSUME IInv, NEW k \in Key, dedupe[k] # NoId
  PROVE  /\ dedupe[k] \in Id
         /\ commands[dedupe[k]] \in Command
         /\ commands[dedupe[k]].state # "Absent"
         /\ commands[dedupe[k]].key = k
         /\ CommandOK(dedupe[k])
         /\ grants[dedupe[k]] \in SUBSET LeaseId
         /\ \A l, m \in grants[dedupe[k]] : l = m
<1>1. dedupe[k] \in Id
  BY DEF IInv, TypeOK
<1> QED
  BY <1>1 DEF IInv, TypeOK, DedupePoints, SendGrantedAtMostOnce

LEMMA ActivateDispatchStep ==
  ASSUME IInv, NEW i \in Id, ActivateDispatch(i) PROVE IInv'
<1> DEFINE c == commands[i]
<1>1. PICK d : d = [c EXCEPT !.ready = TRUE]
  OBVIOUS
<1>2. c \in Command /\ CommandOK(i)
  BY DEF IInv, TypeOK
<1>3. d = [key |-> c.key, state |-> c.state, ready |-> TRUE,
           history |-> c.history, lease |-> c.lease, holder |-> c.holder,
           expired |-> c.expired, target |-> c.target, pinned |-> c.pinned,
           conv |-> c.conv]
  BY <1>1, <1>2 DEF Command
<1>4. d \in Command
  BY <1>2, <1>3 DEF Command
<1>5. commands' = [commands EXCEPT ![i] = d] /\ c.state # "Absent"
  BY <1>1 DEF ActivateDispatch, Become
<1>6. commands'[i] = d
  BY <1>5 DEF IInv, TypeOK
<1>7. CommandOK(i)'
  BY <1>2, <1>3, <1>5, <1>6 DEF CommandOK, StateOK, ActivateDispatch, Become
<1>8. /\ grants' = [grants EXCEPT ![i] = grants[i]]
      /\ grants[i] \in SUBSET LeaseId
      /\ \A l, m \in grants[i] : l = m
  BY DEF IInv, TypeOK, SendGrantedAtMostOnce, ActivateDispatch, Become
<1> QED
  BY <1>3, <1>4, <1>5, <1>7, <1>8, OneCommand DEF ActivateDispatch, Become

LEMMA FenceStep ==
  ASSUME IInv, NEW k \in Key, FenceUnclaimedAfterSend(k) PROVE IInv'
<1>0. PICK i, c : i = dedupe[k] /\ c = commands[i]
  OBVIOUS
<1>1. PICK r, d :
        /\ r = Unrouted(c)
        /\ d = [Unleased(r) EXCEPT !.state = "Failed", !.history = TRUE]
  OBVIOUS
<1>2. i \in Id /\ c \in Command /\ c.state # "Absent" /\ CommandOK(i)
  BY <1>0, Indexed DEF FenceUnclaimedAfterSend
<1>3. AmbiguousPostSend(c)
  BY <1>0 DEF FenceUnclaimedAfterSend
<1>4. d = [key |-> c.key, state |-> "Failed", ready |-> c.ready,
           history |-> TRUE, lease |-> NoLease, holder |-> NoClient,
           expired |-> FALSE, target |-> NoClient, pinned |-> FALSE,
           conv |-> c.conv]
  <2>1. r \in Command
    BY <1>1, <1>2, UpdateTypes
  <2>2. r = [key |-> c.key, state |-> c.state, ready |-> c.ready,
             history |-> c.history, lease |-> c.lease,
             holder |-> c.holder, expired |-> c.expired,
             target |-> NoClient, pinned |-> FALSE, conv |-> c.conv]
    BY <1>1, <1>2, UnroutedFields
  <2>3. d = [key |-> r.key, state |-> "Failed", ready |-> r.ready,
             history |-> TRUE, lease |-> NoLease, holder |-> NoClient,
             expired |-> FALSE, target |-> r.target, pinned |-> r.pinned,
             conv |-> r.conv]
    BY <1>1, <2>1, FallenBackFields
  <2> QED BY <2>2, <2>3
<1>5. d \in Command
  BY <1>2, <1>4 DEF Command, State
<1>6. commands' = [commands EXCEPT ![i] = d]
  BY <1>0, <1>1 DEF FenceUnclaimedAfterSend, Become
<1>7. UNCHANGED <<dedupe, nextSequence, issued, grants>>
  BY DEF FenceUnclaimedAfterSend, Become
<1>8. commands'[i] = d
  BY <1>2, <1>6 DEF IInv, TypeOK
<1>9. CommandOK(i)'
  <2>1. NoLease <= issued
    BY DEF IInv, TypeOK, NoLease
  <2> QED BY <1>0, <1>2, <1>3, <1>4, <1>7, <1>8, <2>1
          DEF CommandOK, StateOK, AmbiguousPostSend
<1>10. d.state # "Absent" /\ d.key = commands[i].key /\ d.lease = NoLease
  BY <1>0, <1>4
<1> QED
  BY <1>0, <1>2, <1>5, <1>6, <1>7, <1>9, <1>10, OneSettled

LEMMA ConfirmStep ==
  ASSUME IInv, NEW k \in Key, NEW conv \in Conv, ConfirmWorkerStarted(k, conv)
  PROVE  IInv'
<1>0. PICK i, c : i = dedupe[k] /\ c = commands[i]
  OBVIOUS
<1>1. PICK d : d = [Unleased(c) EXCEPT !.state = "Succeeded",
                      !.history = TRUE, !.conv = conv]
  OBVIOUS
<1>2. /\ i \in Id /\ c \in Command /\ c.state # "Absent" /\ c.key = k
      /\ CommandOK(i)
  BY <1>0, Indexed DEF ConfirmWorkerStarted
<1>3. AmbiguousPostSend(c) \/ c.state = "Paused"
  BY <1>0 DEF ConfirmWorkerStarted
<1>4. d = [key |-> c.key, state |-> "Succeeded", ready |-> c.ready,
           history |-> TRUE, lease |-> NoLease, holder |-> NoClient,
           expired |-> FALSE, target |-> c.target, pinned |-> c.pinned,
           conv |-> conv]
  BY <1>1, <1>2, ResettledFields
<1>5. d \in Command
  BY <1>2, <1>4 DEF Command, State
<1>6. commands' = [commands EXCEPT ![i] = d]
  BY <1>0, <1>1 DEF ConfirmWorkerStarted, Become
<1>7. UNCHANGED <<dedupe, nextSequence, issued, grants>>
  BY DEF ConfirmWorkerStarted, Become
<1>8. commands'[i] = d
  BY <1>2, <1>6 DEF IInv, TypeOK
<1>9. CommandOK(i)'
  <2>1. NoLease <= issued
    BY DEF IInv, TypeOK, NoLease
  <2>2. ExistingThread(k) => conv = BoundConv[k]
    BY DEF ConfirmWorkerStarted
  <2> QED BY <1>0, <1>2, <1>3, <1>4, <1>7, <1>8, <2>1, <2>2
          DEF CommandOK, StateOK, AmbiguousPostSend
<1>10. d.state # "Absent" /\ d.key = commands[i].key /\ d.lease = NoLease
  BY <1>0, <1>4
<1> QED
  BY <1>0, <1>2, <1>5, <1>6, <1>7, <1>9, <1>10, OneSettled

LEMMA LeaseExpiresStep ==
  ASSUME IInv, NEW i \in Id, LeaseExpires(i) PROVE IInv'
<1>0. PICK c : c = commands[i]
  OBVIOUS
<1>1. PICK d : d = [c EXCEPT !.expired = TRUE]
  OBVIOUS
<1>2. c \in Command /\ CommandOK(i) /\ c.lease # NoLease
  BY <1>0 DEF IInv, TypeOK, LeaseExpires
<1>3. c.state # "Absent"
  BY <1>0, <1>2 DEF CommandOK, StateOK, NoCommand
<1>4. d = [key |-> c.key, state |-> c.state, ready |-> c.ready,
           history |-> c.history, lease |-> c.lease, holder |-> c.holder,
           expired |-> TRUE, target |-> c.target, pinned |-> c.pinned,
           conv |-> c.conv]
  BY <1>1, <1>2 DEF Command
<1>5. d \in Command
  BY <1>2, <1>4 DEF Command
<1>6. /\ commands' = [commands EXCEPT ![i] = d]
      /\ UNCHANGED <<dedupe, nextSequence, issued, grants>>
  BY <1>0, <1>1 DEF LeaseExpires, Become
<1>7. commands'[i] = d
  BY <1>6 DEF IInv, TypeOK
<1>8. CommandOK(i)'
  BY <1>0, <1>2, <1>3, <1>4, <1>6, <1>7 DEF CommandOK, StateOK
<1>9. /\ grants' = [grants EXCEPT ![i] = grants[i]]
      /\ grants[i] \in SUBSET LeaseId
      /\ \A l, m \in grants[i] : l = m
  BY <1>6 DEF IInv, TypeOK, SendGrantedAtMostOnce
<1>10. /\ d.state # "Absent" /\ d.key = commands[i].key
       /\ d.lease \in {NoLease, commands[i].lease}
       /\ commands[i].state # "Absent"
  BY <1>0, <1>3, <1>4
<1>11. UNCHANGED <<dedupe, nextSequence, issued>>
  BY <1>6
<1> QED
  BY <1>5, <1>6, <1>8, <1>9, <1>10, <1>11, OneCommand

LEMMA MarkSendStartedStep ==
  ASSUME IInv, NEW i \in Id, NEW l \in LeaseId, NEW client \in Client,
         MarkSendStarted(i, l, client)
  PROVE  IInv'
<1>0. PICK c : c = commands[i]
  OBVIOUS
<1>1. PICK d : d = [c EXCEPT !.state = "SendStarted", !.history = TRUE]
  OBVIOUS
<1>2. /\ c \in Command /\ CommandOK(i)
      /\ c.state = "Leased" /\ ~c.history
  BY <1>0 DEF IInv, TypeOK, MarkSendStarted
<1>3. d = [key |-> c.key, state |-> "SendStarted", ready |-> c.ready,
           history |-> TRUE, lease |-> c.lease, holder |-> c.holder,
           expired |-> c.expired, target |-> c.target, pinned |-> c.pinned,
           conv |-> c.conv]
  BY <1>1, <1>2 DEF Command
<1>4. d \in Command
  BY <1>2, <1>3 DEF Command, State
<1>5. commands' = [commands EXCEPT ![i] = d]
  BY <1>0, <1>1 DEF MarkSendStarted
<1>6. commands'[i] = d
  BY <1>5 DEF IInv, TypeOK
\* No lease was told to press Send before: the command's history is clean.
<1>7. grants[i] = {}
  BY <1>0, <1>2 DEF CommandOK, StateOK
<1>8. grants' = [grants EXCEPT ![i] = {l}]
  BY <1>7 DEF MarkSendStarted, IInv, TypeOK
<1>9. grants'[i] = {l}
  BY <1>8 DEF IInv, TypeOK
<1>10. UNCHANGED <<dedupe, nextSequence, issued>>
  BY DEF MarkSendStarted
<1>11. CommandOK(i)'
  <2>1. grants'[i] # {}
    BY <1>9
  <2> QED
    BY <1>0, <1>2, <1>3, <1>6, <1>10, <2>1 DEF CommandOK, StateOK
<1>12. /\ {l} \in SUBSET LeaseId
       /\ \A x, y \in {l} : x = y
  OBVIOUS
<1>13. /\ d.state # "Absent" /\ d.key = commands[i].key
       /\ d.lease \in {NoLease, commands[i].lease}
       /\ commands[i].state # "Absent"
  BY <1>0, <1>2, <1>3
<1> QED
  BY <1>4, <1>5, <1>8, <1>10, <1>11, <1>12, <1>13, OneCommand

\* An acknowledgement settles the command under the exact lease.
LEMMA AcknowledgeStep ==
  ASSUME IInv, NEW i \in Id, NEW l \in LeaseId, NEW client \in Client,
         NEW st, st \in {"Succeeded", "Failed", "NeedsReconcile", "Paused"},
         NEW hist \in BOOLEAN, NEW conv \in Conv \cup {NoConv},
         Acknowledge(i, l, client, st, hist, conv),
         hist <=> commands[i].history,
         st \in {"NeedsReconcile", "Paused"} => hist,
         st = "Succeeded" /\ ExistingThread(commands[i].key) =>
           conv = BoundConv[commands[i].key]
  PROVE  IInv'
<1>0. PICK c : c = commands[i]
  OBVIOUS
<1>1. PICK d : d = [Unleased(c) EXCEPT !.state = st, !.history = hist,
                                       !.conv = conv]
  OBVIOUS
<1>2. /\ c \in Command /\ CommandOK(i)
      /\ c.state \in {"Leased", "SendStarted"}
  BY <1>0 DEF IInv, TypeOK, Acknowledge
<1>3. d = [key |-> c.key, state |-> st, ready |-> c.ready,
           history |-> hist, lease |-> NoLease, holder |-> NoClient,
           expired |-> FALSE, target |-> c.target, pinned |-> c.pinned,
           conv |-> conv]
  <2>1. PICK u : u = Unleased(c)
    OBVIOUS
  <2>2. u = [key |-> c.key, state |-> c.state, ready |-> c.ready,
             history |-> c.history, lease |-> NoLease,
             holder |-> NoClient, expired |-> FALSE,
             target |-> c.target, pinned |-> c.pinned, conv |-> c.conv]
    BY <1>2, <2>1, UnleasedFields
  <2>3. u \in Command
    BY <1>2, <2>1, UpdateTypes
  <2>4. d = [u EXCEPT !.state = st, !.history = hist, !.conv = conv]
    BY <1>1, <2>1
  <2>5. d = [key |-> u.key, state |-> st, ready |-> u.ready,
             history |-> hist, lease |-> u.lease, holder |-> u.holder,
             expired |-> u.expired, target |-> u.target,
             pinned |-> u.pinned, conv |-> conv]
    BY <2>3, <2>4 DEF Command
  <2> QED BY <2>2, <2>5
<1>4. d \in Command
  BY <1>2, <1>3 DEF Command, State
<1>5. commands' = [commands EXCEPT ![i] = d]
  BY <1>0, <1>1 DEF Acknowledge, Become
<1>6. UNCHANGED <<dedupe, nextSequence, issued, grants>>
  BY DEF Acknowledge, Become
<1>7. commands'[i] = d
  BY <1>5 DEF IInv, TypeOK
<1>8. CommandOK(i)'
  <2>1. NoLease <= issued
    BY DEF IInv, TypeOK, NoLease
  <2> QED
    BY <1>0, <1>2, <1>3, <1>6, <1>7, <2>1 DEF CommandOK, StateOK
<1>9. /\ d.state # "Absent" /\ d.key = commands[i].key /\ d.lease = NoLease
      /\ commands[i].state # "Absent"
  BY <1>0, <1>2, <1>3
<1> QED
  BY <1>4, <1>5, <1>6, <1>8, <1>9, OneSettled

LEMMA AcksStep ==
  ASSUME IInv, NEW i \in Id, NEW l \in LeaseId, NEW client \in Client,
         \/ \E conv \in Conv : AckSucceeded(i, l, client, conv)
         \/ AckFailed(i, l, client)
         \/ AckNeedsReconcile(i, l, client)
         \/ AckPaused(i, l, client)
  PROVE  IInv'
<1>0. commands[i].history \in BOOLEAN /\ CommandOK(i)
  BY DEF IInv, TypeOK, Command
<1>1. AmbiguousPostSend(commands[i]) => commands[i].history = TRUE
  BY <1>0 DEF AmbiguousPostSend, CommandOK, StateOK
<1>2. ASSUME NEW conv \in Conv, AckSucceeded(i, l, client, conv) PROVE IInv'
  BY <1>0, <1>2, AcknowledgeStep DEF AckSucceeded
<1>3. CASE AckFailed(i, l, client)
  <2>1. /\ Acknowledge(i, l, client, "Failed", FALSE, NoConv)
        /\ commands[i].history = FALSE
    BY <1>0, <1>3 DEF AckFailed
  <2> QED BY <2>1, AcknowledgeStep
<1>4. CASE AckNeedsReconcile(i, l, client)
  BY <1>1, <1>4, AcknowledgeStep DEF AckNeedsReconcile
<1>5. CASE AckPaused(i, l, client)
  BY <1>1, <1>5, AcknowledgeStep DEF AckPaused
<1> QED
  BY <1>2, <1>3, <1>4, <1>5

\* What a revoked browser's command becomes keeps its key and its history.
LEMMA AfterRevokeFields ==
  ASSUME NEW c \in Command, NEW d, d = AfterRevoke(c)
  PROVE  /\ d \in Command /\ d.key = c.key /\ d.ready = c.ready
         /\ d.conv = c.conv /\ d.target = NoClient /\ ~d.pinned
         /\ \/ /\ c.state = "Leased" /\ ~c.history
               /\ d.state = "Queued" /\ d.history = c.history
               /\ d.lease = NoLease /\ ~d.expired
            \/ /\ AmbiguousPostSend(c)
               /\ d.state = "Paused" /\ d.history
               /\ d.lease = NoLease /\ ~d.expired
            \/ /\ ~(c.state = "Leased" /\ ~c.history) /\ ~AmbiguousPostSend(c)
               /\ d.state = c.state /\ d.history = c.history
               /\ d.lease = c.lease /\ d.expired = c.expired
<1>1. PICK r : r = Unrouted(c)
  OBVIOUS
<1>2. r = [key |-> c.key, state |-> c.state, ready |-> c.ready,
           history |-> c.history, lease |-> c.lease,
           holder |-> c.holder, expired |-> c.expired,
           target |-> NoClient, pinned |-> FALSE, conv |-> c.conv]
  BY <1>1, UnroutedFields
<1>3. r \in Command
  BY <1>1, UpdateTypes
<1>4. CASE c.state = "Leased" /\ ~c.history
  <2>1. PICK u : u = Unleased(r)
    OBVIOUS
  <2>2. u = [key |-> r.key, state |-> r.state, ready |-> r.ready,
             history |-> r.history, lease |-> NoLease,
             holder |-> NoClient, expired |-> FALSE,
             target |-> r.target, pinned |-> r.pinned, conv |-> r.conv]
    BY <1>3, <2>1, UnleasedFields
  <2>3. u \in Command
    BY <1>3, <2>1, UpdateTypes
  <2>4. d = [u EXCEPT !.state = "Queued"]
    BY <1>1, <1>4, <2>1 DEF AfterRevoke
  <2>5. d = [key |-> u.key, state |-> "Queued", ready |-> u.ready,
             history |-> u.history, lease |-> u.lease, holder |-> u.holder,
             expired |-> u.expired, target |-> u.target,
             pinned |-> u.pinned, conv |-> u.conv]
    BY <2>3, <2>4 DEF Command
  <2>6. d \in Command
    BY <2>3, <2>5 DEF Command, State
  <2> QED
    BY <1>2, <1>4, <2>2, <2>5, <2>6
<1>5. CASE AmbiguousPostSend(c)
  <2>1. c.state # "Leased" \/ c.history
    BY <1>5 DEF AmbiguousPostSend
  <2>2. d = [Unleased(r) EXCEPT !.state = "Paused", !.history = TRUE]
    BY <1>1, <1>5, <2>1 DEF AfterRevoke
  <2>3. d = [key |-> r.key, state |-> "Paused", ready |-> r.ready,
             history |-> TRUE, lease |-> NoLease, holder |-> NoClient,
             expired |-> FALSE, target |-> r.target, pinned |-> r.pinned,
             conv |-> r.conv]
    BY <1>3, <2>2, FallenBackFields
  <2>4. d \in Command
    BY <1>3, <2>3 DEF Command, State
  <2> QED
    BY <1>2, <1>5, <2>3, <2>4
<1>6. CASE ~(c.state = "Leased" /\ ~c.history) /\ ~AmbiguousPostSend(c)
  <2>1. d = r
    BY <1>1, <1>6 DEF AfterRevoke
  <2> QED
    BY <1>2, <1>3, <1>6, <2>1
<1> QED
  BY <1>4, <1>5, <1>6

LEMMA SettleRevokedStep ==
  ASSUME IInv, NEW client \in Client, SettleRevokedClient(client) PROVE IInv'
<1>1. ASSUME NEW i \in Id
      PROVE  /\ commands[i] \in Command
             /\ commands'[i] = IF commands[i].target = client
                               THEN AfterRevoke(commands[i]) ELSE commands[i]
  BY DEF IInv, TypeOK, SettleRevokedClient
<1>2. UNCHANGED <<dedupe, nextSequence, issued, grants>>
  BY DEF SettleRevokedClient
<1>3. ASSUME NEW i \in Id
      PROVE  commands'[i] \in Command
             /\ commands'[i].lease \in {NoLease, commands[i].lease}
  BY <1>1, AfterRevokeFields
<1>4. commands' \in [Id -> Command]
  BY <1>3 DEF SettleRevokedClient
<1>5. ASSUME NEW i \in Id
      PROVE IF commands[i].state = "Absent"
            THEN commands'[i] = commands[i] /\ grants'[i] = grants[i]
            ELSE /\ commands'[i].state # "Absent"
                 /\ commands'[i].key = commands[i].key
                 /\ CommandOK(i)'
  <2>0. PICK c, d : c = commands[i] /\ d = commands'[i]
    OBVIOUS
  <2>1. c \in Command /\ CommandOK(i) /\ (c.target # client => d = c)
    BY <1>1, <2>0 DEF IInv
  <2>2. CASE c.state = "Absent"
    <3>1. c.target # client
      BY <2>0, <2>1, <2>2, ConstantsOK DEF CommandOK, StateOK, NoCommand
    <3> QED BY <1>2, <2>0, <2>1, <2>2, <3>1
  <2>3. CASE c.state # "Absent" /\ c.target # client
    BY <1>2, <2>0, <2>1, <2>3 DEF CommandOK, StateOK
  <2>4. CASE c.state # "Absent" /\ c.target = client
    <3>1. d = AfterRevoke(c)
      BY <1>1, <2>0, <2>4
    <3>2. NoLease <= issued
      BY DEF IInv, TypeOK, NoLease
    <3>3. d.state \notin {"Leased", "SendStarted", "Absent"} /\ d.lease = NoLease
      BY <2>0, <2>1, <2>4, <3>1, AfterRevokeFields
         DEF AmbiguousPostSend, CommandOK, StateOK
    <3>4. CommandOK(i)'
      BY <1>2, <2>0, <2>1, <2>4, <3>1, <3>2, <3>3, AfterRevokeFields
         DEF AmbiguousPostSend, CommandOK, StateOK
    <3>5. d.key = c.key
      BY <2>1, <3>1, AfterRevokeFields
    <3> QED BY <2>0, <2>4, <3>3, <3>4, <3>5
  <2> QED BY <2>2, <2>3, <2>4
<1>6. LeasesDiffer'
  BY <1>3 DEF IInv, LeasesDiffer
<1>7. /\ issued' \in 0 .. MaxLease
      /\ grants' \in [Id -> SUBSET LeaseId]
      /\ SendGrantedAtMostOnce'
  BY <1>2 DEF IInv, TypeOK, SendGrantedAtMostOnce
<1> QED
  BY <1>2, <1>4, <1>5, <1>6, <1>7, InPlace

\* What an expired lease falls back to.
LEMMA AfterExpiryFields ==
  ASSUME NEW c \in Command, NEW d, d = AfterExpiry(c)
  PROVE  /\ d \in Command /\ d.key = c.key /\ d.ready = c.ready
         /\ d.conv = c.conv
         /\ d.pinned = c.pinned /\ (c.pinned => d.target = c.target)
         /\ \/ ~c.expired /\ d = c
            \/ /\ c.expired /\ c.state = "Leased" /\ ~c.history
               /\ d.state = "Queued" /\ d.history = c.history
               /\ d.lease = NoLease /\ ~d.expired
            \/ /\ c.expired /\ ~(c.state = "Leased" /\ ~c.history)
               /\ d.state = "NeedsReconcile" /\ d.history
               /\ d.lease = NoLease /\ ~d.expired
<1>1. CASE ~c.expired
  BY <1>1 DEF AfterExpiry
<1>2. CASE c.expired /\ c.state = "Leased" /\ ~c.history
  <2>1. PICK t : t = IF c.pinned THEN c.target ELSE NoClient
    OBVIOUS
  <2>2. d = [Unleased(c) EXCEPT !.state = "Queued", !.target = t]
    BY <1>2, <2>1 DEF AfterExpiry
  <2>3. d = [key |-> c.key, state |-> "Queued", ready |-> c.ready,
             history |-> c.history, lease |-> NoLease,
             holder |-> NoClient, expired |-> FALSE,
             target |-> t, pinned |-> c.pinned, conv |-> c.conv]
    BY <2>2, RequeuedFields
  <2>4. t \in Client \cup {NoClient}
    BY <2>1 DEF Command
  <2>5. d \in Command
    BY <2>3, <2>4 DEF Command, State
  <2> QED
    BY <1>2, <2>1, <2>3, <2>5
<1>3. CASE c.expired /\ ~(c.state = "Leased" /\ ~c.history)
  <2>1. d = [Unleased(c) EXCEPT !.state = "NeedsReconcile", !.history = TRUE]
    BY <1>3 DEF AfterExpiry
  <2>2. d = [key |-> c.key, state |-> "NeedsReconcile", ready |-> c.ready,
             history |-> TRUE, lease |-> NoLease,
             holder |-> NoClient, expired |-> FALSE,
             target |-> c.target, pinned |-> c.pinned, conv |-> c.conv]
    BY <2>1, FallenBackFields
  <2>3. d \in Command
    BY <2>2 DEF Command, State
  <2> QED
    BY <1>3, <2>2, <2>3
<1> QED
  BY <1>1, <1>2, <1>3

\* Falling back on expiry keeps a stored command right.
LEMMA AfterExpiryOK ==
  ASSUME IInv, NEW i \in Id, NEW d, d = AfterExpiry(commands[i])
  PROVE  /\ d \in Command
         /\ d.lease \in {NoLease, commands[i].lease}
         /\ commands[i].state = "Absent" => d = commands[i]
         /\ commands[i].state # "Absent" =>
              /\ d.state # "Absent" /\ d.key = commands[i].key
              /\ StateOK(d, grants[i], issued)
<1>1. PICK c : c = commands[i]
  OBVIOUS
<1>2. c \in Command /\ CommandOK(i)
  BY <1>1 DEF IInv, TypeOK
<1>3. NoLease <= issued
  BY DEF IInv, TypeOK, NoLease
<1>4. c.state = "Absent" => ~c.expired
  BY <1>1, <1>2 DEF CommandOK, StateOK, NoCommand
<1>5. c.expired => c.state \in {"Leased", "SendStarted"}
  BY <1>1, <1>2, <1>4 DEF CommandOK, StateOK
<1>6. CASE ~c.expired
  <2>1. d = c
    BY <1>1, <1>2, <1>6, AfterExpiryFields
  <2> QED
    BY <1>1, <1>2, <2>1 DEF CommandOK, StateOK
<1>7. CASE c.expired
  BY <1>1, <1>2, <1>3, <1>5, <1>7, AfterExpiryFields DEF CommandOK, StateOK
<1> QED
  BY <1>6, <1>7

LEMMA RedeemStep ==
  ASSUME IInv, NEW client \in Client, NEW e, Redeem(client, e) PROVE IInv'
<1>0. PICK settled : settled = [i \in Id |-> AfterExpiry(commands[i])]
  OBVIOUS
<1>1. ASSUME NEW i \in Id
      PROVE  /\ settled[i] \in Command
             /\ settled[i].lease \in {NoLease, commands[i].lease}
             /\ commands[i].state = "Absent" => settled[i] = commands[i]
             /\ commands[i].state # "Absent" =>
                  /\ settled[i].state # "Absent"
                  /\ settled[i].key = commands[i].key
                  /\ StateOK(settled[i], grants[i], issued)
  <2>1. settled[i] = AfterExpiry(commands[i])
    BY <1>0
  <2> QED BY <2>1, AfterExpiryOK
<1>2. settled \in [Id -> Command]
  BY <1>0, <1>1
<1>3. UNCHANGED <<dedupe, nextSequence, grants>>
  BY DEF Redeem
<1>4. /\ grants' \in [Id -> SUBSET LeaseId] /\ SendGrantedAtMostOnce'
      /\ UNCHANGED <<dedupe, nextSequence>>
  BY <1>3 DEF IInv, TypeOK, SendGrantedAtMostOnce
<1>5. \A i \in Id : commands[i].state # "Absent" =>
        commands[i].key \in Key /\ dedupe[commands[i].key] = i
  BY DEF IInv, CommandOK
<1>6. CASE commands' = settled /\ issued' = issued
  <2>1. issued' \in 0 .. MaxLease
    BY <1>6 DEF IInv, TypeOK
  <2>2. LeasesDiffer'
    BY <1>1, <1>6 DEF IInv, LeasesDiffer
  <2>3. ASSUME NEW i \in Id
        PROVE IF commands[i].state = "Absent"
              THEN commands'[i] = commands[i] /\ grants'[i] = grants[i]
              ELSE /\ commands'[i].state # "Absent"
                   /\ commands'[i].key = commands[i].key
                   /\ CommandOK(i)'
    BY <1>1, <1>3, <1>5, <1>6 DEF CommandOK
  <2> QED
    BY <1>2, <1>4, <1>6, <2>1, <2>2, <2>3, InPlace
<1>7. ASSUME NEW i \in Id, i \in Offer(settled, client, e),
             issued < MaxLease, issued' = issued + 1,
             commands' = [settled EXCEPT ![i] =
               [settled[i] EXCEPT !.state = "Leased", !.lease = issued + 1,
                  !.holder = client, !.target = client]]
      PROVE  IInv'
  <2>0. PICK c : c = settled[i]
    OBVIOUS
  <2>1. PICK d : d = [c EXCEPT !.state = "Leased", !.lease = issued + 1,
                        !.holder = client, !.target = client]
    OBVIOUS
  <2>2. c \in Command /\ c.ready /\ c.state \in {"NeedsReconcile", "Queued"}
    BY <1>1, <1>7, <2>0 DEF Offer, Offerable, InState
  <2>3. d = [key |-> c.key, state |-> "Leased", ready |-> c.ready,
             history |-> c.history, lease |-> issued + 1, holder |-> client,
             expired |-> c.expired, target |-> client, pinned |-> c.pinned,
             conv |-> c.conv]
    BY <2>1, <2>2 DEF Command
  <2>4. issued + 1 \in LeaseId /\ issued \in Nat
    BY <1>7, ConstantsOK DEF IInv, TypeOK, LeaseId
  <2>5. d \in Command
    BY <2>2, <2>3, <2>4 DEF Command, State
  <2>6. commands' = [settled EXCEPT ![i] = d]
    BY <1>7, <2>0, <2>1
  <2>7. /\ commands' \in [Id -> Command] /\ commands'[i] = d
        /\ \A j \in Id : j # i => commands'[j] = settled[j]
    BY <1>2, <2>5, <2>6
  <2>8. issued' \in 0 .. MaxLease
    BY <1>7, <2>4, ConstantsOK DEF IInv, TypeOK
  <2>9. commands[i].state # "Absent"
    BY <1>1, <2>0, <2>2 DEF IInv, CommandOK, NoCommand
  <2>10. ASSUME NEW j \in Id
         PROVE IF commands[j].state = "Absent"
               THEN commands'[j] = commands[j] /\ grants'[j] = grants[j]
               ELSE /\ commands'[j].state # "Absent"
                    /\ commands'[j].key = commands[j].key
                    /\ CommandOK(j)'
    <3>1. CASE j = i
      <4>1. StateOK(c, grants[i], issued) /\ c.key = commands[i].key
        BY <1>1, <2>0, <2>9
      <4>2. client # NoClient /\ issued + 1 # NoLease
        BY <2>4, ConstantsOK DEF NoLease
      <4>3. ~c.expired
        BY <2>2, <4>1 DEF StateOK
      <4>4. StateOK(d, grants[i], issued + 1)
        BY <2>2, <2>3, <2>4, <4>1, <4>2, <4>3 DEF StateOK
      <4>5. d.state # "Absent" /\ d.key = commands[i].key
        BY <2>3, <4>1
      <4>6. StateOK(d, grants[i], issued)'
        BY <1>3, <1>7, <4>4
      <4>7. CommandOK(i)'
        BY <1>3, <1>5, <2>7, <2>9, <4>5, <4>6 DEF CommandOK
      <4> QED
        BY <2>7, <2>9, <3>1, <4>5, <4>7
    <3>2. CASE j # i
      <4>1. settled[j].lease \in Nat
        BY <1>1 DEF Command, LeaseId, NoLease
      <4> QED
        BY <1>1, <1>3, <1>5, <1>7, <2>4, <2>7, <3>2, <4>1 DEF CommandOK, StateOK
    <3> QED BY <3>1, <3>2
  <2>11. LeasesDiffer'
    <3>1. \A j \in Id : settled[j].lease <= issued /\ settled[j].lease # issued + 1
      <4> SUFFICES ASSUME NEW j \in Id
                   PROVE settled[j].lease <= issued /\ settled[j].lease # issued + 1
        OBVIOUS
      <4>1. settled[j].lease \in Nat
        BY <1>1 DEF Command, LeaseId, NoLease
      <4>2. commands[j].state = "Absent" => settled[j].lease = NoLease
        BY <1>1 DEF IInv, CommandOK, NoCommand
      <4>3. settled[j].lease <= issued
        BY <1>1, <2>4, <4>2 DEF StateOK, NoLease
      <4> QED BY <2>4, <4>1, <4>3
    <3>2. d.lease = issued + 1
      BY <2>3
    <3> QED BY <1>1, <2>7, <3>1, <3>2 DEF IInv, LeasesDiffer
  <2> QED
    BY <1>4, <2>7, <2>8, <2>10, <2>11, InPlace
<1>8. ASSUME NEW S PROVE Offer(settled, client, S) \subseteq Id
  BY DEF Offer, Offerable, InState
<1> QED
  BY <1>0, <1>6, <1>7, <1>8 DEF Redeem

LEMMA EnqueueStep ==
  ASSUME IInv, NEW k \in Key, NEW r \in Client \cup {NoClient}, EnqueueHeld(k, r)
  PROVE  IInv'
<1>0. PICK dropped, kept : /\ dropped = CompactedAway(commands)
                          /\ kept = Without(commands, dropped)
  OBVIOUS
<1>1. kept \in [Id -> Command] /\ Unindexed(dedupe, dropped) \in [Key -> Id \cup {NoId}]
  BY <1>0, WithoutType DEF IInv
<1>2. nextSequence \in Id /\ nextSequence < MaxSeq
  BY ConstantsOK DEF EnqueueHeld, HasRoom, IInv, TypeOK, Id
<1>3. PICK t \in Client \cup {NoClient} :
        commands' = [kept EXCEPT ![nextSequence] = QueuedLaunch(k, t)]
  <2>1. {kept[i].target : i \in PriorOnThread(kept, k)} \subseteq Client \cup {NoClient}
    BY <1>1 DEF PriorOnThread, NewestSuccesses, InState, Command
  <2>2. Routes(kept, k, r) \subseteq Client \cup {NoClient}
    BY <2>1 DEF Routes
  <2> QED
    BY <1>0, <2>2 DEF EnqueueHeld, HasRoom
<1>4. /\ dedupe' = [Unindexed(dedupe, dropped) EXCEPT ![k] = nextSequence]
      /\ nextSequence' = nextSequence + 1 /\ dedupe[k] = NoId
      /\ UNCHANGED <<issued, grants>>
  BY <1>0 DEF EnqueueHeld, HasRoom
<1>5. PICK d : d = QueuedLaunch(k, t)
  OBVIOUS
<1>6. d = [key |-> k, state |-> "Queued", ready |-> FALSE, history |-> FALSE,
           lease |-> NoLease, holder |-> NoClient, expired |-> FALSE,
           target |-> t, pinned |-> (t # NoClient), conv |-> NoConv]
  <2>1. PICK n : n = NoCommand
    OBVIOUS
  <2>2. n \in Command
    BY <2>1, NoCommandType
  <2>3. d = [n EXCEPT !.key = k, !.state = "Queued", !.target = t,
                      !.pinned = (t # NoClient)]
    BY <1>5, <2>1 DEF QueuedLaunch
  <2>4. d = [key |-> k, state |-> "Queued", ready |-> n.ready,
             history |-> n.history, lease |-> n.lease, holder |-> n.holder,
             expired |-> n.expired, target |-> t, pinned |-> (t # NoClient),
             conv |-> n.conv]
    BY <2>2, <2>3 DEF Command
  <2>5. /\ n.ready = FALSE /\ n.history = FALSE /\ n.lease = NoLease
        /\ n.holder = NoClient /\ n.expired = FALSE /\ n.conv = NoConv
    BY <2>1 DEF NoCommand
  <2> QED BY <2>4, <2>5
<1>7. d \in Command
  BY <1>6 DEF Command, State
<1>8. /\ commands' \in [Id -> Command] /\ commands'[nextSequence] = d
      /\ \A i \in Id : i # nextSequence =>
           commands'[i] = IF i \in dropped THEN NoCommand ELSE commands[i]
  BY <1>0, <1>1, <1>2, <1>3, <1>5, <1>7 DEF Without
<1>9. /\ dedupe' \in [Key -> Id \cup {NoId}] /\ dedupe'[k] = nextSequence
      /\ \A x \in Key : x # k =>
           dedupe'[x] = IF dedupe[x] \in dropped THEN NoId ELSE dedupe[x]
  BY <1>1, <1>2, <1>4 DEF Unindexed
<1>10. TypeOK'
  <2>1. nextSequence + 1 \in 0 .. MaxSeq
    BY <1>2, ConstantsOK DEF Id
  <2> QED
    BY <1>4, <1>8, <1>9, <2>1 DEF IInv, TypeOK
<1>11. NoCommand.state = "Absent" /\ NoCommand.lease = NoLease
  BY DEF NoCommand
<1>12. grants[nextSequence] = {} /\ commands[nextSequence] = NoCommand
  <2>1. nextSequence >= nextSequence
    BY <1>2 DEF Id
  <2> QED BY <1>2, <2>1 DEF IInv, UnusedBlank
<1>13. \A i \in Id : CommandOK(i)'
  <2> SUFFICES ASSUME NEW i \in Id PROVE CommandOK(i)'
    OBVIOUS
  <2>1. CASE i = nextSequence
    <3>1. NoLease <= issued
      BY DEF IInv, TypeOK, NoLease
    <3>2. StateOK(d, grants[i], issued)
      BY <1>6, <1>12, <2>1, <3>1 DEF StateOK
    <3>3. StateOK(d, grants[i], issued)'
      BY <1>4, <3>2
    <3>4. d.state # "Absent" /\ d.key = k
      BY <1>6
    <3> QED
      BY <1>8, <1>9, <2>1, <3>3, <3>4 DEF CommandOK
  <2>2. CASE i # nextSequence /\ i \in dropped
    BY <1>8, <1>11, <2>2 DEF CommandOK
  <2>3. CASE i # nextSequence /\ i \notin dropped
    <3>1. commands'[i] = commands[i] /\ CommandOK(i)
      BY <1>8, <2>3 DEF IInv
    <3>2. CASE commands[i].state # "Absent"
      <4>1. commands[i].key # k
        BY <1>4, <3>1, <3>2 DEF CommandOK, NoId, Id
      <4> QED BY <1>4, <1>9, <2>3, <3>1, <3>2, <4>1 DEF CommandOK
    <3>3. CASE commands[i].state = "Absent"
      BY <3>1, <3>3 DEF CommandOK
    <3> QED BY <3>2, <3>3
  <2> QED BY <2>1, <2>2, <2>3
<1>14. UnusedBlank'
  <2> SUFFICES ASSUME NEW i \in Id, i >= nextSequence + 1
               PROVE commands'[i] = NoCommand /\ grants'[i] = {}
    BY <1>4 DEF UnusedBlank
  <2>1. i # nextSequence /\ i >= nextSequence
    BY <1>2 DEF Id
  <2> QED BY <1>4, <1>8, <2>1 DEF IInv, UnusedBlank
<1>15. DedupePoints'
  <2> SUFFICES ASSUME NEW x \in Key, dedupe'[x] # NoId
               PROVE  /\ commands'[dedupe'[x]].state # "Absent"
                      /\ commands'[dedupe'[x]].key = x
    BY DEF DedupePoints
  <2>1. CASE x = k
    BY <1>6, <1>8, <1>9, <2>1
  <2>2. CASE x # k
    <3>1. dedupe[x] \in Id /\ dedupe[x] \notin dropped /\ dedupe'[x] = dedupe[x]
      BY <1>9, <2>2 DEF IInv, TypeOK
    <3>2. commands[dedupe[x]].state # "Absent" /\ commands[dedupe[x]].key = x
      BY <1>9, <2>2, <3>1 DEF IInv, DedupePoints
    <3>3. dedupe[x] # nextSequence
      BY <1>11, <1>12, <3>2
    <3> QED BY <1>8, <3>1, <3>2, <3>3
  <2> QED BY <2>1, <2>2
<1>16. LeasesDiffer'
  <2>1. d.lease = NoLease
    BY <1>6
  <2> QED BY <1>8, <1>11, <2>1 DEF IInv, LeasesDiffer
<1>17. SendGrantedAtMostOnce'
  BY <1>4 DEF IInv, SendGrantedAtMostOnce
<1> QED
  BY <1>10, <1>13, <1>14, <1>15, <1>16, <1>17 DEF IInv

(***************************************************************************)
(* The theorems.                                                           *)
(***************************************************************************)

\* Every operation of the broker keeps the inductive invariant.
LEMMA IInvStep == IInv /\ [Next]_vars => IInv'
<1> SUFFICES ASSUME IInv, [Next]_vars PROVE IInv'
  OBVIOUS
<1>1. ASSUME NEW k \in Key, NEW r \in Client \cup {NoClient}, EnqueueHeld(k, r)
      PROVE IInv'
  BY <1>1, EnqueueStep
<1>2. ASSUME NEW i \in Id, ActivateDispatch(i) PROVE IInv'
  BY <1>2, ActivateDispatchStep
<1>3. ASSUME NEW k \in Key, CancelPreSend(k) \/ SettleForWorkerRetire(k) PROVE IInv'
  <2>1. RemoveCommands({dedupe[k]})
    BY <1>3 DEF CancelPreSend, SettleForWorkerRetire
  <2> QED BY <2>1, Removal
<1>4. ASSUME NEW k \in Key, FenceUnclaimedAfterSend(k) PROVE IInv'
  BY <1>4, FenceStep
<1>5. ASSUME NEW k \in Key, NEW conv \in Conv, ConfirmWorkerStarted(k, conv)
      PROVE IInv'
  BY <1>5, ConfirmStep
<1>6. ASSUME NEW client \in Client, SettleRevokedClient(client) PROVE IInv'
  BY <1>6, SettleRevokedStep
<1>7. CASE Clear
  <2>1. PICK S : RemoveCommands(S)
    BY <1>7 DEF Clear, ClearAllWorkerCommands, ClearWorkerCommandsForAnchor,
                PurgeTerminalForAnchor, PurgeWorkspace
  <2> QED BY <2>1, Removal
<1>8. ASSUME NEW i \in Id, LeaseExpires(i) PROVE IInv'
  BY <1>8, LeaseExpiresStep
<1>9. ASSUME NEW client \in Client, NEW e \in SUBSET Anchors, Redeem(client, e)
      PROVE IInv'
  BY <1>9, RedeemStep
<1>10. ASSUME NEW i \in Id, NEW l \in LeaseId, NEW client \in Client,
              MarkSendStarted(i, l, client)
       PROVE IInv'
  BY <1>10, MarkSendStartedStep
<1>11. ASSUME NEW i \in Id, NEW l \in LeaseId, NEW client \in Client,
              \/ \E conv \in Conv : AckSucceeded(i, l, client, conv)
              \/ AckFailed(i, l, client)
              \/ AckNeedsReconcile(i, l, client)
              \/ AckPaused(i, l, client)
       PROVE IInv'
  BY <1>11, AcksStep
<1>12. CASE UNCHANGED vars
  <2>1. TypeOK'
    BY <1>12 DEF vars, IInv, TypeOK
  <2>2. \A i \in Id : CommandOK(i)'
    BY <1>12 DEF vars, IInv, CommandOK
  <2>3. UnusedBlank' /\ DedupePoints' /\ LeasesDiffer' /\ SendGrantedAtMostOnce'
    BY <1>12 DEF vars, IInv, UnusedBlank, DedupePoints, LeasesDiffer,
                 SendGrantedAtMostOnce
  <2> QED BY <2>1, <2>2, <2>3 DEF IInv
<1>13. CASE Host
  BY <1>13, <1>1, <1>2, <1>3, <1>4, <1>5, <1>6 DEF Host
<1>14. CASE Browser
  BY <1>14, <1>8, <1>9, <1>10, <1>11 DEF Browser
<1> QED
  BY <1>7, <1>12, <1>13, <1>14 DEF Next

\* The inductive invariant holds in every reachable store.
THEOREM Invariant == Spec => []IInv
BY IInvInit, IInvStep, PTL DEF Spec

\* Every reachable store is well typed.
THEOREM Typing == Spec => []TypeOK
<1>1. IInv => TypeOK
  BY DEF IInv
<1> QED BY <1>1, Invariant, PTL

\* However leases expire, are revoked, re-offered and reconciled, at most one
\* lease of a command is ever told to press Send.
THEOREM SendOnce == Spec => []SendGrantedAtMostOnce
<1>1. IInv => SendGrantedAtMostOnce
  BY DEF IInv
<1> QED BY <1>1, Invariant, PTL

\* No commit ever writes a store that validate would refuse to load again.
THEOREM StoreStaysValid == Spec => []StoreValid
<1>1. IInv => StoreValid
  <2> SUFFICES ASSUME IInv, NEW i \in InStore(commands)
               PROVE  LET c == commands[i]
                      IN  /\ i < nextSequence
                          /\ (c.lease # NoLease) <=> (c.state \in {"Leased", "SendStarted"})
                          /\ c.state \in {"SendStarted", "NeedsReconcile", "Paused"} => c.history
    BY DEF StoreValid
  <2>1. i \in Id /\ commands[i].state # "Absent" /\ CommandOK(i)
    BY DEF InStore, IInv
  <2>2. i < nextSequence
    <3>1. ~(i >= nextSequence)
      BY <2>1 DEF IInv, UnusedBlank, NoCommand
    <3> QED BY <2>1, <3>1 DEF IInv, TypeOK, Id
  <2> QED BY <2>1, <2>2 DEF CommandOK, StateOK
<1> QED BY <1>1, Invariant, PTL

\* The dedupe index and the stored commands stay in bijection.
THEOREM IndexStaysExact == Spec => []DedupeIsIndex
<1>1. IInv => DedupeIsIndex
  <2> SUFFICES ASSUME IInv PROVE DedupeIsIndex
    OBVIOUS
  <2>1. \A k \in Key : dedupe[k] # NoId => dedupe[k] \in Id
    BY DEF IInv, TypeOK
  <2> QED BY <2>1 DEF DedupeIsIndex, InStore, IInv, CommandOK, DedupePoints
<1> QED BY <1>1, Invariant, PTL

\* reconcile_history is set exactly when some lease was told to press Send.
THEOREM HistoryIsExact == Spec => []HistoryRecordsSend
<1>1. IInv => HistoryRecordsSend
  BY DEF HistoryRecordsSend, InStore, IInv, CommandOK, StateOK
<1> QED BY <1>1, Invariant, PTL

\* A held launch, whose worker link is not committed, never reaches a browser.
THEOREM HeldNeverSent == Spec => []HeldStaysQueued
<1>1. IInv => HeldStaysQueued
  <2> SUFFICES ASSUME IInv, NEW i \in InStore(commands), ~commands[i].ready
               PROVE commands[i].state = "Queued" /\ grants[i] = {}
    BY DEF HeldStaysQueued
  <2> QED BY DEF InStore, IInv, CommandOK, StateOK
<1> QED BY <1>1, Invariant, PTL

\* A live lease belongs to one command and to the browser it is routed to.
THEOREM LeasesAreExclusive == Spec => []LeaseIsExclusive
<1>1. IInv => LeaseIsExclusive
  BY DEF LeaseIsExclusive, InStore, IInv, CommandOK, StateOK, LeasesDiffer
<1> QED BY <1>1, Invariant, PTL

\* A reused worker's launch only succeeds in its own bound conversation.
THEOREM ReuseIsBound == Spec => []ReuseStaysInThread
<1>1. IInv => ReuseStaysInThread
  BY DEF ReuseStaysInThread, InStore, IInv, CommandOK, StateOK
<1> QED BY <1>1, Invariant, PTL

\* All of what the operations count on holds together in every reachable state.
THEOREM StoreStaysSound == Spec => []StoreIsSound
<1> QED BY Typing, StoreStaysValid, IndexStaysExact, HistoryIsExact,
           LeasesAreExclusive, ReuseIsBound, HeldNeverSent, PTL
        DEF StoreIsSound

(***************************************************************************)
(* The broker implements SendLedger: whatever it does to its store is, key *)
(* by key, a step its callers were promised.                               *)
(***************************************************************************)
\* The phases of the abstract ledger, by state and history.
LEMMA Phases ==
  ASSUME NEW c
  PROVE  /\ c.state = "Succeeded" => PhaseOf(c) = "delivered"
         /\ c.state = "Failed" => PhaseOf(c) = "failed"
         /\ c.state \notin {"Succeeded", "Failed"} /\ c.history =>
              PhaseOf(c) = "crossed"
         /\ c.state \notin {"Succeeded", "Failed"} /\ ~c.history =>
              PhaseOf(c) = "pending"
BY DEF PhaseOf

\* A store in which nothing moved to another phase is the same ledger.
LEMMA SamePhases ==
  ASSUME IInv, UNCHANGED dedupe,
         \A i \in Id : commands[i].state # "Absent" =>
           PhaseOf(commands'[i]) = PhaseOf(commands[i])
  PROVE  UNCHANGED Ledger
<1>1. ASSUME NEW k \in Key, dedupe[k] # NoId
      PROVE PhaseOf(commands'[dedupe[k]]) = PhaseOf(commands[dedupe[k]])
  BY <1>1, Indexed
<1> QED
  BY <1>1 DEF Ledger

\* One command's step moves the ledger of its key only.
LEMMA OnePhase ==
  ASSUME IInv, NEW i \in Id, commands[i].state # "Absent", NEW d,
         commands' = [commands EXCEPT ![i] = d], UNCHANGED dedupe
  PROVE  /\ commands[i].key \in Key
         /\ Ledger[commands[i].key] = PhaseOf(commands[i])
         /\ Ledger' = [Ledger EXCEPT ![commands[i].key] = PhaseOf(d)]
<1>1. /\ commands[i].key \in Key /\ dedupe[commands[i].key] = i
      /\ i # NoId
  BY DEF IInv, CommandOK, Id, NoId
<1>2. ASSUME NEW k \in Key, k # commands[i].key, dedupe[k] # NoId
      PROVE dedupe[k] # i /\ commands'[dedupe[k]] = commands[dedupe[k]]
  <2>1. dedupe[k] # i
    BY <1>2, Indexed
  <2>2. dedupe[k] \in Id
    BY <1>2, Indexed
  <2> QED BY <2>1, <2>2 DEF IInv, TypeOK
<1>3. commands'[i] = d
  BY DEF IInv, TypeOK
<1>4. Ledger[commands[i].key] = PhaseOf(commands[i])
  BY <1>1 DEF Ledger
<1>5. Ledger' = [Ledger EXCEPT ![commands[i].key] = PhaseOf(d)]
  <2>1. ASSUME NEW k \in Key
        PROVE (IF dedupe'[k] = NoId THEN "none" ELSE PhaseOf(commands'[dedupe'[k]]))
              = IF k = commands[i].key THEN PhaseOf(d)
                ELSE IF dedupe[k] = NoId THEN "none"
                     ELSE PhaseOf(commands[dedupe[k]])
    BY <1>1, <1>2, <1>3
  <2> QED BY <2>1 DEF Ledger
<1> QED
  BY <1>1, <1>4, <1>5

\* Removing commands forgets their keys.
LEMMA RemovalForgets ==
  ASSUME IInv, NEW S, RemoveCommands(S) PROVE SL!Next
<1> DEFINE K == {k \in Key : dedupe[k] \in S}
<1>1. ASSUME NEW k \in Key
      PROVE (IF dedupe'[k] = NoId THEN "none" ELSE PhaseOf(commands'[dedupe'[k]]))
            = IF k \in K THEN "none"
              ELSE IF dedupe[k] = NoId THEN "none"
                   ELSE PhaseOf(commands[dedupe[k]])
  <2>1. dedupe'[k] = IF dedupe[k] \in S THEN NoId ELSE dedupe[k]
    BY DEF RemoveCommands, Unindexed
  <2>2. CASE dedupe[k] = NoId
    BY <2>1, <2>2
  <2>3. CASE dedupe[k] # NoId /\ dedupe[k] \in S
    BY <2>1, <2>3
  <2>4. CASE dedupe[k] # NoId /\ dedupe[k] \notin S
    <3>1. commands'[dedupe[k]] = commands[dedupe[k]]
      BY <2>4, Indexed DEF RemoveCommands, Without
    <3> QED BY <2>1, <2>4, <3>1
  <2> QED BY <2>2, <2>3, <2>4
<1>2. Ledger' = [k \in Key |-> IF k \in K THEN "none" ELSE Ledger[k]]
  BY <1>1 DEF Ledger
<1>3. K \in SUBSET Key /\ SL!Forget(K)
  BY <1>2 DEF SL!Forget
<1> QED
  BY <1>3 DEF SL!Next

\* Enqueueing accepts the launch and forgets only settled ones.
LEMMA EnqueueAccepts ==
  ASSUME IInv, NEW k \in Key, NEW r \in Client \cup {NoClient}, EnqueueHeld(k, r)
  PROVE  SL!Next
<1>0. PICK dropped : dropped = CompactedAway(commands)
  OBVIOUS
<1>1. dropped \subseteq {i \in Id : commands[i].state \in {"Succeeded", "Failed"}}
  BY <1>0 DEF CompactedAway, InState
<1>2. nextSequence \in Id
  BY ConstantsOK DEF EnqueueHeld, HasRoom, IInv, TypeOK, Id
<1>3. PICK t : commands' = [Without(commands, dropped) EXCEPT
                              ![nextSequence] = QueuedLaunch(k, t)]
  BY <1>0 DEF EnqueueHeld, HasRoom
<1>4. /\ dedupe' = [Unindexed(dedupe, dropped) EXCEPT ![k] = nextSequence]
      /\ dedupe[k] = NoId
  BY <1>0 DEF EnqueueHeld, HasRoom
<1>5. PICK q : q = QueuedLaunch(k, t)
  OBVIOUS
<1>6. q.state = "Queued" /\ q.history = FALSE
  <2>1. PICK n : n = NoCommand
    OBVIOUS
  <2>2. n \in Command /\ n.history = FALSE
    BY <2>1, NoCommandType DEF NoCommand
  <2>3. q = [n EXCEPT !.key = k, !.state = "Queued", !.target = t,
                      !.pinned = (t # NoClient)]
    BY <1>5, <2>1 DEF QueuedLaunch
  <2>4. q = [key |-> k, state |-> "Queued", ready |-> n.ready,
             history |-> n.history, lease |-> n.lease, holder |-> n.holder,
             expired |-> n.expired, target |-> t, pinned |-> (t # NoClient),
             conv |-> n.conv]
    BY <2>2, <2>3 DEF Command
  <2> QED BY <2>2, <2>4
<1>7. PhaseOf(q) = "pending"
  BY <1>6, Phases
<1>8. commands[nextSequence].state = "Absent"
  <2>1. nextSequence >= nextSequence
    BY <1>2 DEF Id
  <2> QED BY <1>2, <2>1 DEF IInv, UnusedBlank, NoCommand
<1>9. /\ commands'[nextSequence] = q
      /\ \A i \in Id : i # nextSequence /\ i \notin dropped =>
           commands'[i] = commands[i]
  BY <1>2, <1>3, <1>5 DEF Without
<1> DEFINE K == {x \in Key : dedupe[x] \in dropped}
<1>10. ASSUME NEW x \in Key
       PROVE (IF dedupe'[x] = NoId THEN "none" ELSE PhaseOf(commands'[dedupe'[x]]))
             = IF x = k THEN "pending"
               ELSE IF x \in K THEN "none"
                    ELSE IF dedupe[x] = NoId THEN "none"
                         ELSE PhaseOf(commands[dedupe[x]])
  <2>1. CASE x = k
    <3>1. dedupe'[x] = nextSequence /\ nextSequence # NoId
      BY <1>2, <1>4, <2>1 DEF Unindexed, Id, NoId
    <3> QED BY <1>7, <1>9, <2>1, <3>1
  <2>2. CASE x # k
    <3>1. dedupe'[x] = IF dedupe[x] \in dropped THEN NoId ELSE dedupe[x]
      BY <1>4, <2>2 DEF Unindexed
    <3>2. CASE dedupe[x] = NoId \/ dedupe[x] \in dropped
      BY <2>2, <3>1, <3>2
    <3>3. CASE dedupe[x] # NoId /\ dedupe[x] \notin dropped
      <4>1. dedupe[x] \in Id /\ dedupe[x] # nextSequence
        BY <1>8, <3>3, Indexed
      <4>2. commands'[dedupe[x]] = commands[dedupe[x]]
        BY <1>9, <3>3, <4>1
      <4> QED BY <2>2, <3>1, <3>3, <4>2
    <3> QED BY <3>2, <3>3
  <2> QED BY <2>1, <2>2
<1>11. Ledger' = [x \in Key |-> IF x = k THEN "pending"
                                ELSE IF x \in K THEN "none" ELSE Ledger[x]]
  BY <1>10 DEF Ledger
<1>12. ASSUME NEW x \in K PROVE SL!Settled(x)
  <2>1. dedupe[x] # NoId
    BY <1>1, <1>12 DEF Id, NoId
  <2>2. commands[dedupe[x]].state \in {"Succeeded", "Failed"}
    BY <1>1, <1>12
  <2>3. Ledger[x] \in {"delivered", "failed"}
    BY <2>1, <2>2, Phases DEF Ledger
  <2> QED BY <2>3 DEF SL!Settled
<1>13. Ledger[k] = "none"
  BY <1>4 DEF Ledger
<1>14. SL!Accept(k, K) /\ K \in SUBSET Key
  BY <1>11, <1>12, <1>13 DEF SL!Accept
<1> QED
  BY <1>14 DEF SL!Next

(***************************************************************************)
(* Steps of one command, by the phase they leave and reach.                *)
(***************************************************************************)

LEMMA ActivateStutters ==
  ASSUME IInv, NEW i \in Id, ActivateDispatch(i) PROVE UNCHANGED Ledger
<1>1. PICK c, d : c = commands[i] /\ d = [c EXCEPT !.ready = TRUE]
  OBVIOUS
<1>2. c \in Command
  BY <1>1 DEF IInv, TypeOK
<1>3. d.state = c.state /\ d.history = c.history
  BY <1>1, <1>2 DEF Command
<1>4. commands' = [commands EXCEPT ![i] = d] /\ UNCHANGED dedupe
  BY <1>1 DEF ActivateDispatch, Become
<1>5. PhaseOf(d) = PhaseOf(c)
  BY <1>3 DEF PhaseOf
<1>6. \A j \in Id : PhaseOf(commands'[j]) = PhaseOf(commands[j])
  BY <1>1, <1>4, <1>5 DEF IInv, TypeOK
<1> QED
  BY <1>4, <1>6, SamePhases

LEMMA ExpiryStutters ==
  ASSUME IInv, NEW i \in Id, LeaseExpires(i) PROVE UNCHANGED Ledger
<1>1. PICK c, d : c = commands[i] /\ d = [c EXCEPT !.expired = TRUE]
  OBVIOUS
<1>2. c \in Command
  BY <1>1 DEF IInv, TypeOK
<1>3. d.state = c.state /\ d.history = c.history
  BY <1>1, <1>2 DEF Command
<1>4. commands' = [commands EXCEPT ![i] = d] /\ UNCHANGED dedupe
  BY <1>1 DEF LeaseExpires, Become
<1>5. PhaseOf(d) = PhaseOf(c)
  BY <1>3 DEF PhaseOf
<1>6. \A j \in Id : PhaseOf(commands'[j]) = PhaseOf(commands[j])
  BY <1>1, <1>4, <1>5 DEF IInv, TypeOK
<1> QED
  BY <1>4, <1>6, SamePhases

\* A fenced launch failed after it crossed the Send boundary.
LEMMA FenceFails ==
  ASSUME IInv, NEW k \in Key, FenceUnclaimedAfterSend(k) PROVE SL!Next
<1>0. PICK i, c : i = dedupe[k] /\ c = commands[i]
  OBVIOUS
<1>1. PICK r, d :
        /\ r = Unrouted(c)
        /\ d = [Unleased(r) EXCEPT !.state = "Failed", !.history = TRUE]
  OBVIOUS
<1>2. /\ i \in Id /\ c \in Command /\ c.state # "Absent" /\ c.key = k
      /\ CommandOK(i) /\ AmbiguousPostSend(c)
  BY <1>0, Indexed DEF FenceUnclaimedAfterSend
<1>3. d.state = "Failed"
  <2>1. PICK u : u = Unleased(r)
    OBVIOUS
  <2>2. u \in Command
    BY <1>1, <1>2, <2>1, UpdateTypes
  <2>3. d = [u EXCEPT !.state = "Failed", !.history = TRUE]
    BY <1>1, <2>1
  <2> QED BY <2>2, <2>3 DEF Command
<1>4. commands' = [commands EXCEPT ![i] = d] /\ UNCHANGED dedupe
  BY <1>0, <1>1 DEF FenceUnclaimedAfterSend, Become
<1>5. /\ Ledger[k] = PhaseOf(c)
      /\ Ledger' = [Ledger EXCEPT ![k] = PhaseOf(d)]
  <2>1. commands[i].state # "Absent" /\ commands[i].key = k
    BY <1>0, <1>2
  <2> QED BY <1>0, <1>2, <1>4, <2>1, OnePhase
<1>6. PhaseOf(c) = "crossed"
  <2>1. c.history /\ c.state \notin {"Succeeded", "Failed"}
    BY <1>0, <1>2 DEF AmbiguousPostSend, CommandOK, StateOK
  <2> QED BY <2>1, Phases
<1>7. PhaseOf(d) = "failed"
  BY <1>3, Phases
<1> QED
  BY <1>5, <1>6, <1>7 DEF SL!Next, SL!Fail

\* The worker's start delivers a launch that crossed the Send boundary.
LEMMA ConfirmDelivers ==
  ASSUME IInv, NEW k \in Key, NEW conv \in Conv, ConfirmWorkerStarted(k, conv)
  PROVE  SL!Next
<1>0. PICK i, c : i = dedupe[k] /\ c = commands[i]
  OBVIOUS
<1>1. PICK d : d = [Unleased(c) EXCEPT !.state = "Succeeded",
                      !.history = TRUE, !.conv = conv]
  OBVIOUS
<1>2. /\ i \in Id /\ c \in Command /\ c.state # "Absent" /\ c.key = k
      /\ CommandOK(i) /\ (AmbiguousPostSend(c) \/ c.state = "Paused")
  BY <1>0, Indexed DEF ConfirmWorkerStarted
<1>3. d.state = "Succeeded"
  <2>1. PICK u : u = Unleased(c)
    OBVIOUS
  <2>2. u \in Command
    BY <1>2, <2>1, UpdateTypes
  <2>3. d = [u EXCEPT !.state = "Succeeded", !.history = TRUE, !.conv = conv]
    BY <1>1, <2>1
  <2> QED BY <2>2, <2>3 DEF Command
<1>4. commands' = [commands EXCEPT ![i] = d] /\ UNCHANGED dedupe
  BY <1>0, <1>1 DEF ConfirmWorkerStarted, Become
<1>5. /\ Ledger[k] = PhaseOf(c)
      /\ Ledger' = [Ledger EXCEPT ![k] = PhaseOf(d)]
  <2>1. commands[i].state # "Absent" /\ commands[i].key = k
    BY <1>0, <1>2
  <2> QED BY <1>0, <1>2, <1>4, <2>1, OnePhase
<1>6. PhaseOf(c) = "crossed"
  <2>1. c.history /\ c.state \notin {"Succeeded", "Failed"}
    BY <1>0, <1>2 DEF AmbiguousPostSend, CommandOK, StateOK
  <2> QED BY <2>1, Phases
<1>7. PhaseOf(d) = "delivered"
  BY <1>3, Phases
<1> QED
  BY <1>5, <1>6, <1>7 DEF SL!Next, SL!Deliver

\* Crossing the Send boundary.
LEMMA MarkCrosses ==
  ASSUME IInv, NEW i \in Id, NEW l \in LeaseId, NEW client \in Client,
         MarkSendStarted(i, l, client)
  PROVE  SL!Next
<1>0. PICK c : c = commands[i]
  OBVIOUS
<1>1. PICK d : d = [c EXCEPT !.state = "SendStarted", !.history = TRUE]
  OBVIOUS
<1>2. c \in Command /\ c.state = "Leased" /\ ~c.history
  BY <1>0 DEF IInv, TypeOK, MarkSendStarted
<1>3. d.state = "SendStarted" /\ d.history = TRUE
  BY <1>1, <1>2 DEF Command
<1>4. commands' = [commands EXCEPT ![i] = d] /\ UNCHANGED dedupe
  BY <1>0, <1>1 DEF MarkSendStarted
<1>5. PhaseOf(c) = "pending" /\ PhaseOf(d) = "crossed"
  BY <1>2, <1>3, Phases
<1>6. /\ c.key \in Key /\ Ledger[c.key] = "pending"
      /\ Ledger' = [Ledger EXCEPT ![c.key] = "crossed"]
  <2>1. commands[i].state # "Absent"
    BY <1>0, <1>2
  <2>2. /\ c.key \in Key /\ Ledger[c.key] = PhaseOf(c)
        /\ Ledger' = [Ledger EXCEPT ![c.key] = PhaseOf(d)]
    BY <1>0, <1>4, <2>1, OnePhase
  <2> QED BY <1>5, <2>2
<1> QED
  BY <1>6 DEF SL!Next, SL!Cross

\* An acknowledgement moves a leased command as its outcome says.
LEMMA AcknowledgeMoves ==
  ASSUME IInv, NEW i \in Id, NEW l \in LeaseId, NEW client \in Client,
         NEW st, NEW hist \in BOOLEAN, NEW conv,
         Acknowledge(i, l, client, st, hist, conv)
  PROVE  /\ commands[i].key \in Key
         /\ Ledger[commands[i].key] =
              IF commands[i].history THEN "crossed" ELSE "pending"
         /\ Ledger' = [Ledger EXCEPT ![commands[i].key] =
              IF st = "Succeeded" THEN "delivered"
              ELSE IF st = "Failed" THEN "failed"
              ELSE IF hist THEN "crossed" ELSE "pending"]
<1>0. PICK c : c = commands[i]
  OBVIOUS
<1>1. PICK u : u = Unleased(c)
  OBVIOUS
<1>2. PICK d : d = [u EXCEPT !.state = st, !.history = hist, !.conv = conv]
  OBVIOUS
<1>3. c \in Command /\ c.state \in {"Leased", "SendStarted"} /\ u \in Command
  BY <1>0, <1>1, UpdateTypes DEF IInv, TypeOK, Acknowledge
<1>4. d.state = st /\ d.history = hist
  BY <1>2, <1>3 DEF Command
<1>5. commands' = [commands EXCEPT ![i] = d] /\ UNCHANGED dedupe
  BY <1>0, <1>1, <1>2 DEF Acknowledge, Become
<1>6. PhaseOf(c) = IF c.history THEN "crossed" ELSE "pending"
  BY <1>3, Phases
<1>7. /\ c.key \in Key /\ Ledger[c.key] = PhaseOf(c)
      /\ Ledger' = [Ledger EXCEPT ![c.key] = PhaseOf(d)]
  BY <1>0, <1>3, <1>5, OnePhase
<1>8. PhaseOf(d) = IF st = "Succeeded" THEN "delivered"
                   ELSE IF st = "Failed" THEN "failed"
                   ELSE IF hist THEN "crossed" ELSE "pending"
  BY <1>4, Phases
<1> QED
  BY <1>0, <1>6, <1>7, <1>8

LEMMA AcksMove ==
  ASSUME IInv, NEW i \in Id, NEW l \in LeaseId, NEW client \in Client,
         \/ \E conv \in Conv : AckSucceeded(i, l, client, conv)
         \/ AckFailed(i, l, client)
         \/ AckNeedsReconcile(i, l, client)
         \/ AckPaused(i, l, client)
  PROVE  SL!Next \/ UNCHANGED Ledger
<1> DEFINE k == commands[i].key
<1>0. commands[i].history \in BOOLEAN /\ CommandOK(i)
  BY DEF IInv, TypeOK, Command
<1>1. AmbiguousPostSend(commands[i]) => commands[i].history = TRUE
  BY <1>0 DEF AmbiguousPostSend, CommandOK, StateOK
<1>2. ASSUME NEW conv \in Conv, AckSucceeded(i, l, client, conv) PROVE SL!Next
  <2>1. /\ commands[i].history = TRUE
        /\ Acknowledge(i, l, client, "Succeeded", TRUE, conv)
    BY <1>1, <1>2 DEF AckSucceeded
  <2>2. /\ k \in Key /\ Ledger[k] = "crossed"
        /\ Ledger' = [Ledger EXCEPT ![k] = "delivered"]
    BY <2>1, AcknowledgeMoves
  <2> QED BY <2>2 DEF SL!Next, SL!Deliver
<1>3. CASE AckFailed(i, l, client)
  <2>1. /\ commands[i].history = FALSE
        /\ Acknowledge(i, l, client, "Failed", FALSE, NoConv)
    BY <1>0, <1>3 DEF AckFailed
  <2>2. /\ k \in Key /\ Ledger[k] = "pending"
        /\ Ledger' = [Ledger EXCEPT ![k] = "failed"]
    BY <2>1, AcknowledgeMoves
  <2> QED BY <2>2 DEF SL!Next, SL!Fail
<1>4. ASSUME NEW st \in {"NeedsReconcile", "Paused"}, commands[i].history = TRUE,
             Acknowledge(i, l, client, st, TRUE, NoConv)
      PROVE UNCHANGED Ledger
  <2>1. /\ k \in Key /\ Ledger[k] = "crossed"
        /\ Ledger' = [Ledger EXCEPT ![k] = "crossed"]
    BY <1>4, AcknowledgeMoves
  <2> QED BY <2>1 DEF Ledger
<1>5. CASE AckNeedsReconcile(i, l, client)
  BY <1>1, <1>4, <1>5 DEF AckNeedsReconcile
<1>6. CASE AckPaused(i, l, client)
  BY <1>1, <1>4, <1>6 DEF AckPaused
<1> QED
  BY <1>2, <1>3, <1>5, <1>6

(***************************************************************************)
(* Steps that touch many commands but move no launch to another phase.     *)
(***************************************************************************)

LEMMA RevokeStutters ==
  ASSUME IInv, NEW client \in Client, SettleRevokedClient(client)
  PROVE  UNCHANGED Ledger
<1>1. ASSUME NEW i \in Id, commands[i].state # "Absent"
      PROVE PhaseOf(commands'[i]) = PhaseOf(commands[i])
  <2>0. PICK c, d : c = commands[i] /\ d = commands'[i]
    OBVIOUS
  <2>1. c \in Command /\ CommandOK(i)
    BY <2>0 DEF IInv, TypeOK
  <2>2. d = c \/ d = AfterRevoke(c)
    BY <2>0 DEF SettleRevokedClient
  <2>3. CASE d = AfterRevoke(c)
    <3>1. CASE c.state = "Leased" /\ ~c.history
      <4>1. d.state = "Queued" /\ d.history = c.history
        BY <2>1, <2>3, <3>1, AfterRevokeFields DEF AmbiguousPostSend
      <4>2. PhaseOf(c) = "pending" /\ PhaseOf(d) = "pending"
        BY <3>1, <4>1, Phases
      <4> QED BY <2>0, <4>2
    <3>2. CASE AmbiguousPostSend(c)
      <4>1. d.state = "Paused" /\ d.history
        BY <2>1, <2>3, <3>2, AfterRevokeFields DEF AmbiguousPostSend
      <4>2. c.history /\ c.state \notin {"Succeeded", "Failed"}
        BY <1>1, <2>0, <2>1, <3>2 DEF AmbiguousPostSend, CommandOK, StateOK
      <4>3. PhaseOf(c) = "crossed" /\ PhaseOf(d) = "crossed"
        BY <4>1, <4>2, Phases
      <4> QED BY <2>0, <4>3
    <3>3. CASE ~(c.state = "Leased" /\ ~c.history) /\ ~AmbiguousPostSend(c)
      <4>1. d.state = c.state /\ d.history = c.history
        BY <2>1, <2>3, <3>3, AfterRevokeFields
      <4> QED BY <2>0, <4>1 DEF PhaseOf
    <3> QED BY <3>1, <3>2, <3>3
  <2> QED BY <2>0, <2>2, <2>3
<1> QED
  BY <1>1, SamePhases DEF SettleRevokedClient

LEMMA RedeemStutters ==
  ASSUME IInv, NEW client \in Client, NEW e, Redeem(client, e)
  PROVE  UNCHANGED Ledger
<1>0. PICK settled : settled = [i \in Id |-> AfterExpiry(commands[i])]
  OBVIOUS
<1>1. ASSUME NEW i \in Id, commands[i].state # "Absent"
      PROVE PhaseOf(settled[i]) = PhaseOf(commands[i])
  <2>0. PICK c, d : c = commands[i] /\ d = AfterExpiry(c)
    OBVIOUS
  <2>1. c \in Command /\ CommandOK(i) /\ settled[i] = d
    BY <1>0, <2>0 DEF IInv, TypeOK
  <2>2. CASE ~c.expired
    <3>1. d = c
      BY <2>0, <2>1, <2>2, AfterExpiryFields
    <3> QED BY <2>0, <2>1, <3>1
  <2>3. CASE c.expired /\ c.state = "Leased" /\ ~c.history
    <3>1. d.state = "Queued" /\ d.history = c.history
      BY <2>0, <2>1, <2>3, AfterExpiryFields
    <3>2. PhaseOf(c) = "pending" /\ PhaseOf(d) = "pending"
      BY <2>3, <3>1, Phases
    <3> QED BY <2>0, <2>1, <3>2
  <2>4. CASE c.expired /\ ~(c.state = "Leased" /\ ~c.history)
    <3>1. d.state = "NeedsReconcile" /\ d.history
      BY <2>0, <2>1, <2>4, AfterExpiryFields
    <3>2. c.state \in {"Leased", "SendStarted"} /\ c.history
      BY <1>1, <2>0, <2>1, <2>4 DEF CommandOK, StateOK
    <3>3. PhaseOf(c) = "crossed" /\ PhaseOf(d) = "crossed"
      BY <3>1, <3>2, Phases
    <3> QED BY <2>0, <2>1, <3>3
  <2> QED BY <2>2, <2>3, <2>4
<1>2. \A i \in Id : settled[i] \in Command
  BY <1>0, AfterExpiryFields DEF IInv, TypeOK
<1>3. CASE commands' = settled
  BY <1>1, <1>3, SamePhases DEF Redeem
<1>4. ASSUME NEW i \in Offer(settled, client, e),
             commands' = [settled EXCEPT ![i] =
               [settled[i] EXCEPT !.state = "Leased", !.lease = issued + 1,
                  !.holder = client, !.target = client]]
      PROVE UNCHANGED Ledger
  <2>0. PICK c : c = settled[i]
    OBVIOUS
  <2>1. PICK d : d = [c EXCEPT !.state = "Leased", !.lease = issued + 1,
                        !.holder = client, !.target = client]
    OBVIOUS
  <2>2. i \in Id /\ c \in Command /\ c.state \in {"NeedsReconcile", "Queued"}
    BY <1>2, <1>4, <2>0 DEF Offer, Offerable, InState
  <2>3. d.state = "Leased" /\ d.history = c.history
    BY <2>1, <2>2 DEF Command
  <2>4. PhaseOf(d) = PhaseOf(c)
    BY <2>2, <2>3 DEF PhaseOf
  <2>5. commands' = [settled EXCEPT ![i] = d]
    BY <1>4, <2>0, <2>1
  <2>6. \A j \in Id : PhaseOf(commands'[j]) = PhaseOf(settled[j])
    BY <1>0, <2>0, <2>4, <2>5
  <2> QED
    BY <1>1, <2>6, SamePhases DEF Redeem
<1> QED
  BY <1>0, <1>3, <1>4 DEF Redeem

(***************************************************************************)
(* The refinement.                                                         *)
(***************************************************************************)

\* Every step of the broker is a step of the ledger or leaves it alone.
LEMMA LedgerStep == IInv /\ [Next]_vars => [SL!Next]_Ledger
<1> SUFFICES ASSUME IInv, [Next]_vars PROVE SL!Next \/ UNCHANGED Ledger
  OBVIOUS
<1>1. ASSUME NEW k \in Key, NEW r \in Client \cup {NoClient}, EnqueueHeld(k, r)
      PROVE SL!Next
  BY <1>1, EnqueueAccepts
<1>2. ASSUME NEW i \in Id, ActivateDispatch(i) PROVE UNCHANGED Ledger
  BY <1>2, ActivateStutters
<1>3. ASSUME NEW k \in Key, CancelPreSend(k) \/ SettleForWorkerRetire(k)
      PROVE SL!Next
  <2>1. RemoveCommands({dedupe[k]})
    BY <1>3 DEF CancelPreSend, SettleForWorkerRetire
  <2> QED BY <2>1, RemovalForgets
<1>4. ASSUME NEW k \in Key, FenceUnclaimedAfterSend(k) PROVE SL!Next
  BY <1>4, FenceFails
<1>5. ASSUME NEW k \in Key, NEW conv \in Conv, ConfirmWorkerStarted(k, conv)
      PROVE SL!Next
  BY <1>5, ConfirmDelivers
<1>6. ASSUME NEW client \in Client, SettleRevokedClient(client)
      PROVE UNCHANGED Ledger
  BY <1>6, RevokeStutters
<1>7. CASE Clear
  <2>1. PICK S : RemoveCommands(S)
    BY <1>7 DEF Clear, ClearAllWorkerCommands, ClearWorkerCommandsForAnchor,
                PurgeTerminalForAnchor, PurgeWorkspace
  <2> QED BY <2>1, RemovalForgets
<1>8. ASSUME NEW i \in Id, LeaseExpires(i) PROVE UNCHANGED Ledger
  BY <1>8, ExpiryStutters
<1>9. ASSUME NEW client \in Client, NEW e \in SUBSET Anchors, Redeem(client, e)
      PROVE UNCHANGED Ledger
  BY <1>9, RedeemStutters
<1>10. ASSUME NEW i \in Id, NEW l \in LeaseId, NEW client \in Client,
              MarkSendStarted(i, l, client)
       PROVE SL!Next
  BY <1>10, MarkCrosses
<1>11. ASSUME NEW i \in Id, NEW l \in LeaseId, NEW client \in Client,
              \/ \E conv \in Conv : AckSucceeded(i, l, client, conv)
              \/ AckFailed(i, l, client)
              \/ AckNeedsReconcile(i, l, client)
              \/ AckPaused(i, l, client)
       PROVE SL!Next \/ UNCHANGED Ledger
  BY <1>11, AcksMove
<1>12. CASE UNCHANGED vars
  BY <1>12 DEF vars, Ledger
<1>13. CASE Host
  BY <1>13, <1>1, <1>2, <1>3, <1>4, <1>5, <1>6 DEF Host
<1>14. CASE Browser
  BY <1>14, <1>8, <1>9, <1>10, <1>11 DEF Browser
<1> QED
  BY <1>7, <1>12, <1>13, <1>14 DEF Next

\* The broker implements the ledger its callers rely on: a launch crosses the
\* Send boundary at most once between being accepted and being forgotten.
THEOREM Refinement == Spec => ImplementsLedger
<1>1. Init => SL!Init
  BY DEF Init, SL!Init, Ledger, NoId
<1>2. Spec => SL!Init /\ [][SL!Next]_Ledger
  BY <1>1, LedgerStep, Invariant, PTL DEF Spec
<1> QED
  BY <1>2 DEF ImplementsLedger, SL!Spec

(***************************************************************************)
(* The route of a launch.                                                  *)
(***************************************************************************)

\* Besides the invariant: a pinned launch names its browser.  Without it an
\* unrouted launch that is still pinned could be offered to any browser.
RoutedPins == \A i \in Id : commands[i].pinned => commands[i].target # NoClient

\* What an ordinary step does to the route of a command: nothing.
RouteKept(c, d) ==
  /\ d.pinned => d.target # NoClient
  /\ c.pinned /\ d.state # "Absent" => d.pinned /\ d.target = c.target

\* What any step may do to the route of launch i.
RouteHeld(i) ==
  /\ commands'[i].pinned => commands'[i].target # NoClient
  /\ commands[i].pinned /\ commands'[i].state # "Absent" =>
       \/ commands'[i].pinned /\ commands'[i].target = commands[i].target
       \/ RevokesBrowser(commands[i].target)
       \/ FencesLaunch(i)

\* One command changes, its route as RouteKept says.
LEMMA OneRoute ==
  ASSUME IInv, RoutedPins, NEW i \in Id, NEW d, RouteKept(commands[i], d),
         commands' = [commands EXCEPT ![i] = d]
  PROVE  \A j \in Id : RouteKept(commands[j], commands'[j])
<1>1. ASSUME NEW j \in Id PROVE RouteKept(commands[j], commands'[j])
  <2>1. CASE j = i
    BY <2>1 DEF IInv, TypeOK
  <2>2. CASE j # i
    <3>1. commands'[j] = commands[j]
      BY <2>2 DEF IInv, TypeOK
    <3> QED BY <3>1 DEF RoutedPins, RouteKept
  <2> QED BY <2>1, <2>2
<1> QED
  BY <1>1

\* A command that keeps its pin and its target.
LEMMA SameRoute ==
  ASSUME RoutedPins, NEW i \in Id, NEW d,
         d.pinned = commands[i].pinned, d.target = commands[i].target
  PROVE  RouteKept(commands[i], d)
BY DEF RoutedPins, RouteKept

\* Releasing a lease keeps the route.
LEMMA UnleasedRoute ==
  ASSUME NEW c \in Command, NEW u, u = Unleased(c)
  PROVE  u \in Command /\ u.target = c.target /\ u.pinned = c.pinned
BY UnleasedFields, UpdateTypes

LEMMA RemovalRoutes ==
  ASSUME IInv, RoutedPins, NEW S, RemoveCommands(S)
  PROVE  \A i \in Id : RouteKept(commands[i], commands'[i])
<1>1. NoCommand.state = "Absent" /\ NoCommand.pinned = FALSE
  BY DEF NoCommand
<1> QED
  BY <1>1 DEF RemoveCommands, Without, RoutedPins, RouteKept

\* The worker's own start settles its launch where it is.
LEMMA ConfirmRoutes ==
  ASSUME IInv, RoutedPins, NEW k \in Key, NEW conv \in Conv,
         ConfirmWorkerStarted(k, conv)
  PROVE  \A i \in Id : RouteKept(commands[i], commands'[i])
<1>1. PICK i \in Id : i = dedupe[k]
  BY Indexed DEF ConfirmWorkerStarted
<1>2. PICK c : c = commands[i]
  OBVIOUS
<1>3. c \in Command
  BY <1>2 DEF IInv, TypeOK
<1>4. PICK u, d : /\ u = Unleased(c)
                  /\ d = [u EXCEPT !.state = "Succeeded", !.history = TRUE,
                                   !.conv = conv]
  OBVIOUS
<1>5. d.target = c.target /\ d.pinned = c.pinned
  BY <1>3, <1>4, UnleasedRoute DEF Command
<1>6. commands' = [commands EXCEPT ![i] = d]
  BY <1>1, <1>2, <1>4 DEF ConfirmWorkerStarted, Become
<1>7. RouteKept(commands[i], d)
  BY <1>2, <1>5, SameRoute
<1> QED BY <1>6, <1>7, OneRoute

\* The fence gives up the route of the one launch it fences.
LEMMA FenceRoutes ==
  ASSUME IInv, RoutedPins, NEW k \in Key, FenceUnclaimedAfterSend(k)
  PROVE  \A i \in Id : RouteHeld(i)
<1>1. PICK i \in Id : i = dedupe[k]
  BY Indexed DEF FenceUnclaimedAfterSend
<1>2. PICK c : c = commands[i]
  OBVIOUS
<1>3. c \in Command
  BY <1>2 DEF IInv, TypeOK
<1>4. c.key = k
  BY <1>1, <1>2, Indexed DEF FenceUnclaimedAfterSend
<1>5. PICK r : r = Unrouted(c)
  OBVIOUS
<1>6. r \in Command /\ r.target = NoClient /\ r.pinned = FALSE
  BY <1>3, <1>5, UnroutedFields, UpdateTypes
<1>7. PICK u, d : /\ u = Unleased(r)
                  /\ d = [u EXCEPT !.state = "Failed", !.history = TRUE]
  OBVIOUS
<1>8. /\ d.target = NoClient /\ d.pinned = FALSE
      /\ d.state = "Failed" /\ d.history = TRUE
  BY <1>6, <1>7, UnleasedRoute DEF Command
<1>9. /\ commands' = [commands EXCEPT ![i] = d]
      /\ AmbiguousPostSend(c)
  BY <1>1, <1>2, <1>5, <1>7 DEF FenceUnclaimedAfterSend, Become
<1>10. FencesLaunch(i)
  BY <1>2, <1>4, <1>8, <1>9 DEF FencesLaunch, IInv, TypeOK
<1>11. ASSUME NEW j \in Id PROVE RouteHeld(j)
  <2>1. CASE j = i
    BY <1>8, <1>9, <1>10, <2>1 DEF RouteHeld, IInv, TypeOK
  <2>2. CASE j # i
    <3>1. commands'[j] = commands[j]
      BY <1>9, <2>2 DEF IInv, TypeOK
    <3> QED BY <3>1 DEF RouteHeld, RoutedPins
  <2> QED BY <2>1, <2>2
<1> QED BY <1>11

LEMMA EnqueueRoutes ==
  ASSUME IInv, RoutedPins, NEW k \in Key, NEW r, EnqueueHeld(k, r)
  PROVE  \A i \in Id : RouteKept(commands[i], commands'[i])
<1>1. nextSequence \in Id /\ nextSequence >= nextSequence
  BY ConstantsOK DEF EnqueueHeld, HasRoom, IInv, TypeOK, Id
<1>2. PICK kept : kept = Without(commands, CompactedAway(commands))
  OBVIOUS
<1>3. PICK t, q : /\ q = QueuedLaunch(k, t)
                  /\ commands' = [kept EXCEPT ![nextSequence] = q]
  BY <1>2 DEF EnqueueHeld
<1>4. q.pinned = (t # NoClient) /\ q.target = t
  BY <1>3 DEF QueuedLaunch, NoCommand
<1>5. /\ NoCommand.state = "Absent" /\ NoCommand.pinned = FALSE
      /\ commands[nextSequence] = NoCommand
  BY <1>1 DEF NoCommand, IInv, UnusedBlank
<1>6. RouteKept(commands[nextSequence], q)
  BY <1>4, <1>5 DEF RouteKept
<1>7. \A i \in Id : RouteKept(commands[i], kept[i])
  BY <1>2, <1>5 DEF Without, RoutedPins, RouteKept
<1>8. \A i \in Id : commands'[i] = IF i = nextSequence THEN q ELSE kept[i]
  BY <1>1, <1>2, <1>3 DEF Without
<1> QED
  BY <1>6, <1>7, <1>8

\* A revocation gives up the routes to the revoked browser, all of them.
LEMMA RevokeRoutes ==
  ASSUME IInv, RoutedPins, NEW client \in Client, SettleRevokedClient(client)
  PROVE  \A i \in Id : RouteHeld(i)
<1>1. ASSUME NEW j \in Id, commands[j].target = client
      PROVE  /\ commands'[j].target = NoClient /\ ~commands'[j].pinned
             /\ commands'[j].lease = NoLease
  <2>1. PICK d : d = AfterRevoke(commands[j])
    OBVIOUS
  <2>2. d = commands'[j] /\ commands[j] \in Command
    BY <1>1, <2>1 DEF SettleRevokedClient, IInv, TypeOK
  <2>3. d.target = NoClient /\ ~d.pinned
    BY <2>1, <2>2, AfterRevokeFields
  <2>4. d.lease = NoLease
    <3>1. PICK c : c = commands[j]
      OBVIOUS
    <3>2. c.state # "Absent"
      BY <1>1, <3>1, ConstantsOK DEF IInv, CommandOK, NoCommand
    <3>3. (c.lease # NoLease) <=> (c.state \in {"Leased", "SendStarted"})
      BY <3>1, <3>2 DEF IInv, CommandOK, StateOK
    <3>4. c \in Command /\ d = AfterRevoke(c)
      BY <2>1, <2>2, <3>1
    <3> QED
      BY <3>3, <3>4, AfterRevokeFields DEF AmbiguousPostSend, Command
  <2> QED BY <2>2, <2>3, <2>4
<1>2. \A j \in Id : commands[j].target # client => commands'[j] = commands[j]
  BY DEF SettleRevokedClient
<1>3. RevokesBrowser(client)
  BY <1>1, <1>2 DEF RevokesBrowser
<1>4. ASSUME NEW i \in Id PROVE RouteHeld(i)
  <2>1. CASE commands[i].target = client
    BY <1>1, <1>3, <2>1 DEF RouteHeld
  <2>2. CASE commands[i].target # client
    BY <1>2, <2>2 DEF RouteHeld, RoutedPins
  <2> QED BY <2>1, <2>2
<1> QED BY <1>4

\* A browser is offered the pinned launches of its own only.
LEMMA RedeemRoutes ==
  ASSUME IInv, RoutedPins, NEW client \in Client, NEW e, Redeem(client, e)
  PROVE  \A i \in Id : RouteKept(commands[i], commands'[i])
<1>0. PICK settled : settled = [i \in Id |-> AfterExpiry(commands[i])]
  OBVIOUS
<1>1. ASSUME NEW i \in Id
      PROVE  /\ settled[i] \in Command
             /\ settled[i].pinned = commands[i].pinned
             /\ settled[i].pinned => settled[i].target = commands[i].target
             /\ RouteKept(commands[i], settled[i])
  <2>1. PICK d : d = AfterExpiry(commands[i])
    OBVIOUS
  <2>2. commands[i] \in Command /\ settled[i] = d
    BY <1>0, <2>1 DEF IInv, TypeOK
  <2>3. /\ d \in Command /\ d.pinned = commands[i].pinned
        /\ commands[i].pinned => d.target = commands[i].target
    BY <2>1, <2>2, AfterExpiryFields
  <2> QED BY <2>2, <2>3 DEF RoutedPins, RouteKept
<1>2. CASE commands' = settled
  BY <1>1, <1>2
<1>3. ASSUME NEW i \in Offer(settled, client, e),
             commands' = [settled EXCEPT ![i] =
               [settled[i] EXCEPT !.state = "Leased", !.lease = issued + 1,
                  !.holder = client, !.target = client]]
      PROVE  \A j \in Id : RouteKept(commands[j], commands'[j])
  <2>1. PICK d : d = [settled[i] EXCEPT !.state = "Leased",
                        !.lease = issued + 1, !.holder = client,
                        !.target = client]
    OBVIOUS
  <2>2. /\ i \in Id
        /\ settled[i].target = client \/ settled[i].target = NoClient
    BY <1>3 DEF Offer, Offerable, InState
  <2>3. d.target = client /\ d.pinned = settled[i].pinned
    BY <1>1, <2>1, <2>2 DEF Command
  <2>4. client # NoClient
    BY ConstantsOK
  <2>5. RouteKept(commands[i], d)
    BY <1>1, <2>2, <2>3, <2>4 DEF RoutedPins, RouteKept
  <2>6. \A j \in Id : commands'[j] = IF j = i THEN d ELSE settled[j]
    BY <1>0, <1>3, <2>1
  <2> QED
    BY <1>1, <2>5, <2>6
<1> QED
  BY <1>0, <1>2, <1>3 DEF Redeem

LEMMA BrowserRoutes ==
  ASSUME IInv, RoutedPins, NEW i \in Id, NEW l \in LeaseId,
         NEW client \in Client,
         \/ LeaseExpires(i) \/ ActivateDispatch(i)
         \/ MarkSendStarted(i, l, client)
         \/ \E conv \in Conv : AckSucceeded(i, l, client, conv)
         \/ AckFailed(i, l, client)
         \/ AckNeedsReconcile(i, l, client)
         \/ AckPaused(i, l, client)
  PROVE  \A j \in Id : RouteKept(commands[j], commands'[j])
<1>0. PICK c : c = commands[i]
  OBVIOUS
<1>1. c \in Command
  BY <1>0 DEF IInv, TypeOK
<1>2. CASE LeaseExpires(i)
  <2>1. PICK d : d = [c EXCEPT !.expired = TRUE]
    OBVIOUS
  <2>2. d.pinned = c.pinned /\ d.target = c.target
    BY <1>1, <2>1 DEF Command
  <2>3. commands' = [commands EXCEPT ![i] = d]
    BY <1>0, <1>2, <2>1 DEF LeaseExpires, Become
  <2> QED BY <1>0, <2>2, <2>3, SameRoute, OneRoute
<1>3. CASE ActivateDispatch(i)
  <2>1. PICK d : d = [c EXCEPT !.ready = TRUE]
    OBVIOUS
  <2>2. d.pinned = c.pinned /\ d.target = c.target
    BY <1>1, <2>1 DEF Command
  <2>3. commands' = [commands EXCEPT ![i] = d]
    BY <1>0, <1>3, <2>1 DEF ActivateDispatch, Become
  <2> QED BY <1>0, <2>2, <2>3, SameRoute, OneRoute
<1>4. CASE MarkSendStarted(i, l, client)
  <2>1. PICK d : d = [c EXCEPT !.state = "SendStarted", !.history = TRUE]
    OBVIOUS
  <2>2. d.pinned = c.pinned /\ d.target = c.target
    BY <1>1, <2>1 DEF Command
  <2>3. commands' = [commands EXCEPT ![i] = d]
    BY <1>0, <1>4, <2>1 DEF MarkSendStarted
  <2> QED BY <1>0, <2>2, <2>3, SameRoute, OneRoute
<1>5. ASSUME NEW st, NEW hist \in BOOLEAN, NEW conv,
             Acknowledge(i, l, client, st, hist, conv)
      PROVE  \A j \in Id : RouteKept(commands[j], commands'[j])
  <2>1. PICK u, d : /\ u = Unleased(c)
                    /\ d = [u EXCEPT !.state = st, !.history = hist, !.conv = conv]
    OBVIOUS
  <2>2. d.pinned = c.pinned /\ d.target = c.target
    BY <1>1, <2>1, UnleasedRoute DEF Command
  <2>3. commands' = [commands EXCEPT ![i] = d]
    BY <1>0, <1>5, <2>1 DEF Acknowledge, Become
  <2> QED BY <1>0, <2>2, <2>3, SameRoute, OneRoute
<1>6. c.history \in BOOLEAN
  BY <1>1 DEF Command
<1> QED
  BY <1>0, <1>2, <1>3, <1>4, <1>5, <1>6
     DEF AckSucceeded, AckFailed, AckNeedsReconcile, AckPaused

\* Every operation keeps the routes.
LEMMA RoutesStay ==
  ASSUME IInv, RoutedPins, [Next]_vars
  PROVE  \A i \in Id : RouteHeld(i)
<1>0. (\A i \in Id : RouteKept(commands[i], commands'[i]))
        => \A i \in Id : RouteHeld(i)
  BY DEF RouteKept, RouteHeld
<1>1. CASE UNCHANGED vars
  BY <1>1 DEF vars, RoutedPins, RouteHeld
<1>2. CASE Host
  <2>1. ASSUME NEW k \in Key, CancelPreSend(k) \/ SettleForWorkerRetire(k)
        PROVE  \A i \in Id : RouteKept(commands[i], commands'[i])
    <3>1. RemoveCommands({dedupe[k]})
      BY <2>1 DEF CancelPreSend, SettleForWorkerRetire
    <3> QED BY <3>1, RemovalRoutes
  <2>2. ASSUME NEW i \in Id, ActivateDispatch(i)
        PROVE  \A j \in Id : RouteKept(commands[j], commands'[j])
    <3>1. PICK c, d : /\ c = commands[i] /\ d = [c EXCEPT !.ready = TRUE]
                      /\ commands' = [commands EXCEPT ![i] = d]
      BY <2>2 DEF ActivateDispatch, Become
    <3>2. d.pinned = c.pinned /\ d.target = c.target
      BY <3>1 DEF IInv, TypeOK, Command
    <3> QED BY <3>1, <3>2, SameRoute, OneRoute
  <2> QED
    BY <1>0, <1>2, <2>1, <2>2, EnqueueRoutes, ConfirmRoutes, FenceRoutes,
       RevokeRoutes DEF Host
<1>3. CASE Clear
  <2>1. PICK S : RemoveCommands(S)
    BY <1>3 DEF Clear, ClearAllWorkerCommands, ClearWorkerCommandsForAnchor,
                PurgeTerminalForAnchor, PurgeWorkspace
  <2> QED BY <1>0, <2>1, RemovalRoutes
<1>4. CASE Browser
  <2>1. ASSUME NEW i \in Id, LeaseExpires(i)
        PROVE  \A j \in Id : RouteKept(commands[j], commands'[j])
    <3>1. PICK c, d : /\ c = commands[i] /\ d = [c EXCEPT !.expired = TRUE]
                      /\ commands' = [commands EXCEPT ![i] = d]
      BY <2>1 DEF LeaseExpires, Become
    <3>2. d.pinned = c.pinned /\ d.target = c.target
      BY <3>1 DEF IInv, TypeOK, Command
    <3> QED BY <3>1, <3>2, SameRoute, OneRoute
  <2> QED
    BY <1>0, <1>4, <2>1, RedeemRoutes, BrowserRoutes DEF Browser
<1> QED
  BY <1>1, <1>2, <1>3, <1>4 DEF Next

\* However leases expire and browsers redeem, answer or are revoked, a pinned
\* launch stays pinned to its browser until that very browser is revoked, that
\* very launch is fenced, or the launch leaves the store.
THEOREM RoutesAreKept == Spec => PinnedRouteIsKept
<1>1. Init => RoutedPins
  <2>1. NoCommand.pinned = FALSE
    BY DEF NoCommand
  <2> QED BY <2>1 DEF Init, RoutedPins
<1>2. IInv /\ RoutedPins /\ [Next]_vars => RoutedPins'
  BY RoutesStay DEF RoutedPins, RouteHeld
<1>3. ASSUME IInv, RoutedPins, [Next]_vars
      PROVE  \A i \in Id :
               commands[i].pinned /\ commands'[i].state # "Absent" =>
                 \/ commands'[i].pinned /\ commands'[i].target = commands[i].target
                 \/ RevokesBrowser(commands[i].target)
                 \/ FencesLaunch(i)
  BY <1>3, RoutesStay DEF RouteHeld
<1>4. IInv /\ RoutedPins /\ [Next]_vars =>
        [\A i \in Id :
           commands[i].pinned /\ commands'[i].state # "Absent" =>
             \/ commands'[i].pinned /\ commands'[i].target = commands[i].target
             \/ RevokesBrowser(commands[i].target)
             \/ FencesLaunch(i)]_vars
  BY <1>3
<1> QED
  BY <1>1, <1>2, <1>4, Invariant, PTL DEF Spec, PinnedRouteIsKept

(***************************************************************************)
(* Compaction.                                                             *)
(***************************************************************************)

\* What compaction drops is settled, and MaxHistory settled ones are newer.
LEMMA DroppedIsOld ==
  ASSUME IInv, NEW i \in CompactedAway(commands)
  PROVE  /\ commands[i].state \in {"Succeeded", "Failed"}
         /\ Cardinality({j \in InState(commands, {"Succeeded", "Failed"}) :
                           j > i}) >= MaxHistory
<1> DEFINE settled == InState(commands, {"Succeeded", "Failed"})
           terminal == settled \ Newest(NewestSuccesses(commands), MaxAffinity)
           newer == {j \in terminal : j > i}
           all == {j \in settled : j > i}
<1>1. i \in terminal /\ ~(Cardinality(newer) < MaxHistory)
  BY DEF CompactedAway, Newest
<1>2. IsFiniteSet(Id)
  BY ConstantsOK, FS_Interval DEF Id
<1>3. all \subseteq Id /\ newer \subseteq all
  BY DEF InState
<1> HIDE DEF newer, all
<1>4. IsFiniteSet(all)
  BY <1>2, <1>3, FS_Subset
<1>5. /\ IsFiniteSet(newer) /\ Cardinality(newer) <= Cardinality(all)
      /\ Cardinality(newer) \in Nat /\ Cardinality(all) \in Nat
  BY <1>3, <1>4, FS_Subset, FS_CardinalityType
<1>6. Cardinality(all) >= MaxHistory
  BY <1>1, <1>5, ConstantsOK
<1> QED
  BY <1>1, <1>6 DEF all, InState

\* Only enqueueing hands out a sequence number.
LEMMA OnlyEnqueueCounts ==
  ASSUME IInv, [Next]_vars, nextSequence' # nextSequence
  PROVE  \E k \in Key, r \in Client \cup {NoClient} : EnqueueHeld(k, r)
BY DEF Next, vars, Host, Clear, Browser, ActivateDispatch, CancelPreSend,
       SettleForWorkerRetire, FenceUnclaimedAfterSend, ConfirmWorkerStarted,
       SettleRevokedClient, ClearAllWorkerCommands,
       ClearWorkerCommandsForAnchor, PurgeTerminalForAnchor, PurgeWorkspace,
       LeaseExpires, Redeem, MarkSendStarted, AckSucceeded, AckFailed,
       AckNeedsReconcile, AckPaused, Acknowledge, Become, RemoveCommands

\* A launch makes room at the expense of old settled commands only: an open
\* launch, and the newest MaxHistory settled ones, are never dropped for it.
THEOREM RoomCostsOldSettled == Spec => CompactionDropsOldSettled
<1>1. ASSUME IInv, [Next]_vars, nextSequence' # nextSequence,
             NEW i \in InStore(commands) \ InStore(commands')
      PROVE  /\ commands[i].state \in {"Succeeded", "Failed"}
             /\ Cardinality({j \in InState(commands, {"Succeeded", "Failed"}) :
                               j > i}) >= MaxHistory
  <2>1. PICK k \in Key, r \in Client \cup {NoClient} : EnqueueHeld(k, r)
    BY <1>1, OnlyEnqueueCounts
  <2>2. PICK dropped, t : /\ dropped = CompactedAway(commands)
                          /\ commands' = [Without(commands, dropped) EXCEPT
                                            ![nextSequence] = QueuedLaunch(k, t)]
    BY <2>1 DEF EnqueueHeld
  <2>3. /\ i \in Id /\ commands[i].state # "Absent"
        /\ commands'[i].state = "Absent"
    BY <1>1 DEF InStore
  <2>4. nextSequence \in Id /\ nextSequence >= nextSequence
    BY <1>1, <2>1, ConstantsOK DEF EnqueueHeld, HasRoom, IInv, TypeOK, Id
  <2>5. commands[nextSequence].state = "Absent"
    BY <1>1, <2>4 DEF IInv, UnusedBlank, NoCommand
  <2>6. i # nextSequence
    BY <2>3, <2>5
  <2>7. i \in dropped
    BY <2>2, <2>3, <2>6 DEF Without
  <2> QED BY <1>1, <2>2, <2>7, DroppedIsOld
<1>2. IInv /\ [Next]_vars =>
        [nextSequence' # nextSequence =>
           \A i \in InStore(commands) \ InStore(commands') :
             /\ commands[i].state \in {"Succeeded", "Failed"}
             /\ Cardinality({j \in InState(commands, {"Succeeded", "Failed"}) :
                               j > i}) >= MaxHistory]_vars
  BY <1>1
<1> QED
  BY <1>2, Invariant, PTL DEF Spec, CompactionDropsOldSettled
-----------------------------------------------------------------------------
(***************************************************************************)
(* What the launch transactions count on.  They read a command between     *)
(* their own commits, so what matters to them is what no step of a browser *)
(* and no removal does to it.                                              *)
(***************************************************************************)

\* Only an answer, or the worker's own start, gives a conversation.
Answered(c) ==
  /\ c.state = "Succeeded" => c.history
  /\ c.conv # NoConv <=> c.state = "Succeeded"

\* The command stays the launch it was, held or released, told or not told to
\* press Send, or it goes.
Calm(i) ==
  commands'[i].state # "Absent" =>
    /\ commands[i].state # "Absent"
    /\ commands'[i].key = commands[i].key
    /\ commands'[i].ready <=> commands[i].ready
    /\ commands'[i].history <=> commands[i].history
    /\ commands'[i].state \in {"Queued", "Leased"} /\ ~commands'[i].history =>
         commands[i].state \in {"Queued", "Leased"}
    /\ Answered(commands[i]) => Answered(commands'[i])

\* At most the commands of X are settled or removed.
Settles(X) ==
  /\ \A i \in Id : Calm(i)
  /\ \A i \in Id \ X : commands[i].state # "Absent" =>
       /\ commands'[i].state # "Absent"
       /\ commands'[i].state \in {"Succeeded", "Failed"} =>
            commands'[i].state = commands[i].state
  /\ \A k \in Key : \/ dedupe'[k] = dedupe[k]
                    \/ dedupe[k] \in X /\ dedupe'[k] = NoId
  /\ nextSequence' = nextSequence

LEMMA RemovalSettles ==
  ASSUME IInv, NEW S, RemoveCommands(S)
  PROVE  Settles(S) /\ \A i \in Id : i \in S => commands'[i].state = "Absent"
<1>1. \A i \in Id : commands'[i] = IF i \in S THEN NoCommand ELSE commands[i]
  BY DEF RemoveCommands, Without
<1>2. \A k \in Key : dedupe'[k] = IF dedupe[k] \in S THEN NoId ELSE dedupe[k]
  BY DEF RemoveCommands, Unindexed
<1>3. NoCommand.state = "Absent"
  BY DEF NoCommand
<1>4. nextSequence' = nextSequence
  BY DEF RemoveCommands
<1> QED
  BY <1>1, <1>2, <1>3, <1>4 DEF Settles, Calm

\* One command moves on, under the same key and history.
LEMMA OneSettles ==
  ASSUME IInv, NEW i \in Id, commands[i].state # "Absent", NEW d, NEW X,
         commands' = [commands EXCEPT ![i] = d],
         d.key = commands[i].key, d.ready <=> commands[i].ready,
         d.history <=> commands[i].history, d.state # "Absent",
         d.state \in {"Queued", "Leased"} /\ ~d.history =>
           commands[i].state \in {"Queued", "Leased"},
         Answered(commands[i]) => Answered(d),
         i \in X \/ (d.state \in {"Succeeded", "Failed"} => d.state = commands[i].state),
         UNCHANGED <<dedupe, nextSequence>>
  PROVE  Settles(X)
<1>1. commands'[i] = d /\ \A j \in Id : j # i => commands'[j] = commands[j]
  BY DEF IInv, TypeOK
<1>2. \A j \in Id : Calm(j)
  BY <1>1 DEF Calm
<1>3. ASSUME NEW j \in Id \ X, commands[j].state # "Absent"
      PROVE  /\ commands'[j].state # "Absent"
             /\ commands'[j].state \in {"Succeeded", "Failed"} =>
                  commands'[j].state = commands[j].state
  BY <1>1, <1>3
<1>4. (\A k \in Key : dedupe'[k] = dedupe[k]) /\ nextSequence' = nextSequence
  OBVIOUS
<1> QED
  BY <1>2, <1>3, <1>4 DEF Settles

LEMMA FenceSettles ==
  ASSUME IInv, NEW k \in Key, FenceUnclaimedAfterSend(k)
  PROVE  Settles({dedupe[k]}) /\ commands'[dedupe[k]].state = "Failed"
<1>0. PICK i, c : i = dedupe[k] /\ c = commands[i]
  OBVIOUS
<1>1. PICK r, d :
        /\ r = Unrouted(c)
        /\ d = [Unleased(r) EXCEPT !.state = "Failed", !.history = TRUE]
  OBVIOUS
<1>2. i \in Id /\ c \in Command /\ c.state # "Absent" /\ CommandOK(i)
  BY <1>0, Indexed DEF FenceUnclaimedAfterSend
<1>3. AmbiguousPostSend(c)
  BY <1>0 DEF FenceUnclaimedAfterSend
<1>4. r \in Command /\ r.key = c.key /\ r.ready = c.ready /\ r.conv = c.conv
  BY <1>1, <1>2, UnroutedFields, UpdateTypes
<1>5. /\ d.key = c.key /\ d.state = "Failed" /\ d.ready = c.ready
      /\ d.history = TRUE /\ d.conv = c.conv
  <2>1. d = [key |-> r.key, state |-> "Failed", ready |-> r.ready,
             history |-> TRUE, lease |-> NoLease, holder |-> NoClient,
             expired |-> FALSE, target |-> r.target, pinned |-> r.pinned,
             conv |-> r.conv]
    BY <1>1, <1>4, FallenBackFields
  <2> QED BY <1>4, <2>1
<1>6. c.history /\ c.state # "Succeeded"
  BY <1>0, <1>2, <1>3 DEF AmbiguousPostSend, CommandOK, StateOK
<1>7. commands' = [commands EXCEPT ![i] = d] /\ UNCHANGED <<dedupe, nextSequence>>
  BY <1>0, <1>1 DEF FenceUnclaimedAfterSend, Become
<1>8. Answered(c) => Answered(d)
  BY <1>5, <1>6 DEF Answered
<1>9. Settles({i})
  BY <1>0, <1>2, <1>5, <1>6, <1>7, <1>8, OneSettles
<1>10. commands'[i] = d
  BY <1>2, <1>7 DEF IInv, TypeOK
<1> QED
  BY <1>0, <1>5, <1>9, <1>10

LEMMA ConfirmSettles ==
  ASSUME IInv, NEW k \in Key, NEW conv \in Conv, ConfirmWorkerStarted(k, conv)
  PROVE  Settles({dedupe[k]})
<1>0. PICK i, c : i = dedupe[k] /\ c = commands[i]
  OBVIOUS
<1>1. PICK d : d = [Unleased(c) EXCEPT !.state = "Succeeded",
                      !.history = TRUE, !.conv = conv]
  OBVIOUS
<1>2. i \in Id /\ c \in Command /\ c.state # "Absent" /\ CommandOK(i)
  BY <1>0, Indexed DEF ConfirmWorkerStarted
<1>3. AmbiguousPostSend(c) \/ c.state = "Paused"
  BY <1>0 DEF ConfirmWorkerStarted
<1>4. /\ d.key = c.key /\ d.state = "Succeeded" /\ d.ready = c.ready
      /\ d.history = TRUE /\ d.conv = conv
  <2>1. d = [key |-> c.key, state |-> "Succeeded", ready |-> c.ready,
             history |-> TRUE, lease |-> NoLease, holder |-> NoClient,
             expired |-> FALSE, target |-> c.target, pinned |-> c.pinned,
             conv |-> conv]
    BY <1>1, <1>2, ResettledFields
  <2> QED BY <2>1
<1>5. c.history
  BY <1>0, <1>2, <1>3 DEF AmbiguousPostSend, CommandOK, StateOK
<1>6. commands' = [commands EXCEPT ![i] = d] /\ UNCHANGED <<dedupe, nextSequence>>
  BY <1>0, <1>1 DEF ConfirmWorkerStarted, Become
<1>7. conv # NoConv
  BY ConstantsOK
<1>8. Answered(d)
  BY <1>4, <1>7 DEF Answered
<1> QED
  BY <1>0, <1>2, <1>4, <1>5, <1>6, <1>8, OneSettles

LEMMA ExpirySettles ==
  ASSUME IInv, NEW i \in Id, LeaseExpires(i) PROVE Settles({})
<1>0. PICK c : c = commands[i]
  OBVIOUS
<1>1. PICK d : d = [c EXCEPT !.expired = TRUE]
  OBVIOUS
<1>2. c \in Command /\ CommandOK(i) /\ c.lease # NoLease
  BY <1>0 DEF IInv, TypeOK, LeaseExpires
<1>3. c.state # "Absent"
  BY <1>0, <1>2 DEF CommandOK, StateOK, NoCommand
<1>4. /\ d.key = c.key /\ d.state = c.state /\ d.ready = c.ready
      /\ d.history = c.history /\ d.conv = c.conv
  BY <1>1, <1>2 DEF Command
<1>5. commands' = [commands EXCEPT ![i] = d] /\ UNCHANGED <<dedupe, nextSequence>>
  BY <1>0, <1>1 DEF LeaseExpires, Become
<1>6. Answered(c) => Answered(d)
  BY <1>4 DEF Answered
<1> QED
  BY <1>0, <1>3, <1>4, <1>5, <1>6, OneSettles

\* An answer of the browser, to the command it holds the lease of.
LEMMA AcksSettle ==
  ASSUME IInv, NEW i \in Id, NEW l \in LeaseId, NEW client \in Client,
         \/ \E conv \in Conv : AckSucceeded(i, l, client, conv)
         \/ AckFailed(i, l, client)
         \/ AckNeedsReconcile(i, l, client)
         \/ AckPaused(i, l, client)
  PROVE  Settles({i}) /\ commands[i].state # "Absent" /\ commands'[i].state # "Absent"
<1>0. commands[i] \in Command /\ commands[i].history \in BOOLEAN /\ CommandOK(i)
  BY DEF IInv, TypeOK, Command
<1>1. AmbiguousPostSend(commands[i]) => commands[i].history
  BY <1>0 DEF AmbiguousPostSend, CommandOK, StateOK
<1>2. PICK st \in {"Succeeded", "Failed", "NeedsReconcile", "Paused"},
           hist \in BOOLEAN, conv \in Conv \cup {NoConv} :
        /\ Acknowledge(i, l, client, st, hist, conv)
        /\ hist <=> commands[i].history
        /\ st = "Succeeded" => hist /\ conv # NoConv
        /\ st # "Succeeded" => conv = NoConv
  <2>1. ASSUME NEW conv \in Conv, AckSucceeded(i, l, client, conv)
        PROVE  /\ Acknowledge(i, l, client, "Succeeded", commands[i].history, conv)
               /\ commands[i].history /\ conv # NoConv
    BY <1>1, <2>1, ConstantsOK DEF AckSucceeded
  <2>2. CASE AckFailed(i, l, client)
    BY <1>0, <2>2 DEF AckFailed
  <2>3. CASE AckNeedsReconcile(i, l, client)
    BY <1>1, <2>3 DEF AckNeedsReconcile
  <2>4. CASE AckPaused(i, l, client)
    BY <1>1, <2>4 DEF AckPaused
  <2> QED BY <1>0, <2>1, <2>2, <2>3, <2>4
<1>3. PICK d : d = [Unleased(commands[i]) EXCEPT !.state = st, !.history = hist,
                                                 !.conv = conv]
  OBVIOUS
<1>4. /\ d.key = commands[i].key /\ d.state = st /\ d.ready = commands[i].ready
      /\ d.history = hist /\ d.conv = conv
  <2>1. PICK c : c = commands[i]
    OBVIOUS
  <2>2. PICK u : u = Unleased(c)
    OBVIOUS
  <2>3. u \in Command /\ u.key = c.key /\ u.ready = c.ready
    BY <1>0, <2>1, <2>2, UnleasedFields, UpdateTypes
  <2>4. d = [u EXCEPT !.state = st, !.history = hist, !.conv = conv]
    BY <1>3, <2>1, <2>2
  <2> QED BY <2>1, <2>3, <2>4 DEF Command
<1>5. /\ commands' = [commands EXCEPT ![i] = d] /\ UNCHANGED <<dedupe, nextSequence>>
      /\ commands[i].state # "Absent"
  BY <1>2, <1>3 DEF Acknowledge, Become
<1>6. Answered(d)
  BY <1>2, <1>4 DEF Answered
<1>7. Settles({i})
  BY <1>2, <1>4, <1>5, <1>6, OneSettles
<1>8. commands'[i] = d
  BY <1>5 DEF IInv, TypeOK
<1> QED
  BY <1>2, <1>4, <1>5, <1>7, <1>8

\* Every command changes on its own.
LEMMA EachSettles ==
  ASSUME IInv, NEW X, UNCHANGED <<dedupe, nextSequence>>,
         \A i \in Id :
           /\ commands[i].state = "Absent" => commands'[i] = commands[i]
           /\ commands[i].state # "Absent" =>
                /\ commands'[i].key = commands[i].key
                /\ commands'[i].ready <=> commands[i].ready
                /\ commands'[i].history <=> commands[i].history
                /\ commands'[i].conv = commands[i].conv
                /\ \/ commands'[i].state = commands[i].state
                   \/ /\ commands[i].state \in {"Queued", "Leased"}
                      /\ commands'[i].state \in {"Queued", "Leased"}
                   \/ /\ commands'[i].history /\ commands[i].state # "Succeeded"
                      /\ commands'[i].state \in {"Leased", "Paused", "NeedsReconcile"}
  PROVE  Settles(X)
<1>1. ASSUME NEW i \in Id PROVE Calm(i)
  BY DEF Calm, Answered
<1> QED
  BY <1>1 DEF Settles

LEMMA RevokeSettles ==
  ASSUME IInv, NEW client \in Client, SettleRevokedClient(client) PROVE Settles({})
<1>1. UNCHANGED <<dedupe, nextSequence>>
  BY DEF SettleRevokedClient
<1>2. ASSUME NEW i \in Id
      PROVE  /\ commands[i].state = "Absent" => commands'[i] = commands[i]
             /\ commands[i].state # "Absent" =>
                  /\ commands'[i].key = commands[i].key
                  /\ commands'[i].ready <=> commands[i].ready
                  /\ commands'[i].history <=> commands[i].history
                  /\ commands'[i].conv = commands[i].conv
                  /\ \/ commands'[i].state = commands[i].state
                     \/ /\ commands[i].state \in {"Queued", "Leased"}
                        /\ commands'[i].state \in {"Queued", "Leased"}
                     \/ /\ commands'[i].history /\ commands[i].state # "Succeeded"
                        /\ commands'[i].state \in {"Leased", "Paused", "NeedsReconcile"}
  <2>0. PICK c, d : c = commands[i] /\ d = commands'[i]
    OBVIOUS
  <2>1. /\ c \in Command /\ CommandOK(i)
        /\ d = IF c.target = client THEN AfterRevoke(c) ELSE c
    BY <2>0 DEF IInv, TypeOK, SettleRevokedClient
  <2>2. CASE c.target # client
    BY <2>0, <2>1, <2>2
  <2>3. CASE c.target = client
    <3>1. c.state # "Absent"
      BY <2>0, <2>1, <2>3, ConstantsOK DEF CommandOK, NoCommand
    <3>2. AmbiguousPostSend(c) => c.history /\ c.state # "Succeeded"
      BY <2>0, <2>1, <3>1 DEF AmbiguousPostSend, CommandOK, StateOK
    <3>3. d = AfterRevoke(c)
      BY <2>1, <2>3
    <3>4. /\ d.key = c.key /\ d.ready = c.ready /\ d.conv = c.conv
          /\ \/ c.state = "Leased" /\ d.state = "Queued" /\ d.history = c.history
             \/ AmbiguousPostSend(c) /\ d.state = "Paused" /\ d.history
             \/ d.state = c.state /\ d.history = c.history
      BY <2>1, <3>3, AfterRevokeFields
    <3> QED BY <2>0, <3>1, <3>2, <3>4
  <2> QED BY <2>2, <2>3
<1> QED
  BY <1>1, <1>2, EachSettles

\* An offer only leases; what it settles is what had expired.
LEMMA RedeemSettles ==
  ASSUME IInv, NEW client \in Client, NEW e, Redeem(client, e) PROVE Settles({})
<1>0. PICK settled : settled = [i \in Id |-> AfterExpiry(commands[i])]
  OBVIOUS
<1>1. UNCHANGED <<dedupe, nextSequence>>
  BY DEF Redeem
<1>2. ASSUME NEW i \in Id
      PROVE  /\ settled[i] \in Command
             /\ commands[i].state = "Absent" => settled[i] = commands[i]
             /\ commands[i].state # "Absent" =>
                  /\ settled[i].key = commands[i].key
                  /\ settled[i].ready <=> commands[i].ready
                  /\ settled[i].history <=> commands[i].history
                  /\ settled[i].conv = commands[i].conv
                  /\ settled[i].state # "Absent"
                  /\ settled[i].state = "NeedsReconcile" => settled[i].history
                  /\ \/ settled[i].state = commands[i].state
                     \/ commands[i].state = "Leased" /\ settled[i].state = "Queued"
                     \/ /\ settled[i].history /\ commands[i].state # "Succeeded"
                        /\ settled[i].state = "NeedsReconcile"
  <2>0. PICK c, d : c = commands[i] /\ d = settled[i]
    OBVIOUS
  <2>1. c \in Command /\ CommandOK(i) /\ d = AfterExpiry(c)
    BY <1>0, <2>0 DEF IInv, TypeOK
  <2>2. d \in Command /\ (c.state = "Absent" => d = c)
    BY <2>0, <2>1, AfterExpiryOK
  <2>3. ASSUME c.state # "Absent"
        PROVE  /\ d.key = c.key /\ (d.ready <=> c.ready)
               /\ (d.history <=> c.history)
               /\ d.conv = c.conv /\ d.state # "Absent"
               /\ d.state = "NeedsReconcile" => d.history
               /\ \/ d.state = c.state
                  \/ c.state = "Leased" /\ d.state = "Queued"
                  \/ d.history /\ c.state # "Succeeded" /\ d.state = "NeedsReconcile"
    <3>1. StateOK(c, grants[i], issued)
      BY <2>0, <2>1, <2>3 DEF CommandOK
    <3>2. c.expired => c.state \in {"Leased", "SendStarted"}
      BY <3>1 DEF StateOK
    <3>3. c.state \in {"SendStarted", "NeedsReconcile"} => c.history
      BY <3>1 DEF StateOK
    <3>4. /\ d.key = c.key /\ d.ready = c.ready /\ d.conv = c.conv
          /\ \/ ~c.expired /\ d = c
             \/ /\ c.expired /\ c.state = "Leased" /\ ~c.history
                /\ d.state = "Queued" /\ d.history = c.history
             \/ /\ c.expired /\ ~(c.state = "Leased" /\ ~c.history)
                /\ d.state = "NeedsReconcile" /\ d.history
      BY <2>1, AfterExpiryFields
    <3> QED BY <2>3, <3>2, <3>3, <3>4
  <2> QED BY <2>0, <2>2, <2>3
<1>3. CASE commands' = settled
  BY <1>1, <1>2, <1>3, EachSettles
<1>4. ASSUME NEW i \in Id, i \in Offer(settled, client, e),
             commands' = [settled EXCEPT ![i] =
               [settled[i] EXCEPT !.state = "Leased", !.lease = issued + 1,
                  !.holder = client, !.target = client]]
      PROVE  Settles({})
  <2>0. PICK c : c = settled[i]
    OBVIOUS
  <2>1. PICK d : d = [c EXCEPT !.state = "Leased", !.lease = issued + 1,
                        !.holder = client, !.target = client]
    OBVIOUS
  <2>2. c \in Command /\ c.state \in {"NeedsReconcile", "Queued"}
    BY <1>2, <1>4, <2>0 DEF Offer, Offerable, InState
  <2>3. /\ d.key = c.key /\ d.state = "Leased" /\ d.ready = c.ready
        /\ d.history = c.history /\ d.conv = c.conv
    BY <2>1, <2>2 DEF Command
  <2>4. settled \in [Id -> Command]
    BY <1>0, <1>2
  <2>5. commands'[i] = d /\ \A j \in Id : j # i => commands'[j] = settled[j]
    BY <1>4, <2>0, <2>1, <2>4
  <2>6. commands[i].state # "Absent"
    BY <1>2, <2>0, <2>2
  <2>7. /\ d.key = commands[i].key /\ (d.ready <=> commands[i].ready)
        /\ (d.history <=> commands[i].history) /\ d.conv = commands[i].conv
        /\ \/ commands[i].state \in {"Queued", "Leased"}
           \/ d.history /\ commands[i].state # "Succeeded"
    BY <1>2, <2>0, <2>2, <2>3, <2>6
  <2>8. ASSUME NEW j \in Id
        PROVE  /\ commands[j].state = "Absent" => commands'[j] = commands[j]
               /\ commands[j].state # "Absent" =>
                    /\ commands'[j].key = commands[j].key
                    /\ commands'[j].ready <=> commands[j].ready
                    /\ commands'[j].history <=> commands[j].history
                    /\ commands'[j].conv = commands[j].conv
                    /\ \/ commands'[j].state = commands[j].state
                       \/ /\ commands[j].state \in {"Queued", "Leased"}
                          /\ commands'[j].state \in {"Queued", "Leased"}
                       \/ /\ commands'[j].history /\ commands[j].state # "Succeeded"
                          /\ commands'[j].state \in {"Leased", "Paused", "NeedsReconcile"}
    <3>1. CASE j = i
      BY <2>3, <2>5, <2>6, <2>7, <3>1
    <3>2. CASE j # i
      BY <1>2, <2>5, <3>2
    <3> QED BY <3>1, <3>2
  <2> QED BY <1>1, <2>8, EachSettles
<1>5. ASSUME NEW S PROVE Offer(settled, client, S) \subseteq Id
  BY DEF Offer, Offerable, InState
<1> QED
  BY <1>0, <1>3, <1>4, <1>5 DEF Redeem

\* What was just leased is a stored command.
LEMMA LeasedIsStored ==
  ASSUME IInv, IInv', NEW client, NEW e, Redeem(client, e), issued' # issued,
         NEW i \in Id, commands'[i].lease = issued'
  PROVE  commands'[i].state # "Absent"
<1>1. issued' = issued + 1 /\ issued \in Nat
  <2>1. issued \in Nat
    BY DEF IInv, TypeOK
  <2> QED BY <2>1 DEF Redeem
<1>2. commands'[i].lease # NoLease
  BY <1>1 DEF NoLease
<1>3. CommandOK(i)'
  BY DEF IInv
<1> QED
  BY <1>2, <1>3 DEF CommandOK, NoCommand

LEMMA ActivateReleases ==
  ASSUME IInv, NEW i \in Id, ActivateDispatch(i)
  PROVE  /\ commands[i].state = "Queued" /\ ~commands[i].ready
         /\ ~commands[i].history
         /\ commands'[i].state = "Queued" /\ commands'[i].ready
         /\ commands'[i].key = commands[i].key
         /\ ~commands'[i].history
         /\ commands'[i].conv = commands[i].conv
         /\ \A j \in Id : j # i => commands'[j] = commands[j]
         /\ UNCHANGED <<dedupe, nextSequence>>
<1>1. commands \in [Id -> Command] /\ CommandOK(i)
  BY DEF IInv, TypeOK
<1>2. commands[i].state = "Queued" /\ ~commands[i].ready
  BY DEF ActivateDispatch
<1>3. ~commands[i].history
  BY <1>1, <1>2 DEF CommandOK, StateOK
<1>4. PICK d : d = [commands[i] EXCEPT !.ready = TRUE]
  OBVIOUS
<1>5. /\ d.state = "Queued" /\ d.ready /\ d.key = commands[i].key
      /\ ~d.history /\ d.conv = commands[i].conv
  BY <1>1, <1>2, <1>3, <1>4 DEF Command
<1>6. commands' = [commands EXCEPT ![i] = d] /\ UNCHANGED <<dedupe, nextSequence>>
  BY <1>4 DEF ActivateDispatch, Become
<1>7. commands'[i] = d /\ \A j \in Id : j # i => commands'[j] = commands[j]
  BY <1>1, <1>6
<1> QED
  BY <1>2, <1>3, <1>5, <1>6, <1>7

LEMMA MarkTells ==
  ASSUME IInv, NEW i \in Id, NEW l \in LeaseId, NEW client \in Client,
         MarkSendStarted(i, l, client)
  PROVE  /\ commands[i].state = "Leased" /\ commands[i].ready
         /\ ~commands[i].history
         /\ commands'[i].state = "SendStarted" /\ commands'[i].ready
         /\ commands'[i].history
         /\ commands'[i].key = commands[i].key
         /\ commands'[i].conv = commands[i].conv
         /\ \A j \in Id : j # i => commands'[j] = commands[j]
         /\ UNCHANGED <<dedupe, nextSequence>>
<1>1. commands \in [Id -> Command] /\ CommandOK(i)
  BY DEF IInv, TypeOK
<1>2. commands[i].state = "Leased" /\ ~commands[i].history
  BY DEF MarkSendStarted
<1>3. commands[i].ready
  BY <1>1, <1>2 DEF CommandOK, StateOK
<1>4. PICK d : d = [commands[i] EXCEPT !.state = "SendStarted", !.history = TRUE]
  OBVIOUS
<1>5. /\ d.state = "SendStarted" /\ d.ready /\ d.key = commands[i].key
      /\ d.history /\ d.conv = commands[i].conv
  BY <1>1, <1>3, <1>4 DEF Command
<1>6. commands' = [commands EXCEPT ![i] = d] /\ UNCHANGED <<dedupe, nextSequence>>
  BY <1>4 DEF MarkSendStarted
<1>7. commands'[i] = d /\ \A j \in Id : j # i => commands'[j] = commands[j]
  BY <1>1, <1>6
<1> QED
  BY <1>2, <1>3, <1>5, <1>6, <1>7

\* A new launch is held; only settled commands make room for it.
LEMMA EnqueueHolds ==
  ASSUME IInv, NEW k \in Key, NEW r \in Client \cup {NoClient}, EnqueueHeld(k, r)
  PROVE  LET n == nextSequence IN
         /\ n \in Id /\ nextSequence' = n + 1
         /\ dedupe[k] = NoId /\ dedupe'[k] = n
         /\ commands[n].state = "Absent"
         /\ commands'[n].state = "Queued" /\ commands'[n].key = k
         /\ ~commands'[n].ready /\ ~commands'[n].history
         /\ commands'[n].conv = NoConv
         /\ \A i \in Id : i # n =>
              \/ commands'[i] = commands[i]
              \/ /\ commands'[i].state = "Absent"
                 /\ commands[i].state \in {"Succeeded", "Failed"}
         /\ \A x \in Key : x # k =>
              \/ dedupe'[x] = dedupe[x]
              \/ /\ dedupe'[x] = NoId /\ dedupe[x] # NoId
                 /\ commands[dedupe[x]].state \in {"Succeeded", "Failed"}
<1> DEFINE n == nextSequence
<1>0. PICK dropped, kept : /\ dropped = CompactedAway(commands)
                          /\ kept = Without(commands, dropped)
  OBVIOUS
<1>1. kept \in [Id -> Command] /\ Unindexed(dedupe, dropped) \in [Key -> Id \cup {NoId}]
  BY <1>0, WithoutType DEF IInv
<1>2. n \in Id
  BY ConstantsOK DEF EnqueueHeld, HasRoom, IInv, TypeOK, Id
<1>3. PICK t : commands' = [kept EXCEPT ![n] = QueuedLaunch(k, t)]
  BY <1>0 DEF EnqueueHeld, HasRoom
<1>4. /\ dedupe' = [Unindexed(dedupe, dropped) EXCEPT ![k] = n]
      /\ nextSequence' = n + 1 /\ dedupe[k] = NoId
  BY <1>0 DEF EnqueueHeld, HasRoom
<1>5. PICK d : d = QueuedLaunch(k, t)
  OBVIOUS
<1>6. /\ d.state = "Queued" /\ d.key = k /\ ~d.ready /\ ~d.history
      /\ d.conv = NoConv
  BY <1>5 DEF QueuedLaunch, NoCommand
<1>7. dropped \subseteq Id /\ \A i \in dropped : commands[i].state \in {"Succeeded", "Failed"}
  BY <1>0 DEF CompactedAway, InState
<1>8. commands'[n] = d /\ \A i \in Id : i # n => commands'[i] = kept[i]
  BY <1>1, <1>2, <1>3, <1>5
<1>9. \A i \in Id : kept[i] = IF i \in dropped THEN NoCommand ELSE commands[i]
  BY <1>0 DEF Without
<1>10. \A x \in Key : Unindexed(dedupe, dropped)[x] =
                        IF dedupe[x] \in dropped THEN NoId ELSE dedupe[x]
  BY DEF Unindexed
<1>11. dedupe'[k] = n /\ \A x \in Key : x # k =>
         dedupe'[x] = IF dedupe[x] \in dropped THEN NoId ELSE dedupe[x]
  BY <1>1, <1>4, <1>10
<1>12. commands[n].state = "Absent"
  <2>1. n >= n
    BY <1>2 DEF Id
  <2> QED BY <1>2, <2>1 DEF IInv, UnusedBlank, NoCommand
<1>13. NoCommand.state = "Absent"
  BY DEF NoCommand
<1>14. NoId \notin Id
  BY DEF NoId, Id
<1> QED
  BY <1>2, <1>4, <1>6, <1>7, <1>8, <1>9, <1>11, <1>12, <1>13, <1>14
=============================================================================
