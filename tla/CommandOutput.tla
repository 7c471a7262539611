----------------------------- MODULE CommandOutput -----------------------------
(***************************************************************************)
(* The output of one background command, src/src/command_jobs.rs: two      *)
(* reader tasks archive what they read within one budget and record it as  *)
(* numbered events in a bounded buffer; callers wait on a Notify and page  *)
(* through the events with a cursor; finish ends the job once both readers *)
(* are done.  The tasks run in parallel: a load, a compare-and-exchange, a *)
(* locked section and a notification are each one step.                    *)
(*                                                                         *)
(* Sizes are small numbers of bytes; text and its decoding are left out,   *)
(* and so are the notices that the host itself appends to stderr, at most  *)
(* one per job beside the readers (lines 1482 and 1500).                   *)
(***************************************************************************)
EXTENDS Naturals, Sequences, FiniteSets

CONSTANTS
    Chunks,         \* the sizes a read can have
    MaxArchive,     \* MAX_COMMAND_ARCHIVE_BYTES
    MaxBuffer,      \* MAX_OUTPUT_BYTES_PER_JOB
    MaxPage,        \* MAX_POLL_OUTPUT_BYTES
    MaxEvents       \* bound: events of the command

ASSUME OutputAssumption ==
    /\ Chunks \subseteq Nat \ {0}
    /\ MaxArchive \in Nat /\ MaxBuffer \in Nat /\ MaxPage \in Nat /\ MaxEvents \in Nat
    /\ \A n \in Chunks : n <= MaxBuffer     \* READ_CHUNK_BYTES

Streams == {"stdout", "stderr"}     \* each with its reader

VARIABLES
    reader,         \* each reader task: what it is about to do, with the size
                    \* it read and the archive usage it loaded
    produced,       \* the bytes each reader took from its pipe
    archived,       \* the bytes in each archive file
    archiveBytes,   \* the budget in use
    archiveTruncated,
    archiveError,
    events,         \* the retained events, [seq, size]
    nextSeq,
    finished,          \* finish ran: "no", "silent" until it notifies, "yes"
    waiter,         \* poll_for_workspace and cancel_for_workspace of one
                    \* caller each: "idle", "enabled" (the Notified future is
                    \* registered), "deciding" (it looked), "waiting",
                    \* "answered"
    notified,          \* its future was notified since it was enabled
    after,          \* the cursor the polling caller has
    received,       \* what its answers contained
    excused         \* what they declared truncated

outputVars == <<reader, produced, archived, archiveBytes, archiveTruncated, archiveError,
                events, nextSeq, finished, waiter, notified, after, received, excused>>
waiterVars  == <<waiter, notified, after, received, excused>>
archiveVars == <<archived, archiveBytes, archiveTruncated, archiveError>>

Waiters == {"poll", "cancel"}

OutputInit ==
    /\ reader = [s \in Streams |-> [at |-> "read", size |-> 0, used |-> 0]]
    /\ produced = [s \in Streams |-> 0]
    /\ archived = [s \in Streams |-> 0]
    /\ archiveBytes = 0
    /\ archiveTruncated = FALSE
    /\ archiveError = FALSE
    /\ events = <<>>
    /\ nextSeq = 1
    /\ finished = "no"
    /\ waiter = [v \in Waiters |-> "idle"]
    /\ notified = [v \in Waiters |-> FALSE]
    /\ after = 0
    /\ received = {}
    /\ excused = {}

(***************************************************************************)
(* read_job_output and append_output.                                      *)
(***************************************************************************)
ReaderAt(s, at) == reader[s].at = at
Moves(s, r) == reader' = [reader EXCEPT ![s] = r]

Unrecorded == Cardinality({s \in Streams : reader[s].at \notin {"read", "eof", "notify"}})

Read(s, n) ==
    /\ ReaderAt(s, "read")
    /\ nextSeq + Unrecorded <= MaxEvents
    /\ Moves(s, [at |-> "load", size |-> n, used |-> 0])
    /\ produced' = [produced EXCEPT ![s] = @ + n]
    /\ UNCHANGED <<archiveVars, events, nextSeq, finished, waiterVars>>

EndOfStream(s) ==
    /\ ReaderAt(s, "read")
    /\ Moves(s, [at |-> "eof", size |-> 0, used |-> 0])
    /\ UNCHANGED <<produced, archiveVars, events, nextSeq, finished, waiterVars>>

\* reserve_archive_bytes: the load, and the refusal when the budget is used up.
LoadUsage(s) ==
    /\ ReaderAt(s, "load")
    /\ IF archiveBytes >= MaxArchive
       THEN /\ archiveTruncated' = TRUE
            /\ Moves(s, [reader[s] EXCEPT !.at = "record"])
       ELSE /\ UNCHANGED archiveTruncated
            /\ Moves(s, [reader[s] EXCEPT !.at = "exchange", !.used = archiveBytes])
    /\ UNCHANGED <<produced, archived, archiveBytes, archiveError, events, nextSeq, finished, waiterVars>>

Allowed(s) ==
    LET remaining == MaxArchive - reader[s].used
    IN  IF remaining < reader[s].size THEN remaining ELSE reader[s].size

\* Slip: the usage is stored without comparing.
StoresBlindly(s) == TRUE

\* The compare-and-exchange: it fails when another reader reserved meanwhile.
Exchanged(s) == archiveBytes = reader[s].used

Reserve(s) ==
    /\ ReaderAt(s, "exchange")
    /\ IF Exchanged(s)
       THEN /\ archiveBytes' = reader[s].used + Allowed(s)
            /\ archiveTruncated' = (archiveTruncated \/ Allowed(s) < reader[s].size)
            /\ Moves(s, [reader[s] EXCEPT !.at = "write", !.used = Allowed(s)])
       ELSE /\ Moves(s, [reader[s] EXCEPT !.at = "load", !.used = 0])
            /\ UNCHANGED <<archiveBytes, archiveTruncated>>
    /\ UNCHANGED <<produced, archived, archiveError, events, nextSeq, finished, waiterVars>>

\* write_all of the allowed bytes; a failure may have written some of them.
WriteArchive(s) ==
    /\ ReaderAt(s, "write")
    /\ Moves(s, [reader[s] EXCEPT !.at = "record", !.used = 0])
    /\ \E n \in 0 .. reader[s].used :
          /\ archived' = [archived EXCEPT ![s] = @ + n]
          /\ archiveError' = (archiveError \/ n < reader[s].used)
    /\ UNCHANGED <<produced, archiveBytes, archiveTruncated, events, nextSeq, finished, waiterVars>>

Bytes(es) == LET sum[i \in 0 .. Len(es)] == IF i = 0 THEN 0 ELSE sum[i - 1] + es[i].size
             IN  sum[Len(es)]

\* The oldest events are dropped until the rest fits the buffer.
Trimmed(es) ==
    LET drop == CHOOSE d \in 0 .. Len(es) :
                    /\ Bytes(SubSeq(es, d + 1, Len(es))) <= MaxBuffer
                    /\ d > 0 => ~(Bytes(SubSeq(es, d, Len(es))) <= MaxBuffer)
    IN  SubSeq(es, drop + 1, Len(es))

RecordEvent(s) ==
    /\ ReaderAt(s, "record")
    /\ events' = Trimmed(Append(events, [seq |-> nextSeq, size |-> reader[s].size]))
    /\ nextSeq' = nextSeq + 1
    /\ Moves(s, [at |-> "notify", size |-> 0, used |-> 0])
    /\ UNCHANGED <<produced, archiveVars, finished, waiterVars>>

\* Slip: only a caller that already sleeps is notified.
NotifySleepers ==
    /\ notified' = [v \in Waiters |-> notified[v] \/ waiter[v] = "waiting"]
    /\ UNCHANGED <<waiter, after, received, excused>>

\* notify_waiters reaches the futures enabled so far, and no later one.
NotifyWaiters ==
    /\ notified' = [v \in Waiters |-> notified[v] \/ waiter[v] \in {"enabled", "deciding", "waiting"}]
    /\ UNCHANGED <<waiter, after, received, excused>>

NotifyEvent(s) ==
    /\ ReaderAt(s, "notify")
    /\ Moves(s, [at |-> "read", size |-> 0, used |-> 0])
    /\ NotifyWaiters
    /\ UNCHANGED <<produced, archiveVars, events, nextSeq, finished>>

(***************************************************************************)
(* run_job joins the readers and calls finish.  A failing flush loses      *)
(* buffered bytes of an archive and is reported.                           *)
(***************************************************************************)
ReadersJoined == \A s \in Streams : ReaderAt(s, "eof")

FinishJob ==
    /\ finished = "no"
    /\ ReadersJoined
    /\ finished' = "silent"
    /\ \/ UNCHANGED <<archived, archiveError>>
       \/ \E s \in Streams, n \in 0 .. MaxArchive :
             /\ n < archived[s]
             /\ archived' = [archived EXCEPT ![s] = n]
             /\ archiveError' = TRUE
    /\ UNCHANGED <<reader, produced, archiveBytes, archiveTruncated, events, nextSeq, waiterVars>>

NotifyEnd ==
    /\ finished = "silent"
    /\ finished' = "yes"
    /\ NotifyWaiters
    /\ UNCHANGED <<reader, produced, archiveVars, events, nextSeq>>

(***************************************************************************)
(* snapshot(after): a page of the events past the cursor, at least one of  *)
(* them, the cursor to go on from, and whether events before the page are  *)
(* gone.                                                                   *)
(***************************************************************************)
FirstRetained == IF events = <<>> THEN nextSeq ELSE events[1].seq
Latest == nextSeq - 1
FellBehind == after + 1 < FirstRetained
Past ==
    LET seen == CHOOSE n \in 0 .. Len(events) :
                    /\ \A i \in 1 .. n : events[i].seq <= after
                    /\ \A i \in n + 1 .. Len(events) : events[i].seq > after
    IN  SubSeq(events, seen + 1, Len(events))
Page ==
    IF Past = <<>> THEN <<>>
    ELSE LET fits == {n \in 1 .. Len(Past) : n = 1 \/ Bytes(SubSeq(Past, 1, n)) <= MaxPage}
         IN  SubSeq(Past, 1, CHOOSE n \in fits : \A m \in fits : m <= n)
\* Slip: the cursor goes to the end although the page was cut.
LatestCursor == Latest

NextCursor == IF Page = <<>> THEN Latest ELSE Page[Len(Page)].seq
Seqs(es) == {es[i].seq : i \in 1 .. Len(es)}

\* The answer reaches the caller, which polls on from its cursor.
AnswerPoll ==
    /\ received' = received \cup Seqs(Page)
    /\ excused' = IF FellBehind THEN excused \cup (after + 1 .. FirstRetained - 1) ELSE excused
    /\ after' = NextCursor

\* poll_for_workspace and each round of cancel_for_workspace first enable
\* the future and only then look at the job.  A caller that saw the end and
\* the last page asks no more.
SawEverything == finished # "no" /\ after = Latest /\ waiter["poll"] = "answered"

EnableWait(v) ==
    /\ waiter[v] \in {"idle", "answered"}
    /\ v = "poll" => ~SawEverything
    /\ v = "cancel" => waiter[v] = "idle"
    /\ waiter' = [waiter EXCEPT ![v] = "enabled"]
    /\ notified' = [notified EXCEPT ![v] = FALSE]
    /\ UNCHANGED <<reader, produced, archiveVars, events, nextSeq, finished, after, received, excused>>

PollLooks ==
    /\ waiter["poll"] = "enabled"
    /\ \/ /\ finished # "no" \/ Page # <<>>
          /\ AnswerPoll
          /\ waiter' = [waiter EXCEPT !["poll"] = "answered"]
       \/ /\ finished = "no" /\ Page = <<>>
          /\ waiter' = [waiter EXCEPT !["poll"] = "deciding"]
          /\ UNCHANGED <<after, received, excused>>
    /\ UNCHANGED <<reader, produced, archiveVars, events, nextSeq, finished, notified>>

\* It found nothing and awaits the future it enabled.
Sleep(v) ==
    /\ waiter[v] = "deciding"
    /\ waiter' = [waiter EXCEPT ![v] = "waiting"]
    /\ UNCHANGED <<reader, produced, archiveVars, events, nextSeq, finished, notified, after, received, excused>>

\* Woken, or wait_ms is over.
PollReturns ==
    /\ waiter["poll"] = "waiting"
    /\ AnswerPoll
    /\ waiter' = [waiter EXCEPT !["poll"] = "answered"]
    /\ UNCHANGED <<reader, produced, archiveVars, events, nextSeq, finished, notified>>

CancelLooks ==
    /\ waiter["cancel"] = "enabled"
    /\ waiter' = [waiter EXCEPT !["cancel"] = IF finished # "no" THEN "answered" ELSE "deciding"]
    /\ UNCHANGED <<reader, produced, archiveVars, events, nextSeq, finished, notified, after, received, excused>>

\* Output wakes the cancel too: it enables a new future and looks again.
CancelLoops ==
    /\ waiter["cancel"] = "waiting" /\ notified["cancel"]
    /\ waiter' = [waiter EXCEPT !["cancel"] = "enabled"]
    /\ notified' = [notified EXCEPT !["cancel"] = FALSE]
    /\ UNCHANGED <<reader, produced, archiveVars, events, nextSeq, finished, after, received, excused>>

CancelDeadline ==
    /\ waiter["cancel"] = "waiting"
    /\ waiter' = [waiter EXCEPT !["cancel"] = "answered"]
    /\ UNCHANGED <<reader, produced, archiveVars, events, nextSeq, finished, notified, after, received, excused>>

OutputNext ==
    \/ \E s \in Streams :
           \/ \E n \in Chunks : Read(s, n)
           \/ EndOfStream(s)
           \/ LoadUsage(s)
           \/ Reserve(s)
           \/ WriteArchive(s)
           \/ RecordEvent(s)
           \/ NotifyEvent(s)
    \/ FinishJob
    \/ NotifyEnd
    \/ \E v \in Waiters : EnableWait(v) \/ Sleep(v)
    \/ PollLooks
    \/ PollReturns
    \/ CancelLooks
    \/ CancelLoops
    \/ CancelDeadline

OutputSpec == OutputInit /\ [][OutputNext]_outputVars

(***************************************************************************)
(* Properties.                                                             *)
(***************************************************************************)

\* The readers share the archive's budget: together they never write more
\* than it, and an archive with nothing declared missing is complete once
\* the job ended.
ArchiveIsExact ==
    /\ archived["stdout"] + archived["stderr"] <= MaxArchive
    /\ finished # "no" /\ ~archiveTruncated /\ ~archiveError => archived = produced

\* A caller that follows the cursor gets every event, or is told that it
\* fell behind; having seen the end and no further page, it has seen all.
PollMissesNothing ==
    /\ received \cup excused = 1 .. after
    /\ SawEverything => received \cup excused = 1 .. Latest

\* What a command printed reaches its archive or is declared missing, and
\* reaches the caller that polls or is declared missed.
OutputIsComplete == ArchiveIsExact /\ PollMissesNothing

\* A caller never sleeps through a change: if there is something it waits
\* for, its future was notified or a notification is on its way.
PollerIsWoken ==
    \A v \in Waiters :
        waiter[v] = "waiting" /\ ~notified[v]
            => /\ v = "poll" /\ Latest > after => \E s \in Streams : ReaderAt(s, "notify")
               /\ finished # "yes"
=============================================================================
