------------------------------- MODULE Trace -------------------------------
(***************************************************************************)
(* Trace capture (tracing/local.py, recorder.py) and its inspection        *)
(* (inspect.py). The agent's thread hands records and artifacts to a       *)
(* bounded queue without ever waiting; a writer thread takes them from it, *)
(* fills the journal up to a cap and leaves a summary of its health when   *)
(* it is told to stop. flush and aclose put fences in the queue and wait a *)
(* limited time. The disk can fail at any step and the process can die.    *)
(*                                                                         *)
(* A record is its sequence number with what inspection reads of it; every *)
(* payload weighs one.                                                     *)
(***************************************************************************)
EXTENDS Naturals, Sequences, FiniteSets, SequencesExt

CONSTANTS
  Capacity,    \* of the queue
  MaxPayload,  \* payloads the run's directory may hold before the cap
  MaxRecords,  \* bound on the records of one run
  MaxFlushes   \* bound on the calls of flush

VARIABLES
  seq,      \* the recorder's sequence number
  spans,    \* spans that were started and not ended
  captured, \* artifact whose content.capture event is still to be emitted
  queue,    \* items between the threads
  closed,   \* the sink refuses records
  sealed,   \* what the recorder had emitted when the sink was closed
  health,   \* TraceHealth
  journal, flushed,  \* lines written, and how many of them are on disk
  artifacts,
  summary,  \* the summary file: none, or the health it holds
  writer,   \* "opening" | "running" | "stopping" | "failed" | "ended"
  last,     \* number of the last record it took from the queue, 0 for none
  flusher,  \* "idle" | "fencing" | "waiting"
  strays,   \* flushes that timed out while their thread was still to put the fence
  closer,   \* "idle" | "fencing" | "joining" | "late" | "ended"
  flushes, dead

producing == <<seq, spans, captured>>
disk == <<journal, flushed, artifacts, summary>>
vars == <<producing, queue, closed, sealed, health, disk, writer, last, flusher, strays, closer,
          flushes, dead>>

None == [kind |-> "none"]
Healthy == [complete |-> TRUE, capped |-> FALSE]

Stop == [kind |-> "stop"]
Fence(n) == [kind |-> "fence", id |-> n]
Artifact(a) == [kind |-> "artifact", id |-> a]
\* about: the span a record starts or ends, or the artifact it announces.
Record(n, what, about) == [kind |-> "record", seq |-> n, what |-> what, about |-> about]

\* Something was dropped, failed on disk or timed out; the counts are left out.
Unmarked(h) == h
Incomplete(h) == [h EXCEPT !.complete = FALSE]

\* ---- the agent's thread --------------------------------------------------------

Refuses == closed \/ health.capped \/ Len(queue) >= Capacity

Enqueue(item) ==
  IF Refuses THEN health' = Incomplete(health) /\ UNCHANGED queue
  ELSE queue' = Append(queue, item) /\ UNCHANGED health

Emit(what, about) ==
  /\ seq' = seq + 1
  /\ Enqueue(Record(seq + 1, what, about))

\* Closing and recording happen on one thread, nothing comes between.
Running == ~dead /\ captured = 0

EmitRecord ==
  /\ Running /\ seq < MaxRecords
  /\ \/ Emit("event", 0) /\ UNCHANGED spans
     \/ Emit("start", seq + 1) /\ spans' = spans \cup {seq + 1}
     \/ \E s \in spans : Emit("end", s) /\ spans' = spans \ {s}
  /\ UNCHANGED <<captured, closed, sealed, disk, writer, last, flusher, strays, closer, flushes, dead>>

TakenOrNot == seq + 1
Taken == IF Refuses THEN 0 ELSE seq + 1

\* An artifact, and the event that announces it if the artifact was taken.
Capture ==
  /\ Running /\ seq < MaxRecords
  /\ Enqueue(Artifact(seq + 1))
  /\ captured' = Taken
  /\ UNCHANGED <<seq, spans, closed, sealed, disk, writer, last, flusher, strays, closer, flushes, dead>>

Announce ==
  /\ ~dead /\ captured # 0
  /\ Emit("capture", captured) /\ captured' = 0
  /\ UNCHANGED <<spans, closed, sealed, disk, writer, last, flusher, strays, closer, flushes, dead>>

BeginFlush ==
  /\ Running /\ flusher = "idle" /\ flushes < MaxFlushes /\ writer # "ended"
  /\ flusher' = "fencing" /\ flushes' = flushes + 1
  /\ UNCHANGED <<producing, queue, closed, sealed, health, disk, writer, last, strays, closer, dead>>

\* A thread puts the fence.
PutFence ==
  /\ ~dead /\ flusher = "fencing" /\ Len(queue) < Capacity
  /\ queue' = Append(queue, Fence(flushes)) /\ flusher' = "waiting"
  /\ UNCHANGED <<producing, closed, sealed, health, disk, writer, last, strays, closer, flushes, dead>>

\* The thread may outlive a timeout of its call, and may still find room.
FlushTimesOut ==
  /\ ~dead /\ flusher \in {"fencing", "waiting"}
  /\ flusher' = "idle" /\ health' = Incomplete(health)
  /\ strays' = IF flusher = "fencing" THEN strays \cup {flushes} ELSE strays
  /\ UNCHANGED <<producing, queue, closed, sealed, disk, writer, last, closer, flushes, dead>>

PutStray ==
  /\ ~dead /\ Len(queue) < Capacity
  /\ \E n \in strays : queue' = Append(queue, Fence(n)) /\ strays' = strays \ {n}
  /\ UNCHANGED <<producing, closed, sealed, health, disk, writer, last, flusher, closer, flushes, dead>>

\* aclose, or abort when the agent could not be assembled.
Close ==
  /\ Running /\ ~closed
  /\ closed' = TRUE /\ sealed' = seq /\ closer' \in {"fencing", "late"}
  /\ UNCHANGED <<producing, queue, health, disk, writer, last, flusher, strays, flushes, dead>>

\* abort leaves a full queue to a thread that waits without a limit; the thread
\* of an aclose that timed out may still find room.
PutStop ==
  /\ ~dead /\ closer \in {"fencing", "late"} /\ Len(queue) < Capacity
  /\ queue' = Append(queue, Stop)
  /\ closer' = IF closer = "fencing" THEN "joining" ELSE "ended"
  /\ UNCHANGED <<producing, closed, sealed, health, disk, writer, last, flusher, strays, flushes, dead>>

Joined ==
  /\ ~dead /\ closer = "joining" /\ writer = "ended"
  /\ closer' = "ended"
  /\ UNCHANGED <<producing, queue, closed, sealed, health, disk, writer, last, flusher, strays, flushes, dead>>

CloseTimesOut ==
  /\ ~dead /\ closer \in {"fencing", "joining"}
  /\ closer' \in IF closer = "fencing" THEN {"late", "ended"} ELSE {"ended"}
  /\ health' = Incomplete(health)
  /\ UNCHANGED <<producing, queue, closed, sealed, disk, writer, last, flusher, strays, flushes, dead>>

\* ---- the writer ------------------------------------------------------------------

OpenJournal ==
  /\ ~dead /\ writer = "opening" /\ writer' = "running"
  /\ UNCHANGED <<producing, queue, closed, sealed, health, disk, last, flusher, strays, closer, flushes, dead>>

Takes(kind) == ~dead /\ writer = "running" /\ queue # <<>> /\ Head(queue).kind = kind

AtCap == Len(journal) + Cardinality(artifacts) >= MaxPayload

Write(line) == journal' = Append(journal, line)

\* Written; the file may be flushed now or later.
WriteRecord ==
  /\ Takes("record") /\ ~health.capped /\ ~AtCap
  /\ Write(Head(queue)) /\ queue' = Tail(queue)
  /\ flushed' \in {flushed, Len(journal')} /\ last' = Head(queue).seq
  /\ UNCHANGED <<producing, closed, sealed, health, artifacts, summary, writer, flusher, strays,
                 closer, flushes, dead>>

\* A record over its own limit, which is the last one taken all the same.
DropLongRecord ==
  /\ Takes("record") /\ ~health.capped /\ Head(queue).what = "event"
  /\ queue' = Tail(queue) /\ health' = Incomplete(health) /\ last' = Head(queue).seq
  /\ UNCHANGED <<producing, closed, sealed, disk, writer, flusher, strays, closer, flushes, dead>>

WriteArtifact ==
  /\ Takes("artifact") /\ ~health.capped /\ ~AtCap
  /\ artifacts' = artifacts \cup {Head(queue).id} /\ queue' = Tail(queue)
  /\ UNCHANGED <<producing, closed, sealed, health, journal, flushed, summary, writer, last,
                 flusher, strays, closer, flushes, dead>>

\* The cap: one marker, in the place of the record that did not fit, or behind
\* the last record taken when it was an artifact; none when no record was taken.
LastWith(item) == IF item.kind = "record" THEN item.seq ELSE last

Marker(item) ==
  IF item.kind = "record" THEN <<Record(item.seq, "cap", 0)>>
  ELSE IF last = 0 THEN <<>>
  ELSE <<Record(last + 1, "cap", 0)>>

ReachCap ==
  /\ (Takes("record") \/ Takes("artifact")) /\ ~health.capped /\ AtCap
  /\ journal' = journal \o Marker(Head(queue)) /\ queue' = Tail(queue)
  /\ flushed' = Len(journal') /\ last' = LastWith(Head(queue))
  /\ health' = [Incomplete(health) EXCEPT !.capped = TRUE]
  /\ UNCHANGED <<producing, closed, sealed, artifacts, summary, writer, flusher, strays, closer,
                 flushes, dead>>

SkipAfterCap ==
  /\ (Takes("record") \/ Takes("artifact")) /\ health.capped
  /\ queue' = Tail(queue)
  /\ UNCHANGED <<producing, closed, sealed, health, disk, writer, last, flusher, strays, closer, flushes, dead>>

\* The flush that waits for this fence returns; after a timeout nobody waits.
Released(fence) ==
  flusher' = IF flusher = "waiting" /\ fence.id = flushes THEN "idle" ELSE flusher

SetFence ==
  /\ Takes("fence")
  /\ queue' = Tail(queue) /\ flushed' = Len(journal) /\ Released(Head(queue))
  /\ UNCHANGED <<producing, closed, sealed, health, journal, artifacts, summary, writer, last,
                 strays, closer, flushes, dead>>

TakeStop ==
  /\ Takes("stop")
  /\ queue' = Tail(queue) /\ flushed' = Len(journal) /\ writer' = "stopping"
  /\ UNCHANGED <<producing, closed, sealed, health, journal, artifacts, summary, last,
                 flusher, strays, closer, flushes, dead>>

\* The summary holds the health of this moment.
Summarize ==
  /\ ~dead /\ writer = "stopping" /\ writer' = "ended"
  /\ summary' = [kind |-> "summary", complete |-> health.complete]
  /\ UNCHANGED <<producing, queue, closed, sealed, health, journal, flushed, artifacts, last,
                 flusher, strays, closer, flushes, dead>>

Idle == ~dead /\ writer = "running" /\ queue = <<>>

FlushWhenIdle ==
  /\ Idle /\ flushed < Len(journal) /\ flushed' = Len(journal)
  /\ UNCHANGED <<producing, queue, closed, sealed, health, journal, artifacts, summary,
                 writer, last, flusher, strays, closer, flushes, dead>>

\* The disk fails: the item in hand is lost, the writer only empties the queue.
DiskFails ==
  /\ ~dead
  /\ \/ writer \in {"opening", "stopping"} /\ UNCHANGED queue
     \/ (Takes("record") \/ Takes("artifact")) /\ queue' = Tail(queue)
  /\ writer' = IF writer = "stopping" THEN "ended" ELSE "failed"
  /\ health' = Incomplete(health)
  /\ UNCHANGED <<producing, closed, sealed, disk, last, flusher, strays, closer, flushes, dead>>

DrainGoesOn == IF Head(queue).kind = "stop" THEN "ended" ELSE writer

Drain ==
  /\ ~dead /\ writer = "failed" /\ queue # <<>>
  /\ queue' = Tail(queue) /\ writer' = DrainGoesOn
  /\ IF Head(queue).kind = "fence" THEN Released(Head(queue)) ELSE UNCHANGED flusher
  /\ UNCHANGED <<producing, closed, sealed, health, disk, last, strays, closer, flushes, dead>>

\* Lines that were not flushed may or may not have reached the disk.
Die ==
  /\ ~dead /\ dead' = TRUE
  /\ \E n \in flushed .. Len(journal) :
       journal' = SubSeq(journal, 1, n) /\ flushed' = n
  /\ UNCHANGED <<producing, queue, closed, sealed, health, artifacts, summary, writer, last,
                 flusher, strays, closer, flushes>>

Init ==
  /\ seq = 0 /\ spans = {} /\ captured = 0 /\ queue = <<>>
  /\ closed = FALSE /\ sealed = 0 /\ health = Healthy
  /\ journal = <<>> /\ flushed = 0 /\ artifacts = {} /\ summary = None
  /\ writer = "opening" /\ last = 0 /\ flusher = "idle" /\ strays = {} /\ closer = "idle"
  /\ flushes = 0 /\ dead = FALSE

Producer == EmitRecord \/ Capture \/ Announce \/ BeginFlush \/ Close
Waiters == PutFence \/ FlushTimesOut \/ PutStray \/ PutStop \/ Joined \/ CloseTimesOut
Writer == \/ OpenJournal \/ WriteRecord \/ DropLongRecord \/ WriteArtifact \/ ReachCap
          \/ SkipAfterCap \/ SetFence \/ TakeStop \/ Summarize \/ FlushWhenIdle
          \/ DiskFails \/ Drain

Next == Producer \/ Waiters \/ Writer \/ Die

\* The writer thread runs as long as the process does.
Spec == Init /\ [][Next]_vars /\ WF_vars(Writer)

\* ---- inspection ------------------------------------------------------------------

Lines == 1 .. Len(journal)
NoGap == \A i \in Lines : journal[i].seq = i
Started == {journal[i].about : i \in {i \in Lines : journal[i].what = "start"}}
Ended == {journal[i].about : i \in {i \in Lines : journal[i].what = "end"}}

\* inspect_trace: no warnings.
LooksComplete ==
  /\ summary # None /\ summary.complete
  /\ NoGap /\ \A i \in Lines : journal[i].what # "cap"
  /\ Started = Ended

\* ---- properties --------------------------------------------------------------------

\* Inspection calls a run complete only if nothing of it is missing: every
\* record up to the close of the sink, the spans that were open then included,
\* and every artifact announced - whatever was dropped, timed out, failed on
\* disk or lost in a crash, and although the summary is written before aclose
\* has returned (inspect_trace, LocalTraceSink._write).
CompleteMeansAll ==
  LooksComplete =>
    /\ {journal[i].seq : i \in Lines} = 1 .. sealed
    /\ \A i \in Lines : journal[i].what = "capture" => journal[i].about \in artifacts

\* What the journal says can be relied on even when it is not complete: lines
\* are in the order of their emission, an announced artifact is there, nothing
\* follows the cap marker (docs/tracing-and-evaluation.md:331, :347).
JournalIsSound ==
  /\ \A i, j \in Lines : i < j => journal[i].seq < journal[j].seq
  /\ \A i \in Lines : journal[i].what = "capture" => journal[i].about \in artifacts
  /\ \A i \in Lines : journal[i].what = "cap" => i = Len(journal)

\* A call of flush returns by itself, and not only by its timeout, once its
\* fence is in the queue, even after a disk error; and a stopped writer ends.
\* (A fence behind the end of the queue is left to the timeout.)
Reached(kind) ==
  \E i \in 1 .. Len(queue) : queue[i].kind = kind /\ \A j \in 1 .. i - 1 : queue[j] # Stop

Listening == writer \in {"opening", "running", "failed"}


\* What a trace shows happened, and a trace that looks whole is whole
\* (LocalTraceSink, inspect_trace).
TraceIsTruthful == CompleteMeansAll /\ JournalIsSound

=============================================================================
