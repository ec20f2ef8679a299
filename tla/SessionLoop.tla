----------------------------- MODULE SessionLoop -----------------------------
(***************************************************************************)
(* The loop that turns user lines and monitor events into turns            *)
(* (io/base.py run_session and _read_next, background.py, and the editor   *)
(* of io/cli.py that a monitor event may interrupt).                       *)
(*                                                                         *)
(* Monitors started by tools publish events into a bounded inbox at any    *)
(* time.  While nothing runs, the loop waits for the user's line and for   *)
(* the inbox at once; an event retracts the editor, in which a line may    *)
(* just have been accepted.  A Stop pauses the inbox until the user speaks *)
(* again, and a voided turn silences the monitors it started.              *)
(*                                                                         *)
(* A line is its number, an event the source and its number there.  The    *)
(* turn itself is AgentTurn's; here it starts, starts monitors, and ends.  *)
(***************************************************************************)
EXTENDS Naturals, FiniteSets, SequencesExt, Subsequences

CONSTANTS
  Sources,    \* EventSource objects, one per started monitor
  MaxEvents,  \* BackgroundInbox.MAX_EVENTS
  BatchSize,  \* BackgroundInbox.BATCH_SIZE
  MaxLines,   \* bound: lines the user types
  MaxPublish  \* bound: events of one source

ASSUME LimitAssumption ==
  /\ MaxEvents \in Nat \ {0} /\ BatchSize \in Nat \ {0}
  /\ MaxLines \in Nat /\ MaxPublish \in Nat
  /\ IsFiniteSet(Sources)

VARIABLES
  queue,      \* _events
  dropped,    \* _dropped, 0 for absent
  src,        \* each source: "new", "attached", "finished" or "cancelled"
  ready,      \* _ready is set
  woke,       \* the task that waits for _ready has finished
  enabled, paused, closed,
  loop,       \* where run_session is
  turnOf,     \* what started the running turn: "user", "monitor" or "none"
  born,       \* sources the running turn attached
  reader,     \* the read_input task
  line,       \* the line the reader holds, 0 for none
  parked,     \* _pending_submit, 0 for none
  typed,      \* lines the user has entered so far
  answered,   \* lines that became turns
  heard,      \* events that became part of a turn
  published,  \* events accepted from each source
  reported,   \* losses told to the model, per source
  voided,     \* sources whose turn was rolled back
  stopped     \* the user pressed Stop and has not spoken since

inboxVars == <<queue, dropped, src, ready>>
flagVars == <<enabled, paused, closed>>
turnVars == <<turnOf, born>>
inputVars == <<reader, line, parked, typed>>
ghostVars == <<answered, heard, published, reported, voided, stopped>>
vars == <<inboxVars, woke, flagVars, loop, turnVars, inputVars, ghostVars>>

-----------------------------------------------------------------------------
(* BackgroundInbox and EventSource *)

Init ==
  /\ queue = << >> /\ dropped = [s \in Sources |-> 0]
  /\ src = [s \in Sources |-> "new"]
  /\ ready = FALSE /\ woke = FALSE
  /\ enabled \in BOOLEAN /\ paused = FALSE /\ closed = FALSE
  /\ loop = "top" /\ turnOf = "none" /\ born = {}
  /\ reader = "none" /\ line = 0 /\ parked = 0 /\ typed = 0
  /\ answered = << >> /\ heard = << >>
  /\ published = [s \in Sources |-> 0] /\ reported = [s \in Sources |-> 0]
  /\ voided = {} /\ stopped = FALSE

Event(s) == [src |-> s, id |-> published[s] + 1]
Dropping == Cardinality({s \in Sources : dropped[s] > 0})

\* Mutant: the oldest event goes without a trace.
DropUncounted == dropped' = dropped

\* The oldest event makes room; the number of counters is bounded too.
DropOldest ==
  LET victim == Head(queue).src
  IN  dropped' = IF dropped[victim] > 0 \/ Dropping < MaxEvents
                 THEN [dropped EXCEPT ![victim] = @ + 1] ELSE dropped

Room == IF Len(queue) >= MaxEvents THEN Tail(queue) ELSE queue

\* publish; the waiting task sees the set event even if it is cleared again.
Put(s) ==
  /\ queue' = Append(Room, Event(s))
  /\ IF Len(queue) >= MaxEvents THEN DropOldest ELSE UNCHANGED dropped
  /\ ready' = TRUE
  /\ woke' = (woke \/ loop = "race")
  /\ published' = [published EXCEPT ![s] = @ + 1]

Publishing(s) ==
  /\ enabled /\ ~closed /\ src[s] = "attached"
  /\ published[s] < MaxPublish
  /\ Put(s)
  /\ UNCHANGED <<flagVars, loop, turnVars, inputVars, answered, heard,
                 reported, voided, stopped>>

Publish(s) == Publishing(s) /\ UNCHANGED src

\* The watched command exits: one end notice, then finish().
Exit(s) ==
  \/ Publishing(s) /\ src' = [src EXCEPT ![s] = "finished"]
  \/ /\ closed /\ src[s] = "attached"
     /\ src' = [src EXCEPT ![s] = "finished"]
     /\ UNCHANGED <<queue, dropped, ready, woke, flagVars, loop, turnVars,
                    inputVars, ghostVars>>

\* cancel() of the sources in gone: their events and counters go.
Discard(gone) ==
  /\ src' = [s \in Sources |-> IF s \in gone THEN "cancelled" ELSE src[s]]
  /\ queue' = Subsequence(queue, {i \in DOMAIN queue : queue[i].src \notin gone})
  /\ dropped' = [s \in Sources |-> IF s \in gone THEN 0 ELSE dropped[s]]
  /\ ready' = IF gone # {} /\ queue' = << >> /\ ~closed
                 /\ \A s \in Sources : dropped'[s] = 0
              THEN FALSE ELSE ready

\* process_stop of a running watch.
CancelSource(s) ==
  /\ src[s] = "attached"
  /\ Discard({s})
  /\ UNCHANGED <<woke, flagVars, loop, turnVars, inputVars, ghostVars>>

\* close(): the Agent is closed or replaced, and a waiting consumer released.
Close ==
  /\ ~closed
  /\ closed' = TRUE /\ enabled' = FALSE
  /\ queue' = << >> /\ dropped' = [s \in Sources |-> 0]
  /\ ready' = TRUE /\ woke' = (woke \/ loop = "race")
  /\ UNCHANGED <<src, paused, loop, turnVars, inputVars, ghostVars>>

-----------------------------------------------------------------------------
(* The frontend's editor *)

\* Enter: the line is accepted before read_input has returned it.
TypeLine ==
  /\ reader = "open" /\ typed < MaxLines
  /\ typed' = typed + 1
  /\ line' = typed + 1
  /\ reader' = "accepted"
  /\ UNCHANGED <<inboxVars, woke, flagVars, loop, turnVars, parked, ghostVars>>

ReaderReturns ==
  /\ reader = "accepted" /\ loop \in {"plain", "race"}
  /\ reader' = "done"
  /\ UNCHANGED <<inboxVars, woke, flagVars, loop, turnVars, line, parked, typed,
                 ghostVars>>

\* Mutant: an accepted line goes back to nothing.
ParkNothing == parked' = parked

\* _read_message: an accepted line is sent after the automatic turn.
ParkAccepted == parked' = IF reader = "accepted" THEN line ELSE parked

ReaderCancelled ==
  /\ loop = "retract" /\ reader \in {"open", "accepted"}
  /\ ParkAccepted
  /\ reader' = "cancelled" /\ line' = 0
  /\ UNCHANGED <<inboxVars, woke, flagVars, loop, turnVars, typed, ghostVars>>

\* A frontend whose read was finished before the cancel landed returns it.
ReaderFinished ==
  /\ loop = "retract" /\ reader = "accepted"
  /\ reader' = "done"
  /\ UNCHANGED <<inboxVars, woke, flagVars, loop, turnVars, line, parked, typed,
                 ghostVars>>

-----------------------------------------------------------------------------
(* run_session and _read_next *)

\* A parked line is returned at once.
OpenReader ==
  /\ reader' = IF parked # 0 THEN "done" ELSE "open"
  /\ line' = parked
  /\ parked' = 0
  /\ UNCHANGED typed

\* Without delivery, or paused, only the user is waited for.
Blocking == ~enabled \/ paused

ReadNext ==
  /\ loop = "top"
  /\ OpenReader
  /\ IF Blocking THEN loop' = "plain" /\ woke' = FALSE
                 ELSE loop' = "race" /\ woke' = ready
  /\ UNCHANGED <<inboxVars, flagVars, turnVars, ghostVars>>

StartUserTurn ==
  /\ loop' = "turn" /\ turnOf' = "user" /\ born' = {}
  /\ paused' = FALSE /\ stopped' = FALSE
  /\ answered' = Append(answered, line)
  /\ reader' = "none" /\ line' = 0
  /\ UNCHANGED <<inboxVars, woke, enabled, closed, parked, typed, heard,
                 published, reported, voided>>

\* User input wins a simultaneous arrival.
UserWins ==
  /\ loop \in {"plain", "race", "retract"} /\ reader = "done"
  /\ StartUserTurn

\* The user ends the session (EOF, /exit, /new, /resume).
Leave ==
  /\ loop \in {"plain", "race"} /\ reader = "open"
  /\ loop' = "ended" /\ reader' = "none"
  /\ UNCHANGED <<inboxVars, woke, flagVars, turnVars, line, parked, typed,
                 ghostVars>>

EventWins ==
  /\ loop = "race" /\ woke /\ reader # "done"
  /\ loop' = "retract"
  /\ UNCHANGED <<inboxVars, woke, flagVars, turnVars, inputVars, ghostVars>>

\* Mutant: the newest events are taken.
BatchNewest ==
  IF Len(queue) < BatchSize THEN queue
  ELSE SubSeq(queue, Len(queue) - BatchSize + 1, Len(queue))

Batch == IF Len(queue) < BatchSize THEN queue ELSE SubSeq(queue, 1, BatchSize)

\* Mutant: everything is thought to fit one batch.
ClearsAlways == TRUE

\* take() clears the event only when nothing is left behind.
Clears == Len(queue) <= BatchSize /\ ~closed

\* The editor is back: take what is there, or listen again.
Take ==
  LET batch == Subsequence(Batch, {i \in DOMAIN Batch : src[Batch[i].src] # "cancelled"})
      told == {s \in Sources : dropped[s] > 0 /\ src[s] # "cancelled"}
  IN  /\ loop = "retract" /\ reader = "cancelled" /\ ~closed
      /\ queue' = SubSeq(queue, Len(Batch) + 1, Len(queue))
      /\ dropped' = [s \in Sources |-> 0]
      /\ ready' = IF Clears THEN FALSE ELSE ready
      /\ heard' = heard \o batch
      /\ reported' = [s \in Sources |-> IF s \in told
                        THEN reported[s] + dropped[s] ELSE reported[s]]
      /\ IF batch = << >> /\ told = {}
         THEN /\ loop' = "race" /\ woke' = ready'
              /\ OpenReader
              /\ UNCHANGED turnVars
         ELSE /\ loop' = "turn" /\ turnOf' = "monitor" /\ born' = {}
              /\ reader' = "none"
              /\ UNCHANGED <<woke, line, parked, typed>>
      /\ UNCHANGED <<src, flagVars, answered, published, voided, stopped>>

TakeClosed ==
  /\ loop = "retract" /\ reader = "cancelled" /\ closed
  /\ loop' = "ended" /\ reader' = "none"
  /\ UNCHANGED <<inboxVars, woke, flagVars, turnVars, line, parked, typed,
                 ghostVars>>

\* process_monitor of the running turn; refused without delivery.
StartMonitor(s) ==
  /\ loop = "turn" /\ enabled /\ ~closed /\ src[s] = "new"
  /\ src' = [src EXCEPT ![s] = "attached"]
  /\ born' = born \cup {s}
  /\ UNCHANGED <<queue, dropped, ready, woke, flagVars, loop, turnOf, inputVars,
                 ghostVars>>

\* Mutant: only watches that still run are silenced by a rollback.
SilenceRunning == {s \in born : src[s] = "attached"}

\* turn_rolled_back silences every monitor the turn started.
Silenced == {s \in born : src[s] \in {"attached", "finished"}}

LeaveTurn == loop' = "top" /\ turnOf' = "none" /\ born' = {}

TurnEnds ==
  /\ loop = "turn" /\ LeaveTurn
  /\ UNCHANGED <<inboxVars, woke, flagVars, inputVars, ghostVars>>

TurnFails ==
  /\ loop = "turn" /\ LeaveTurn
  /\ Discard(Silenced)
  /\ voided' = voided \cup born
  /\ UNCHANGED <<woke, flagVars, inputVars, answered, heard, published,
                 reported, stopped>>

\* Mutant: there is nothing to hold back unless something runs.
PauseIfBusy == paused' = (paused \/ \E s \in Sources : src[s] = "attached")

\* A Stop hands control back to the user.
PauseInbox == paused' = (paused \/ (enabled /\ ~closed))

\* The user stops the turn: it is rolled back, or its outcome was committed.
Stop ==
  /\ loop = "turn" /\ LeaveTurn
  /\ PauseInbox
  /\ stopped' = TRUE
  /\ \/ Discard(Silenced) /\ voided' = voided \cup born
     \/ UNCHANGED <<inboxVars, voided>>
  /\ UNCHANGED <<woke, enabled, closed, inputVars, answered, heard, published,
                 reported>>

\* The session's own task is cancelled.
Interrupted ==
  /\ loop # "ended"
  /\ loop' = "ended" /\ reader' = "none" /\ line' = 0
  /\ turnOf' = "none" /\ born' = {}
  /\ UNCHANGED <<inboxVars, woke, flagVars, parked, typed, ghostVars>>

Session ==
  \/ ReaderReturns \/ ReaderCancelled \/ ReaderFinished
  \/ ReadNext \/ UserWins \/ EventWins \/ Take \/ TakeClosed

Next ==
  \/ \E s \in Sources : \/ Publish(s) \/ Exit(s) \/ CancelSource(s)
                        \/ StartMonitor(s)
  \/ Close \/ TypeLine \/ Leave \/ Session
  \/ TurnEnds \/ TurnFails \/ Stop \/ Interrupted

Spec == Init /\ [][Next]_vars

-----------------------------------------------------------------------------
(* Properties *)

Events == [src : Sources, id : 1 .. MaxPublish]

\* The numbers of a source's events in q.
NumbersOf(q, s) == {q[i].id : i \in {n \in DOMAIN q : q[n].src = s}}

\* What a source published and was neither heard nor is queued.
Lost(s) == (1 .. published[s]) \ (NumbersOf(heard, s) \cup NumbersOf(queue, s))

\* No event of a monitor gets lost without being counted: as many are missing
\* as counts were reported or are still to be (docs/plugins.md: overflow "drops
\* oldest lines and reports the count").
LossIsReported ==
  ~closed /\ Cardinality(Sources) <= MaxEvents =>
    \A s \in Sources : src[s] # "cancelled" =>
      Cardinality(Lost(s)) = dropped[s] + reported[s]

\* The events of a source are heard in the order they were published, each at
\* most once, overflow or not.
HeardInOrder ==
  LET all == heard \o queue
  IN  \A i, j \in DOMAIN all :
        i < j /\ all[i].src = all[j].src => all[i].id < all[j].id

\* Every line the user entered becomes one turn, in the order of entry: none
\* is lost or sent twice when a monitor event closes the editor under it.
EveryLineCounts ==
  LET held == IF line # 0 THEN <<line>> ELSE << >>
      kept == IF parked # 0 THEN <<parked>> ELSE << >>
  IN  loop # "ended" => answered \o held \o kept = [i \in 1 .. typed |-> i]

\* After a Stop no monitor event starts a turn before the user has spoken
\* (docs/plugins.md, tests/test_background.py).
StopHoldsEvents == stopped => turnOf # "monitor"

\* A monitor whose starting turn was voided is never heard again.
VoidedIsSilent ==
  [][\A s \in voided : NumbersOf(heard', s) = NumbersOf(heard, s)]_vars

\* Events are queued and may start a turn.
Waiting == queue # << >> /\ ~paused /\ loop # "ended" /\ ~closed

Fairness ==
  /\ WF_vars(Session)
  /\ WF_vars(TurnEnds)

FairSpec == Spec /\ Fairness

\* An event that is queued while delivery is on does not stay there for good:
\* no wake-up is lost between take, discard and wait.
EventsAreHeard ==
  \A e \in Events :
    (e \in ToSet(queue) /\ Waiting) ~> ~(e \in ToSet(queue) /\ Waiting)

\* What monitors publish is heard in order or reported as lost, and what was
\* voided is not heard (BackgroundInbox, EventSource).
EventsAreAccounted == []LossIsReported /\ []HeardInOrder /\ VoidedIsSilent

\* Monitors neither take a line from the user nor speak before the user does
\* after a Stop (run_session, _read_next).
UserComesFirst == EveryLineCounts /\ StopHoldsEvents

=============================================================================
