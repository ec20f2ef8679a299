------------------------------ MODULE AgentTurn ------------------------------
(***************************************************************************)
(* One agent, its turn lease and its session transcript                    *)
(* (src/lingcore/agent.py, the session half in src/lingcore/sessions.py).  *)
(*                                                                         *)
(* Every call of Agent.run is an async generator.  Several may exist at    *)
(* once: one drives the turn that holds the lease, others are stale (their *)
(* terminal event was delivered, or the turn was finalized under them) and *)
(* are resumed or closed late.  A generator is advanced by a task; the     *)
(* frontend stops a turn by cancelling that task, awaiting it, and calling *)
(* finalize_cancelled_turn.  The SQLite transcript is written through as   *)
(* the turn goes, so voiding a turn has to repair memory and transcript    *)
(* alike, and the second repair can fail.                                  *)
(*                                                                         *)
(* Abstractions.  A message is its durable sequence number, its turn and   *)
(* its role; memory is the set of messages it holds, ordered by sequence.  *)
(* A session event is a field of the row it is anchored at (events of one  *)
(* kind at one row: the newest counts).  Active skills, their approvals    *)
(* and the todo list are one value of Sides: the code checkpoints,         *)
(* restores and saves them side by side.  Sequence numbers start at 1.     *)
(***************************************************************************)
EXTENDS Naturals, Sequences, FiniteSets

CONSTANTS
  Gens,       \* generators of Agent.run alive at the same time
  NoGen,      \* no generator (a None lease or task)
  Sides,      \* values of skills, approvals and todos
  InitSide,   \* the value a fresh session has
  NoSide,     \* no skill_state/todo_state event at a row
  NoSnap,     \* no compaction event at a row
  NoCkpt,     \* _turn_checkpoint is None
  MaxTurns,   \* bound: turns that acquire the lease
  MaxIters,   \* the profile's max_iters
  MaxCalls,   \* bound: tool calls of one assistant message
  Shrinks,    \* whether the history can outgrow the memory window
  MaxCrashes  \* bound: process crashes

ASSUME GenAssumption == NoGen \notin Gens
ASSUME SideAssumption == InitSide \in Sides /\ NoSide \notin Sides
ASSUME BoundAssumption ==
  /\ MaxTurns \in Nat /\ MaxCalls \in Nat /\ MaxCrashes \in Nat
  /\ MaxIters \in Nat \ {0} /\ Shrinks \in BOOLEAN

VARIABLES
  pc,         \* where each generator is in _run_turn
  at,         \* "in" an anext step, or "out" at a yield in its consumer
  drv,        \* the task that last advanced each generator
  lease,      \* _turn_lease
  active,     \* _active_turn_task: the generator that task advances
  ckpt,       \* _turn_checkpoint and its companions
  msgSeq,     \* _turn_message_seq, 0 for None
  cancelReq,  \* _turn_cancel_requested
  committed,  \* _turn_committed holds the turn's terminal event
  told,       \* what the plugin hooks were last told of the current turn
  statsLease, \* _turn_stats_lease
  statsSeq,   \* _turn_stats_seq, 0 when no user message was committed
  pending,    \* _pending_turn_message_seq, 0 for None
  turnIndex,  \* _turn_index
  before,     \* skills and todos before the running tool batch, or NoSide
  side,       \* skill_state and todo_state
  mem,        \* memory.messages
  log,        \* the session's message rows, each with its events
  turn,       \* number of the newest turn
  crashes     \* crashes so far

genVars == <<pc, at, drv>>
turnVars == <<lease, active, ckpt, msgSeq, cancelReq, committed>>
statVars == <<statsLease, statsSeq>>
workVars == <<turnIndex, before, side, mem>>
vars == <<genVars, turnVars, statVars, workVars, told, pending, log, turn,
          crashes>>

-----------------------------------------------------------------------------
(* Messages, rows and the replay of a session *)

Roles == {"user", "assistant", "tool", "media", "summary"}
Msg == [n : Nat, t : Nat, role : Roles, calls : Nat]
Snap == [mem : SUBSET Msg, idx : Nat]
Row == [msg : Msg, side : Sides \cup {NoSide}, snap : Snap \cup {NoSnap},
        stats : Nat]
Ckpt == [mem : SUBSET Msg, idx : Nat, side : Sides]

ASSUME SentinelAssumption == NoCkpt \notin Ckpt /\ NoSnap \notin Snap

Message(l, role, calls) ==
  [n |-> Len(l) + 1, t |-> turn, role |-> role, calls |-> calls]
RowOf(m) == [msg |-> m, side |-> NoSide, snap |-> NoSnap, stats |-> 0]

\* An assistant row whose every call has its result row right behind it.
Answered(l, a) ==
  /\ a + l[a].msg.calls <= Len(l)
  /\ \A j \in a + 1 .. a + l[a].msg.calls : l[j].msg.role = "tool"

\* trim_dangling keeps whole blocks only.
Kept(l, i) ==
  CASE l[i].msg.role = "assistant" -> Answered(l, i)
    [] l[i].msg.role = "tool" ->
         \E a \in 1 .. i - 1 : /\ l[a].msg.role = "assistant"
                               /\ i <= a + l[a].msg.calls
                               /\ Answered(l, a)
    [] OTHER -> TRUE

Trimmed(l, first, last) == {l[i].msg : i \in {j \in first .. last : Kept(l, j)}}

\* ms holds the newest messages of all: nothing in between is missing.
IsNewestOf(ms, all) ==
  /\ ms \subseteq all
  /\ \A m \in ms, o \in all \ ms : o.n < m.n

Summaries(ms) == {m \in ms : m.role = "summary"}

\* A snapshot is usable when its tail is the canonical suffix of the rows up
\* to its anchor (_canonical_message_suffix).
Usable(l, s) ==
  /\ l[s].snap # NoSnap
  /\ IsNewestOf(l[s].snap.mem \ Summaries(l[s].snap.mem), Trimmed(l, 1, s))

\* latest_compaction: the newest usable snapshot's anchor, 0 when none is.
LatestSnap(l) ==
  LET good == {s \in DOMAIN l : Usable(l, s)}
  IN  IF good = {} THEN 0 ELSE CHOOSE s \in good : \A o \in good : o <= s

Assistants(ms) == Cardinality({m \in ms : m.role = "assistant"})

\* attach_session: the memory, turn index and side state a new process has.
Replay(l) ==
  LET s == LatestSnap(l)
      tail == Trimmed(l, s + 1, Len(l))
      saved == {i \in DOMAIN l : l[i].side # NoSide}
  IN  [mem |-> IF s = 0 THEN tail ELSE l[s].snap.mem \cup tail,
       idx |-> Assistants(tail) + (IF s = 0 THEN 0 ELSE l[s].snap.idx),
       side |-> IF saved = {} THEN InitSide
                ELSE l[CHOOSE i \in saved : \A o \in saved : o <= i].side]

\* Mutant: the row at seq goes as well.
TruncateFrom(l, seq) == [i \in 1 .. seq - 1 |-> l[i]]

\* Mutant: events anchored at seq survive.
TruncateKeepsEvents(l, seq) == [i \in 1 .. seq |-> l[i]]

\* truncate_after: rows after seq go, and so do the events anchored at seq.
Truncate(l, seq) ==
  [i \in 1 .. seq |-> IF i = seq THEN RowOf(l[i].msg) ELSE l[i]]

-----------------------------------------------------------------------------
(* Turn state *)

Dead(g) == drv[g] \in {"ended", "cancelled"}

\* A step of g's body: its task runs and was not told to stop.
Runs(g, where) == pc[g] = where /\ at[g] = "in" /\ drv[g] = "live"

\* _clear_turn_state, which a stale lease leaves alone.
ClearTurn ==
  /\ lease' = NoGen
  /\ active' = NoGen
  /\ ckpt' = NoCkpt
  /\ msgSeq' = 0
  /\ cancelReq' = FALSE
  /\ committed' = FALSE

\* _finish_turn_stats: the tally closes and its row, if it can be written,
\* lands at the user message.
FinishStats(l, persisted) ==
  /\ statsLease' = NoGen
  /\ statsSeq' = 0
  /\ log' = IF statsSeq # 0 /\ persisted
            THEN [l EXCEPT ![statsSeq].stats = turn] ELSE l

\* Mutant: the user message is taken back too.
RestoreWithoutUser ==
  mem' = ckpt.mem /\ turnIndex' = ckpt.idx /\ side' = ckpt.side

\* Mutant: only the transcript is repaired.
RestoreNoMemory ==
  mem' = mem /\ turnIndex' = ckpt.idx /\ side' = ckpt.side

\* _rollback_turn without the tally: what memory and transcript become.
RestoreMemory ==
  /\ mem' = IF msgSeq = 0 THEN ckpt.mem ELSE ckpt.mem \cup {log[msgSeq].msg}
  /\ turnIndex' = ckpt.idx
  /\ side' = ckpt.side

TruncatedLog(ok) == IF msgSeq # 0 /\ ok THEN Truncate(log, msgSeq) ELSE log

PendingAfter(ok) == CASE msgSeq = 0 -> pending
                      [] msgSeq # 0 /\ ok -> 0
                      [] OTHER -> msgSeq

\* _rollback_turn followed by _finish_turn_stats(persist = the repair held).
Rollback ==
  \E ok, saved \in BOOLEAN :
    /\ saved => ok
    /\ RestoreMemory
    /\ pending' = PendingAfter(ok)
    /\ told' = "voided"
    /\ ClearTurn
    /\ FinishStats(TruncatedLog(ok), saved)
    /\ before' = NoSide
    /\ UNCHANGED <<turn, crashes>>

\* A generator that ran to its end, or was closed.
Finish(g) ==
  /\ pc' = [pc EXCEPT ![g] = "none"]
  /\ at' = [at EXCEPT ![g] = "out"]
  /\ drv' = [drv EXCEPT ![g] = "ended"]

\* g goes on at where, inside its step or at a yield.
Goto(g, where, place) ==
  /\ pc' = [pc EXCEPT ![g] = where]
  /\ at' = [at EXCEPT ![g] = place]
  /\ UNCHANGED drv

-----------------------------------------------------------------------------
(* Agent.run: taking the lease *)

Init ==
  /\ pc = [g \in Gens |-> "none"]
  /\ at = [g \in Gens |-> "out"]
  /\ drv = [g \in Gens |-> "ended"]
  /\ lease = NoGen /\ active = NoGen /\ ckpt = NoCkpt /\ msgSeq = 0
  /\ cancelReq = FALSE /\ committed = FALSE
  /\ told = "none"
  /\ statsLease = NoGen /\ statsSeq = 0
  /\ pending = 0 /\ turnIndex = 0 /\ mem = {} /\ log = << >>
  /\ side = InitSide /\ before = NoSide
  /\ turn = 0 /\ crashes = 0

\* Mutant: the checkpoint of a stopped turn is not waited for.
MayAcquireBusy(g) == pc[g] = "none" /\ lease # g /\ turn < MaxTurns

\* A second run() while a turn holds its checkpoint only yields an Error.
MayAcquire(g) ==
  /\ pc[g] = "none"
  /\ lease # g                 \* a new generator has an identity of its own
  /\ ckpt = NoCkpt
  /\ turn < MaxTurns

\* Mutant: the repair of the transcript is put off again.
PostponeCleanup == UNCHANGED <<log, pending>>

\* _retry_pending_turn_cleanup; when it fails again, run changes nothing.
RetryCleanup ==
  /\ log' = IF pending = 0 THEN log ELSE Truncate(log, pending)
  /\ pending' = 0

OpenStats(g) == statsLease' = g /\ statsSeq' = 0

\* run() up to its first await.
Acquire(g) ==
  /\ MayAcquire(g)
  /\ RetryCleanup
  /\ OpenStats(g)
  /\ pc' = [pc EXCEPT ![g] = "pre"]
  /\ at' = [at EXCEPT ![g] = "in"]
  /\ drv' = [drv EXCEPT ![g] = "live"]
  /\ lease' = g /\ active' = g
  /\ ckpt' = [mem |-> mem, idx |-> turnIndex, side |-> side]
  /\ msgSeq' = 0 /\ cancelReq' = FALSE /\ committed' = FALSE
  /\ told' = "none"
  /\ turn' = turn + 1
  /\ UNCHANGED <<workVars, crashes>>

-----------------------------------------------------------------------------
(* _run_turn: the body of the turn that holds the lease *)

\* A user_message hook blocks the input: nothing was committed.
Block(g) ==
  /\ Runs(g, "pre")
  /\ ClearTurn
  /\ FinishStats(log, FALSE)
  /\ Goto(g, "terminal", "out")
  /\ UNCHANGED <<told, workVars, pending, turn, crashes>>

\* Mutant: the sequence is read before the row is written.
UserSequenceStale == Len(log)

\* last_sequence: what the transaction of the user message returned.
UserSequence == Len(log) + 1

\* memory.add(user_message) and the sequence of its row.
SubmitUser(g) ==
  /\ Runs(g, "pre")
  /\ mem' = mem \cup {Message(log, "user", 0)}
  /\ log' = Append(log, RowOf(Message(log, "user", 0)))
  /\ msgSeq' = UserSequence
  /\ statsSeq' = UserSequence
  /\ Goto(g, "compact", "in")
  /\ UNCHANGED <<lease, active, ckpt, cancelReq, committed, statsLease,
                 told, turnIndex, before, side, pending, turn, crashes>>

Summary == [n |-> 0, t |-> turn, role |-> "summary", calls |-> 0]

\* save_compaction: anchored at the last row; the two newest bodies stay.
SaveSnapshot(snap) ==
  LET bodies == {i \in DOMAIN log : log[i].snap # NoSnap} \ {Len(log)}
  IN  [i \in DOMAIN log |->
         IF i = Len(log) THEN [log[i] EXCEPT !.snap = snap]
         ELSE IF \E o \in bodies : i < o THEN [log[i] EXCEPT !.snap = NoSnap]
         ELSE log[i]]

\* The newest whole blocks of memory, never none of them: what compaction and
\* eviction may leave (WindowMemory._blocks).
Tails ==
  {ms \in SUBSET mem :
     /\ ms # {} /\ IsNewestOf(ms, mem)
     /\ \A m \in ms : m.role = "tool" =>
          \E a \in ms : a.role = "assistant" /\ a.n < m.n
                        /\ m.n <= a.n + a.calls}

\* maybe_compact keeps the turn's memory as it is, or replaces all but a tail
\* by one summary and saves that working set at the last row.
Compact(g) ==
  /\ Runs(g, "compact")
  /\ \/ UNCHANGED <<mem, log>>
     \/ \E tail \in Tails \ {mem} :
          /\ Shrinks
          /\ IsNewestOf(tail, Trimmed(log, 1, Len(log)))
          /\ mem' = tail \cup {Summary}
          /\ log' = SaveSnapshot([mem |-> mem', idx |-> turnIndex])
  /\ Goto(g, "iter", "in")
  /\ UNCHANGED <<turnVars, statVars, told, turnIndex, before, side,
                 pending, turn, crashes>>

\* The next request of the loop: render may evict the oldest messages.
Request(g) ==
  /\ Runs(g, "iter")
  /\ turnIndex - ckpt.idx < MaxIters
  /\ turnIndex' = turnIndex + 1
  /\ IF Shrinks THEN mem' \in Tails ELSE UNCHANGED mem
  /\ Goto(g, "stream", "in")
  /\ UNCHANGED <<turnVars, statVars, told, before, side, pending, log,
                 turn, crashes>>

\* Streamed text, a retry or a notice is yielded to the consumer; the notices
\* of tool hooks come when their batch is done.
Emit(g) ==
  /\ Runs(g, "pre") \/ Runs(g, "iter") \/ Runs(g, "stream") \/ Runs(g, "tools")
  /\ Goto(g, IF pc[g] = "tools" THEN "results" ELSE pc[g], "out")
  /\ UNCHANGED <<turnVars, statVars, told, workVars, pending, log, turn,
                 crashes>>

\* turn_end hooks start to run.
EnterTurnEnd(g) ==
  /\ told' = "ended"
  /\ Goto(g, "ending", "in")

\* Mutant: a failed request also takes back the iteration before it.
IterationsBefore == turnIndex - 2

\* The iterations without the request that is not answered.
AnsweredIterations == turnIndex - 1

\* The model request failed for good: no assistant message was committed.
ModelFails(g) ==
  /\ Runs(g, "stream")
  /\ turnIndex' = AnsweredIterations
  /\ EnterTurnEnd(g)
  /\ UNCHANGED <<turnVars, statVars, before, side, mem, pending, log, turn,
                 crashes>>

AppendMessage(role, calls) ==
  /\ mem' = mem \cup {Message(log, role, calls)}
  /\ log' = Append(log, RowOf(Message(log, role, calls)))

\* A complete reply still passes the guardrail; one that was cut off by a limit
\* passed it before it was committed, and its calls are dropped.
Reply(g) ==
  /\ Runs(g, "stream")
  /\ AppendMessage("assistant", 0)
  /\ EnterTurnEnd(g) \/ (Goto(g, "replied", "in") /\ UNCHANGED told)
  /\ UNCHANGED <<turnVars, statVars, turnIndex, before, side, pending, turn,
                 crashes>>

GuardReply(g) ==
  /\ Runs(g, "replied")
  /\ EnterTurnEnd(g)
  /\ UNCHANGED <<turnVars, statVars, workVars, pending, log, turn, crashes>>

\* The reply asks for tools; ToolCallStarted is yielded for each call.
ReplyWithCalls(g) ==
  /\ Runs(g, "stream")
  /\ \E c \in 1 .. MaxCalls : AppendMessage("assistant", c)
  /\ Goto(g, "calls", "out")
  /\ UNCHANGED <<turnVars, statVars, told, turnIndex, before, side,
                 pending, turn, crashes>>

\* _dispatch begins; what the batch changes is compared with this snapshot.
Dispatch(g) ==
  /\ Runs(g, "calls")
  /\ before' = side
  /\ Goto(g, "tools", "in")
  /\ UNCHANGED <<turnVars, statVars, told, turnIndex, side, mem, pending,
                 log, turn, crashes>>

\* A tool of the batch changes skills, approvals or todos.
ToolEffect(g) ==
  /\ Runs(g, "tools")
  /\ side = before
  /\ side' \in Sides \ {side}
  /\ UNCHANGED <<genVars, turnVars, statVars, told, turnIndex, before, mem,
                 pending, log, turn, crashes>>

\* The last assistant row has calls without a result row.
OpenCalls ==
  \E a \in DOMAIN log :
    /\ log[a].msg.role = "assistant"
    /\ a + log[a].msg.calls > Len(log)
    /\ \A o \in DOMAIN log : log[o].msg.role = "assistant" => o <= a

\* One result of the finished batch is committed and yielded.
ToolResult(g) ==
  /\ Runs(g, "tools") \/ Runs(g, "results")
  /\ OpenCalls
  /\ AppendMessage("tool", 0)
  /\ Goto(g, "results", "out")
  /\ UNCHANGED <<turnVars, statVars, told, turnIndex, before, side,
                 pending, turn, crashes>>

\* All results are in: media is hoisted, then changed state is saved at the
\* last row and the loop goes round.
FinishBatch(g) ==
  /\ Runs(g, "results")
  /\ ~OpenCalls
  /\ \E media \in BOOLEAN :
       LET m == Message(log, "media", 0)
           l == IF media THEN Append(log, RowOf(m)) ELSE log
       IN  /\ mem' = IF media THEN mem \cup {m} ELSE mem
           /\ log' = IF side = before THEN l
                     ELSE [l EXCEPT ![Len(l)].side = side]
  /\ before' = NoSide
  /\ Goto(g, "iter", "in")
  /\ UNCHANGED <<turnVars, statVars, told, turnIndex, side, pending, turn,
                 crashes>>

MaxIterations(g) ==
  /\ Runs(g, "iter")
  /\ turnIndex - ckpt.idx = MaxIters
  /\ EnterTurnEnd(g)
  /\ UNCHANGED <<turnVars, statVars, workVars, pending, log, turn, crashes>>

\* The hooks are done.  Their notices, if any, are yielded before the turn
\* state is released.
TurnEndNotices(g) ==
  /\ Runs(g, "ending")
  /\ Goto(g, "notices", "out")
  /\ UNCHANGED <<turnVars, statVars, told, workVars, pending, log, turn,
                 crashes>>

\* _clear_turn_state, the tally, and the terminal event is yielded.
Release(g) ==
  /\ \/ Runs(g, "ending")
     \/ pc[g] = "notices" /\ drv[g] # "cancelling" /\ lease = g
  /\ ClearTurn
  /\ \E saved \in BOOLEAN : FinishStats(log, saved)
  /\ pc' = [pc EXCEPT ![g] = "terminal"]
  /\ at' = [at EXCEPT ![g] = "out"]
  /\ drv' = [drv EXCEPT ![g] = "live"]
  /\ told' = "none"
  /\ UNCHANGED <<workVars, pending, turn, crashes>>

\* An exception other than cancellation leaves the body (a hook, the
\* guardrail, the budget, the composer, a store write): run contains it.
Fail(g) ==
  /\ pc[g] \in {"pre", "compact", "iter", "stream", "replied", "tools",
               "results"}
  /\ at[g] = "in" /\ drv[g] = "live"
  /\ Rollback
  /\ Goto(g, "terminal", "out")

\* A process-level exit passes through: rolled back, but no tally is closed.
Abort(g) ==
  /\ pc[g] \in {"pre", "compact", "iter", "stream", "replied", "tools",
               "results", "ending"}
  /\ at[g] = "in" /\ drv[g] = "live"
  /\ \E ok \in BOOLEAN : /\ RestoreMemory
                         /\ pending' = PendingAfter(ok)
                         /\ log' = TruncatedLog(ok)
  /\ told' = "voided"
  /\ ClearTurn
  /\ Finish(g)
  /\ before' = NoSide
  /\ UNCHANGED <<statVars, turn, crashes>>

-----------------------------------------------------------------------------
(* The generator protocol: consumers, tasks, stop and finalize *)

\* The consumer asks for the next event, in the same task or in a new one.
\* A generator whose lease is gone just ends.
Resume(g) ==
  /\ pc[g] \notin {"none", "notices"} \/ (pc[g] = "notices" /\ lease # g)
  /\ at[g] = "out" /\ drv[g] # "cancelling"
  /\ IF lease # g THEN Finish(g) /\ UNCHANGED active
     ELSE /\ active' = g
          /\ at' = [at EXCEPT ![g] = "in"]
          /\ drv' = [drv EXCEPT ![g] = "live"]
          /\ UNCHANGED pc
  /\ UNCHANGED <<lease, ckpt, msgSeq, cancelReq, committed, statVars, told,
                 workVars, pending, log, turn, crashes>>

\* The task of g is suspended, in the body or in its consumer: only then does
\* other code of the event loop run.
Suspended(g) ==
  \/ at[g] = "out"
  \/ pc[g] \in {"pre", "compact", "iter", "stream", "replied", "tools",
                "ending"}
  \/ pc[g] = "results" /\ ~OpenCalls

\* cancel_turn: the task that drives the turn is told to stop.
CancelTurn ==
  /\ active # NoGen /\ ~Dead(active) /\ Suspended(active)
  /\ drv' = [drv EXCEPT ![active] = "cancelling"]
  /\ cancelReq' = TRUE
  /\ UNCHANGED <<pc, at, lease, active, ckpt, msgSeq, committed, statVars,
                 told, workVars, pending, log, turn, crashes>>

\* The task is cancelled by its owner, not through the agent.
Interrupt(g) ==
  /\ pc[g] # "none" /\ drv[g] = "live" /\ Suspended(g)
  /\ drv' = [drv EXCEPT ![g] = "cancelling"]
  /\ UNCHANGED <<pc, at, turnVars, statVars, told, workVars, pending, log,
                 turn, crashes>>

\* Mutant: a cancellation nobody asked the agent for is not remembered.
HandOverUnasked(g) ==
  /\ active' = NoGen
  /\ committed' = (committed \/ pc[g] = "ending")
  /\ UNCHANGED cancelReq

\* The checkpoint stays for finalize_cancelled_turn; inside turn_end hooks the
\* outcome is committed.
HandOver(g) ==
  /\ cancelReq' = TRUE
  /\ active' = NoGen
  /\ committed' = (committed \/ pc[g] = "ending")

\* CancelledError inside an await of the body.
CancelledInside(g) ==
  /\ at[g] = "in" /\ drv[g] = "cancelling" /\ Suspended(g)
  /\ Finish(g)
  /\ IF lease = g THEN HandOver(g)
     ELSE UNCHANGED <<cancelReq, active, committed>>
  /\ UNCHANGED <<lease, ckpt, msgSeq, statVars, told, workVars, pending,
                 log, turn, crashes>>

\* The consumer's task stops at its own await and leaves the generator
\* suspended: cancelled there, or finished or failed without closing it.
TaskStops(g) ==
  /\ pc[g] # "none" /\ at[g] = "out" /\ ~Dead(g)
  /\ drv' = [drv EXCEPT ![g] = IF drv[g] = "live" THEN "ended" ELSE "cancelled"]
  /\ UNCHANGED <<pc, at, turnVars, statVars, told, workVars, pending, log,
                 turn, crashes>>

\* Mutant: a stale generator closes whatever tally is open.
StaleCloseTally ==
  /\ FinishStats(log, TRUE)
  /\ UNCHANGED <<turnVars, told, workVars, pending, turn, crashes>>

\* A generator that lost its lease finds neither turn nor tally of its own.
StaleClose ==
  UNCHANGED <<turnVars, statVars, told, workVars, pending, log, turn, crashes>>

\* aclose() of a suspended generator, by its consumer or by the event loop's
\* finalizer once nobody holds it (GeneratorExit in run).
Close(g) ==
  /\ pc[g] # "none" /\ at[g] = "out"
  /\ Finish(g)
  /\ IF lease # g THEN StaleClose
     ELSE IF cancelReq \/ (active # NoGen /\ drv[active] = "cancelled")
     THEN /\ cancelReq' = TRUE
          /\ active' = NoGen
          /\ UNCHANGED <<lease, ckpt, msgSeq, committed, statVars, told,
                         workVars, pending, log, turn, crashes>>
     ELSE Rollback

\* finalize_cancelled_turn raises until the driving task has stopped.
CanFinalize ==
  /\ ckpt # NoCkpt /\ cancelReq
  /\ active # NoGen => Dead(active)

\* Mutant: a stop always voids the turn.
FinalizeAsVoid == CanFinalize /\ Rollback /\ UNCHANGED genVars

\* A committed outcome is returned as it is; any other turn is rolled back.
Finalize ==
  /\ CanFinalize
  /\ IF committed
     THEN /\ ClearTurn
          /\ \E saved \in BOOLEAN : FinishStats(log, saved)
          /\ told' = "none"
          /\ UNCHANGED <<workVars, pending, turn, crashes>>
     ELSE Rollback
  /\ UNCHANGED genVars

\* The process dies; a new one attaches to the session (from_profile).
Crash ==
  /\ crashes < MaxCrashes
  /\ crashes' = crashes + 1
  /\ pc' = [g \in Gens |-> "none"]
  /\ at' = [g \in Gens |-> "out"]
  /\ drv' = [g \in Gens |-> "ended"]
  /\ ClearTurn
  /\ statsLease' = NoGen /\ statsSeq' = 0
  /\ told' = "none"
  /\ pending' = 0
  /\ mem' = Replay(log).mem
  /\ turnIndex' = Replay(log).idx
  /\ side' = Replay(log).side /\ before' = NoSide
  /\ UNCHANGED <<log, turn>>

Body(g) ==
  \/ Block(g) \/ SubmitUser(g) \/ Compact(g) \/ Request(g) \/ ModelFails(g)
  \/ Reply(g) \/ GuardReply(g) \/ ReplyWithCalls(g) \/ Dispatch(g)
  \/ ToolEffect(g) \/ ToolResult(g) \/ FinishBatch(g) \/ MaxIterations(g)
  \/ TurnEndNotices(g) \/ Release(g) \/ Fail(g) \/ Abort(g)
  \/ CancelledInside(g)

Consumer(g) == Resume(g) \/ TaskStops(g) \/ Close(g)

Next ==
  \/ \E g \in Gens : Acquire(g) \/ Emit(g) \/ Interrupt(g)
  \/ \E g \in Gens : Body(g) \/ Consumer(g)
  \/ CancelTurn \/ Finalize \/ Crash

Spec == Init /\ [][Next]_vars

-----------------------------------------------------------------------------
(* Properties *)

Places == {"none", "pre", "compact", "iter", "stream", "replied", "calls",
           "tools", "results", "ending", "notices", "terminal"}

TypeOK ==
  /\ pc \in [Gens -> Places]
  /\ at \in [Gens -> {"in", "out"}]
  /\ drv \in [Gens -> {"live", "cancelling", "cancelled", "ended"}]
  /\ lease \in Gens \cup {NoGen}
  /\ active \in Gens \cup {NoGen}
  /\ ckpt \in Ckpt \cup {NoCkpt}
  /\ msgSeq \in Nat /\ statsSeq \in Nat /\ pending \in Nat
  /\ cancelReq \in BOOLEAN
  /\ committed \in BOOLEAN
  /\ told \in {"none", "ended", "voided"}
  /\ statsLease \in Gens \cup {NoGen}
  /\ turnIndex \in Nat /\ turn \in Nat /\ crashes \in Nat
  /\ side \in Sides /\ before \in Sides \cup {NoSide}
  /\ mem \in SUBSET Msg
  /\ log \in Seq(Row)

\* The transcript without the tail a failed rollback still has to remove.
Settled == IF pending = 0 THEN log ELSE Truncate(log, pending)

\* Whenever no turn is active, a restart on the settled transcript resumes
\* exactly what this process holds: the turn index, the skills, approvals and
\* todos, and a memory that this one is the unevicted end of.
ReplayAgreement ==
  ckpt = NoCkpt =>
    LET r == Replay(Settled)
    IN  /\ turnIndex = r.idx
        /\ side = r.side
        /\ IsNewestOf(mem, r.mem)

\* A compaction can always be saved: the working set between turns is the
\* canonical suffix of the settled transcript, whatever crashes, rollbacks
\* and evictions went before (_canonical_message_suffix).
CompactionSavable ==
  ckpt = NoCkpt =>
    IsNewestOf(mem \ Summaries(mem), Trimmed(Settled, 1, Len(Settled)))

\* The turn that holds the lease still has its own usage tally open: a stale
\* generator that closes late cannot consume it (_finish_turn_stats).
TallyBelongsToTurn == lease # NoGen => statsLease = lease

\* Statistics land at the user message of the turn they measured.
StatsAtOwnUserMessage ==
  \A i \in DOMAIN log : log[i].stats # 0 =>
    log[i].msg.role = "user" /\ log[i].stats = log[i].msg.t

\* Only the generator that holds the lease is ever inside its body, so two
\* generators never write memory or transcript in turns.
OnlyLeaseHolderRuns == \A g \in Gens : at[g] = "in" => lease = g

\* What a running turn has written is the end of the transcript: from its
\* user message on, and nothing before it, which is what truncate_after
\* assumes when the turn is voided.
TurnOwnsTail ==
  ckpt # NoCkpt =>
    \A i \in DOMAIN log :
      (log[i].msg.t = turn) <=> (msgSeq # 0 /\ i >= msgSeq)

\* One turn runs at a time: no other generator is in its body, writes its rows
\* or takes its tally, however late it is resumed or closed (Agent.run).
TurnIsAlone == OnlyLeaseHolderRuns /\ TallyBelongsToTurn /\ TurnOwnsTail

\* Nothing is appended to the transcript behind a voided tail that is still
\* there: the next turn starts only once the pending truncate succeeded.
AppendsBehindSettled == Len(log') > Len(log) => pending = 0 /\ pending' = 0

NoAppendBehindVoidedTail == [][AppendsBehindSettled]_vars

\* A step that removes rows removes the end of one turn, keeps that turn's
\* user message, and leaves every earlier row as it was.
RemovesOneTail ==
  Len(log') < Len(log) =>
    /\ Len(log') > 0
    /\ log[Len(log')].msg.role = "user"
    /\ \A i \in 1 .. Len(log) :
         IF i < Len(log') THEN log'[i] = log[i]
         ELSE log[i].msg.t = log[Len(log')].msg.t

RemovesOnlyOneTurnsTail == [][RemovesOneTail]_vars

\* The transcript loses only the whole end of one voided turn, and nothing is
\* written behind an end that is still to be removed (Agent._rollback_turn).
TranscriptIsSettled == NoAppendBehindVoidedTail /\ RemovesOnlyOneTurnsTail

\* The lease is never handed from one generator to another, and while it is
\* held the state a rollback would restore does not change.
KeepsCheckpoint ==
  lease # NoGen /\ lease' # NoGen => lease' = lease /\ ckpt' = ckpt

CheckpointIsStable == [][KeepsCheckpoint]_vars

\* A turn whose terminal event was committed inside turn_end is not rolled
\* back: nothing it wrote is taken out of memory or transcript.
KeepsCommitted ==
  committed /\ crashes' = crashes =>
    mem' = mem /\ turnIndex' = turnIndex /\ Len(log') = Len(log)

CommittedIsKept == [][KeepsCommitted]_vars

\* docs/plugins.md:176: turn_rolled_back is "Not called for a committed
\* turn, Stop during `turn_end`", and turn_end runs "after the outcome is
\* committed" (docs/plugins.md:175): a Stop that arrives once the plugins were
\* told of a turn's end does not tell them that the same turn was voided.
EndedTurnIsNotVoided ==
  [][told = "ended" /\ cancelReq => told' # "voided"]_vars

-----------------------------------------------------------------------------
(* Refinement: between turns the agent is a Conversation *)

Contract ==
  INSTANCE Conversation WITH
    conv <- IF ckpt = NoCkpt THEN mem ELSE ckpt.mem,
    phase <- CASE ckpt # NoCkpt -> "running"
               [] ckpt = NoCkpt /\ told = "voided" -> "voided"
               [] OTHER -> "open"

\* Every turn is kept as a whole or voided as a whole, whatever stops, errors,
\* failed repairs and crashes happen inside it.
TurnsAreAtomic == Contract!Spec

-----------------------------------------------------------------------------
(* Liveness: fairness of the event loop and of the frontend *)

\* A body at an await goes on, a consumer takes the next event or its task
\* ends, an abandoned generator is finalized, a stopped turn is finalized.
Fairness ==
  /\ \A g \in Gens : SF_vars(Body(g))
  /\ \A g \in Gens : WF_vars((drv[g] = "live" /\ Resume(g)) \/ Release(g))
  /\ \A g \in Gens : WF_vars(drv[g] = "cancelling" /\ TaskStops(g))
  /\ \A g \in Gens : WF_vars(Dead(g) /\ Close(g))
  /\ WF_vars(Finalize)

FairSpec == Spec /\ Fairness

\* No stop, crash, failed write or abandoned stream leaves the lease held for
\* good.
LeaseIsReleased == (lease # NoGen) ~> (lease = NoGen)

=============================================================================
