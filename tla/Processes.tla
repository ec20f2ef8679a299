------------------------------ MODULE Processes ------------------------------
(***************************************************************************)
(* The process plugin (bundled_plugins/process): commands that go on       *)
(* running across tool calls and turns.  Tool calls of one batch run side  *)
(* by side and share a lock, which they give up while the user is asked    *)
(* and while a start waits for its ready line.  Killing happens in tasks   *)
(* that their callers' cancellation does not reach: a Stop of the turn     *)
(* ends the call, not the kill.                                            *)
(*                                                                         *)
(* Processes are numbered in the order of their start.  What they print is *)
(* reduced to whether the ready line is among it.  Of a sandbox it is      *)
(* assumed that a launch that is cancelled leaves nothing behind, and that *)
(* an abort returns when the command's tree is dead.                       *)
(***************************************************************************)
EXTENDS Naturals, FiniteSets

CONSTANTS
  Calls,         \* tool calls of a batch
  Ports,
  NoPort,
  MaxProcesses,
  MaxExited,
  MaxStarts,     \* bound: processes started
  MaxTurns       \* bound: turns begun

ASSUME ProcessesAssumption ==
  /\ MaxProcesses \in Nat \ {0} /\ MaxExited \in Nat
  /\ MaxStarts \in Nat /\ MaxTurns \in Nat
  /\ NoPort \notin Ports

Procs == 1 .. MaxStarts

VARIABLES
  proc,      \* process -> its command, record, watch and the tasks that stop it
  call,      \* call -> where its handler is
  turn,      \* the last turn begun
  mode,      \* "idle", "running", "stopping" or "closed"
  reap,      \* turn -> processes its _reap has not yet stopped
  closing    \* processes _close_all has not yet stopped

vars == <<proc, call, turn, mode, reap, closing>>

Kinds == {"tool", "reap", "close"}
Free == [at |-> "free", op |-> "list", p |-> 0, port |-> NoPort, watch |-> FALSE]
Unborn ==
  [os |-> "none", state |-> "none", listed |-> FALSE, turn |-> 0, port |-> NoPort,
   ended |-> 0, ready |-> FALSE, changed |-> FALSE, source |-> "none",
   tool |-> "off", reap |-> "off", close |-> "off"]

Listed == {p \in Procs : proc[p].listed}
Live == {p \in Procs : proc[p].os = "live"}
ExitedProcs == {p \in Procs : proc[p].state = "exited"}
RunningProcs == {p \in Listed : proc[p].state = "running"}
Reaping == {t \in 1 .. MaxTurns : reap[t] # {}}

\* No call is between the entry of `use` and its exit.
LockFree == \A c \in Calls : call[c].at \notin {"launch", "stopping"}

CallAt(c, where) == call' = [call EXCEPT ![c].at = where]
Done(c) == call' = [call EXCEPT ![c] = [Free EXCEPT !.at = "done"]]

-----------------------------------------------------------------------------
(* The supervisor of a process *)

\* Mutant: the end of a process wakes nobody.
EndsQuietly(q) ==
  [q EXCEPT !.state = "exited", !.ended = Cardinality(ExitedProcs) + 1,
            !.source = IF @ = "active" THEN "told" ELSE @]

\* The finally of _supervise: a watch that is still wanted tells its end.  Of the
\* time it ended, only the order counts.
Ended(q) ==
  [q EXCEPT !.state = "exited", !.ended = Cardinality(ExitedProcs) + 1, !.changed = TRUE,
            !.source = IF @ = "active" THEN "told" ELSE @]

Waits(c) == call[c].at \in {"scan", "waiting"}

\* A line is stored, perhaps the one a start waits for.  Lines nobody waits for
\* are not told apart.
Feed(p) ==
  /\ proc[p].state = "running" /\ ~proc[p].ready
  /\ \E c \in Calls : Waits(c) /\ call[c].p = p
  /\ \E ready \in BOOLEAN :
       proc' = [proc EXCEPT ![p].ready = ready, ![p].changed = TRUE]
  /\ UNCHANGED <<call, turn, mode, reap, closing>>

\* It exits by itself, or it reaches its lifetime and is aborted.
Exit(p) ==
  /\ proc[p].os = "live"
  /\ proc' = [proc EXCEPT ![p].os = "dead"]
  /\ UNCHANGED <<call, turn, mode, reap, closing>>

\* End of output and an exit status.
Supervise(p) ==
  /\ proc[p].os = "dead" /\ proc[p].state = "running"
  /\ proc' = [proc EXCEPT ![p] = Ended(@)]
  /\ UNCHANGED <<call, turn, mode, reap, closing>>

-----------------------------------------------------------------------------
(* Stopping: _stop, in a task of its own *)

\* Its first part, up to an await: the events of a live watch are dropped.
Stopping(q, kind) ==
  IF q.state = "running"
  THEN [q EXCEPT ![kind] = "abort",
                 !.source = IF @ = "none" THEN @ ELSE "silent"]
  ELSE [q EXCEPT ![kind] = "stopped"]

Abort(p, kind) ==
  /\ proc[p][kind] = "abort"
  /\ proc' = [proc EXCEPT ![p].os = "dead", ![p][kind] = "wait"]
  /\ UNCHANGED <<call, turn, mode, reap, closing>>

\* The supervisor is done, or is cancelled after _STOP_TIMEOUT.
Reaped(p, kind) ==
  /\ proc[p][kind] = "wait"
  /\ \/ /\ proc[p].state = "exited"
        /\ proc' = [proc EXCEPT ![p][kind] = "stopped"]
     \/ /\ proc[p].state = "running"
        /\ proc' = [proc EXCEPT ![p] = [Ended(@) EXCEPT ![kind] = "stopped"]]
  /\ UNCHANGED <<call, turn, mode, reap, closing>>

StopTask(p) == \E kind \in Kinds : Abort(p, kind) \/ Reaped(p, kind)

Newest(S) == {p \in S : \A q \in S : q <= p}

\* _reap and _close_all stop one process after the other, the newest first.
ReapNext(t) ==
  /\ \E p \in Newest(reap[t]) :
     \/ /\ proc[p].reap = "off"
        /\ proc' = [proc EXCEPT ![p] = Stopping(@, "reap")]
        /\ UNCHANGED reap
     \/ /\ proc[p].reap = "stopped"
        /\ reap' = [reap EXCEPT ![t] = @ \ {p}]
        /\ UNCHANGED proc
  /\ UNCHANGED <<call, turn, mode, closing>>

\* The processes are looked up when the voided ones have been reaped.
CloseNext ==
  /\ mode = "closed" /\ Reaping = {}
  /\ \E p \in Newest(closing) :
     \/ /\ proc[p].close = "off"
        /\ proc' = [proc EXCEPT ![p] = Stopping(@, "close")]
        /\ UNCHANGED closing
     \/ /\ proc[p].close = "stopped"
        /\ proc' = [proc EXCEPT ![p].listed = FALSE]
        /\ closing' = closing \ {p}
  /\ UNCHANGED <<call, turn, mode, reap>>

-----------------------------------------------------------------------------
(* Tool calls *)

Asks(c) ==
  /\ mode = "running" /\ call[c].at = "free"
  /\ \/ \E port \in Ports \cup {NoPort}, watch \in BOOLEAN :
          /\ watch => port = NoPort
          /\ call' = [call EXCEPT ![c] =
               [Free EXCEPT !.at = "use", !.op = "start", !.port = port, !.watch = watch]]
     \/ \E p \in Listed :
          call' = [call EXCEPT ![c] = [Free EXCEPT !.at = "use", !.op = "stop", !.p = p]]
     \/ call' = [call EXCEPT ![c] = [Free EXCEPT !.at = "use"]]
  /\ UNCHANGED <<proc, turn, mode, reap, closing>>

\* Mutant: the kills of a voided turn are not waited for.
SettledAlways == TRUE

\* Everything a rollback doomed is reaped.
Settled == Reaping = {}

\* `use`.  A caller that waits for the kills holds the lock; as no other could go
\* on before they end, that is no state of its own.
Enters(c, op) == call[c].at = "use" /\ call[c].op = op /\ LockFree /\ Settled

\* check_capacity; the port of an exited process is taken as long as it is listed.
Fits(port) ==
  /\ Cardinality(RunningProcs) < MaxProcesses
  /\ port # NoPort => \A p \in Listed : proc[p].port # port

\* The oldest of the listed processes that exited, all but the last MaxExited.
Pruned ==
  LET exited == Listed \cap ExitedProcs
  IN  {p \in exited :
         Cardinality({q \in exited : proc[q].ended > proc[p].ended}) >= MaxExited}

Prune == proc' = [p \in Procs |-> [proc[p] EXCEPT !.listed = @ /\ p \notin Pruned]]

\* The first check of a start, before the user is asked.
Check(c) ==
  /\ Enters(c, "start")
  /\ Prune
  /\ IF Fits(call[c].port) THEN CallAt(c, "confirm") ELSE Done(c)
  /\ UNCHANGED <<turn, mode, reap, closing>>

Confirm(c) ==
  /\ call[c].at = "confirm"
  /\ CallAt(c, "approved") \/ Done(c)
  /\ UNCHANGED <<proc, turn, mode, reap, closing>>

\* Mutant: what fitted before the user was asked still fits.
StillFits(port) == TRUE

FitsNow(port) == Fits(port)

Recheck(c) ==
  /\ call[c].at = "approved" /\ LockFree /\ Settled
  /\ IF FitsNow(call[c].port) THEN CallAt(c, "launch") ELSE Done(c)
  /\ UNCHANGED <<proc, turn, mode, reap, closing>>

Unused == {p \in Procs : proc[p].os = "none"}

\* launch_shell returns, or fails; a monitor is not waited for.
Launch(c) ==
  /\ call[c].at = "launch" /\ mode = "running"
  /\ \/ \E p \in Unused :
          /\ \A q \in Unused : p <= q
          /\ proc' = [proc EXCEPT ![p] =
               [Unborn EXCEPT !.os = "live", !.state = "running", !.listed = TRUE,
                              !.turn = turn, !.port = call[c].port,
                              !.source = IF call[c].watch THEN "active" ELSE "none"]]
          /\ IF call[c].watch THEN Done(c)
             ELSE call' = [call EXCEPT ![c] = [Free EXCEPT !.at = "scan", !.p = p]]
     \/ Done(c) /\ UNCHANGED proc
  /\ UNCHANGED <<turn, mode, reap, closing>>

\* wait_ready: nothing is awaited between the scan and the clear.
Scan(c) ==
  /\ \/ call[c].at = "scan"
     \/ call[c].at = "waiting" /\ proc[call[c].p].changed
  /\ LET p == call[c].p
     IN  IF proc[p].ready \/ proc[p].state = "exited"
         THEN Done(c) /\ UNCHANGED proc
         ELSE /\ proc' = [proc EXCEPT ![p].changed = FALSE]
              /\ CallAt(c, "waiting")
  /\ UNCHANGED <<turn, mode, reap, closing>>

NotReadyInTime(c) ==
  /\ Waits(c) /\ Done(c)
  /\ UNCHANGED <<proc, turn, mode, reap, closing>>

\* process_list prunes; process_logs only reads.
List(c) ==
  /\ Enters(c, "list")
  /\ Prune \/ UNCHANGED proc
  /\ Done(c)
  /\ UNCHANGED <<turn, mode, reap, closing>>

\* process_stop of a process that is listed.
StopBegins(c) ==
  /\ Enters(c, "stop")
  /\ LET p == call[c].p
     IN  IF p \in Listed
         THEN /\ proc' = [proc EXCEPT ![p] = Stopping(@, "tool")]
              /\ CallAt(c, "stopping")
         ELSE Done(c) /\ UNCHANGED proc
  /\ UNCHANGED <<turn, mode, reap, closing>>

StopEnds(c) ==
  /\ call[c].at = "stopping" /\ proc[call[c].p].tool = "stopped"
  /\ proc' = [proc EXCEPT ![call[c].p].listed = FALSE]
  /\ Done(c)
  /\ UNCHANGED <<turn, mode, reap, closing>>

-----------------------------------------------------------------------------
(* Turns *)

BeginTurn ==
  /\ mode = "idle" /\ turn < MaxTurns
  /\ mode' = "running" /\ turn' = turn + 1
  /\ UNCHANGED <<proc, call, reap, closing>>

EndTurn ==
  /\ mode = "running" /\ \A c \in Calls : call[c].at \in {"free", "done"}
  /\ mode' = "idle" /\ call' = [c \in Calls |-> Free]
  /\ UNCHANGED <<proc, turn, reap, closing>>

\* A Stop, or a failure: the calls of the batch are cancelled and awaited.
StopTurn ==
  /\ mode = "running" /\ mode' = "stopping"
  /\ UNCHANGED <<proc, call, turn, reap, closing>>

\* Mutant: the kill is cancelled with the call that asked for it.
Unshielded(c) ==
  proc' = [p \in Procs |->
    IF call[c].at = "stopping" /\ p = call[c].p /\ proc[p].tool \in {"abort", "wait"}
    THEN [proc[p] EXCEPT !.tool = "stopped"] ELSE proc[p]]

\* stop() shields _stop.
Shielded(c) == proc' = proc

CancelCall(c) ==
  /\ mode = "stopping" /\ call[c].at \notin {"free", "done"}
  /\ Shielded(c) /\ Done(c)
  /\ UNCHANGED <<turn, mode, reap, closing>>

\* What was started since the turn began.
Doomed == {p \in Listed : proc[p].turn = turn}

\* turn_rolled_back: the watches of the turn fall silent, also those whose
\* processes are no longer listed.
RollBack ==
  /\ mode = "stopping" /\ \A c \in Calls : call[c].at \in {"free", "done"}
  /\ mode' = "idle" /\ call' = [c \in Calls |-> Free]
  /\ proc' = [p \in Procs |->
       [proc[p] EXCEPT !.listed = @ /\ p \notin Doomed,
          !.source = IF @ # "none" /\ proc[p].turn = turn THEN "silent" ELSE @]]
  /\ reap' = [reap EXCEPT ![turn] = Doomed]
  /\ UNCHANGED <<turn, closing>>

\* aclose of an Agent whose turn is over: all watches fall silent.
Close ==
  /\ mode = "idle" /\ mode' = "closed"
  /\ proc' = [p \in Procs |->
       [proc[p] EXCEPT !.source = IF @ = "none" THEN @ ELSE "silent"]]
  /\ closing' = Listed
  /\ UNCHANGED <<call, turn, reap>>

-----------------------------------------------------------------------------

Init ==
  /\ proc = [p \in Procs |-> Unborn]
  /\ call = [c \in Calls |-> Free]
  /\ turn = 0 /\ mode = "idle"
  /\ reap = [t \in 1 .. MaxTurns |-> {}] /\ closing = {}

CallStep(c) ==
  \/ Asks(c) \/ Check(c) \/ Confirm(c) \/ Recheck(c) \/ Launch(c)
  \/ Scan(c) \/ NotReadyInTime(c) \/ List(c) \/ StopBegins(c) \/ StopEnds(c)
  \/ CancelCall(c)

Next ==
  \/ \E p \in Procs : Feed(p) \/ Exit(p) \/ Supervise(p) \/ StopTask(p)
  \/ \E t \in 1 .. MaxTurns : ReapNext(t)
  \/ CloseNext
  \/ \E c \in Calls : CallStep(c)
  \/ BeginTurn \/ EndTurn \/ StopTurn \/ RollBack \/ Close

Spec == Init /\ [][Next]_vars

\* Tasks go on when what they await is there.  A command need not print or
\* exit, a user need not answer, and the ready timeout is left out.
Fairness ==
  /\ \A p \in Procs : WF_vars(Supervise(p)) /\ WF_vars(StopTask(p))
  /\ \A t \in 1 .. MaxTurns : WF_vars(ReapNext(t))
  /\ WF_vars(CloseNext)
  /\ \A c \in Calls : WF_vars(Scan(c)) /\ WF_vars(CancelCall(c))

FairSpec == Spec /\ Fairness

-----------------------------------------------------------------------------
(* Properties *)

\* No more commands run than max_processes, counting those a rollback or a
\* stopped call is still killing, and one port leads the browser to one process,
\* running or exited: two starts of a batch are both checked before either is
\* approved.
LimitsHold ==
  /\ Cardinality(Live) <= MaxProcesses
  /\ \A p, q \in Listed :
       p # q /\ proc[p].port # NoPort => proc[p].port # proc[q].port

\* What a voided turn started is in no list and is silent, and is dead before
\* any tool sees the list again; a command that runs is listed or being killed
\* (docs/plugins.md: "a killed process never appears as running").
VoidedAreGone ==
  LET voided == {p \in Procs : proc[p].turn # 0 /\ proc[p].reap # "off"}
                  \cup UNION {reap[t] : t \in 1 .. MaxTurns}
  IN  /\ voided \cap Listed = {}
      /\ \A p \in voided : proc[p].source \in {"none", "silent"}
      /\ (\E c \in Calls : call[c].at \in {"confirm", "launch", "stopping"})
           => voided \cap Live = {}
      /\ \A p \in Live : p \in Listed \cup voided

\* A process that is being stopped, was voided, or whose agent was closed dies,
\* whatever becomes of the call that asked for it.
StoppedDie ==
  \A p \in Procs :
    (proc[p].tool # "off" \/ proc[p].reap # "off" \/ p \in closing
       \/ \E t \in 1 .. MaxTurns : p \in reap[t])
      ~> proc[p].os = "dead" /\ proc[p].state = "exited"

\* A start that waits is answered when the ready line is there or the process
\* is over, without the timeout: no wake-up is lost between scan and wait.
StartIsAnswered ==
  \A c \in Calls :
    Waits(c) /\ (proc[call[c].p].ready \/ proc[call[c].p].state = "exited")
      ~> ~Waits(c)

\* What is to be stopped dies, and what is waited for is told, whatever becomes
\* of the calls (process_stop, _reap, _close_all, the ready wait).
CommandsSettle == StoppedDie /\ StartIsAnswered

=============================================================================
