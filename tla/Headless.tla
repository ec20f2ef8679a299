------------------------------ MODULE Headless ------------------------------
(***************************************************************************)
(* A headless run (execution.py: ScriptedFrontend, run_headless) over the  *)
(* session loop (io/base.py): the driver awaits a session task that reads  *)
(* a script of turns; a deadline runs beside it, the caller may cancel the *)
(* driver at any of its awaits, and every exit is meant to finalize a turn *)
(* left pending, settle the outcome and close the agent.                   *)
(*                                                                         *)
(* asyncio: cancelling a task that awaits another one cancels that one and *)
(* is delivered when it ends; on anything else it is delivered at once.    *)
(***************************************************************************)
EXTENDS Naturals

CONSTANTS
  Turns,      \* turns of the script
  MaxCancels  \* bound on the cancellations by the caller

VARIABLES
  left,       \* turns not read yet
  good,       \* turns that were completed
  sess,       \* "reading" | "turn" | "stopping" | "ended" | "cancelled" | "failed"
  unwinding,  \* a cancellation of the session is on its way
  pending,    \* turn_pending_finalization
  outcome,    \* agent.execution_outcome
  timer,      \* "none" | "armed" | "fired" | "off"
  drv,        \* "awaiting" | "gathering" | "untiming" | "closing" | "returned" | "raised"
  hit,        \* a cancellation the driver finds at its await
  cancels,    \* those the caller made: task.cancelling()
  interrupted, failure, raising,
  result,     \* the outcome that was settled
  closed,     \* agent.aclose was called
  skipped     \* the caller's cancellation hit the wait for the timer

session == <<left, good, sess, unwinding, pending, outcome>>
driver == <<drv, hit, cancels, interrupted, failure, raising, result, closed, skipped>>
vars == <<session, timer, driver>>

Over == sess \in {"ended", "cancelled", "failed"}
TimedOut == timer = "fired"

\* ---- the session --------------------------------------------------------------

\* ScriptedFrontend.read_input: the script ends at a deadline or a bad outcome.
ReadsOn == outcome \in {"none", "completed"} /\ left > 0
ReadsNext == ~TimedOut /\ ReadsOn

Read ==
  /\ sess = "reading" /\ ~unwinding
  /\ IF ReadsNext
     THEN sess' = "turn" /\ left' = left - 1 /\ outcome' = "none"
     ELSE sess' = "ended" /\ UNCHANGED <<left, outcome>>
  /\ UNCHANGED <<good, unwinding, pending, timer, driver>>

\* The budget's deadline can stop a request or a tool before the timer runs.
BadEnds == {"failed", "budget_exceeded"} \cup {o \in {"timed_out"} : timer # "none"}

\* A turn ends by itself, or breaks the session.
TurnEnds ==
  /\ sess = "turn"
  /\ \/ sess' = "reading" /\ outcome' = "completed" /\ good' = good + 1
     \/ sess' = "reading" /\ outcome' \in BadEnds /\ UNCHANGED good
     \/ sess' = "failed" /\ outcome' = "failed" /\ UNCHANGED good
  /\ ~unwinding
  /\ UNCHANGED <<left, unwinding, pending, timer, driver>>

\* cancel_turn: the turn's task stops and run_session finalizes it. It may
\* have committed before, and then its outcome stays.
TurnStops ==
  /\ sess = "stopping" /\ ~unwinding
  /\ sess' = "reading"
  /\ \/ outcome' = "completed" /\ good' = good + 1
     \/ outcome' = "cancelled" /\ UNCHANGED good
  /\ UNCHANGED <<left, unwinding, pending, timer, driver>>

\* The session is cancelled; a turn in it keeps its checkpoint.
Unwind ==
  /\ unwinding /\ ~Over
  /\ sess' = "cancelled" /\ unwinding' = FALSE
  /\ IF sess \in {"turn", "stopping"}
     THEN \/ pending' = TRUE /\ outcome' = "cancelled" /\ UNCHANGED good
          \/ pending' = TRUE /\ outcome' = "completed" /\ good' = good + 1
     ELSE UNCHANGED <<pending, outcome, good>>
  /\ UNCHANGED <<left, timer, driver>>

\* ---- the deadline ---------------------------------------------------------------

\* A running turn gets the Stop handshake, otherwise the session is cancelled.
Deadline ==
  /\ timer = "armed" /\ drv \in {"awaiting", "gathering"} /\ ~Over
  /\ timer' = "fired"
  /\ IF sess \in {"turn", "stopping"}
     THEN sess' = "stopping" /\ UNCHANGED unwinding
     ELSE unwinding' = TRUE /\ UNCHANGED sess
  /\ UNCHANGED <<left, good, pending, outcome, driver>>

\* ---- the driver --------------------------------------------------------------------

\* The caller cancels. Two of the awaits are on the session: they end when it does.
Cancel ==
  /\ cancels < MaxCancels /\ drv \notin {"returned", "raised"}
  /\ cancels' = cancels + 1
  /\ IF drv \in {"awaiting", "gathering"} /\ ~Over
     THEN unwinding' = TRUE /\ hit' = (hit \/ drv = "gathering")
     ELSE hit' = TRUE /\ UNCHANGED unwinding
  /\ UNCHANGED <<left, good, sess, pending, outcome, timer, drv, interrupted, failure,
                 raising, result, closed, skipped>>

InterruptedUnlessTimedOut == ~TimedOut
Interrupted == ~TimedOut \/ cancels > 0

\* await session: it ended, broke, or was cancelled with or without us.
Awaited ==
  /\ drv = "awaiting" /\ Over
  /\ IF hit \/ sess = "cancelled"
     THEN drv' = "gathering" /\ interrupted' = Interrupted /\ UNCHANGED failure
     ELSE drv' = "untiming" /\ failure' = (sess = "failed") /\ UNCHANGED interrupted
  /\ hit' = FALSE
  /\ UNCHANGED <<session, timer, cancels, raising, result, closed, skipped>>

Gathered ==
  /\ drv = "gathering" /\ Over
  /\ drv' = "untiming" /\ raising' = (interrupted \/ hit)
  /\ hit' = FALSE
  /\ UNCHANGED <<session, timer, cancels, interrupted, failure, result, closed, skipped>>

Settled ==
  IF TimedOut THEN "timed_out"
  ELSE IF interrupted THEN "cancelled"
  ELSE IF failure THEN "failed"
  ELSE IF outcome = "none" THEN "failed"
  ELSE outcome

LeftToTheCaller == pending /\ interrupted
StillPending == FALSE

\* The timer is gone: the turn is finalized and the outcome settled, then the
\* agent is closed.
Finalize ==
  /\ drv = "untiming" /\ ~(hit /\ timer # "none")
  /\ timer' = IF timer = "armed" THEN "off" ELSE timer
  /\ pending' = StillPending
  /\ result' = Settled /\ outcome' = Settled
  /\ drv' = "closing" /\ closed' = TRUE
  /\ UNCHANGED <<left, good, sess, unwinding, hit, cancels, interrupted, failure, raising, skipped>>

\* A cancellation while the cancelled timer is awaited leaves the rest out.
SkipCleanup ==
  /\ drv = "untiming" /\ hit /\ timer # "none"
  /\ drv' = "raised" /\ skipped' = TRUE /\ hit' = FALSE
  /\ timer' = IF timer = "armed" THEN "off" ELSE timer
  /\ UNCHANGED <<session, cancels, interrupted, failure, raising, result, closed>>

\* Closed, failed or out of its time.
CloseEnds ==
  /\ drv = "closing"
  /\ drv' = IF raising \/ hit THEN "raised" ELSE "returned"
  /\ hit' = FALSE
  /\ UNCHANGED <<session, timer, cancels, interrupted, failure, raising, result, closed, skipped>>

Init ==
  /\ left = Turns /\ good = 0 /\ sess = "reading" /\ unwinding = FALSE
  /\ pending = FALSE /\ outcome = "none" /\ timer \in {"none", "armed"}
  /\ drv = "awaiting" /\ hit = FALSE /\ cancels = 0
  /\ interrupted = FALSE /\ failure = FALSE /\ raising = FALSE
  /\ result = "none" /\ closed = FALSE /\ skipped = FALSE

\* All but a turn, which ends if its model and tools do.
Settles ==
  \/ Read \/ TurnStops \/ Unwind \/ Deadline
  \/ Awaited \/ Gathered \/ Finalize \/ SkipCleanup \/ CloseEnds

Next == Settles \/ TurnEnds \/ Cancel

Spec == Init /\ [][Next]_vars /\ WF_vars(Settles)

\* ---- properties ---------------------------------------------------------------------

Ended == drv \in {"returned", "raised"}

\* execution.py:184 promises a bounded cleanup on all exits.
CleansUp == Ended => closed /\ ~pending /\ result # "none"

\* Whatever ends a run - the script, a failure, the deadline, the caller, two of
\* them at once - the session is over, no turn is left pending, the outcome is
\* settled and the agent closed, unless the caller cancels while the timer is
\* awaited.
EveryExitCleansUp == Ended => Over /\ (skipped \/ CleansUp)

\* A result says "completed" only of a script of which every turn was read and
\* completed, "timed_out" whenever the deadline struck and only if there is one,
\* and a caller that cancelled never gets a result as if it had not.
OutcomeIsTruthful ==
  drv = "returned" =>
    /\ result = "completed" => left = 0 /\ good = Turns
    /\ TimedOut => result = "timed_out"
    /\ result = "timed_out" => timer # "none"
    /\ cancels = 0

\* A run with a deadline ends, though a turn need not end by itself.
DeadlineEndsTheRun == (timer = "armed") ~> Ended

\* Every run is cleaned up, reports what became of it, and starts no turn after
\* its deadline (run_headless).
RunsEndProperly == []EveryExitCleansUp /\ []OutcomeIsTruthful /\ DeadlineEndsTheRun

=============================================================================
