------------------------------- MODULE EvalJobs -------------------------------
(***************************************************************************)
(* The execution ledger of an evaluation job (evaluation/jobs.py) and the  *)
(* runner that extends it (evaluation/runner.py _trial, _execute_job,      *)
(* resume).                                                                *)
(*                                                                         *)
(* A job runs the trials of a frozen plan in order.  Each attempt is an    *)
(* execution with files of its own: trial.json before anything else, a     *)
(* scratch directory while it works, result.json at the very end.  Files   *)
(* are never rewritten; a write that dies half-way leaves a damaged one.   *)
(* Ctrl-C, a full disk or a kill ends an invocation anywhere; eval resume  *)
(* reads the ledger again, sets aside what it cannot assign, marks what    *)
(* has no result, and goes on.  The job lock, released by the operating    *)
(* system when its holder dies, admits one invocation at a time.           *)
(*                                                                         *)
(* Grades never enter selection and are left out: "valid" is any end that  *)
(* counts for the trial.  Evidence and traces are left out as well.        *)
(***************************************************************************)
EXTENDS Naturals, FiniteSets, Sequences

CONSTANTS
  NTrials,        \* trials of the frozen plan, at least one
  Retries,        \* RetryPolicy.infrastructure_retries
  Flaky,          \* whether a healthy file may be unreadable for a while
  MaxExecutions,  \* bound: executions of the job
  MaxInvocations  \* bound: run, then resumes

VARIABLES
  execs,       \* the executions directory, in order of creation
  pc,          \* where the invocation is; "idle" without one
  inv,         \* invocations so far
  trial,       \* the trial _execute_job is at
  assigned,    \* executions of the last scan ...
  finished,    \* ... and those of them it saw finished
  restartable, \* executions whose fatal stop this resume may replace
  outcome,     \* outcome of the running execution
  unclean,     \* its cleanup_failed
  cancelled    \* Ctrl-C was received while it worked

ledger == <<execs>>
seen == <<assigned, finished>>
running == <<outcome, unclean, cancelled>>
vars == <<ledger, pc, inv, trial, seen, restartable, running>>

Trials == 1 .. NTrials
Outcomes == {"valid", "infra", "fatal", "cancelled"}

-----------------------------------------------------------------------------
(* Reading the ledger *)

\* A record is assigned when its trial.json reads and nobody set it aside.
Assignable(i) == execs[i].trialFile = "good" /\ ~execs[i].quarantined
Assigned == {i \in DOMAIN execs : Assignable(i)}

\* A recovery marker stays authoritative over a result that reads again.
Readable(i) == execs[i].result \in Outcomes
Marked(i) == execs[i].marker = "good"
Finished == {i \in Assigned : Readable(i) /\ ~Marked(i)}

\* Bound: at most one file of one execution is unreadable in one scan.
Flakes == IF Flaky THEN (DOMAIN execs) \X {"trial", "result", "marker"} ELSE {}

\* Two records of one attempt: scan refuses the whole job.
Clash(S) ==
  \E i, j \in S : i # j /\ execs[i].trial = execs[j].trial
                           /\ execs[i].attempt = execs[j].attempt

-----------------------------------------------------------------------------
(* Attempt selection: over the executions S, of which fin finished *)

Of(S, t) == {i \in S : execs[i].trial = t}

Interrupted(i, fin) == i \notin fin \/ execs[i].result = "cancelled"

\* Retryable failures of the trial up to and including i.
Failures(i, S, fin) ==
  {j \in Of(S, execs[i].trial) :
     /\ execs[j].attempt <= execs[i].attempt
     /\ ~Interrupted(j, fin) /\ execs[j].result = "infra"
     /\ ~execs[j].unclean}

Latest(i, S) ==
  \A j \in Of(S, execs[i].trial) : execs[j].attempt <= execs[i].attempt

Unclean(i, fin) == i \in fin /\ execs[i].unclean

Counts(i, fin) == ~Interrupted(i, fin) /\ execs[i].result = "valid"

Stops(i, S, fin) ==
  ~Interrupted(i, fin) /\ execs[i].result = "fatal" /\ Latest(i, S)

\* Mutant: one retry more than allowed.
ExhaustsLate(i, S, fin) ==
  /\ ~Interrupted(i, fin) /\ execs[i].result = "infra"
  /\ Cardinality(Failures(i, S, fin)) > Retries + 1

Exhausts(i, S, fin) ==
  /\ ~Interrupted(i, fin) /\ execs[i].result = "infra"
  /\ Cardinality(Failures(i, S, fin)) > Retries

\* Mutant: an interrupted execution is skipped before its cleanup is looked at.
EndsSkipping(i, S, fin) ==
  ~Interrupted(i, fin) /\ (Unclean(i, fin) \/ Counts(i, fin)
                           \/ Stops(i, S, fin) \/ Exhausts(i, S, fin))

\* The walk in attempt order ends at the first of these.
Ends(i, S, fin) ==
  \/ Unclean(i, fin)
  \/ Counts(i, fin) \/ Stops(i, S, fin) \/ Exhausts(i, S, fin)

\* Mutant: the walk goes on to a later execution.
DecidersLatest(t, S, fin) ==
  {i \in Of(S, t) :
     /\ Ends(i, S, fin)
     /\ \A j \in Of(S, t) :
          Ends(j, S, fin) => execs[j].attempt <= execs[i].attempt}

\* select(): the execution that decides the trial, if any.
Deciders(t, S, fin) ==
  {i \in Of(S, t) :
     /\ Ends(i, S, fin)
     /\ \A j \in Of(S, t) :
          Ends(j, S, fin) => execs[i].attempt <= execs[j].attempt}

Selected(t, S, fin) ==
  {i \in Deciders(t, S, fin) : ~Unclean(i, fin) /\ Counts(i, fin)}

Stopped(t, S, fin) ==
  {i \in Deciders(t, S, fin) : ~Unclean(i, fin) /\ Stops(i, S, fin)}

Resolved(t, S, fin) == Deciders(t, S, fin) # {}

-----------------------------------------------------------------------------
(* Invocations *)

Init ==
  /\ execs = << >> /\ pc = "idle" /\ inv = 0 /\ trial = 1
  /\ assigned = {} /\ finished = {} /\ restartable = {}
  /\ outcome = "valid" /\ unclean = FALSE /\ cancelled = FALSE

\* What a scan returns, and where the invocation goes on; a clash ends it.
Read(next) ==
  \E flake \in Flakes \cup {<<0, "none">>} :
    LET Lost(file) == {i \in DOMAIN execs : flake = <<i, file>>}
        S == Assigned \ Lost("trial")
    IN  /\ assigned' = S
        /\ finished' = {i \in S \ Lost("result") :
                          Readable(i) /\ (Marked(i) => i \in Lost("marker"))}
        /\ pc' = IF Clash(S) THEN "idle" ELSE next

\* eval run with a lock, on a new job.
Run ==
  /\ pc = "idle" /\ inv = 0 /\ inv < MaxInvocations
  /\ inv' = 1 /\ trial' = 1 /\ pc' = "scan"
  /\ UNCHANGED <<ledger, seen, restartable, running>>

\* eval resume takes the job lock and reads the ledger.
Resume ==
  /\ pc = "idle" /\ inv > 0 /\ inv < MaxInvocations
  /\ inv' = inv + 1 /\ trial' = 1
  /\ Read("recover")
  /\ UNCHANGED <<ledger, restartable, running>>

Unassigned == {i \in DOMAIN execs : ~execs[i].quarantined} \ assigned

Quarantine ==
  /\ pc = "recover"
  /\ \E i \in Unassigned : execs' = [execs EXCEPT ![i].quarantined = TRUE]
  /\ UNCHANGED <<pc, inv, trial, seen, restartable, running>>

\* Records to mark: those seen without a usable result.
Unmarked == {i \in assigned \ finished : execs[i].marker # "good"}

MarkInterrupted ==
  /\ pc = "recover" /\ Unassigned = {}
  /\ \E i \in Unmarked : execs' = [execs EXCEPT ![i].marker = "good"]
  /\ UNCHANGED <<pc, inv, trial, seen, restartable, running>>

\* Mutant: only an orphan's scratch is thought to be left.
UnsweptOrphans == {i \in assigned \ finished : execs[i].marker # "good"}

\* mark_interrupted removes the scratch directory unless that was recorded.
Unswept == {i \in assigned \ finished : execs[i].swept \in {"none", "bad"}}

SweepScratch ==
  /\ pc = "recover" /\ Unassigned = {}
  /\ \E i \in Unswept :
       /\ execs[i].marker = "good"
       /\ \/ execs' = [execs EXCEPT ![i].scratch = FALSE, ![i].swept = "removed"]
          \/ /\ execs[i].scratch
             /\ execs' = [execs EXCEPT ![i].swept = "failed"]
  /\ UNCHANGED <<pc, inv, trial, seen, restartable, running>>

Recovered ==
  /\ pc = "recover" /\ Unassigned = {} /\ Unmarked = {} /\ Unswept = {}
  /\ pc' = "scan"
  /\ UNCHANGED <<ledger, inv, trial, seen, restartable, running>>

\* The first scan of _execute_job also fixes what may be restarted.
FirstScan ==
  /\ pc = "scan"
  /\ Read("decide")
  /\ restartable' = IF inv > 1 THEN assigned' ELSE {}
  /\ UNCHANGED <<ledger, inv, trial, running>>

\* Mutant: a stop of this invocation is taken for an old one.
RestartsAny(t) == Stopped(t, assigned, finished) # {}

\* Only a stop found at the start may be replaced.
Restarts(t) == Stopped(t, assigned, finished) \cap restartable # {}

NextTrial ==
  /\ pc = "decide"
  /\ Resolved(trial, assigned, finished) /\ ~Restarts(trial)
  /\ IF Stopped(trial, assigned, finished) # {} \/ trial = NTrials
     THEN pc' = "idle" /\ trial' = trial
     ELSE pc' = pc /\ trial' = trial + 1
  /\ UNCHANGED <<ledger, inv, seen, restartable, running>>

\* Mutant: attempts are counted, and interrupted ones forgotten.
NextAttemptFinished(t) == Cardinality(Of(finished, t)) + 1

NextAttempt(t) ==
  LET tried == {execs[i].attempt : i \in Of(assigned, t)}
  IN  CHOOSE n \in 1 .. Cardinality(DOMAIN execs) + 1 :
        /\ \A a \in tried : a < n
        /\ n = 1 \/ n - 1 \in tried

Execution(file) ==
  [trial |-> trial, attempt |-> NextAttempt(trial), inv |-> inv,
   trialFile |-> file, result |-> "none", unclean |-> FALSE,
   marker |-> "none", swept |-> "none", scratch |-> FALSE,
   quarantined |-> FALSE]

Starting ==
  /\ pc = "decide" /\ Len(execs) < MaxExecutions
  /\ ~Resolved(trial, assigned, finished) \/ Restarts(trial)

\* _trial: trial.json is on disk before the scratch directory exists.
StartTrial ==
  /\ Starting
  /\ execs' = Append(execs, Execution("good"))
  /\ pc' = "setup"
  /\ UNCHANGED <<inv, trial, seen, restartable, running>>

Now == Len(execs)

Setup ==
  /\ pc = "setup"
  /\ \/ pc' = "work" /\ execs' = [execs EXCEPT ![Now].scratch = TRUE]
        /\ UNCHANGED outcome
     \/ pc' = "store" /\ outcome' = "infra" /\ UNCHANGED execs
  /\ unclean' = FALSE /\ cancelled' = FALSE
  /\ UNCHANGED <<inv, trial, seen, restartable>>

\* The run ends by itself; a tool or model client may raise CancelledError.
Work ==
  /\ pc = "work"
  /\ outcome' \in Outcomes
  /\ unclean' \in BOOLEAN
  /\ pc' = "sweep"
  /\ UNCHANGED <<ledger, inv, trial, seen, restartable, cancelled>>

\* Ctrl-C: before the run has ended the outcome is "cancelled", after it the
\* outcome stands; either way a result is still written.
CancelWork ==
  /\ pc = "work"
  /\ outcome' \in Outcomes
  /\ unclean' \in BOOLEAN
  /\ cancelled' = TRUE
  /\ pc' = "sweep"
  /\ UNCHANGED <<ledger, inv, trial, seen, restartable>>

\* The scratch directory goes before the result is written.
Sweep ==
  /\ pc = "sweep"
  /\ \/ execs' = [execs EXCEPT ![Now].scratch = FALSE] /\ UNCHANGED unclean
     \/ unclean' = TRUE /\ UNCHANGED execs
  /\ pc' = "store"
  /\ UNCHANGED <<inv, trial, seen, restartable, outcome, cancelled>>

\* result.json, as the last thing.
Stored(o) == [execs EXCEPT ![Now].result = o, ![Now].unclean = unclean]

StoreResult ==
  /\ pc = "store"
  /\ execs' = Stored(outcome)
  /\ pc' = IF cancelled THEN "idle" ELSE "rescan"
  /\ UNCHANGED <<inv, trial, seen, restartable, running>>

Rescan ==
  /\ pc = "rescan"
  /\ Read("decide")
  /\ UNCHANGED <<ledger, inv, trial, restartable, running>>

-----------------------------------------------------------------------------
(* An invocation that does not get to its end *)

\* What the disk may hold of the write or removal that was cut short.
Torn ==
  \/ UNCHANGED execs
  \/ Starting /\ execs' = Append(execs, Execution("bad"))
  \/ pc = "store" /\ execs' = [execs EXCEPT ![Now].result = "bad"]
  \/ pc = "sweep" /\ execs' = [execs EXCEPT ![Now].scratch = FALSE]
  \/ /\ pc = "recover" /\ Unassigned = {}
     /\ \E i \in Unmarked : execs' = [execs EXCEPT ![i].marker = "bad"]
  \/ /\ pc = "recover" /\ Unassigned = {}
     /\ \E i \in Unswept, m \in {"none", "bad"} :
          /\ Marked(i)
          /\ execs' = [execs EXCEPT ![i].scratch = FALSE, ![i].swept = m]

\* A kill, a full disk, or a Ctrl-C that finds no execution at work: one that
\* is being written is finished or torn, one that sweeps gets no result.
Dies ==
  /\ pc # "idle"
  /\ Torn
  /\ pc' = "idle" /\ trial' = 1
  /\ assigned' = {} /\ finished' = {} /\ restartable' = {}
  /\ outcome' = "valid" /\ unclean' = FALSE /\ cancelled' = FALSE
  /\ UNCHANGED inv

Next ==
  \/ Run \/ Resume \/ Quarantine \/ MarkInterrupted \/ SweepScratch \/ Recovered
  \/ FirstScan \/ NextTrial \/ StartTrial \/ Setup \/ Work \/ CancelWork \/ Sweep
  \/ StoreResult \/ Rescan \/ Dies

Spec == Init /\ [][Next]_vars

-----------------------------------------------------------------------------
(* Properties *)

\* No two executions are the same attempt of one trial: scan refuses such a
\* job for good, and its results are lost with it.
AttemptsAreUnique == ~Clash(Assigned)

\* Once an execution of a trial counts, or has failed to clean up, the trial
\* is decided: no run and no resume gives it another chance.
DecisionsAreFinal ==
  \A i, j \in DOMAIN execs :
    /\ i < j /\ execs[i].trial = execs[j].trial
    /\ i \in Finished
    => /\ ~execs[i].unclean
       /\ execs[i].result # "valid"

\* A trial never has more infrastructure failures than the retry policy
\* allows, however often the job was interrupted and resumed.
AllowanceIsKept ==
  \A t \in Trials :
    Cardinality({i \in Finished : execs[i].trial = t /\ ~execs[i].unclean
                                  /\ execs[i].result = "infra"}) <= Retries + 1

\* After recovery only the running execution has a scratch directory, but for
\* those whose removal failed and is on record.
NoScratchLeft ==
  pc \notin {"idle", "recover"} =>
    \A i \in DOMAIN execs :
      execs[i].scratch =>
        \/ i = Now /\ pc \in {"work", "sweep", "store"}
        \/ execs[i].swept = "failed"
        \/ execs[i].result \in Outcomes /\ execs[i].unclean

\* An authentication or configuration stop ends the invocation: nothing starts
\* after it before a resume.
FatalStopsInvocation ==
  \A i, j \in DOMAIN execs :
    i < j /\ execs[i].inv = execs[j].inv /\ ~execs[i].unclean
      => execs[i].result # "fatal"

\* A trial is decided once, within its allowance, by executions that leave
\* nothing behind, over all invocations and interruptions (select, resume).
LedgerIsSound ==
  DecisionsAreFinal /\ AllowanceIsKept /\ FatalStopsInvocation /\ NoScratchLeft

=============================================================================
