--------------------------- MODULE EvalJobsProofs ---------------------------
(***************************************************************************)
(* The ledger of a job whose healthy files stay readable (Flaky = FALSE),  *)
(* for any number of trials, retries, executions and invocations: attempts *)
(* are unique, and a trial is decided once.                                *)
(***************************************************************************)
EXTENDS EvalJobs, SequenceTheorems, FiniteSetTheorems, WellFoundedInduction, TLAPS

Exec ==
  [trial : Nat, attempt : Nat, inv : Nat, trialFile : {"good", "bad"},
   result : Outcomes \cup {"none", "bad"}, unclean : BOOLEAN,
   marker : {"none", "good", "bad"}, swept : {"none", "bad", "removed", "failed"},
   scratch : BOOLEAN, quarantined : BOOLEAN]

AtWork == {"setup", "work", "sweep", "store"}

TypeInv ==
  /\ execs \in Seq(Exec)
  /\ pc \in {"idle", "recover", "scan", "decide", "rescan"} \cup AtWork
  /\ inv \in Nat /\ trial \in Nat
  /\ outcome \in Outcomes /\ unclean \in BOOLEAN /\ cancelled \in BOOLEAN
  /\ restartable \subseteq DOMAIN execs

\* Where the last scan is acted upon nothing it saw has changed.
SeenInv == pc \in {"recover", "decide"} => assigned = Assigned /\ finished = Finished

\* Attempts are numbered from 1 without a gap, so not beyond the executions.
NumberInv ==
  /\ \A i \in DOMAIN execs : execs[i].attempt \in 1 .. i
  /\ AttemptsAreUnique

\* Only a running invocation has executions of its own.
InvInv ==
  /\ \A i \in DOMAIN execs : execs[i].inv \in 1 .. inv
  /\ pc # "idle" => inv > 0
  /\ pc \in {"recover", "scan"} => \A i \in DOMAIN execs : execs[i].inv < inv

\* The newest execution is of the trial at hand, it can be decided by this one
\* alone, and no stop of it may be replaced by this invocation.
Fresh(n) ==
  /\ n = Now /\ n \in Assigned \ restartable
  /\ execs[n].trial = trial /\ execs[n].inv = inv
  /\ execs[n].marker = "none"
  /\ \A j \in Of(Assigned, trial) \ {n} :
       execs[j].attempt < execs[n].attempt /\ ~Ends(j, Assigned, Finished)

\* What runs has no result yet.
RunningInv ==
  /\ pc \in AtWork \cup {"rescan"} => Fresh(Now)
  /\ pc \in AtWork => /\ execs[Now].result = "none" /\ execs[Now].swept = "none"
                      /\ ~execs[Now].unclean

\* A stop of this invocation is what decides the trial at hand.
Fatal(i) == execs[i].result = "fatal" /\ ~execs[i].unclean
StopInv ==
  pc # "idle" =>
    \A i \in DOMAIN execs :
      execs[i].inv = inv /\ Fatal(i) => pc \in {"rescan", "decide"} /\ Fresh(i)

\* Scratch directories belong to executions with a readable trial.json, and a
\* result was only stored over one whose removal failed.
ScratchInv ==
  /\ \A i \in DOMAIN execs :
       execs[i].scratch =>
         /\ Assignable(i)
         /\ execs[i].swept # "removed"
         /\ execs[i].result \in Outcomes => execs[i].unclean
  /\ pc = "setup" => ~execs[Now].scratch
  /\ pc = "store" => (execs[Now].scratch => unclean)

\* What holds of the ledger alone.
LedgerInv == NumberInv /\ DecisionsAreFinal /\ AllowanceIsKept /\ FatalStopsInvocation

IInv ==
  /\ TypeInv /\ SeenInv /\ LedgerInv /\ InvInv /\ RunningInv /\ StopInv
  /\ ScratchInv /\ NoScratchLeft

-----------------------------------------------------------------------------
(* The first and the last of some executions *)

\* The least-number principle.
LEMMA LeastNumber ==
  ASSUME NEW S \in SUBSET Nat, S # {}
  PROVE  \E x \in S : \A y \in S : x <= y
<1>1. \E x \in S : \A y \in S : ~(<<y, x>> \in OpToRel(<, Nat))
  BY NatLessThanWellFounded, WFMin
<1>2. PICK x \in S : \A y \in S : ~(<<y, x>> \in OpToRel(<, Nat))
  BY <1>1
<1>3. \A y \in S : ~(y < x)
  BY <1>2 DEF OpToRel
<1> QED
  BY <1>3

\* The directory as a sequence of records.
LEMMA Entries ==
  ASSUME TypeInv
  PROVE  /\ Len(execs) \in Nat /\ DOMAIN execs = 1 .. Len(execs) /\ Now = Len(execs)
         /\ \A i \in DOMAIN execs : execs[i] \in Exec
  BY DEF TypeInv, Now

\* Of some executions one has the lowest attempt ...
LEMMA FirstExists ==
  ASSUME TypeInv, NEW X \in SUBSET DOMAIN execs, X # {}
  PROVE  \E i \in X : \A j \in X : execs[i].attempt <= execs[j].attempt
<1> DEFINE S == {execs[i].attempt : i \in X}
<1>1. \A i \in X : execs[i].attempt \in Nat
  BY Entries DEF Exec
<1>2. S \in SUBSET Nat /\ S # {}
  BY <1>1
<1>3. PICK x \in S : \A y \in S : x <= y
  <2> HIDE DEF S
  <2> QED BY <1>2, LeastNumber
<1> QED BY <1>3

\* ... and one the highest: attempts are not beyond the executions.
LEMMA LastExists ==
  ASSUME TypeInv, NumberInv, NEW X \in SUBSET DOMAIN execs, X # {}
  PROVE  \E i \in X : \A j \in X : execs[j].attempt <= execs[i].attempt
<1> DEFINE S == {Len(execs) - execs[i].attempt : i \in X}
<1>1. Len(execs) \in Nat
  BY Entries
<1>2. \A i \in X : execs[i].attempt \in Nat /\ execs[i].attempt <= Len(execs)
  BY Entries DEF Exec, NumberInv
<1>3. S \in SUBSET Nat /\ S # {}
  BY <1>1, <1>2
<1>4. PICK x \in S : \A y \in S : x <= y
  <2> HIDE DEF S
  <2> QED BY <1>3, LeastNumber
<1>5. PICK i \in X : x = Len(execs) - execs[i].attempt
  BY <1>4
<1>6. \A j \in X : Len(execs) - execs[i].attempt <= Len(execs) - execs[j].attempt
  BY <1>4, <1>5
<1>7. \A j \in X : execs[j].attempt <= execs[i].attempt
  BY <1>1, <1>2, <1>6
<1> QED BY <1>7

\* Two assigned executions of one trial with one attempt are the same.
LEMMA SameAttempt ==
  ASSUME NumberInv, NEW i \in Assigned, NEW j \in Assigned,
         execs[i].trial = execs[j].trial, execs[i].attempt = execs[j].attempt
  PROVE  i = j
  BY DEF NumberInv, AttemptsAreUnique, Clash

\* A trial one of whose executions ends the walk is decided.
LEMMA EndDecides ==
  ASSUME TypeInv, NEW i \in Assigned, Ends(i, Assigned, Finished)
  PROVE  Resolved(execs[i].trial, Assigned, Finished)
<1> DEFINE t == execs[i].trial
           X == {j \in Of(Assigned, t) : Ends(j, Assigned, Finished)}
<1>1. i \in X
  BY DEF Of
<1>2. X \in SUBSET DOMAIN execs
  BY DEF Of, Assigned
<1>3. PICK k \in X : \A j \in X : execs[k].attempt <= execs[j].attempt
  <2> HIDE DEF X
  <2> QED BY <1>1, <1>2, FirstExists
<1>4. k \in Deciders(t, Assigned, Finished)
  BY <1>3 DEF Deciders
<1> QED BY <1>4 DEF Resolved

\* Once a trial starts again, nothing of it has counted, and only a stop that
\* is not the last attempt any more could have ended the walk.
LEMMA StartsUndecided ==
  ASSUME TypeInv, NumberInv, NEW t, NEW i \in Of(Assigned, t), Ends(i, Assigned, Finished),
         \/ ~Resolved(t, Assigned, Finished)
         \/ Stopped(t, Assigned, Finished) \cap restartable # {}
  PROVE  /\ i \in restartable
         /\ ~Unclean(i, Finished) /\ Stops(i, Assigned, Finished)
<1>1. i \in Assigned /\ execs[i].trial = t
  BY DEF Of
<1>2. Resolved(t, Assigned, Finished)
  BY <1>1, EndDecides
<1>3. PICK d \in Stopped(t, Assigned, Finished) \cap restartable : TRUE
  BY <1>2
<1>4. /\ d \in Of(Assigned, t) /\ d \in restartable
      /\ execs[d].attempt <= execs[i].attempt
      /\ ~Unclean(d, Finished) /\ Stops(d, Assigned, Finished)
  BY <1>3 DEF Stopped, Deciders
<1>5. d \in Assigned /\ execs[d].trial = t
  BY <1>4 DEF Of
<1>6. execs[i].attempt <= execs[d].attempt
  BY <1>4, <1>5 DEF Stops, Latest
<1>7. execs[i].attempt \in Nat /\ execs[d].attempt \in Nat
  BY <1>1, <1>5, Entries DEF Assigned, Exec
<1>8. i = d
  BY <1>1, <1>4, <1>5, <1>6, <1>7, SameAttempt
<1> QED BY <1>4, <1>8

-----------------------------------------------------------------------------
(* What a step changes of the ledger *)

\* Nothing that selection looks at.
SameView ==
  /\ DOMAIN execs' = DOMAIN execs /\ Len(execs') = Len(execs)
  /\ \A i \in DOMAIN execs :
       /\ execs'[i].trial = execs[i].trial /\ execs'[i].attempt = execs[i].attempt
       /\ execs'[i].inv = execs[i].inv /\ execs'[i].result = execs[i].result
       /\ execs'[i].unclean = execs[i].unclean
  /\ Assigned' = Assigned /\ Finished' = Finished

\* Nothing of it but one execution.
OthersSame(n) ==
  /\ Assigned' \ {n} = Assigned \ {n} /\ Finished' \ {n} = Finished \ {n}
  /\ \A i \in Assigned \ {n} :
       /\ execs'[i].trial = execs[i].trial /\ execs'[i].attempt = execs[i].attempt
       /\ execs'[i].result = execs[i].result /\ execs'[i].unclean = execs[i].unclean

\* A later execution ends the walk at none of the earlier ones.
LEMMA EndsKept ==
  ASSUME TypeInv, NEW n, OthersSame(n), NEW j \in Assigned, j # n,
         n \in Assigned => n \in Assigned' /\ execs'[n].trial = execs[n].trial,
         n \in Assigned' /\ execs'[n].trial = execs[j].trial =>
           /\ ~(execs'[n].attempt <= execs[j].attempt)
           /\ n \in Assigned => ~(execs[n].attempt <= execs[j].attempt),
         Ends(j, Assigned, Finished)'
  PROVE  Ends(j, Assigned, Finished)
<1>1. /\ execs'[j].trial = execs[j].trial /\ execs'[j].attempt = execs[j].attempt
      /\ execs'[j].result = execs[j].result /\ execs'[j].unclean = execs[j].unclean
      /\ j \in Assigned' /\ (j \in Finished' <=> j \in Finished)
  BY DEF OthersSame
<1>2. Failures(j, Assigned, Finished)' = Failures(j, Assigned, Finished)
  <2>1. ASSUME NEW i \in Failures(j, Assigned, Finished)'
        PROVE  i \in Failures(j, Assigned, Finished)
    <3>1. /\ i \in Assigned' /\ execs'[i].trial = execs'[j].trial
          /\ execs'[i].attempt <= execs'[j].attempt
          /\ i \in Finished' /\ execs'[i].result # "cancelled"
          /\ execs'[i].result = "infra" /\ ~execs'[i].unclean
      BY <2>1 DEF Failures, Of, Interrupted
    <3>2. i # n
      BY <1>1, <3>1
    <3>3. i \in Assigned /\ i \in Finished
      BY <3>1, <3>2 DEF OthersSame
    <3> QED BY <1>1, <3>1, <3>2, <3>3 DEF Failures, Of, Interrupted, OthersSame
  <2>2. ASSUME NEW i \in Failures(j, Assigned, Finished)
        PROVE  i \in Failures(j, Assigned, Finished)'
    <3>1. /\ i \in Assigned /\ execs[i].trial = execs[j].trial
          /\ execs[i].attempt <= execs[j].attempt
          /\ i \in Finished /\ execs[i].result # "cancelled"
          /\ execs[i].result = "infra" /\ ~execs[i].unclean
      BY <2>2 DEF Failures, Of, Interrupted
    <3>2. i # n
      BY <1>1, <3>1
    <3>3. i \in Assigned' /\ i \in Finished'
      BY <3>1, <3>2 DEF OthersSame
    <3> QED BY <1>1, <3>1, <3>2, <3>3 DEF Failures, Of, Interrupted, OthersSame
  <2> QED BY <2>1, <2>2
<1>3. Stops(j, Assigned, Finished)' => Stops(j, Assigned, Finished)
  <2>1. ASSUME NEW i \in Of(Assigned, execs[j].trial), Latest(j, Assigned)'
        PROVE  execs[i].attempt <= execs[j].attempt
    <3>1. i \in Assigned /\ execs[i].trial = execs[j].trial
      BY DEF Of
    <3>2. \A k \in Assigned' : execs'[k].trial = execs[j].trial =>
                                 execs'[k].attempt <= execs[j].attempt
      BY <1>1, <2>1 DEF Latest, Of
    <3>3. i # n
      BY <3>1, <3>2
    <3> QED BY <3>1, <3>2, <3>3 DEF OthersSame
  <2> QED BY <1>1, <2>1 DEF Stops, Latest, Interrupted
<1> QED BY <1>1, <1>2, <1>3 DEF Ends, Unclean, Counts, Exhausts, Interrupted

\* The infrastructure failures of a trial.
Infra(t) ==
  {i \in Finished : execs[i].trial = t /\ ~execs[i].unclean /\ execs[i].result = "infra"}

LEMMA AllowanceOfInfra ==
  AllowanceIsKept <=> \A t \in Trials : Cardinality(Infra(t)) <= Retries + 1
  BY DEF AllowanceIsKept, Infra

\* Selection sees the same ledger.
LEMMA ViewKeeps ==
  ASSUME TypeInv, LedgerInv, SameView
  PROVE  LedgerInv'
<1>1. NumberInv'
  <2>1. Assigned \subseteq DOMAIN execs
    BY DEF Assigned
  <2> QED BY <2>1 DEF LedgerInv, NumberInv, AttemptsAreUnique, Clash, SameView
<1>2. DecisionsAreFinal'
  BY DEF LedgerInv, DecisionsAreFinal, SameView
<1>3. AllowanceIsKept'
  <2>1. \A t \in Trials : Infra(t)' = Infra(t)
    <3>1. Finished \subseteq DOMAIN execs
      BY DEF Finished, Assigned
    <3> QED BY <3>1 DEF Infra, SameView
  <2>2. \A t \in Trials : Cardinality(Infra(t)) <= Retries + 1
    BY AllowanceOfInfra DEF LedgerInv
  <2>3. \A t \in Trials : Cardinality(Infra(t)') <= Retries + 1
    BY <2>1, <2>2
  <2> QED BY <2>3 DEF AllowanceIsKept, Infra
<1>4. FatalStopsInvocation'
  BY DEF LedgerInv, FatalStopsInvocation, SameView
<1> QED BY <1>1, <1>2, <1>3, <1>4 DEF LedgerInv

LEMMA FreshKept ==
  ASSUME TypeInv, SameView, NEW n, Fresh(n), UNCHANGED <<trial, inv, restartable>>,
         execs'[n].marker = "none"
  PROVE  Fresh(n)'
<1>1. /\ n = Now /\ n \in Assigned \ restartable
      /\ execs[n].trial = trial /\ execs[n].inv = inv
      /\ \A j \in Of(Assigned, trial) \ {n} :
           execs[j].attempt < execs[n].attempt /\ ~Ends(j, Assigned, Finished)
  BY DEF Fresh
<1>2. Assigned \subseteq DOMAIN execs /\ 0 \notin DOMAIN execs
  BY Entries DEF Assigned
<1>3. n = Now' /\ n \in Assigned' \ restartable'
      /\ execs'[n].trial = trial' /\ execs'[n].inv = inv'
  BY <1>1, <1>2 DEF SameView, Now
<1>4. ASSUME NEW j \in Of(Assigned, trial)' \ {n}
      PROVE  execs'[j].attempt < execs'[n].attempt /\ ~Ends(j, Assigned, Finished)'
  <2>1. j \in Assigned' /\ execs'[j].trial = trial
    BY <1>4 DEF Of
  <2>2. j \in Assigned /\ execs[j].trial = trial /\ j \in DOMAIN execs /\ n \in DOMAIN execs
    BY <1>1, <1>2, <2>1 DEF SameView
  <2>3. j \in Of(Assigned, trial) \ {n}
    BY <1>4, <2>2 DEF Of
  <2>4. execs'[j].attempt < execs'[n].attempt
    BY <1>1, <2>2, <2>3 DEF SameView
  <2>5. OthersSame(0) /\ j # 0 /\ 0 \notin Assigned /\ 0 \notin Assigned'
    BY <1>2, <2>2 DEF OthersSame, SameView
  <2>6. ~Ends(j, Assigned, Finished)'
    BY <1>1, <2>2, <2>3, <2>5, EndsKept
  <2> QED BY <2>4, <2>6
<1> QED BY <1>3, <1>4 DEF Fresh

\* A step that does not touch the ledger.
LEMMA SameLedger ==
  ASSUME UNCHANGED execs
  PROVE  SameView
<1>1. Assigned' = Assigned
  BY DEF Assigned, Assignable
<1>2. Finished' = Finished
  BY <1>1 DEF Finished, Readable, Marked
<1> QED BY <1>1, <1>2 DEF SameView

\* One record is replaced.
LEMMA OneReplaced ==
  ASSUME TypeInv, NEW n \in DOMAIN execs, NEW e \in Exec, execs' = [execs EXCEPT ![n] = e]
  PROVE  /\ execs' \in Seq(Exec) /\ Len(execs') = Len(execs) /\ DOMAIN execs' = DOMAIN execs
         /\ execs'[n] = e /\ \A i \in DOMAIN execs : i # n => execs'[i] = execs[i]
  BY DEF TypeInv

\* What is recorded of an execution but not looked at by selection.
Alike(e, r) ==
  /\ e \in Exec
  /\ e.trial = r.trial /\ e.attempt = r.attempt /\ e.inv = r.inv
  /\ e.trialFile = r.trialFile /\ e.result = r.result /\ e.unclean = r.unclean

\* It may change where neither trial.json nor the result counts differently.
LEMMA AlikeView ==
  ASSUME TypeInv, NEW n \in DOMAIN execs, NEW e, Alike(e, execs[n]),
         execs' = [execs EXCEPT ![n] = e],
         (e.trialFile = "good" /\ ~e.quarantined) <=> Assignable(n),
         n \in Assigned /\ e.result \in Outcomes =>
           (e.marker = "good" <=> execs[n].marker = "good")
  PROVE  SameView
<1>1. /\ Len(execs') = Len(execs) /\ DOMAIN execs' = DOMAIN execs
      /\ execs'[n] = e /\ \A i \in DOMAIN execs : i # n => execs'[i] = execs[i]
  BY OneReplaced DEF Alike
<1>2. \A i \in DOMAIN execs : Assignable(i)' <=> Assignable(i)
  BY <1>1 DEF Assignable
<1>3. Assigned' = Assigned
  BY <1>1, <1>2 DEF Assigned
<1>4. \A i \in Assigned : (Readable(i) /\ ~Marked(i))' <=> (Readable(i) /\ ~Marked(i))
  BY <1>1 DEF Readable, Marked, Assigned, Alike
<1>5. Finished' = Finished
  BY <1>3, <1>4 DEF Finished
<1> QED BY <1>1, <1>3, <1>5 DEF SameView, Alike

-----------------------------------------------------------------------------
(* A new execution *)

\* It gets the attempt after the highest one of its trial.
LEMMA AttemptIsNew ==
  ASSUME TypeInv, NumberInv, assigned = Assigned
  PROVE  /\ NextAttempt(trial) \in 1 .. Len(execs) + 1
         /\ \A i \in Of(Assigned, trial) : execs[i].attempt < NextAttempt(trial)
<1> DEFINE X == Of(Assigned, trial)
           tried == {execs[i].attempt : i \in X}
           Next1(n) == (\A a \in tried : a < n) /\ (n = 1 \/ n - 1 \in tried)
<1>1. X \in SUBSET DOMAIN execs
  BY DEF Of, Assigned
<1>2. Cardinality(DOMAIN execs) = Len(execs)
  <2>1. Len(execs) \in Nat /\ DOMAIN execs = 1 .. Len(execs)
    BY Entries
  <2>2. \A k \in Nat : Cardinality(1 .. k) = IF 1 > k THEN 0 ELSE k - 1 + 1
    BY FS_Interval
  <2>3. \A k \in Nat : (IF 1 > k THEN 0 ELSE k - 1 + 1) = k
    OBVIOUS
  <2> QED BY <2>1, <2>2, <2>3
<1>3. \A i \in X : execs[i].attempt \in 1 .. Len(execs)
  BY <1>1, Entries DEF NumberInv
<1>4. \E n \in 1 .. Len(execs) + 1 : Next1(n)
  <2>1. CASE X = {}
    <3>1. tried = {}
      BY <2>1
    <3>2. Next1(1)
      BY <3>1
    <3>3. 1 \in 1 .. Len(execs) + 1
      BY Entries
    <3> HIDE DEF Next1
    <3> QED BY <3>2, <3>3
  <2>2. CASE X # {}
    <3> HIDE DEF X
    <3>1. PICK k \in X : \A j \in X : execs[j].attempt <= execs[k].attempt
      BY <1>1, <2>2, LastExists
    <3> DEFINE n == execs[k].attempt + 1
    <3>2. n \in 1 .. Len(execs) + 1 /\ n - 1 = execs[k].attempt
      BY <1>3, Entries
    <3>3. \A j \in X : execs[j].attempt < n
      BY <1>3, <3>1
    <3>4. n - 1 \in tried
      BY <3>2
    <3>5. \A a \in tried : a < n
      BY <3>3
    <3>6. Next1(n)
      BY <3>4, <3>5
    <3> HIDE DEF n, Next1
    <3> QED BY <3>2, <3>6
  <2> QED BY <2>1, <2>2
<1>5. NextAttempt(trial) = CHOOSE n \in 1 .. Len(execs) + 1 : Next1(n)
  BY <1>2 DEF NextAttempt
<1>6. NextAttempt(trial) \in 1 .. Len(execs) + 1 /\ Next1(NextAttempt(trial))
  <2> HIDE DEF Next1
  <2> QED BY <1>4, <1>5
<1> QED BY <1>6

LEMMA ExecutionIs ==
  ASSUME TypeInv, NumberInv, assigned = Assigned, NEW file \in {"good", "bad"},
         NEW e, e = Execution(file)
  PROVE  /\ e \in Exec /\ e.trial = trial /\ e.attempt = NextAttempt(trial) /\ e.inv = inv
         /\ e.trialFile = file /\ e.result = "none" /\ ~e.unclean /\ e.marker = "none"
         /\ e.swept = "none" /\ ~e.scratch /\ ~e.quarantined
<1>1. NextAttempt(trial) \in Nat
  BY AttemptIsNew, Entries
<1>2. trial \in Nat /\ inv \in Nat
  BY DEF TypeInv
<1> DEFINE a == NextAttempt(trial)
           no == FALSE
           none == "none"
<1>3. no \in BOOLEAN /\ ~no /\ none = "none"
  OBVIOUS
<1>4. e = [trial |-> trial, attempt |-> a, inv |-> inv,
           trialFile |-> file, result |-> none, unclean |-> no,
           marker |-> none, swept |-> none, scratch |-> no, quarantined |-> no]
  BY DEF Execution
<1>5. a \in Nat
  BY <1>1
<1> HIDE DEF a, no, none
<1>6. e \in Exec
  BY <1>2, <1>3, <1>4, <1>5 DEF Exec
<1> QED BY <1>3, <1>4, <1>6 DEF a

\* What is there stays as it was.
LEMMA Appended ==
  ASSUME TypeInv, NEW e \in Exec, execs' = Append(execs, e)
  PROVE  /\ execs' \in Seq(Exec) /\ Len(execs') = Len(execs) + 1
         /\ DOMAIN execs' = DOMAIN execs \cup {Len(execs) + 1}
         /\ Len(execs) + 1 \notin DOMAIN execs
         /\ execs'[Len(execs) + 1] = e
         /\ \A i \in DOMAIN execs : execs'[i] = execs[i]
<1>1. execs \in Seq(Exec) /\ Len(execs) \in Nat
  BY DEF TypeInv
<1>2. execs' \in Seq(Exec) /\ Len(execs') = Len(execs) + 1
      /\ execs'[Len(execs) + 1] = e /\ \A i \in 1 .. Len(execs) : execs'[i] = execs[i]
  BY <1>1
<1>3. DOMAIN execs = 1 .. Len(execs) /\ DOMAIN execs' = 1 .. Len(execs) + 1
  BY <1>1, <1>2
<1> QED BY <1>1, <1>2, <1>3

\* Where a trial may start, no stop of this invocation is left standing.
LEMMA NoFatalAtStart ==
  ASSUME TypeInv, LedgerInv, SeenInv, StopInv, Starting
  PROVE  /\ assigned = Assigned /\ finished = Finished
         /\ ~Resolved(trial, Assigned, Finished)
              \/ Stopped(trial, Assigned, Finished) \cap restartable # {}
         /\ \A i \in DOMAIN execs : execs[i].inv = inv => ~Fatal(i)
<1>1. /\ pc = "decide" /\ assigned = Assigned /\ finished = Finished
      /\ ~Resolved(trial, Assigned, Finished)
           \/ Stopped(trial, Assigned, Finished) \cap restartable # {}
  BY DEF Starting, SeenInv, Restarts
<1>2. ASSUME NEW i \in DOMAIN execs, execs[i].inv = inv, Fatal(i)
      PROVE  FALSE
  <2>1. Fresh(i)
    BY <1>1, <1>2 DEF StopInv
  <2>2. /\ i = Now /\ i \in Assigned /\ i \notin restartable /\ execs[i].trial = trial
        /\ execs[i].marker = "none"
        /\ \A j \in Of(Assigned, trial) \ {i} : execs[j].attempt < execs[i].attempt
    BY <2>1 DEF Fresh
  <2>3. i \in Finished /\ execs[i].result = "fatal"
    BY <1>2, <2>2 DEF Finished, Readable, Marked, Fatal, Outcomes
  <2>4. execs[i].attempt \in Nat /\ \A j \in Assigned : execs[j].attempt \in Nat
    BY <1>2, Entries DEF Exec, Assigned
  <2>5. Latest(i, Assigned)
    <3>1. ASSUME NEW j \in Of(Assigned, trial) PROVE execs[j].attempt <= execs[i].attempt
      BY <2>2, <2>4 DEF Of
    <3> QED BY <2>2, <3>1 DEF Latest
  <2>6. Ends(i, Assigned, Finished)
    BY <2>3, <2>5 DEF Ends, Stops, Interrupted
  <2>7. i \in Of(Assigned, trial)
    BY <2>2 DEF Of
  <2> QED BY <1>1, <2>2, <2>6, <2>7, StartsUndecided DEF LedgerInv
<1> QED BY <1>1, <1>2

\* A trial that starts has no execution that counts or could not clean up.
LEMMA NothingFinalAtStart ==
  ASSUME TypeInv, LedgerInv, SeenInv, StopInv, Starting, NEW i \in Finished,
         execs[i].trial = trial
  PROVE  ~execs[i].unclean /\ execs[i].result # "valid"
<1>1. i \in Assigned
  BY DEF Finished
<1>2. i \in Of(Assigned, trial)
  BY <1>1 DEF Of
<1>3. CASE ~Ends(i, Assigned, Finished)
  BY <1>3 DEF Ends, Unclean, Counts, Interrupted
<1>4. CASE Ends(i, Assigned, Finished)
  <2>1. ~Unclean(i, Finished) /\ Stops(i, Assigned, Finished)
    BY <1>2, <1>4, NoFatalAtStart, StartsUndecided DEF LedgerInv
  <2> QED BY <2>1 DEF Unclean, Stops
<1> QED BY <1>3, <1>4

\* What there is to read after one more record.
LEMMA SeenAfterAppend ==
  ASSUME TypeInv, NEW e \in Exec, execs' = Append(execs, e), e.result = "none",
         ~e.quarantined
  PROVE  /\ Finished' = Finished
         /\ Assigned' = IF e.trialFile = "good" THEN Assigned \cup {Len(execs) + 1}
                        ELSE Assigned
         /\ Assigned \subseteq DOMAIN execs
<1> DEFINE n == Len(execs) + 1
<1>1. /\ DOMAIN execs' = DOMAIN execs \cup {n} /\ n \notin DOMAIN execs
      /\ execs'[n] = e /\ \A i \in DOMAIN execs : execs'[i] = execs[i]
  BY Appended
<1> HIDE DEF n
<1>2. Assigned \subseteq DOMAIN execs
  BY DEF Assigned
<1>3. \A i \in DOMAIN execs : i \in Assigned' <=> i \in Assigned
  BY <1>1 DEF Assigned, Assignable
<1>4. n \in Assigned' <=> e.trialFile = "good"
  BY <1>1 DEF Assigned, Assignable
<1>5. Assigned' \subseteq DOMAIN execs \cup {n}
  BY <1>1 DEF Assigned
<1>6. Assigned' = IF e.trialFile = "good" THEN Assigned \cup {n} ELSE Assigned
  <2>1. e.trialFile = "good" => Assigned' = Assigned \cup {n}
    BY <1>2, <1>3, <1>4, <1>5
  <2>2. e.trialFile # "good" => Assigned' = Assigned
    BY <1>2, <1>3, <1>4, <1>5
  <2> QED BY <2>1, <2>2
<1>7. n \notin Finished'
  BY <1>1 DEF Finished, Readable, Outcomes
<1>8. \A i \in DOMAIN execs : i \in Finished' <=> i \in Finished
  BY <1>1, <1>3 DEF Finished, Readable, Marked
<1>9. Finished' \subseteq DOMAIN execs \cup {n} /\ Finished \subseteq DOMAIN execs
  BY <1>2, <1>5 DEF Finished
<1>10. Finished' = Finished
  BY <1>1, <1>7, <1>8, <1>9
<1> QED BY <1>2, <1>6, <1>10 DEF n

\* The ledger stays sound when a trial starts, whatever was written of it.
LEMMA StartKeeps ==
  ASSUME TypeInv, LedgerInv, SeenInv, StopInv, Starting, NEW file \in {"good", "bad"},
         execs' = Append(execs, Execution(file))
  PROVE  LedgerInv'
<1> DEFINE n == Len(execs) + 1
<1>0. PICK e : e = Execution(file)
  OBVIOUS
<1>1. NumberInv /\ assigned = Assigned
  BY NoFatalAtStart DEF LedgerInv
<1>2. /\ e \in Exec /\ e.trial = trial /\ e.attempt = NextAttempt(trial) /\ e.inv = inv
      /\ e.trialFile = file /\ e.result = "none" /\ ~e.quarantined
  BY <1>0, <1>1, ExecutionIs
<1>3. /\ DOMAIN execs' = DOMAIN execs \cup {n} /\ n \notin DOMAIN execs
      /\ execs'[n] = e /\ \A i \in DOMAIN execs : execs'[i] = execs[i]
      /\ Finished' = Finished
      /\ Assigned' \subseteq Assigned \cup {n} /\ Assigned \subseteq DOMAIN execs
  BY <1>0, <1>2, Appended, SeenAfterAppend
<1>4. /\ Len(execs) \in Nat /\ DOMAIN execs = 1 .. Len(execs)
      /\ \A i \in DOMAIN execs : execs[i] \in Exec
  BY Entries
<1>5. /\ e.attempt \in 1 .. n /\ \A i \in Of(Assigned, trial) : execs[i].attempt < e.attempt
  BY <1>1, <1>2, AttemptIsNew
<1>6. \A i \in DOMAIN execs : i < n
  BY <1>4
<1>7. Finished \subseteq DOMAIN execs
  BY DEF Finished, Assigned
<1>8. n \in Nat
  BY <1>4
<1> HIDE DEF n
<1>9. NumberInv'
  <2>1. \A i \in DOMAIN execs' : execs'[i].attempt \in 1 .. i
    BY <1>1, <1>3, <1>5 DEF NumberInv
  <2>2. ASSUME NEW i \in Assigned', NEW j \in Assigned', i # j,
               execs'[i].trial = execs'[j].trial, execs'[i].attempt = execs'[j].attempt
        PROVE  FALSE
    <3>1. \A k \in Assigned : execs[k].trial = trial => execs[k].attempt < e.attempt
      BY <1>5 DEF Of
    <3>2. \A k \in Assigned : execs[k].trial = trial => execs[k].attempt # e.attempt
      <4>1. \A k \in Assigned : execs[k].attempt \in Nat
        BY <1>3, <1>4 DEF Exec
      <4> QED BY <1>5, <3>1, <4>1
    <3>3. CASE i = n \/ j = n
      BY <1>2, <1>3, <2>2, <3>2, <3>3
    <3>4. CASE i # n /\ j # n
      <4>1. i \in Assigned /\ j \in Assigned /\ i \in DOMAIN execs /\ j \in DOMAIN execs
        BY <1>3, <3>4
      <4>2. execs[i].trial = execs[j].trial /\ execs[i].attempt = execs[j].attempt
        BY <1>3, <2>2, <4>1
      <4> QED BY <1>1, <2>2, <4>1, <4>2, SameAttempt
    <3> QED BY <3>3, <3>4
  <2> QED BY <2>1, <2>2 DEF NumberInv, AttemptsAreUnique, Clash
<1>10. DecisionsAreFinal'
  <2> SUFFICES ASSUME NEW i \in DOMAIN execs', NEW j \in DOMAIN execs', i < j,
                      execs'[i].trial = execs'[j].trial, i \in Finished'
               PROVE  ~execs'[i].unclean /\ execs'[i].result # "valid"
    BY DEF DecisionsAreFinal
  <2>1. i \in Finished /\ i \in DOMAIN execs /\ execs'[i] = execs[i]
    BY <1>3, <1>7
  <2>2. CASE j = n
    <3>1. execs[i].trial = trial
      BY <1>2, <1>3, <2>1, <2>2
    <3> QED BY <2>1, <3>1, NothingFinalAtStart
  <2>3. CASE j # n
    <3>1. j \in DOMAIN execs /\ execs'[j] = execs[j]
      BY <1>3, <2>3
    <3> QED BY <2>1, <3>1 DEF LedgerInv, DecisionsAreFinal
  <2> QED BY <2>2, <2>3
<1>11. AllowanceIsKept'
  <2>1. \A t \in Trials : Infra(t)' = Infra(t)
    BY <1>3, <1>7 DEF Infra
  <2>2. \A t \in Trials : Cardinality(Infra(t)) <= Retries + 1
    BY AllowanceOfInfra DEF LedgerInv
  <2>3. \A t \in Trials : Cardinality(Infra(t)') <= Retries + 1
    BY <2>1, <2>2
  <2> QED BY <2>3 DEF AllowanceIsKept, Infra
<1>12. FatalStopsInvocation'
  <2> SUFFICES ASSUME NEW i \in DOMAIN execs', NEW j \in DOMAIN execs', i < j,
                      execs'[i].inv = execs'[j].inv, ~execs'[i].unclean
               PROVE  execs'[i].result # "fatal"
    BY DEF FatalStopsInvocation
  <2>1. i \in DOMAIN execs /\ execs'[i] = execs[i]
    <3>1. i # n
      <4>1. CASE j = n
        BY <1>8, <4>1
      <4>2. CASE j # n
        <5>1. j < n /\ j \in Nat
          BY <1>3, <1>4, <1>6, <4>2
        <5> QED BY <1>8, <5>1
      <4> QED BY <4>1, <4>2
    <3> QED BY <1>3, <3>1
  <2>2. CASE j = n
    <3>1. execs[i].inv = inv
      BY <1>2, <1>3, <2>1, <2>2
    <3> QED BY <2>1, <3>1, NoFatalAtStart DEF Fatal
  <2>3. CASE j # n
    <3>1. j \in DOMAIN execs /\ execs'[j] = execs[j]
      BY <1>3, <2>3
    <3> QED BY <2>1, <3>1 DEF LedgerInv, FatalStopsInvocation
  <2> QED BY <2>2, <2>3
<1> QED BY <1>9, <1>10, <1>11, <1>12 DEF LedgerInv

\* The trial.json that was written in full makes it the one that decides.
LEMMA StartedIsFresh ==
  ASSUME TypeInv, LedgerInv, SeenInv, StopInv, Starting,
         execs' = Append(execs, Execution("good")), UNCHANGED <<trial, inv, restartable>>
  PROVE  Fresh(Now)' /\ Now' = Len(execs) + 1
<1> PICK n : n = Len(execs) + 1
  OBVIOUS
<1>0. PICK e : e = Execution("good")
  OBVIOUS
<1>1. NumberInv /\ assigned = Assigned
  BY NoFatalAtStart DEF LedgerInv
<1>2. /\ e \in Exec /\ e.trial = trial /\ e.attempt = NextAttempt(trial) /\ e.inv = inv
      /\ e.trialFile = "good" /\ e.result = "none" /\ ~e.quarantined /\ e.marker = "none"
  BY <1>0, <1>1, ExecutionIs
<1>3. /\ DOMAIN execs' = DOMAIN execs \cup {n} /\ n \notin DOMAIN execs /\ Len(execs') = n
      /\ execs'[n] = e /\ \A i \in DOMAIN execs : execs'[i] = execs[i]
      /\ Finished' = Finished
      /\ Assigned' = Assigned \cup {n} /\ Assigned \subseteq DOMAIN execs
  BY <1>0, <1>2, Appended, SeenAfterAppend
<1>4. \A i \in Of(Assigned, trial) : execs[i].attempt < e.attempt
  BY <1>1, <1>2, AttemptIsNew
<1>5. \A i \in DOMAIN execs : execs[i] \in Exec
  BY Entries
<1>6. e.attempt \in Nat /\ n \notin restartable
  BY <1>2, <1>3 DEF Exec, TypeInv
<1>7. Now' = n
  BY <1>3 DEF Now
<1>8. ASSUME NEW j \in Of(Assigned, trial)' \ {n}
      PROVE  execs'[j].attempt < execs'[n].attempt /\ ~Ends(j, Assigned, Finished)'
  <2>1. j \in Assigned /\ execs'[j] = execs[j] /\ execs[j].trial = trial /\ j \in DOMAIN execs
    BY <1>3, <1>8 DEF Of
  <2>2. j \in Of(Assigned, trial)
    BY <2>1 DEF Of
  <2>3. execs'[j].attempt < execs'[n].attempt
    BY <1>3, <1>4, <2>1, <2>2
  <2>4. ~(execs'[n].attempt <= execs[j].attempt)
    BY <1>3, <1>5, <1>6, <2>1, <2>3 DEF Exec
  <2>5. OthersSame(n) /\ n \notin Assigned /\ j # n
    BY <1>3, <2>1 DEF OthersSame
  <2>6. CASE ~Ends(j, Assigned, Finished)
    BY <2>1, <2>3, <2>4, <2>5, <2>6, EndsKept
  <2>7. CASE Ends(j, Assigned, Finished)
    <3>1. Stops(j, Assigned, Finished) /\ ~Unclean(j, Finished)
      BY <2>2, <2>7, NoFatalAtStart, StartsUndecided DEF LedgerInv
    <3>2. execs[j].result = "fatal"
      BY <3>1 DEF Stops
    <3>3. n \in Of(Assigned, execs[j].trial)'
      BY <1>2, <1>3, <2>1 DEF Of
    <3>4. ~Latest(j, Assigned)'
      BY <2>1, <2>4, <3>3 DEF Latest
    <3> QED BY <1>3, <2>1, <2>3, <3>1, <3>2, <3>4
            DEF Ends, Unclean, Counts, Stops, Exhausts, Interrupted
  <2> QED BY <2>6, <2>7
<1>9. n \in Assigned' \ restartable' /\ execs'[n].trial = trial' /\ execs'[n].inv = inv'
      /\ execs'[n].marker = "none"
  BY <1>2, <1>3, <1>6
<1>10. Fresh(n)'
  BY <1>7, <1>8, <1>9 DEF Fresh
<1> QED BY <1>7, <1>10 DEF Fresh

-----------------------------------------------------------------------------
(* The result *)

\* What is running when a result is written over it.
Unstored ==
  /\ Fresh(Now) /\ execs[Now].result = "none"

LEMMA Directory ==
  ASSUME TypeInv
  PROVE  IsFiniteSet(DOMAIN execs)
<1>1. Len(execs) \in Nat /\ DOMAIN execs = 1 .. Len(execs)
  BY Entries
<1>2. IsFiniteSet(1 .. Len(execs))
  BY <1>1, FS_Interval
<1> QED BY <1>1, <1>2

\* While it runs, the failures of its trial are fewer than allowed.
LEMMA RoomForFailure ==
  ASSUME TypeInv, LedgerInv, Unstored, Retries \in Nat
  PROVE  Cardinality(Infra(trial)) <= Retries /\ IsFiniteSet(Infra(trial))
<1> DEFINE F == Infra(trial)
<1>1. Finished \subseteq Assigned /\ Assigned \subseteq DOMAIN execs
  BY DEF Finished, Assigned
<1>2. F \in SUBSET DOMAIN execs
  BY <1>1 DEF Infra
<1>3. IsFiniteSet(F)
  BY <1>2, Directory, FS_Subset
<1>4. CASE F = {}
  BY <1>3, <1>4, FS_EmptySet
<1>5. CASE F # {}
  <2> HIDE DEF F
  <2>1. PICK j \in F : \A i \in F : execs[i].attempt <= execs[j].attempt
    BY <1>2, <1>5, LastExists DEF LedgerInv
  <2>2. j \in Finished /\ execs[j].trial = trial /\ execs[j].result = "infra"
    BY <2>1 DEF F, Infra
  <2>3. j # Now /\ j \in Of(Assigned, trial)
    BY <1>1, <2>2 DEF Of, Unstored
  <2>4. ~Ends(j, Assigned, Finished)
    BY <2>3 DEF Unstored, Fresh
  <2>5. Failures(j, Assigned, Finished) = F
    <3>1. ASSUME NEW i \in F PROVE i \in Failures(j, Assigned, Finished)
      BY <1>1, <2>1, <2>2, <3>1 DEF Failures, F, Infra, Of, Interrupted
    <3>2. ASSUME NEW i \in Failures(j, Assigned, Finished) PROVE i \in F
      BY <2>2, <3>2 DEF Failures, F, Infra, Of, Interrupted
    <3> QED BY <3>1, <3>2
  <2>6. ~(Cardinality(F) > Retries)
    BY <2>2, <2>4, <2>5 DEF Ends, Exhausts, Interrupted
  <2>7. Cardinality(F) \in Nat
    BY <1>3, FS_CardinalityType
  <2>8. Cardinality(F) <= Retries
    BY <2>6, <2>7
  <2> QED BY <1>3, <2>8 DEF F
<1> QED BY <1>4, <1>5

\* The record of n is replaced by one with a result.
Stores(n, e) ==
  /\ n = Now /\ e \in Exec
  /\ execs' = [execs EXCEPT ![n] = e]
  /\ e.trial = execs[n].trial /\ e.attempt = execs[n].attempt /\ e.inv = execs[n].inv
  /\ e.trialFile = execs[n].trialFile /\ e.marker = execs[n].marker
  /\ e.quarantined = execs[n].quarantined
  /\ e.result # "none"

LEMMA StoredIs ==
  ASSUME TypeInv, Unstored, NEW n, NEW e, Stores(n, e)
  PROVE  /\ n \in DOMAIN execs /\ execs' \in Seq(Exec) /\ Len(execs') = Len(execs)
         /\ DOMAIN execs' = DOMAIN execs
         /\ execs'[n] = e /\ \A i \in DOMAIN execs : i # n => execs'[i] = execs[i]
         /\ Assigned' = Assigned /\ n \in Assigned /\ Assigned \subseteq DOMAIN execs
         /\ Finished' \ {n} = Finished /\ n \notin Finished /\ Finished \subseteq Assigned
         /\ \A i \in DOMAIN execs : i <= n
<1>1. n \in DOMAIN execs /\ n \in Assigned /\ execs[n].result = "none" /\ n = Len(execs)
  BY DEF Unstored, Fresh, Assigned, Stores, Now
<1>2. /\ execs' \in Seq(Exec) /\ Len(execs') = Len(execs) /\ DOMAIN execs' = DOMAIN execs
      /\ execs'[n] = e /\ \A i \in DOMAIN execs : i # n => execs'[i] = execs[i]
  BY <1>1, OneReplaced DEF Stores
<1>3. \A i \in DOMAIN execs : Assignable(i)' <=> Assignable(i)
  BY <1>2 DEF Assignable, Stores
<1>4. Assigned' = Assigned
  BY <1>2, <1>3 DEF Assigned
<1>5. n \notin Finished
  BY <1>1 DEF Finished, Readable, Outcomes
<1>6. \A i \in Assigned : i # n => (i \in Finished' <=> i \in Finished)
  BY <1>2, <1>4 DEF Finished, Readable, Marked, Assigned
<1>7. Finished' \subseteq Assigned /\ Finished \subseteq Assigned
  BY <1>4 DEF Finished
<1>8. Finished' \ {n} = Finished
  BY <1>5, <1>6, <1>7
<1>9. Len(execs) \in Nat /\ DOMAIN execs = 1 .. Len(execs)
  BY Entries
<1>10. \A i \in DOMAIN execs : i <= n
  BY <1>1, <1>9
<1> QED BY <1>1, <1>2, <1>4, <1>5, <1>7, <1>8, <1>10 DEF Assigned

LEMMA StoreKeeps ==
  ASSUME TypeInv, LedgerInv, Unstored, Retries \in Nat, NEW n, NEW e, Stores(n, e)
  PROVE  LedgerInv'
<1>1. /\ n \in DOMAIN execs /\ DOMAIN execs' = DOMAIN execs
      /\ execs'[n] = e /\ \A i \in DOMAIN execs : i # n => execs'[i] = execs[i]
      /\ Assigned' = Assigned /\ n \in Assigned /\ Assigned \subseteq DOMAIN execs
      /\ Finished' \ {n} = Finished /\ n \notin Finished /\ Finished \subseteq Assigned
      /\ \A i \in DOMAIN execs : i <= n
  BY StoredIs
<1>2. /\ e.trial = execs[n].trial /\ e.attempt = execs[n].attempt /\ e.inv = execs[n].inv
      /\ execs[n].trial = trial /\ n = Now
  BY DEF Stores, Unstored, Fresh
<1>3. \A i \in DOMAIN execs : /\ execs'[i].trial = execs[i].trial
                              /\ execs'[i].attempt = execs[i].attempt
                              /\ execs'[i].inv = execs[i].inv
  BY <1>1, <1>2
<1>4. \A i, j \in DOMAIN execs : i < j => i # n
  <2>1. n \in Nat /\ DOMAIN execs \subseteq Nat
    BY <1>1, Entries
  <2> QED BY <1>1, <2>1
<1>5. NumberInv'
  BY <1>1, <1>3 DEF LedgerInv, NumberInv, AttemptsAreUnique, Clash
<1>6. DecisionsAreFinal'
  <2> SUFFICES ASSUME NEW i \in DOMAIN execs, NEW j \in DOMAIN execs, i < j,
                      execs'[i].trial = execs'[j].trial, i \in Finished'
               PROVE  ~execs'[i].unclean /\ execs'[i].result # "valid"
    BY <1>1 DEF DecisionsAreFinal
  <2>1. i # n /\ i \in Finished /\ execs'[i] = execs[i] /\ execs[i].trial = execs[j].trial
    BY <1>1, <1>3, <1>4
  <2> QED BY <2>1 DEF LedgerInv, DecisionsAreFinal
<1>7. FatalStopsInvocation'
  <2> SUFFICES ASSUME NEW i \in DOMAIN execs, NEW j \in DOMAIN execs, i < j,
                      execs'[i].inv = execs'[j].inv, ~execs'[i].unclean
               PROVE  execs'[i].result # "fatal"
    BY <1>1 DEF FatalStopsInvocation
  <2>1. i # n /\ execs'[i] = execs[i] /\ execs[i].inv = execs[j].inv
    BY <1>1, <1>3, <1>4
  <2> QED BY <2>1 DEF LedgerInv, FatalStopsInvocation
<1>8. AllowanceIsKept'
  <2> SUFFICES ASSUME NEW t \in Trials PROVE Cardinality(Infra(t)') <= Retries + 1
    BY DEF AllowanceIsKept, Infra
  <2>1. Cardinality(Infra(t)) <= Retries + 1
    BY AllowanceOfInfra DEF LedgerInv
  <2>2. CASE t # trial
    <3>1. Infra(t)' = Infra(t)
      BY <1>1, <1>2, <1>3, <2>2 DEF Infra
    <3> QED BY <2>1, <3>1
  <2>3. CASE t = trial
    <3>1. ASSUME NEW i \in Infra(t)', i # n
          PROVE  i \in Infra(t)
      BY <1>1, <3>1 DEF Infra
    <3>2. Infra(t)' \in SUBSET (Infra(t) \cup {n})
      BY <3>1
    <3>3. Cardinality(Infra(t)) <= Retries /\ IsFiniteSet(Infra(t))
      BY <2>3, RoomForFailure
    <3>4. /\ IsFiniteSet(Infra(t) \cup {n})
          /\ Cardinality(Infra(t) \cup {n}) =
               IF n \in Infra(t) THEN Cardinality(Infra(t)) ELSE Cardinality(Infra(t)) + 1
      BY <3>3, FS_AddElement
    <3>5. IsFiniteSet(Infra(t)') /\ Cardinality(Infra(t)') <= Cardinality(Infra(t) \cup {n})
      BY <3>2, <3>4, FS_Subset
    <3>6. /\ Cardinality(Infra(t)) \in Nat /\ Cardinality(Infra(t)') \in Nat
          /\ Cardinality(Infra(t) \cup {n}) \in Nat
      BY <3>3, <3>4, <3>5, FS_CardinalityType
    <3> QED BY <3>3, <3>4, <3>5, <3>6
  <2> QED BY <2>2, <2>3
<1> QED BY <1>5, <1>6, <1>7, <1>8 DEF LedgerInv

\* It stays the newest execution, the only one that can decide its trial.
LEMMA FreshStored ==
  ASSUME TypeInv, Unstored, NEW n, NEW e, Stores(n, e),
         UNCHANGED <<trial, inv, restartable>>
  PROVE  Fresh(n)' /\ Now' = n
<1>1. /\ n \in DOMAIN execs /\ Len(execs') = Len(execs)
      /\ execs'[n] = e /\ \A i \in DOMAIN execs : i # n => execs'[i] = execs[i]
      /\ Assigned' = Assigned /\ n \in Assigned /\ Assigned \subseteq DOMAIN execs
      /\ Finished' \ {n} = Finished /\ n \notin Finished
  BY StoredIs
<1>2. /\ e.trial = execs[n].trial /\ e.attempt = execs[n].attempt /\ e.inv = execs[n].inv
      /\ e.marker = execs[n].marker /\ n = Now
  BY DEF Stores
<1>3. /\ n \notin restartable /\ execs[n].trial = trial /\ execs[n].inv = inv
      /\ execs[n].marker = "none"
      /\ \A j \in Of(Assigned, trial) \ {n} :
           execs[j].attempt < execs[n].attempt /\ ~Ends(j, Assigned, Finished)
  BY <1>2 DEF Unstored, Fresh
<1>4. Now' = n
  BY <1>1, <1>2 DEF Now
<1>5. ASSUME NEW j \in Of(Assigned, trial)' \ {n}
      PROVE  execs'[j].attempt < execs'[n].attempt /\ ~Ends(j, Assigned, Finished)'
  <2>1. j \in Assigned /\ execs'[j] = execs[j] /\ execs[j].trial = trial /\ j \in DOMAIN execs
    BY <1>1, <1>5 DEF Of
  <2>2. j \in Of(Assigned, trial) \ {n}
    BY <1>5, <2>1 DEF Of
  <2>3. execs[j].attempt < execs[n].attempt /\ ~Ends(j, Assigned, Finished)
    BY <1>3, <2>2
  <2>4. execs[j].attempt \in Nat /\ execs[n].attempt \in Nat
    BY <1>1, <2>1, Entries DEF Exec
  <2>5. ~(execs[n].attempt <= execs[j].attempt)
    BY <2>3, <2>4
  <2>6. OthersSame(n) /\ j # n
    BY <1>1, <1>5 DEF OthersSame
  <2>7. /\ execs'[n].trial = execs[n].trial
        /\ ~(execs'[n].attempt <= execs[j].attempt) /\ n \in Assigned'
    BY <1>1, <1>2, <2>5
  <2>8. ~Ends(j, Assigned, Finished)'
    BY <2>1, <2>3, <2>5, <2>6, <2>7, EndsKept
  <2> QED BY <1>1, <1>2, <2>1, <2>3, <2>8
<1> QED BY <1>1, <1>2, <1>3, <1>4, <1>5 DEF Fresh

-----------------------------------------------------------------------------
(* Marks on a record *)

LEMMA ScratchIs ==
  ASSUME TypeInv, NEW n \in DOMAIN execs, NEW v \in BOOLEAN,
         execs' = [execs EXCEPT ![n].scratch = v]
  PROVE  \E e : /\ execs' = [execs EXCEPT ![n] = e] /\ Alike(e, execs[n])
                /\ e.scratch = v /\ e.marker = execs[n].marker
                /\ e.swept = execs[n].swept /\ e.quarantined = execs[n].quarantined
<1> DEFINE e == [execs[n] EXCEPT !.scratch = v]
<1>1. execs[n] \in Exec
  BY Entries
<1>2. /\ e.scratch = v /\ e.marker = execs[n].marker /\ e.swept = execs[n].swept
      /\ e.quarantined = execs[n].quarantined
  BY <1>1 DEF Exec
<1>3. Alike(e, execs[n])
  BY <1>1 DEF Exec, Alike
<1>4. execs' = [execs EXCEPT ![n] = e]
  OBVIOUS
<1> HIDE DEF e
<1> QED BY <1>2, <1>3, <1>4

LEMMA QuarantinedIs ==
  ASSUME TypeInv, NEW n \in DOMAIN execs, NEW v \in BOOLEAN,
         execs' = [execs EXCEPT ![n].quarantined = v]
  PROVE  \E e : /\ execs' = [execs EXCEPT ![n] = e] /\ Alike(e, execs[n])
                /\ e.quarantined = v /\ e.marker = execs[n].marker
                /\ e.swept = execs[n].swept /\ e.scratch = execs[n].scratch
<1> DEFINE e == [execs[n] EXCEPT !.quarantined = v]
<1>1. execs[n] \in Exec
  BY Entries
<1>2. /\ e.quarantined = v /\ e.marker = execs[n].marker /\ e.swept = execs[n].swept
      /\ e.scratch = execs[n].scratch
  BY <1>1 DEF Exec
<1>3. Alike(e, execs[n])
  BY <1>1 DEF Exec, Alike
<1>4. execs' = [execs EXCEPT ![n] = e]
  OBVIOUS
<1> HIDE DEF e
<1> QED BY <1>2, <1>3, <1>4

LEMMA MarkerIs ==
  ASSUME TypeInv, NEW n \in DOMAIN execs, NEW v \in {"good", "bad"},
         execs' = [execs EXCEPT ![n].marker = v]
  PROVE  \E e : /\ execs' = [execs EXCEPT ![n] = e] /\ Alike(e, execs[n])
                /\ e.marker = v /\ e.quarantined = execs[n].quarantined
                /\ e.swept = execs[n].swept /\ e.scratch = execs[n].scratch
<1> DEFINE e == [execs[n] EXCEPT !.marker = v]
<1>1. execs[n] \in Exec
  BY Entries
<1>2. /\ e.marker = v /\ e.quarantined = execs[n].quarantined /\ e.swept = execs[n].swept
      /\ e.scratch = execs[n].scratch
  BY <1>1 DEF Exec
<1>3. Alike(e, execs[n])
  BY <1>1 DEF Exec, Alike
<1>4. execs' = [execs EXCEPT ![n] = e]
  OBVIOUS
<1> HIDE DEF e
<1> QED BY <1>2, <1>3, <1>4

\* The write of a sweep: the directory may be gone with it, or not.
Sweeps(n, v, m) ==
  \/ execs' = [execs EXCEPT ![n].scratch = v, ![n].swept = m]
  \/ execs' = [execs EXCEPT ![n].swept = m] /\ v = execs[n].scratch

LEMMA SweptIs ==
  ASSUME TypeInv, NEW n \in DOMAIN execs, NEW v \in BOOLEAN,
         NEW m \in {"none", "bad", "removed", "failed"},
         Sweeps(n, v, m)
  PROVE  \E e : /\ execs' = [execs EXCEPT ![n] = e] /\ Alike(e, execs[n])
                /\ e.scratch = v /\ e.swept = m
                /\ e.marker = execs[n].marker /\ e.quarantined = execs[n].quarantined
<1> DEFINE f == [execs[n] EXCEPT !.scratch = v]
           e == [f EXCEPT !.swept = m]
<1>1. execs[n] \in Exec
  BY Entries
<1>2. /\ f \in Exec /\ f.scratch = v /\ Alike(f, execs[n])
      /\ f.marker = execs[n].marker /\ f.quarantined = execs[n].quarantined
  BY <1>1 DEF Exec, Alike
<1>3. v = execs[n].scratch => f = execs[n]
  BY <1>1 DEF Exec
<1>4. execs' = [execs EXCEPT ![n] = e]
  <2>1. CASE execs' = [execs EXCEPT ![n].scratch = v, ![n].swept = m]
    BY <2>1
  <2>2. CASE execs' = [execs EXCEPT ![n].swept = m] /\ v = execs[n].scratch
    BY <1>3, <2>2
  <2> QED BY <2>1, <2>2 DEF Sweeps
<1> HIDE DEF f
<1>5. /\ e.swept = m /\ e.scratch = v /\ e.marker = execs[n].marker
      /\ e.quarantined = execs[n].quarantined
  BY <1>2 DEF Exec
<1>6. Alike(e, execs[n])
  BY <1>2 DEF Exec, Alike
<1> HIDE DEF e
<1> QED BY <1>4, <1>5, <1>6

\* The write of a result, or of half of it.
Writes(o, v) ==
  \/ execs' = [execs EXCEPT ![Now].result = o, ![Now].unclean = v]
  \/ execs' = [execs EXCEPT ![Now].result = o] /\ v = execs[Now].unclean

LEMMA ResultIs ==
  ASSUME TypeInv, Unstored, NEW o \in Outcomes \cup {"bad"}, NEW v \in BOOLEAN,
         Writes(o, v)
  PROVE  \E e : /\ Stores(Now, e) /\ e.result = o /\ e.unclean = v
                /\ e.scratch = execs[Now].scratch /\ e.swept = execs[Now].swept
<1> PICK n : n = Now
  OBVIOUS
<1> DEFINE f == [execs[n] EXCEPT !.result = o]
           e == [f EXCEPT !.unclean = v]
<1>1. n \in DOMAIN execs
  BY DEF Unstored, Fresh, Assigned
<1>2. execs[n] \in Exec
  BY <1>1, Entries
<1>3. /\ f \in Exec /\ f.result = o /\ f.unclean = execs[n].unclean
      /\ f.trial = execs[n].trial /\ f.attempt = execs[n].attempt /\ f.inv = execs[n].inv
      /\ f.trialFile = execs[n].trialFile /\ f.marker = execs[n].marker
      /\ f.quarantined = execs[n].quarantined
      /\ f.scratch = execs[n].scratch /\ f.swept = execs[n].swept
  BY <1>2 DEF Exec
<1>4. v = execs[n].unclean => e = f
  BY <1>2 DEF Exec
<1>5. execs' = [execs EXCEPT ![n] = e]
  <2>1. CASE execs' = [execs EXCEPT ![Now].result = o, ![Now].unclean = v]
    BY <2>1
  <2>2. CASE execs' = [execs EXCEPT ![Now].result = o] /\ v = execs[Now].unclean
    BY <1>4, <2>2
  <2> QED BY <2>1, <2>2 DEF Writes
<1> HIDE DEF f
<1>6. /\ e \in Exec /\ e.result = o /\ e.unclean = v
      /\ e.trial = execs[n].trial /\ e.attempt = execs[n].attempt /\ e.inv = execs[n].inv
      /\ e.trialFile = execs[n].trialFile /\ e.marker = execs[n].marker
      /\ e.quarantined = execs[n].quarantined
      /\ e.scratch = execs[n].scratch /\ e.swept = execs[n].swept
  BY <1>3 DEF Exec
<1> HIDE DEF e
<1>7. o # "none"
  BY DEF Outcomes
<1> QED BY <1>5, <1>6, <1>7 DEF Stores

-----------------------------------------------------------------------------
(* Steps that leave the executions alone *)

LEMMA ReadIs ==
  ASSUME TypeInv, Flaky = FALSE, NEW next, Read(next)
  PROVE  /\ assigned' = Assigned /\ finished' = Finished
         /\ pc' \in {"idle", next}
<1>1. PICK flake \in Flakes \cup {<<0, "none">>} :
        LET Lost(file) == {i \in DOMAIN execs : flake = <<i, file>>}
            S == Assigned \ Lost("trial")
        IN  /\ assigned' = S
            /\ finished' = {i \in S \ Lost("result") :
                              Readable(i) /\ (Marked(i) => i \in Lost("marker"))}
            /\ pc' = IF Clash(S) THEN "idle" ELSE next
  BY DEF Read
<1>2. flake = <<0, "none">>
  BY DEF Flakes
<1> DEFINE Lost(file) == {i \in DOMAIN execs : flake = <<i, file>>}
<1>3. /\ assigned' = Assigned \ Lost("trial")
      /\ finished' = {i \in (Assigned \ Lost("trial")) \ Lost("result") :
                        Readable(i) /\ (Marked(i) => i \in Lost("marker"))}
      /\ pc' \in {"idle", next}
  BY <1>1
<1>4. DOMAIN execs = 1 .. Len(execs)
  BY Entries
<1>5. Lost("trial") = {} /\ Lost("result") = {} /\ Lost("marker") = {}
  BY <1>2, <1>4
<1> HIDE DEF Lost
<1>6. assigned' = Assigned
  BY <1>3, <1>5
<1>7. finished' = Finished
  BY <1>3, <1>5 DEF Finished
<1> QED BY <1>3, <1>6, <1>7

\* A stop of this invocation is the decision on its trial.
LEMMA FatalIsStopped ==
  ASSUME TypeInv, NEW i, Fresh(i), Fatal(i)
  PROVE  i \in Stopped(trial, Assigned, Finished)
<1>1. /\ i \in Assigned /\ execs[i].trial = trial /\ execs[i].marker = "none"
      /\ \A j \in Of(Assigned, trial) \ {i} :
           execs[j].attempt < execs[i].attempt /\ ~Ends(j, Assigned, Finished)
  BY DEF Fresh
<1>2. i \in Finished
  BY <1>1 DEF Finished, Readable, Marked, Fatal, Outcomes
<1>3. i \in Of(Assigned, trial) /\ Of(Assigned, trial) \subseteq DOMAIN execs
  BY <1>1 DEF Of, Assigned
<1>4. \A j \in Of(Assigned, trial) : execs[j].attempt \in Nat
  BY <1>3, Entries DEF Exec
<1>5. Latest(i, Assigned)
  BY <1>1, <1>3, <1>4 DEF Latest
<1>6. Stops(i, Assigned, Finished) /\ ~Unclean(i, Finished)
  BY <1>2, <1>5 DEF Stops, Interrupted, Unclean, Fatal
<1>7. Ends(i, Assigned, Finished)
  BY <1>6 DEF Ends
<1>8. i \in Deciders(trial, Assigned, Finished)
  BY <1>1, <1>3, <1>4, <1>7 DEF Deciders
<1> QED BY <1>6, <1>8 DEF Stopped

\* What such a step keeps.
LEMMA Quiet ==
  ASSUME TypeInv, LedgerInv, UNCHANGED execs
  PROVE  /\ LedgerInv' /\ Now' = Now /\ Assigned' = Assigned /\ Finished' = Finished
         /\ \A i : (Assignable(i)' <=> Assignable(i)) /\ (Fatal(i)' <=> Fatal(i))
         /\ UNCHANGED <<trial, inv, restartable>> => \A i : Fresh(i) => Fresh(i)'
<1>1. SameView
  BY SameLedger
<1>2. LedgerInv'
  BY <1>1, ViewKeeps
<1>3. Now' = Now /\ Assigned' = Assigned /\ Finished' = Finished
  BY <1>1 DEF Now, SameView
<1>4. \A i : (Assignable(i)' <=> Assignable(i)) /\ (Fatal(i)' <=> Fatal(i))
  BY DEF Assignable, Fatal
<1>5. ASSUME UNCHANGED <<trial, inv, restartable>>, NEW i, Fresh(i)
      PROVE  Fresh(i)'
  <2>1. execs'[i].marker = "none"
    BY <1>5 DEF Fresh
  <2> QED BY <1>1, <1>5, <2>1, FreshKept
<1> QED BY <1>2, <1>3, <1>4, <1>5

\* A beginning, a scan, and the end of an invocation.
LEMMA BeginKeeps ==
  ASSUME IInv, Flaky = FALSE, Run \/ Resume
  PROVE  IInv'
<1> USE DEF IInv
<1>1. /\ UNCHANGED <<execs, restartable, outcome, unclean, cancelled>> /\ pc = "idle"
      /\ inv \in Nat /\ inv' = inv + 1 /\ trial' = 1
      /\ \/ inv = 0 /\ pc' = "scan"
         \/ inv > 0 /\ Read("recover")
  BY DEF Run, Resume, ledger, running, TypeInv
<1>2. /\ LedgerInv' /\ Now' = Now /\ Assigned' = Assigned /\ Finished' = Finished
      /\ \A i : (Assignable(i)' <=> Assignable(i)) /\ (Fatal(i)' <=> Fatal(i))
  BY <1>1, Quiet
<1>3. \/ pc' = "scan" /\ inv = 0
      \/ /\ inv > 0 /\ pc' \in {"idle", "recover"}
         /\ assigned' = Assigned /\ finished' = Finished
  BY <1>1, ReadIs
<1>4. TypeInv'
  BY <1>1, <1>3 DEF TypeInv
<1>5. SeenInv'
  BY <1>2, <1>3 DEF SeenInv
<1>6. \A i \in DOMAIN execs : execs[i].inv \in 1 .. inv
  BY DEF InvInv
<1>7. InvInv'
  BY <1>1, <1>3, <1>6 DEF InvInv
<1>8. RunningInv'
  BY <1>3 DEF RunningInv, AtWork
<1>9. StopInv'
  BY <1>1, <1>6 DEF StopInv
<1>10. ScratchInv'
  BY <1>1, <1>2, <1>3 DEF ScratchInv
<1>11. NoScratchLeft'
  BY <1>1, <1>3, <1>6 DEF NoScratchLeft
<1> QED BY <1>2, <1>4, <1>5, <1>7, <1>8, <1>9, <1>10, <1>11

\* Recovery is over when every orphan is set aside, marked and swept.
LEMMA RecoveredKeeps ==
  ASSUME IInv, Recovered
  PROVE  IInv'
<1> USE DEF IInv
<1>1. /\ UNCHANGED <<execs, restartable, outcome, unclean, cancelled, inv, trial>>
      /\ UNCHANGED <<assigned, finished>> /\ pc = "recover" /\ pc' = "scan"
      /\ Unassigned = {} /\ Unmarked = {} /\ Unswept = {}
  BY DEF Recovered, ledger, running, seen
<1>2. /\ LedgerInv' /\ Now' = Now /\ Assigned' = Assigned /\ Finished' = Finished
      /\ \A i : (Assignable(i)' <=> Assignable(i)) /\ (Fatal(i)' <=> Fatal(i))
  BY <1>1, Quiet
<1>3. TypeInv'
  BY <1>1 DEF TypeInv
<1>4. SeenInv'
  BY <1>1 DEF SeenInv
<1>5. InvInv'
  BY <1>1 DEF InvInv
<1>6. RunningInv'
  BY <1>1 DEF RunningInv, AtWork
<1>7. \A i \in DOMAIN execs : execs[i].inv \in Nat /\ execs[i].inv < inv
  BY <1>1, Entries DEF InvInv, Exec
<1>8. StopInv'
  <2>1. \A i \in DOMAIN execs : execs[i].inv # inv
    BY <1>7 DEF TypeInv
  <2> QED BY <1>1, <2>1 DEF StopInv
<1>9. ScratchInv'
  BY <1>1, <1>2 DEF ScratchInv
<1>10. \A i \in DOMAIN execs :
         execs[i].scratch => \/ execs[i].swept = "failed"
                             \/ execs[i].result \in Outcomes /\ execs[i].unclean
  <2> SUFFICES ASSUME NEW i \in DOMAIN execs, execs[i].scratch
               PROVE  \/ execs[i].swept = "failed"
                      \/ execs[i].result \in Outcomes /\ execs[i].unclean
    OBVIOUS
  <2>1. /\ i \in Assigned /\ execs[i].swept # "removed"
        /\ execs[i].result \in Outcomes => execs[i].unclean
    BY DEF ScratchInv, Assigned
  <2>2. CASE i \in Finished
    BY <2>1, <2>2 DEF Finished, Readable
  <2>3. CASE i \notin Finished
    <3>1. assigned = Assigned /\ finished = Finished
      BY <1>1 DEF SeenInv
    <3>2. execs[i].swept \notin {"none", "bad"}
      BY <1>1, <2>1, <2>3, <3>1 DEF Unswept
    <3>3. execs[i].swept \in {"none", "bad", "removed", "failed"}
      BY Entries DEF Exec
    <3> QED BY <2>1, <3>2, <3>3
  <2> QED BY <2>2, <2>3
<1>11. NoScratchLeft'
  BY <1>1, <1>10 DEF NoScratchLeft
<1> QED BY <1>2, <1>3, <1>4, <1>5, <1>6, <1>8, <1>9, <1>11

LEMMA ScanKeeps ==
  ASSUME IInv, Flaky = FALSE, FirstScan \/ Rescan
  PROVE  IInv'
<1> USE DEF IInv
<1>1. /\ UNCHANGED <<execs, outcome, unclean, cancelled, inv, trial>>
      /\ Read("decide")
      /\ \/ pc = "scan" /\ restartable' = IF inv > 1 THEN assigned' ELSE {}
         \/ pc = "rescan" /\ restartable' = restartable
  BY DEF FirstScan, Rescan, ledger, running
<1>2. /\ LedgerInv' /\ Now' = Now /\ Assigned' = Assigned /\ Finished' = Finished
      /\ \A i : (Assignable(i)' <=> Assignable(i)) /\ (Fatal(i)' <=> Fatal(i))
      /\ restartable' = restartable => \A i : Fresh(i) => Fresh(i)'
  BY <1>1, Quiet
<1>3. pc' \in {"idle", "decide"} /\ assigned' = Assigned /\ finished' = Finished
  BY <1>1, ReadIs
<1>4. TypeInv'
  BY <1>1, <1>3 DEF TypeInv, Assigned
<1>5. SeenInv'
  BY <1>2, <1>3 DEF SeenInv
<1>6. InvInv'
  BY <1>1, <1>3 DEF InvInv
<1>7. RunningInv'
  BY <1>3 DEF RunningInv, AtWork
<1>8. StopInv'
  <2> SUFFICES ASSUME pc' # "idle", NEW i \in DOMAIN execs, execs[i].inv = inv, Fatal(i)
               PROVE  pc' \in {"rescan", "decide"} /\ Fresh(i)'
    BY <1>1, <1>2 DEF StopInv
  <2>1. pc # "idle" /\ Fresh(i) /\ pc \in {"rescan", "decide"}
    BY <1>1 DEF StopInv
  <2>2. restartable' = restartable
    BY <1>1, <2>1
  <2> QED BY <1>2, <1>3, <2>1, <2>2
<1>9. ScratchInv'
  BY <1>1, <1>2, <1>3 DEF ScratchInv
<1>10. NoScratchLeft'
  BY <1>1, <1>2, <1>3 DEF NoScratchLeft
<1> QED BY <1>2, <1>4, <1>5, <1>6, <1>7, <1>8, <1>9, <1>10

\* A stop of this invocation ends it here.
LEMMA NextTrialKeeps ==
  ASSUME IInv, NextTrial
  PROVE  IInv'
<1> USE DEF IInv
<1>1. /\ UNCHANGED <<execs, outcome, unclean, cancelled, inv, restartable>>
      /\ UNCHANGED <<assigned, finished>> /\ pc = "decide"
      /\ pc' \in {"idle", "decide"} /\ trial' \in {trial, trial + 1}
      /\ Stopped(trial, assigned, finished) # {} => pc' = "idle"
  BY DEF NextTrial, ledger, running, seen
<1>2. /\ LedgerInv' /\ Now' = Now /\ Assigned' = Assigned /\ Finished' = Finished
      /\ \A i : (Assignable(i)' <=> Assignable(i)) /\ (Fatal(i)' <=> Fatal(i))
  BY <1>1, Quiet
<1>3. TypeInv'
  BY <1>1 DEF TypeInv
<1>4. SeenInv'
  BY <1>1, <1>2 DEF SeenInv
<1>5. InvInv'
  BY <1>1 DEF InvInv
<1>6. RunningInv'
  BY <1>1 DEF RunningInv, AtWork
<1>7. StopInv'
  <2> SUFFICES ASSUME pc' # "idle", NEW i \in DOMAIN execs, execs[i].inv = inv, Fatal(i)
               PROVE  FALSE
    BY <1>1, <1>2 DEF StopInv
  <2>1. Fresh(i)
    BY <1>1 DEF StopInv
  <2>2. i \in Stopped(trial, Assigned, Finished)
    BY <2>1, FatalIsStopped
  <2>3. assigned = Assigned /\ finished = Finished
    BY <1>1 DEF SeenInv
  <2> QED BY <1>1, <2>2, <2>3
<1>8. ScratchInv'
  BY <1>1, <1>2 DEF ScratchInv
<1>9. NoScratchLeft'
  BY <1>1, <1>2 DEF NoScratchLeft
<1> QED BY <1>2, <1>3, <1>4, <1>5, <1>6, <1>7, <1>8, <1>9

\* The running execution goes on, or fails before or after its work.
GoesOn ==
  /\ UNCHANGED <<execs, inv, trial, restartable, assigned, finished>>
  /\ outcome' \in Outcomes /\ unclean' \in BOOLEAN /\ cancelled' \in BOOLEAN
  /\ \/ pc = "setup" /\ pc' = "store"
     \/ pc = "work" /\ pc' = "sweep"
     \/ pc = "sweep" /\ pc' = "store" /\ unclean'

LEMMA GoesOnKeeps ==
  ASSUME IInv, GoesOn
  PROVE  IInv'
<1> USE DEF IInv
<1>1. /\ UNCHANGED <<execs, inv, trial, restartable, assigned, finished>>
      /\ pc \in AtWork /\ pc' \in {"sweep", "store"}
      /\ pc' = "store" => pc = "setup" \/ unclean'
  BY DEF GoesOn, AtWork
<1>2. /\ LedgerInv' /\ Now' = Now /\ Assigned' = Assigned /\ Finished' = Finished
      /\ \A i : (Assignable(i)' <=> Assignable(i)) /\ (Fatal(i)' <=> Fatal(i))
      /\ \A i : Fresh(i) => Fresh(i)'
  BY <1>1, Quiet
<1>3. TypeInv'
  BY DEF TypeInv, GoesOn, AtWork
<1>4. SeenInv'
  BY <1>1 DEF SeenInv
<1>5. InvInv'
  BY <1>1 DEF InvInv, AtWork
<1>6. RunningInv'
  <2>1. Fresh(Now)
    BY <1>1 DEF RunningInv
  <2> PICK n : n = Now
    OBVIOUS
  <2>2. Fresh(n)' /\ n = Now'
    BY <1>2, <2>1
  <2>3. Fresh(Now)'
    BY <2>2 DEF Fresh
  <2> QED BY <1>1, <1>2, <2>3 DEF RunningInv
<1>7. StopInv'
  BY <1>1, <1>2 DEF StopInv, AtWork
<1>8. ScratchInv'
  BY <1>1, <1>2 DEF ScratchInv
<1>9. NoScratchLeft'
  BY <1>1, <1>2 DEF NoScratchLeft, AtWork
<1> QED BY <1>2, <1>3, <1>4, <1>5, <1>6, <1>7, <1>8, <1>9

-----------------------------------------------------------------------------
(* Steps that note something of one execution *)

\* One execution is replaced by one that selection sees alike, and whose
\* scratch directory is as ScratchInv wants it.
Notes(n, e) ==
  /\ n \in DOMAIN execs /\ Alike(e, execs[n])
  /\ execs' = [execs EXCEPT ![n] = e]
  /\ (e.trialFile = "good" /\ ~e.quarantined) <=> Assignable(n)
  /\ n \in Assigned /\ e.result \in Outcomes =>
       (e.marker = "good" <=> execs[n].marker = "good")
  /\ e.scratch =>
       /\ Assignable(n) /\ e.swept # "removed"
       /\ execs[n].result \in Outcomes => execs[n].unclean

LEMMA Noted ==
  ASSUME TypeInv, LedgerInv, ScratchInv, InvInv, NEW n, NEW e, Notes(n, e)
  PROVE  /\ LedgerInv' /\ Now' = Now /\ Assigned' = Assigned /\ Finished' = Finished
         /\ execs' \in Seq(Exec) /\ DOMAIN execs' = DOMAIN execs
         /\ execs'[n] = e /\ \A i \in DOMAIN execs : i # n => execs'[i] = execs[i]
         /\ \A i \in DOMAIN execs : Fatal(i)' <=> Fatal(i)
         /\ \A i \in DOMAIN execs : execs'[i].inv = execs[i].inv
         /\ \A i \in DOMAIN execs :
              execs'[i].scratch =>
                /\ Assignable(i)'
                /\ execs'[i].swept # "removed"
                /\ execs'[i].result \in Outcomes => execs'[i].unclean
<1>1. SameView
  BY AlikeView DEF Notes
<1>2. /\ execs' \in Seq(Exec) /\ Len(execs') = Len(execs) /\ DOMAIN execs' = DOMAIN execs
      /\ execs'[n] = e /\ \A i \in DOMAIN execs : i # n => execs'[i] = execs[i]
  BY OneReplaced DEF Notes, Alike
<1>3. LedgerInv'
  BY <1>1, ViewKeeps
<1>4. Now' = Now /\ Assigned' = Assigned /\ Finished' = Finished
  BY <1>1 DEF Now, SameView
<1>5. /\ \A i \in DOMAIN execs : Fatal(i)' <=> Fatal(i)
      /\ \A i \in DOMAIN execs : execs'[i].inv = execs[i].inv
  BY <1>1 DEF SameView, Fatal
<1>6. ASSUME NEW i \in DOMAIN execs, execs'[i].scratch
      PROVE  /\ Assignable(i)'
             /\ execs'[i].swept # "removed"
             /\ execs'[i].result \in Outcomes => execs'[i].unclean
  <2>1. CASE i = n
    BY <1>2, <1>6, <2>1 DEF Notes, Alike, Assignable
  <2>2. CASE i # n
    BY <1>2, <1>6, <2>2 DEF ScratchInv, Assignable
  <2> QED BY <2>1, <2>2
<1> QED BY <1>2, <1>3, <1>4, <1>5, <1>6

\* During recovery.
LEMMA RecoveryKeeps ==
  ASSUME IInv, pc = "recover", NEW n, NEW e, Notes(n, e),
         UNCHANGED <<pc, inv, trial, assigned, finished, restartable,
                     outcome, unclean, cancelled>>
  PROVE  IInv'
<1> USE DEF IInv
<1>1. /\ LedgerInv' /\ Now' = Now /\ Assigned' = Assigned /\ Finished' = Finished
      /\ execs' \in Seq(Exec) /\ DOMAIN execs' = DOMAIN execs
      /\ \A i \in DOMAIN execs : execs'[i].inv = execs[i].inv
      /\ \A i \in DOMAIN execs :
           execs'[i].scratch =>
             /\ Assignable(i)'
             /\ execs'[i].swept # "removed"
             /\ execs'[i].result \in Outcomes => execs'[i].unclean
  BY Noted
<1>2. TypeInv'
  BY <1>1 DEF TypeInv
<1>3. SeenInv'
  BY <1>1 DEF SeenInv
<1>4. InvInv'
  BY <1>1 DEF InvInv
<1>5. RunningInv'
  BY DEF RunningInv, AtWork
<1>6. \A i \in DOMAIN execs : execs'[i].inv # inv
  <2>1. \A i \in DOMAIN execs : execs[i].inv \in Nat /\ execs[i].inv < inv
    BY Entries DEF InvInv, Exec
  <2> QED BY <1>1, <2>1 DEF TypeInv
<1>7. StopInv'
  BY <1>1, <1>6 DEF StopInv
<1>8. ScratchInv'
  BY <1>1 DEF ScratchInv
<1>9. NoScratchLeft'
  BY DEF NoScratchLeft
<1> QED BY <1>1, <1>2, <1>3, <1>4, <1>5, <1>7, <1>8, <1>9

\* An end without further ado: what is left has to be sound by itself.
Reset ==
  /\ pc' = "idle" /\ trial' = 1 /\ inv' = inv
  /\ assigned' = {} /\ finished' = {} /\ restartable' = {}
  /\ outcome' = "valid" /\ unclean' = FALSE /\ cancelled' = FALSE

LEMMA ResetKeeps ==
  ASSUME IInv, Reset, LedgerInv', execs' \in Seq(Exec),
         \A i \in DOMAIN execs' : execs'[i].inv \in 1 .. inv,
         \A i \in DOMAIN execs' :
           execs'[i].scratch =>
             /\ Assignable(i)'
             /\ execs'[i].swept # "removed"
             /\ execs'[i].result \in Outcomes => execs'[i].unclean
  PROVE  IInv'
<1> USE DEF Reset, IInv
<1>1. TypeInv'
  BY DEF TypeInv, Outcomes
<1>2. SeenInv'
  BY DEF SeenInv
<1>3. InvInv'
  BY DEF InvInv
<1>4. RunningInv'
  BY DEF RunningInv, AtWork
<1>5. StopInv'
  BY DEF StopInv
<1>6. ScratchInv'
  BY DEF ScratchInv
<1>7. NoScratchLeft'
  BY DEF NoScratchLeft
<1> QED BY <1>1, <1>2, <1>3, <1>4, <1>5, <1>6, <1>7

\* The running execution gets its directory, or loses it.
LEMMA WorkKeeps ==
  ASSUME IInv, NEW e, Notes(Now, e), e.swept = "none",
         \/ pc = "setup" /\ pc' = "work"
         \/ pc = "sweep" /\ pc' = "store" /\ ~e.scratch,
         e.marker = execs[Now].marker,
         unclean' \in BOOLEAN, cancelled' \in BOOLEAN,
         UNCHANGED <<inv, trial, assigned, finished, restartable, outcome>>
  PROVE  IInv'
<1> USE DEF IInv
<1> PICK n : n = Now
  OBVIOUS
<1>0. Notes(n, e)
  OBVIOUS
<1>1. /\ LedgerInv' /\ Now' = n /\ Assigned' = Assigned /\ Finished' = Finished
      /\ execs' \in Seq(Exec) /\ DOMAIN execs' = DOMAIN execs
      /\ execs'[n] = e /\ \A i \in DOMAIN execs : i # n => execs'[i] = execs[i]
      /\ \A i \in DOMAIN execs : Fatal(i)' <=> Fatal(i)
      /\ \A i \in DOMAIN execs : execs'[i].inv = execs[i].inv
      /\ \A i \in DOMAIN execs :
           execs'[i].scratch =>
             /\ Assignable(i)'
             /\ execs'[i].swept # "removed"
             /\ execs'[i].result \in Outcomes => execs'[i].unclean
  BY <1>0, Noted
<1>2. pc \in AtWork /\ pc' \in {"work", "store"}
  BY DEF AtWork
<1>3. Fresh(n) /\ execs[n].result = "none" /\ ~execs[n].unclean /\ execs[n].marker = "none"
  BY <1>2 DEF RunningInv, Fresh
<1>4. SameView
  BY <1>0, AlikeView DEF Notes
<1>5. execs'[n].marker = "none"
  BY <1>1, <1>3
<1>6. Fresh(n)'
  BY <1>3, <1>4, <1>5, FreshKept
<1>7. TypeInv'
  BY <1>1, <1>2 DEF TypeInv, AtWork
<1>8. SeenInv'
  BY <1>2 DEF SeenInv
<1>9. InvInv'
  BY <1>1, <1>2 DEF InvInv, AtWork
<1>10. RunningInv'
  <2>1. Fresh(Now)'
    BY <1>1, <1>6 DEF Fresh
  <2>2. e.result = "none" /\ ~e.unclean
    BY <1>0, <1>3 DEF Notes, Alike
  <2> QED BY <1>1, <1>2, <2>1, <2>2 DEF RunningInv
<1>11. StopInv'
  BY <1>1, <1>2 DEF StopInv, AtWork
<1>12. ScratchInv'
  BY <1>1, <1>2 DEF ScratchInv
<1>13. NoScratchLeft'
  BY <1>1, <1>2 DEF NoScratchLeft, AtWork
<1> QED BY <1>1, <1>7, <1>8, <1>9, <1>10, <1>11, <1>12, <1>13

\* Each of the writes is such a note.
LEMMA QuarantineNotes ==
  ASSUME IInv, pc = "recover", NEW i \in Unassigned,
         execs' = [execs EXCEPT ![i].quarantined = TRUE]
  PROVE  \E e : Notes(i, e)
<1> USE DEF IInv
<1>1. /\ i \in DOMAIN execs /\ ~execs[i].quarantined /\ i \notin Assigned
  BY DEF Unassigned, SeenInv
<1>2. ~Assignable(i) /\ execs[i].trialFile # "good"
  BY <1>1 DEF Assigned, Assignable
<1>3. ~execs[i].scratch
  BY <1>1, <1>2 DEF ScratchInv
<1>4. PICK e : /\ execs' = [execs EXCEPT ![i] = e] /\ Alike(e, execs[i])
               /\ e.quarantined = TRUE /\ e.scratch = execs[i].scratch
  BY <1>1, QuarantinedIs
<1> QED BY <1>1, <1>2, <1>3, <1>4 DEF Notes

LEMMA MarkNotes ==
  ASSUME IInv, pc = "recover", NEW i \in Unmarked, NEW v \in {"good", "bad"},
         execs' = [execs EXCEPT ![i].marker = v]
  PROVE  \E e : Notes(i, e)
<1> USE DEF IInv
<1>1. i \in DOMAIN execs /\ i \in Assigned /\ i \notin Finished /\ execs[i].marker # "good"
  BY DEF Unmarked, SeenInv, Assigned
<1>2. Assignable(i) /\ execs[i].result \notin Outcomes
  BY <1>1 DEF Assigned, Finished, Readable, Marked
<1>3. PICK e : /\ execs' = [execs EXCEPT ![i] = e] /\ Alike(e, execs[i])
               /\ e.quarantined = execs[i].quarantined
               /\ e.swept = execs[i].swept /\ e.scratch = execs[i].scratch
  BY <1>1, MarkerIs
<1> QED BY <1>1, <1>2, <1>3 DEF Notes, Alike, ScratchInv, Assignable

LEMMA SweptNotes ==
  ASSUME IInv, pc = "recover", NEW i \in Unswept, NEW m \in {"none", "bad", "removed", "failed"},
         \/ execs' = [execs EXCEPT ![i].scratch = FALSE, ![i].swept = m]
         \/ /\ execs[i].scratch /\ m = "failed"
            /\ execs' = [execs EXCEPT ![i].swept = m]
  PROVE  \E e : Notes(i, e)
<1> USE DEF IInv
<1>1. i \in DOMAIN execs /\ i \in Assigned
  BY DEF Unswept, SeenInv, Assigned
<1>2. Assignable(i)
  BY <1>1 DEF Assigned
<1>3. PICK v \in BOOLEAN :
        /\ v => m # "removed" /\ execs[i].scratch
        /\ Sweeps(i, v, m)
  BY Entries, <1>1 DEF Exec, Sweeps
<1> HIDE DEF IInv
<1>4. TypeInv
  BY DEF IInv
<1>5. Sweeps(i, v, m)
  BY <1>3
<1>6. PICK e : /\ execs' = [execs EXCEPT ![i] = e] /\ Alike(e, execs[i])
               /\ e.scratch = v /\ e.swept = m
               /\ e.marker = execs[i].marker /\ e.quarantined = execs[i].quarantined
  BY <1>1, <1>4, <1>5, SweptIs
<1> QED BY <1>1, <1>2, <1>3, <1>6 DEF Notes, Alike, ScratchInv, Assignable, IInv

LEMMA ScratchNotes ==
  ASSUME IInv, pc \in {"setup", "sweep"}, NEW v \in BOOLEAN,
         execs' = [execs EXCEPT ![Now].scratch = v]
  PROVE  \E e : Notes(Now, e) /\ e.scratch = v /\ e.swept = "none"
                /\ e.marker = execs[Now].marker
<1> USE DEF IInv
<1> PICK n : n = Now
  OBVIOUS
<1>1. /\ n \in Assigned /\ execs[n].swept = "none" /\ execs[n].result = "none"
  BY DEF RunningInv, Fresh, AtWork
<1>2. Assignable(n) /\ n \in DOMAIN execs
  BY <1>1 DEF Assigned
<1>3. PICK e : /\ execs' = [execs EXCEPT ![n] = e] /\ Alike(e, execs[n])
               /\ e.scratch = v /\ e.marker = execs[n].marker
               /\ e.swept = execs[n].swept /\ e.quarantined = execs[n].quarantined
  BY <1>2, ScratchIs
<1>4. execs[n].result \notin Outcomes
  BY <1>1 DEF Outcomes
<1>5. Notes(n, e)
  BY <1>1, <1>2, <1>3, <1>4 DEF Notes, Alike, Assignable
<1> QED BY <1>1, <1>3, <1>5

-----------------------------------------------------------------------------
(* The beginning and the end of an execution *)

\* A new execution has no scratch directory and nothing else to it.
LEMMA StartedIs ==
  ASSUME IInv, Starting, NEW file \in {"good", "bad"},
         execs' = Append(execs, Execution(file))
  PROVE  /\ LedgerInv' /\ execs' \in Seq(Exec) /\ Len(execs') = Len(execs) + 1
         /\ DOMAIN execs' = DOMAIN execs \cup {Len(execs) + 1}
         /\ ~execs'[Len(execs) + 1].scratch /\ ~execs'[Len(execs) + 1].unclean
         /\ execs'[Len(execs) + 1].result = "none" /\ execs'[Len(execs) + 1].swept = "none"
         /\ \A i \in DOMAIN execs : execs'[i] = execs[i]
         /\ \A i \in DOMAIN execs' : execs'[i].inv \in 1 .. inv
         /\ \A i \in DOMAIN execs' :
              execs'[i].scratch =>
                /\ Assignable(i)'
                /\ execs'[i].swept # "removed"
                /\ execs'[i].result \in Outcomes => execs'[i].unclean
<1> USE DEF IInv
<1>0. PICK e : e = Execution(file)
  OBVIOUS
<1>1. assigned = Assigned /\ NumberInv /\ pc = "decide"
  BY DEF Starting, SeenInv, LedgerInv
<1>2. /\ e \in Exec /\ e.result = "none" /\ e.inv = inv
      /\ ~e.scratch /\ ~e.unclean /\ e.swept = "none"
  BY <1>0, <1>1, ExecutionIs
<1>3. execs' = Append(execs, e)
  BY <1>0
<1>4. /\ execs' \in Seq(Exec) /\ Len(execs') = Len(execs) + 1
      /\ DOMAIN execs' = DOMAIN execs \cup {Len(execs) + 1}
      /\ execs'[Len(execs) + 1] = e
      /\ \A i \in DOMAIN execs : execs'[i] = execs[i]
  BY <1>2, <1>3, Appended
<1>5. LedgerInv'
  BY StartKeeps
<1>6. inv \in 1 .. inv
  BY <1>1 DEF InvInv, TypeInv
<1>7. \A i \in DOMAIN execs' : execs'[i].inv \in 1 .. inv
  BY <1>2, <1>4, <1>6 DEF InvInv
<1>8. ASSUME NEW i \in DOMAIN execs', execs'[i].scratch
      PROVE  /\ Assignable(i)'
             /\ execs'[i].swept # "removed"
             /\ execs'[i].result \in Outcomes => execs'[i].unclean
  <2>1. i \in DOMAIN execs /\ execs'[i] = execs[i]
    BY <1>2, <1>4, <1>8
  <2> QED BY <1>8, <2>1 DEF ScratchInv, Assignable
<1> QED BY <1>2, <1>4, <1>5, <1>7, <1>8

LEMMA StartTrialKeeps ==
  ASSUME IInv, StartTrial
  PROVE  IInv'
<1> USE DEF IInv
<1>1. /\ Starting /\ pc = "decide" /\ pc' = "setup"
      /\ execs' = Append(execs, Execution("good"))
      /\ UNCHANGED <<inv, trial, assigned, finished, restartable>>
      /\ UNCHANGED <<outcome, unclean, cancelled>>
  BY DEF StartTrial, Starting, seen, running
<1> PICK n : n = Len(execs) + 1
  OBVIOUS
<1>2. /\ LedgerInv' /\ execs' \in Seq(Exec) /\ Len(execs') = n
      /\ DOMAIN execs' = DOMAIN execs \cup {n}
      /\ ~execs'[n].scratch /\ ~execs'[n].unclean
      /\ execs'[n].result = "none" /\ execs'[n].swept = "none"
      /\ \A i \in DOMAIN execs : execs'[i] = execs[i]
      /\ \A i \in DOMAIN execs' : execs'[i].inv \in 1 .. inv
      /\ \A i \in DOMAIN execs' :
           execs'[i].scratch =>
             /\ Assignable(i)'
             /\ execs'[i].swept # "removed"
             /\ execs'[i].result \in Outcomes => execs'[i].unclean
  BY <1>1, StartedIs
<1>3. Now' = n
  BY <1>2 DEF Now
<1>4. Fresh(Now)'
  BY <1>1, StartedIsFresh
<1>5. TypeInv'
  BY <1>1, <1>2 DEF TypeInv, AtWork
<1>6. SeenInv'
  BY <1>1 DEF SeenInv
<1>7. InvInv'
  BY <1>1, <1>2 DEF InvInv
<1>8. RunningInv'
  BY <1>2, <1>3, <1>4 DEF RunningInv
<1>9. StopInv'
  <2>1. \A i \in DOMAIN execs : execs[i].inv = inv => ~Fatal(i)
    BY <1>1, NoFatalAtStart
  <2> QED BY <1>1, <1>2, <2>1 DEF StopInv, Fatal
<1>10. ScratchInv'
  BY <1>1, <1>2, <1>3 DEF ScratchInv
<1>11. NoScratchLeft'
  <2> SUFFICES ASSUME NEW i \in DOMAIN execs', execs'[i].scratch
               PROVE  \/ execs'[i].swept = "failed"
                      \/ execs'[i].result \in Outcomes /\ execs'[i].unclean
    BY DEF NoScratchLeft
  <2>1. i \in DOMAIN execs /\ execs'[i] = execs[i]
    BY <1>2
  <2> QED BY <1>1, <2>1 DEF NoScratchLeft
<1> QED BY <1>2, <1>5, <1>6, <1>7, <1>8, <1>9, <1>10, <1>11

\* A result is stored over a directory only where its removal is known to have
\* failed.
LEMMA StoredScratch ==
  ASSUME IInv, pc = "store", NEW n, NEW e, Stores(n, e),
         e.result \in Outcomes => e.unclean = unclean,
         e.scratch = execs[n].scratch, e.swept = execs[n].swept
  PROVE  /\ \A i \in DOMAIN execs' : execs'[i].inv \in 1 .. inv
         /\ \A i \in DOMAIN execs' :
              execs'[i].scratch =>
                /\ Assignable(i)'
                /\ execs'[i].swept # "removed"
                /\ execs'[i].result \in Outcomes => execs'[i].unclean
<1> USE DEF IInv
<1>1. Unstored
  BY DEF RunningInv, AtWork, Unstored
<1>2. /\ n \in DOMAIN execs /\ DOMAIN execs' = DOMAIN execs
      /\ execs'[n] = e /\ \A i \in DOMAIN execs : i # n => execs'[i] = execs[i]
  BY <1>1, StoredIs
<1>3. \A i \in DOMAIN execs' : execs'[i].inv \in 1 .. inv
  BY <1>2 DEF InvInv, Stores
<1>4. ASSUME NEW i \in DOMAIN execs', execs'[i].scratch
      PROVE  /\ Assignable(i)'
             /\ execs'[i].swept # "removed"
             /\ execs'[i].result \in Outcomes => execs'[i].unclean
  <2>1. CASE i = n
    BY <1>2, <1>4, <2>1 DEF Stores, ScratchInv, Assignable
  <2>2. CASE i # n
    BY <1>2, <1>4, <2>2 DEF ScratchInv, Assignable
  <2> QED BY <2>1, <2>2
<1> QED BY <1>3, <1>4

LEMMA StoreResultKeeps ==
  ASSUME IInv, Retries \in Nat, StoreResult
  PROVE  IInv'
<1> USE DEF IInv
<1>1. /\ pc = "store" /\ pc' \in {"idle", "rescan"} /\ execs' = Stored(outcome)
      /\ UNCHANGED <<inv, trial, assigned, finished, restartable>>
      /\ UNCHANGED <<outcome, unclean, cancelled>>
  BY DEF StoreResult, seen, running
<1>2. Unstored
  BY <1>1 DEF RunningInv, AtWork, Unstored
<1> PICK n : n = Now
  OBVIOUS
<1>3. outcome \in Outcomes /\ unclean \in BOOLEAN
  BY DEF TypeInv
<1>4. Writes(outcome, unclean)
  BY <1>1 DEF Stored, Writes
<1>5. PICK e : /\ Stores(Now, e) /\ e.result = outcome /\ e.unclean = unclean
               /\ e.scratch = execs[Now].scratch /\ e.swept = execs[Now].swept
  BY <1>2, <1>3, <1>4, ResultIs
<1>6. Stores(n, e)
  BY <1>5
<1>7. LedgerInv'
  BY <1>2, <1>6, StoreKeeps
<1>8. /\ n \in DOMAIN execs /\ execs' \in Seq(Exec) /\ DOMAIN execs' = DOMAIN execs
      /\ execs'[n] = e /\ \A i \in DOMAIN execs : i # n => execs'[i] = execs[i]
  BY <1>2, <1>6, StoredIs
<1>9. Fresh(n)' /\ Now' = n
  BY <1>1, <1>2, <1>6, FreshStored
<1>10. /\ \A i \in DOMAIN execs' : execs'[i].inv \in 1 .. inv
       /\ \A i \in DOMAIN execs' :
            execs'[i].scratch =>
              /\ Assignable(i)'
              /\ execs'[i].swept # "removed"
              /\ execs'[i].result \in Outcomes => execs'[i].unclean
  BY <1>1, <1>5, <1>6, StoredScratch
<1>11. TypeInv'
  BY <1>1, <1>8 DEF TypeInv
<1>12. SeenInv'
  BY <1>1 DEF SeenInv
<1>13. InvInv'
  BY <1>1, <1>10 DEF InvInv
<1>14. RunningInv'
  BY <1>1, <1>9 DEF RunningInv, AtWork, Fresh
<1>15. StopInv'
  <2> SUFFICES ASSUME pc' # "idle", NEW i \in DOMAIN execs', execs'[i].inv = inv, Fatal(i)'
               PROVE  pc' \in {"rescan", "decide"} /\ Fresh(i)'
    BY <1>1 DEF StopInv
  <2>1. CASE i = n
    BY <1>1, <1>9, <2>1 DEF Fresh
  <2>2. CASE i # n
    BY <1>1, <1>8, <2>2 DEF StopInv, Fatal
  <2> QED BY <2>1, <2>2
<1>16. ScratchInv'
  BY <1>1, <1>10 DEF ScratchInv
<1>17. NoScratchLeft'
  <2> SUFFICES ASSUME NEW i \in DOMAIN execs', execs'[i].scratch
               PROVE  \/ execs'[i].swept = "failed"
                      \/ execs'[i].result \in Outcomes /\ execs'[i].unclean
    BY DEF NoScratchLeft
  <2>1. CASE i = n
    BY <1>3, <1>5, <1>8, <1>10, <2>1
  <2>2. CASE i # n
    BY <1>1, <1>8, <2>2 DEF NoScratchLeft
  <2> QED BY <2>1, <2>2
<1> QED BY <1>7, <1>11, <1>12, <1>13, <1>14, <1>15, <1>16, <1>17

-----------------------------------------------------------------------------
(* An end anywhere *)

\* Whatever the disk holds of the last write is sound.
Sound ==
  /\ LedgerInv' /\ execs' \in Seq(Exec)
  /\ \A i \in DOMAIN execs' : execs'[i].inv \in 1 .. inv
  /\ \A i \in DOMAIN execs' :
       execs'[i].scratch =>
         /\ Assignable(i)'
         /\ execs'[i].swept # "removed"
         /\ execs'[i].result \in Outcomes => execs'[i].unclean

LEMMA NotedIsSound ==
  ASSUME IInv, NEW n, NEW e, Notes(n, e)
  PROVE  Sound
  BY Noted DEF IInv, InvInv, Sound

LEMMA TornIsSound ==
  ASSUME IInv, Retries \in Nat, Torn
  PROVE  Sound
<1>1. CASE UNCHANGED execs
  BY <1>1, Quiet DEF IInv, TypeInv, InvInv, ScratchInv, Sound
<1>2. CASE Starting /\ execs' = Append(execs, Execution("bad"))
  BY <1>2, StartedIs DEF Sound
<1>3. CASE pc = "store" /\ execs' = [execs EXCEPT ![Now].result = "bad"]
  <2> USE DEF IInv
  <2>1. Unstored
    BY <1>3 DEF RunningInv, AtWork, Unstored
  <2>2. execs[Now].unclean \in BOOLEAN
    BY <2>1, Entries DEF Unstored, Fresh, Assigned, Exec
  <2> PICK v : v = execs[Now].unclean
    OBVIOUS
  <2>3. Writes("bad", v) /\ v \in BOOLEAN
    BY <1>3, <2>2 DEF Writes
  <2>4. PICK e : /\ Stores(Now, e) /\ e.result = "bad"
                 /\ e.scratch = execs[Now].scratch /\ e.swept = execs[Now].swept
    BY <2>1, <2>3, ResultIs
  <2>5. LedgerInv'
    BY <2>1, <2>4, StoreKeeps
  <2>6. execs' \in Seq(Exec)
    BY <2>1, <2>4, StoredIs
  <2>7. e.result \in Outcomes => e.unclean = unclean
    BY <2>4 DEF Outcomes
  <2> QED BY <1>3, <2>4, <2>5, <2>6, <2>7, StoredScratch DEF Sound
<1>4. CASE pc = "sweep" /\ execs' = [execs EXCEPT ![Now].scratch = FALSE]
  <2>1. \E e : Notes(Now, e)
    BY <1>4, ScratchNotes
  <2> QED BY <2>1, NotedIsSound
<1>5. CASE pc = "recover" /\ \E i \in Unmarked : execs' = [execs EXCEPT ![i].marker = "bad"]
  <2>1. \E n, e : Notes(n, e)
    BY <1>5, MarkNotes
  <2> QED BY <2>1, NotedIsSound
<1>6. CASE pc = "recover" /\ \E i \in Unswept, m \in {"none", "bad"} :
             execs' = [execs EXCEPT ![i].scratch = FALSE, ![i].swept = m]
  <2>1. PICK i \in Unswept, m \in {"none", "bad"} :
          execs' = [execs EXCEPT ![i].scratch = FALSE, ![i].swept = m]
    BY <1>6
  <2>2. \E e : Notes(i, e)
    BY <1>6, <2>1, SweptNotes
  <2> QED BY <2>2, NotedIsSound
<1> QED BY <1>1, <1>2, <1>3, <1>4, <1>5, <1>6 DEF Torn

-----------------------------------------------------------------------------
(* Every step *)

LEMMA StutterKeeps ==
  ASSUME IInv, UNCHANGED <<execs, inv, trial, restartable, assigned, finished>>,
         UNCHANGED <<pc, outcome, unclean, cancelled>>
  PROVE  IInv'
<1> USE DEF IInv
<1>1. /\ LedgerInv' /\ Now' = Now /\ Assigned' = Assigned /\ Finished' = Finished
      /\ \A i : (Assignable(i)' <=> Assignable(i)) /\ (Fatal(i)' <=> Fatal(i))
      /\ \A i : Fresh(i) => Fresh(i)'
  BY Quiet
<1>2. TypeInv' /\ SeenInv' /\ InvInv' /\ NoScratchLeft'
  BY <1>1 DEF TypeInv, SeenInv, InvInv, NoScratchLeft
<1>3. RunningInv'
  <2> PICK n : n = Now
    OBVIOUS
  <2>1. pc \in AtWork \cup {"rescan"} => Fresh(n)
    BY DEF RunningInv
  <2>2. pc \in AtWork \cup {"rescan"} => Fresh(Now)'
    BY <1>1, <2>1 DEF Fresh
  <2> QED BY <1>1, <2>2 DEF RunningInv
<1>4. StopInv'
  BY <1>1 DEF StopInv
<1>5. ScratchInv'
  BY <1>1 DEF ScratchInv
<1> QED BY <1>1, <1>2, <1>3, <1>4, <1>5

LEMMA NoneInfra ==
  ASSUME Finished = {}, Retries \in Nat
  PROVE  AllowanceIsKept
<1>1. \A t \in Trials : Infra(t) = {}
  BY DEF Infra
<1>2. Cardinality({}) = 0
  BY FS_EmptySet
<1>3. \A t \in Trials : Cardinality(Infra(t)) <= Retries + 1
  BY <1>1, <1>2
<1> QED BY <1>3, AllowanceOfInfra

LEMMA InitInv ==
  ASSUME Retries \in Nat
  PROVE  Init => IInv
<1> SUFFICES ASSUME Init PROVE IInv
  OBVIOUS
<1>1. execs = << >> /\ pc = "idle" /\ inv = 0 /\ trial = 1 /\ restartable = {}
      /\ outcome = "valid" /\ unclean = FALSE /\ cancelled = FALSE
  BY DEF Init
<1>2. execs \in Seq(Exec) /\ DOMAIN execs = {} /\ Len(execs) = 0
  BY <1>1
<1>3. Assigned = {} /\ Finished = {}
  BY <1>2 DEF Assigned, Finished
<1>4. TypeInv
  BY <1>1, <1>2 DEF TypeInv, Outcomes
<1>5. LedgerInv
  <2>1. NumberInv /\ DecisionsAreFinal /\ FatalStopsInvocation
    BY <1>2, <1>3 DEF NumberInv, AttemptsAreUnique, Clash, DecisionsAreFinal,
                      FatalStopsInvocation
  <2>2. AllowanceIsKept
    BY <1>3, NoneInfra
  <2> QED BY <2>1, <2>2 DEF LedgerInv
<1> QED BY <1>1, <1>2, <1>4, <1>5
    DEF IInv, SeenInv, InvInv, RunningInv, AtWork, StopInv, ScratchInv, NoScratchLeft

LEMMA StepInv ==
  ASSUME Flaky = FALSE, Retries \in Nat, IInv, [Next]_vars
  PROVE  IInv'
<1>1. CASE Run \/ Resume
  BY <1>1, BeginKeeps
<1>2. CASE Quarantine
  <2>1. PICK i \in Unassigned : execs' = [execs EXCEPT ![i].quarantined = TRUE]
    BY <1>2 DEF Quarantine
  <2>2. PICK e : Notes(i, e)
    BY <1>2, <2>1, QuarantineNotes DEF Quarantine
  <2> QED BY <1>2, <2>2, RecoveryKeeps DEF Quarantine, seen, running
<1>3. CASE MarkInterrupted
  <2>1. PICK i \in Unmarked : execs' = [execs EXCEPT ![i].marker = "good"]
    BY <1>3 DEF MarkInterrupted
  <2>2. PICK e : Notes(i, e)
    BY <1>3, <2>1, MarkNotes DEF MarkInterrupted
  <2> QED BY <1>3, <2>2, RecoveryKeeps DEF MarkInterrupted, seen, running
<1>4. CASE SweepScratch
  <2>1. PICK i \in Unswept :
          \/ execs' = [execs EXCEPT ![i].scratch = FALSE, ![i].swept = "removed"]
          \/ execs[i].scratch /\ execs' = [execs EXCEPT ![i].swept = "failed"]
    BY <1>4 DEF SweepScratch
  <2>2. \E e : Notes(i, e)
    BY <1>4, <2>1, SweptNotes DEF SweepScratch
  <2> QED BY <1>4, <2>2, RecoveryKeeps DEF SweepScratch, seen, running
<1>5. CASE Recovered
  BY <1>5, RecoveredKeeps
<1>6. CASE FirstScan \/ Rescan
  BY <1>6, ScanKeeps
<1>7. CASE NextTrial
  BY <1>7, NextTrialKeeps
<1>8. CASE StartTrial
  BY <1>8, StartTrialKeeps
<1>9. CASE Setup
  <2>1. CASE pc' = "work"
    <3>1. /\ pc = "setup" /\ execs' = [execs EXCEPT ![Now].scratch = TRUE]
          /\ UNCHANGED <<outcome, inv, trial, assigned, finished, restartable>>
          /\ unclean' = FALSE /\ cancelled' = FALSE
      BY <1>9, <2>1 DEF Setup, seen
    <3>2. PICK e : Notes(Now, e) /\ e.swept = "none" /\ e.marker = execs[Now].marker
      BY <3>1, ScratchNotes
    <3> QED BY <2>1, <3>1, <3>2, WorkKeeps
  <2>2. CASE pc' = "store"
    BY <1>9, <2>2, GoesOnKeeps DEF Setup, GoesOn, seen, Outcomes
  <2> QED BY <1>9, <2>1, <2>2 DEF Setup
<1>10. CASE Work \/ CancelWork
  <2>1. cancelled \in BOOLEAN
    BY DEF IInv, TypeInv
  <2> QED BY <1>10, <2>1, GoesOnKeeps DEF Work, CancelWork, GoesOn, ledger, seen
<1>11. CASE Sweep
  <2>1. outcome \in Outcomes /\ unclean \in BOOLEAN /\ cancelled \in BOOLEAN
    BY DEF IInv, TypeInv
  <2>2. CASE execs' = [execs EXCEPT ![Now].scratch = FALSE] /\ UNCHANGED unclean
    <3>1. /\ pc = "sweep" /\ pc' = "store"
          /\ UNCHANGED <<outcome, inv, trial, assigned, finished, restartable>>
          /\ unclean' \in BOOLEAN /\ cancelled' \in BOOLEAN
      BY <1>11, <2>1, <2>2 DEF Sweep, seen
    <3>2. PICK e : /\ Notes(Now, e) /\ e.scratch = FALSE /\ e.swept = "none"
                   /\ e.marker = execs[Now].marker
      BY <2>2, <3>1, ScratchNotes
    <3> QED BY <3>1, <3>2, WorkKeeps
  <2>3. CASE unclean' = TRUE /\ UNCHANGED execs
    BY <1>11, <2>1, <2>3, GoesOnKeeps DEF Sweep, GoesOn, seen
  <2> QED BY <1>11, <2>2, <2>3 DEF Sweep
<1>12. CASE StoreResult
  BY <1>12, StoreResultKeeps
<1>13. CASE Dies
  <2>1. Sound
    BY <1>13, TornIsSound DEF Dies
  <2>2. Reset
    BY <1>13 DEF Dies, Reset
  <2> QED BY <2>1, <2>2, ResetKeeps DEF Sound
<1>14. CASE UNCHANGED vars
  <2>1. UNCHANGED <<execs, inv, trial, restartable, assigned, finished>>
        /\ UNCHANGED <<pc, outcome, unclean, cancelled>>
    BY <1>14 DEF vars, ledger, seen, running
  <2> QED BY <2>1, StutterKeeps
<1> QED BY <1>1, <1>2, <1>3, <1>4, <1>5, <1>6, <1>7, <1>8, <1>9, <1>10, <1>11,
           <1>12, <1>13, <1>14 DEF Next

\* IInv is inductive.
LEMMA Invariance ==
  ASSUME Flaky = FALSE, Retries \in Nat
  PROVE  Spec => []IInv
<1>1. Init => IInv
  BY InitInv
<1>2. IInv /\ [Next]_vars => IInv'
  BY StepInv
<1> QED BY <1>1, <1>2, PTL DEF Spec

\* As long as no healthy file is unreadable, scan never refuses a job for two
\* records of one attempt: NextAttempt gives out each number once, wherever
\* invocations were interrupted (runner._execute_job, jobs.scan).
THEOREM UniqueAttempts ==
  ASSUME Flaky = FALSE, Retries \in Nat
  PROVE  Spec => []AttemptsAreUnique
<1>1. IInv => AttemptsAreUnique
  BY DEF IInv, LedgerInv, NumberInv
<1> QED BY <1>1, Invariance, PTL

\* As long as no healthy file is unreadable, a trial is decided once and within
\* its allowance, a stop ends its invocation, and recovery leaves no scratch
\* directory behind (jobs.select, runner._execute_job, jobs.mark_interrupted).
THEOREM SoundLedger ==
  ASSUME Flaky = FALSE, Retries \in Nat
  PROVE  Spec => []LedgerIsSound
<1>1. IInv => LedgerIsSound
  BY DEF IInv, LedgerInv, LedgerIsSound
<1> QED BY <1>1, Invariance, PTL
=============================================================================
