---------------------------- MODULE MachineProofs ----------------------------
(* Limits and rollbacks of the process plugin, for any number of calls,    *)
(* processes and turns; searches of any tree, pages of any file and        *)
(* patches of any file by any diff.                                        *)
EXTENDS MCMachine, TLAPS, FiniteSetTheorems, NaturalsInduction, WellFoundedInduction

Stages == {"off", "abort", "wait", "stopped"}

Records ==
  [os : {"none", "live", "dead"}, state : {"none", "running", "exited"},
   listed : BOOLEAN, turn : 0 .. MaxTurns, port : Ports \cup {NoPort},
   ended : Nat, ready : BOOLEAN, changed : BOOLEAN,
   source : {"none", "active", "told", "silent"},
   tool : Stages, reap : Stages, close : Stages]

CallRecords ==
  [at : {"free", "use", "confirm", "approved", "launch", "scan", "waiting",
         "stopping", "done"},
   op : {"start", "stop", "list"}, p : 0 .. MaxStarts, port : Ports \cup {NoPort},
   watch : BOOLEAN]

TypeOK ==
  /\ proc \in [Procs -> Records]
  /\ call \in [Calls -> CallRecords]
  /\ turn \in 0 .. MaxTurns
  /\ mode \in {"idle", "running", "stopping", "closed"}
  /\ reap \in [1 .. MaxTurns -> SUBSET Procs]
  /\ closing \in SUBSET Procs

\* What holds of one process by itself.  A stopping task that is past its abort
\* has seen it die; only what is off the list is reaped, and it is silent.
Sound(q) ==
  /\ q \in Records
  /\ q.os = "none" => q = Unborn
  /\ q.os = "live" => q.state = "running"
  /\ q.os # "none" => q.state # "none" /\ q.turn # 0
  /\ \A stage \in {q.tool, q.reap, q.close} :
       stage \in {"wait", "stopped"} => q.os = "dead"
  /\ q.reap # "off" => ~q.listed /\ q.source \in {"none", "silent"}

\* What relates it to the reaping: it is on the list, in the hands of the _reap
\* of its own turn, or dead.
Owned(q, p) ==
  /\ \A t \in 1 .. MaxTurns : p \in reap[t] =>
       /\ q.os # "none" /\ q.turn = t /\ ~q.listed
       /\ q.source \in {"none", "silent"}
  /\ q.reap \in {"abort", "wait"} => p \in reap[q.turn]
  /\ q.os = "live" => q.listed \/ p \in reap[q.turn]

\* A turn is reaped when it is over.
ReapedTurns ==
  /\ mode \in {"running", "stopping"} => turn # 0
  /\ \A t \in 1 .. MaxTurns :
       reap[t] # {} => t < turn \/ (t = turn /\ mode \in {"idle", "closed"})

\* A call that is past `use` found the kills done, and one that launches found
\* room, which only a launch takes.
CallsFit ==
  /\ \A c \in Calls : call[c].at \in {"confirm", "approved", "launch", "scan",
                                      "waiting", "stopping"} => Reaping = {}
  /\ \A c \in Calls : call[c].at = "launch" => Fits(call[c].port)
  /\ \A c \in Calls : call[c].at \in {"scan", "waiting", "stopping"} => call[c].p \in Procs
  /\ \A c, d \in Calls :
       call[c].at \in {"launch", "stopping"} /\ call[d].at \in {"launch", "stopping"} => c = d

\* A close stops what was started.
ClosingStarted == \A p \in closing : proc[p].os # "none"

IInv ==
  /\ TypeOK
  /\ ClosingStarted
  /\ \A p \in Procs : Sound(proc[p]) /\ Owned(proc[p], p)
  /\ ReapedTurns
  /\ CallsFit
  /\ LimitsHold

\* One process may turn into another without taking room: it is not revived, does
\* not come back on the list, and keeps its port.
Less(q, r) ==
  /\ q.port = r.port
  /\ q.listed => r.listed
  /\ q.os = "live" => r.os = "live"
  /\ q.os = "none" => r.os = "none"
  /\ q.state = "running" => r.state = "running"

Shrinks == \A p \in Procs : Less(proc[p]', proc[p])

-----------------------------------------------------------------------------

LEMMA ProcsFinite ==
  ASSUME NEW S \in SUBSET Procs
  PROVE  IsFiniteSet(S) /\ Cardinality(S) \in Nat
<1>1. IsFiniteSet(Procs)
  BY FS_Interval, ProcessesAssumption DEF Procs
<1> QED
  BY <1>1, FS_Subset, FS_CardinalityType

LEMMA SmallerSet ==
  ASSUME NEW T \in SUBSET Procs, NEW S \in SUBSET T
  PROVE  Cardinality(S) <= Cardinality(T)
BY ProcsFinite, FS_Subset

\* Where nothing is started, the limits go on to hold and what fitted fits.
LEMMA ShrinkingFits ==
  ASSUME Shrinks
  PROVE  /\ LimitsHold => LimitsHold'
         /\ \A port : Fits(port) => Fits(port)'
<1>1. Live' \subseteq Live /\ RunningProcs' \subseteq RunningProcs /\ Listed' \subseteq Listed
  BY DEF Shrinks, Less, Live, RunningProcs, Listed
<1>2. \A p \in Procs : proc[p]'.port = proc[p].port
  BY DEF Shrinks, Less
<1>3. Live \subseteq Procs /\ RunningProcs \subseteq Procs /\ Listed \subseteq Procs
  BY DEF Live, RunningProcs, Listed
<1>4. /\ Cardinality(Live') <= Cardinality(Live)
      /\ Cardinality(RunningProcs') <= Cardinality(RunningProcs)
  BY <1>1, <1>3, SmallerSet
<1>5. /\ Cardinality(Live) \in Nat /\ Cardinality(Live') \in Nat
      /\ Cardinality(RunningProcs) \in Nat /\ Cardinality(RunningProcs') \in Nat
  BY <1>1, <1>3, ProcsFinite
<1>6. LimitsHold => LimitsHold'
  <2> SUFFICES ASSUME LimitsHold PROVE LimitsHold'
    OBVIOUS
  <2>1. Cardinality(Live') <= MaxProcesses
    BY <1>4, <1>5, ProcessesAssumption DEF LimitsHold
  <2>2. ASSUME NEW p \in Listed', NEW q \in Listed', p # q, proc[p]'.port # NoPort
        PROVE  proc[p]'.port # proc[q]'.port
    BY <1>1, <1>2, <1>3, <2>2 DEF LimitsHold
  <2> QED
    BY <2>1, <2>2 DEF LimitsHold
<1>7. ASSUME NEW port, Fits(port) PROVE Fits(port)'
  <2>1. Cardinality(RunningProcs') < MaxProcesses
    BY <1>4, <1>5, <1>7, ProcessesAssumption DEF Fits
  <2>2. port # NoPort => \A p \in Listed' : proc[p]'.port # port
    BY <1>1, <1>2, <1>3, <1>7 DEF Fits
  <2> QED
    BY <2>1, <2>2 DEF Fits
<1> QED
  BY <1>6, <1>7

\* What a close has still to stop was started once, and stays so.
LEMMA ClosingKept ==
  ASSUME IInv, Shrinks, closing' \subseteq closing
  PROVE  ClosingStarted'
<1>1. \A p \in closing : p \in Procs /\ proc[p].os # "none"
  BY DEF IInv, TypeOK, ClosingStarted
<1> QED
  BY <1>1 DEF Shrinks, Less, ClosingStarted

LEMMA SameReaping == UNCHANGED reap => Reaping' = Reaping
BY DEF Reaping

\* A call changes: it takes the lock when it is free, after the kills.
LEMMA OneCall ==
  ASSUME IInv, Reaping = {} => Reaping' = {}, Shrinks,
         NEW c \in Calls, NEW d \in CallRecords, call' = [call EXCEPT ![c] = d],
         d.at \in {"confirm", "approved", "launch", "scan", "waiting", "stopping"}
           => Reaping = {},
         d.at \in {"scan", "waiting", "stopping"} => d.p \in Procs,
         d.at = "launch" => Fits(d.port),
         d.at \in {"launch", "stopping"} => LockFree
  PROVE  CallsFit' /\ call' \in [Calls -> CallRecords]
<1>1. call' \in [Calls -> CallRecords]
  BY DEF IInv, TypeOK
<1>3. \A e \in Calls : call'[e] = IF e = c THEN d ELSE call[e]
  BY DEF IInv, TypeOK
<1>4. \A e \in Calls : call'[e].at \in {"confirm", "approved", "launch", "scan",
                                        "waiting", "stopping"} => Reaping' = {}
  BY <1>3 DEF IInv, CallsFit
<1>5. \A port : \A e \in Calls : call'[e].at = "launch" /\ port = call'[e].port
                            => Fits(port)'
  BY <1>3, ShrinkingFits DEF IInv, CallsFit
<1>6. ASSUME NEW e \in Calls, NEW f \in Calls,
             call'[e].at \in {"launch", "stopping"}, call'[f].at \in {"launch", "stopping"}
      PROVE  e = f
  BY <1>3, <1>6 DEF IInv, CallsFit, LockFree
<1>7. \A e \in Calls : call'[e].at \in {"scan", "waiting", "stopping"} => call'[e].p \in Procs
  BY <1>3 DEF IInv, CallsFit
<1>8. \A e \in Calls : call'[e].at = "launch" => Fits(call[e].port)'
  BY <1>5 DEF Fits
<1> QED
  BY <1>1, <1>4, <1>6, <1>7, <1>8 DEF CallsFit

\* No call changes.
LEMMA NoCall ==
  ASSUME IInv, UNCHANGED call, Reaping = {} => Reaping' = {}, Shrinks
  PROVE  CallsFit' /\ call' \in [Calls -> CallRecords]
<1>2. \A port : \A c \in Calls : call[c].at = "launch" /\ port = call[c].port
                            => Fits(port)'
  BY ShrinkingFits DEF IInv, CallsFit
<1> QED
  BY <1>2 DEF IInv, CallsFit, TypeOK, Fits

\* One process changes.
LEMMA OneProcess ==
  ASSUME IInv, UNCHANGED reap, NEW p \in Procs, NEW q,
         proc' = [proc EXCEPT ![p] = q], Sound(q), Owned(q, p), Less(q, proc[p])
  PROVE  /\ proc' \in [Procs -> Records]
         /\ \A r \in Procs : Sound(proc[r]') /\ Owned(proc[r], r)'
         /\ Shrinks /\ LimitsHold'
         /\ closing' \subseteq closing => ClosingStarted'
<1>1. /\ \A r \in Procs : proc'[r] = IF r = p THEN q ELSE proc[r]
      /\ proc' \in [Procs -> Records]
  BY DEF IInv, TypeOK, Sound
<1>2. \A r \in Procs : Sound(proc'[r]) /\ Owned(proc'[r], r)
  BY <1>1 DEF IInv
<1>3. \A r \in Procs : Owned(proc[r], r)'
  BY <1>2 DEF Owned
<1>4. Shrinks
  BY <1>1 DEF Shrinks, Less
<1> QED
  BY <1>1, <1>2, <1>3, <1>4, ShrinkingFits, ClosingKept DEF IInv

LEMMA NoProcess ==
  ASSUME IInv, UNCHANGED <<proc, reap>>
  PROVE  /\ proc' \in [Procs -> Records]
         /\ \A r \in Procs : Sound(proc[r]') /\ Owned(proc[r], r)'
         /\ Shrinks /\ LimitsHold'
         /\ closing' \subseteq closing => ClosingStarted'
<1>1. Shrinks
  BY DEF Shrinks, Less
<1>2. \A r \in Procs : Sound(proc[r]') /\ Owned(proc[r], r)'
  BY DEF IInv, Owned
<1> QED
  BY <1>1, <1>2, ShrinkingFits, ClosingKept DEF IInv, TypeOK

-----------------------------------------------------------------------------
(* Steps of a process *)

\* The end of a process in the hands of its supervisor.
LEMMA EndedSound ==
  ASSUME NEW q, Sound(q), q.os = "dead"
  PROVE  Sound(Ended(q)) /\ Less(Ended(q), q) /\ Ended(q).os = "dead"
         /\ Ended(q).reap = q.reap /\ Ended(q).turn = q.turn
<1>1. ExitedProcs \in SUBSET Procs
  BY DEF ExitedProcs
<1>2. Cardinality(ExitedProcs) + 1 \in Nat
  BY <1>1, ProcsFinite
<1> DEFINE n == Cardinality(ExitedProcs) + 1
<1> HIDE DEF n
<1>3. Ended(q) = [q EXCEPT !.state = "exited", !.ended = n, !.changed = TRUE,
                           !.source = IF @ = "active" THEN "told" ELSE @]
  BY DEF Ended, n
<1>4. n \in Nat
  BY <1>2 DEF n
<1>5. Ended(q) \in Records
  BY <1>3, <1>4 DEF Sound, Records
<1> QED
  BY <1>3, <1>5 DEF Sound, Less, Records

\* A stopping task moves on.
LEMMA StageSound ==
  ASSUME NEW q, Sound(q), q.os # "none", NEW kind \in Kinds, NEW stage \in Stages,
         stage \in {"wait", "stopped"} => q.os = "dead",
         kind = "reap" => ~q.listed /\ q.source \in {"none", "silent"}
  PROVE  LET r == [q EXCEPT ![kind] = stage]
         IN  /\ Sound(r) /\ Less(r, q) /\ r.os = q.os /\ r.turn = q.turn
             /\ r.listed = q.listed /\ r.source = q.source
             /\ r.reap = IF kind = "reap" THEN stage ELSE q.reap
<1>1. CASE kind = "tool"
  <2> DEFINE r == [q EXCEPT !.tool = stage]
  <2>1. r \in Records
    BY DEF Sound, Records
  <2> QED
    BY <1>1, <2>1 DEF Sound, Less, Records
<1>2. CASE kind = "reap"
  <2> DEFINE r == [q EXCEPT !.reap = stage]
  <2>1. r \in Records
    BY DEF Sound, Records
  <2> QED
    BY <1>2, <2>1 DEF Sound, Less, Records
<1>3. CASE kind = "close"
  <2> DEFINE r == [q EXCEPT !.close = stage]
  <2>1. r \in Records
    BY DEF Sound, Records
  <2> QED
    BY <1>3, <2>1 DEF Sound, Less, Records
<1> QED
  BY <1>1, <1>2, <1>3 DEF Kinds

LEMMA ProcessSteps ==
  ASSUME IInv, NEW p \in Procs, Feed(p) \/ Exit(p) \/ Supervise(p) \/ StopTask(p)
  PROVE  IInv'
<1> DEFINE q == proc[p]
<1>0. Sound(q) /\ Owned(q, p) /\ q \in Records /\ Less(q, q)
  BY DEF IInv, Sound, Less
<1>1. UNCHANGED <<call, turn, mode, reap, closing>>
  BY DEF Feed, Exit, Supervise, StopTask, Abort, Reaped
<1>2. SUFFICES \E r : /\ proc' = [proc EXCEPT ![p] = r]
                      /\ Sound(r) /\ Owned(r, p) /\ Less(r, q)
  <2> SUFFICES ASSUME NEW r, proc' = [proc EXCEPT ![p] = r],
                      Sound(r), Owned(r, p), Less(r, q)
               PROVE  IInv'
    OBVIOUS
  <2>1. /\ proc' \in [Procs -> Records]
        /\ \A s \in Procs : Sound(proc[s]') /\ Owned(proc[s], s)'
        /\ Shrinks /\ LimitsHold' /\ (closing' \subseteq closing => ClosingStarted')
    BY <1>1, OneProcess
  <2>2. CallsFit' /\ call' \in [Calls -> CallRecords]
    BY <1>1, <2>1, NoCall, SameReaping
  <2> QED
    BY <1>1, <2>1, <2>2 DEF IInv, TypeOK, ReapedTurns, Sound
<1>3. CASE Feed(p)
  <2>1. PICK ready \in BOOLEAN :
          proc' = [proc EXCEPT ![p].ready = ready, ![p].changed = TRUE]
    BY <1>3 DEF Feed
  <2> DEFINE r == [q EXCEPT !.ready = ready, !.changed = TRUE]
  <2>2. proc' = [proc EXCEPT ![p] = r]
    BY <2>1, <1>0 DEF IInv, TypeOK, Records
  <2>3. q.state = "running"
    BY <1>3 DEF Feed
  <2>4. r \in Records
    BY <1>0 DEF Records
  <2>5. /\ r.os = q.os /\ r.state = q.state /\ r.listed = q.listed /\ r.turn = q.turn
        /\ r.source = q.source /\ r.port = q.port
        /\ r.tool = q.tool /\ r.reap = q.reap /\ r.close = q.close
        /\ q.os # "none"
    BY <1>0, <2>3 DEF Records, Sound, Unborn
  <2> HIDE DEF r
  <2>6. Sound(r) /\ Owned(r, p) /\ Less(r, q)
    BY <1>0, <2>4, <2>5 DEF Sound, Owned, Less
  <2> QED
    BY <2>2, <2>6
<1>4. CASE Exit(p)
  <2> DEFINE r == [q EXCEPT !.os = "dead"]
  <2>1. proc' = [proc EXCEPT ![p] = r]
    BY <1>4, <1>0 DEF Exit, IInv, TypeOK, Records
  <2>2. Sound(r) /\ Owned(r, p) /\ Less(r, q)
    BY <1>0, <1>4 DEF Exit, Sound, Owned, Less, Records, Unborn
  <2> QED
    BY <2>1, <2>2
<1>5. CASE Supervise(p)
  <2>1. q.os = "dead" /\ proc' = [proc EXCEPT ![p] = Ended(q)]
    BY <1>5 DEF Supervise, IInv, TypeOK
  <2>2. /\ Sound(Ended(q)) /\ Less(Ended(q), q) /\ Ended(q).os = "dead"
        /\ Ended(q).reap = q.reap /\ Ended(q).turn = q.turn
    BY <2>1, <1>0, EndedSound
  <2>3. Owned(Ended(q), p)
    BY <2>1, <2>2, <1>0 DEF Owned, Ended, Less, Records
  <2> QED
    BY <2>1, <2>2, <2>3
<1>6. ASSUME NEW kind \in Kinds, Abort(p, kind)
      PROVE  \E r : /\ proc' = [proc EXCEPT ![p] = r]
                    /\ Sound(r) /\ Owned(r, p) /\ Less(r, q)
  <2> DEFINE dead == [q EXCEPT !.os = "dead"]
             r == [dead EXCEPT ![kind] = "wait"]
  <2>1. q.os # "none" /\ q[kind] = "abort"
    BY <1>0, <1>6 DEF Abort, Sound, Unborn, Kinds
  <2>2. Sound(dead) /\ Owned(dead, p) /\ Less(dead, q) /\ dead.os = "dead"
    BY <1>0, <2>1 DEF Sound, Owned, Less, Records, Unborn
  <2>3. dead.reap = q.reap /\ dead.turn = q.turn /\ dead.listed = q.listed
        /\ dead.source = q.source
    BY <1>0 DEF Records
  <2>4. kind = "reap" => ~dead.listed /\ dead.source \in {"none", "silent"}
    BY <1>0, <2>1, <2>3 DEF Sound
  <2>5. proc' = [proc EXCEPT ![p] = r]
    BY <1>6, <1>0 DEF Abort, Kinds, IInv, TypeOK, Records
  <2> HIDE DEF dead
  <2>6. /\ Sound(r) /\ Less(r, dead) /\ r.os = dead.os /\ r.turn = dead.turn
        /\ r.listed = dead.listed /\ r.source = dead.source
        /\ r.reap = IF kind = "reap" THEN "wait" ELSE dead.reap
    BY <2>2, <2>4, StageSound DEF Stages
  <2> HIDE DEF r
  <2>7. Owned(r, p) /\ Less(r, q)
    BY <1>0, <2>1, <2>2, <2>3, <2>6 DEF Owned, Less
  <2> QED
    BY <2>5, <2>6, <2>7
<1>7. ASSUME NEW kind \in Kinds, Reaped(p, kind)
      PROVE  \E r : /\ proc' = [proc EXCEPT ![p] = r]
                    /\ Sound(r) /\ Owned(r, p) /\ Less(r, q)
  <2>1. q.os = "dead" /\ q[kind] = "wait"
    BY <1>0, <1>7 DEF Reaped, Sound, Kinds
  <2>2. PICK e \in {q, Ended(q)} : proc' = [proc EXCEPT ![p] = [e EXCEPT ![kind] = "stopped"]]
    BY <1>7 DEF Reaped, IInv, TypeOK
  <2> DEFINE r == [e EXCEPT ![kind] = "stopped"]
  <2>3. /\ Sound(e) /\ Less(e, q) /\ e.os = "dead" /\ e.reap = q.reap /\ e.turn = q.turn
    BY <1>0, <2>1, EndedSound
  <2>4. kind = "reap" => ~e.listed /\ e.source \in {"none", "silent"}
    BY <2>1, <2>3 DEF Sound
  <2>5. /\ Sound(r) /\ Less(r, e) /\ r.os = e.os /\ r.turn = e.turn
        /\ r.listed = e.listed /\ r.source = e.source
        /\ r.reap = IF kind = "reap" THEN "stopped" ELSE e.reap
    BY <2>3, <2>4, StageSound DEF Stages
  <2>6. q.source \in {"none", "silent"} => e.source \in {"none", "silent"}
    BY <1>0 DEF Ended, Records
  <2> HIDE DEF r
  <2>7. Owned(r, p) /\ Less(r, q)
    BY <1>0, <2>1, <2>3, <2>5, <2>6 DEF Owned, Less
  <2> QED
    BY <2>2, <2>5, <2>7 DEF r
<1> QED
  BY <1>3, <1>4, <1>5, <1>6, <1>7 DEF StopTask

LEMMA StoppingSound ==
  ASSUME NEW q, Sound(q), q.os # "none", NEW kind \in Kinds,
         kind = "reap" => ~q.listed /\ q.source \in {"none", "silent"}
  PROVE  LET r == Stopping(q, kind)
         IN  /\ Sound(r) /\ Less(r, q) /\ r.os = q.os /\ r.turn = q.turn
             /\ r.listed = q.listed
             /\ q.source \in {"none", "silent"} => r.source \in {"none", "silent"}
             /\ kind # "reap" => r.reap = q.reap
<1>1. CASE q.state = "running"
  <2> DEFINE s == [q EXCEPT !.source = IF @ = "none" THEN @ ELSE "silent"]
             r == [s EXCEPT ![kind] = "abort"]
  <2>1. /\ s \in Records /\ s.os = q.os /\ s.state = q.state /\ s.turn = q.turn
        /\ s.listed = q.listed /\ s.port = q.port
        /\ s.source \in {"none", "silent"}
        /\ s.tool = q.tool /\ s.reap = q.reap /\ s.close = q.close
    BY DEF Sound, Records
  <2>2. Stopping(q, kind) = r
    BY <1>1 DEF Stopping, Kinds, Sound, Records
  <2> HIDE DEF s
  <2>3. Sound(s) /\ Less(s, q)
    BY <2>1 DEF Sound, Less
  <2>4. /\ Sound(r) /\ Less(r, s) /\ r.os = s.os /\ r.turn = s.turn
        /\ r.listed = s.listed /\ r.source = s.source
        /\ r.reap = IF kind = "reap" THEN "abort" ELSE s.reap
    BY <2>1, <2>3, StageSound DEF Stages
  <2> QED
    BY <2>1, <2>2, <2>3, <2>4 DEF Less
<1>2. CASE q.state # "running"
  <2> DEFINE r == [q EXCEPT ![kind] = "stopped"]
  <2>1. Stopping(q, kind) = r
    BY <1>2 DEF Stopping
  <2>2. q.os = "dead"
    BY <1>2 DEF Sound, Records
  <2>3. /\ Sound(r) /\ Less(r, q) /\ r.os = q.os /\ r.turn = q.turn
        /\ r.listed = q.listed /\ r.source = q.source
        /\ r.reap = IF kind = "reap" THEN "stopped" ELSE q.reap
    BY <2>2, StageSound DEF Stages
  <2> HIDE DEF r
  <2> QED
    BY <2>1, <2>3
<1> QED
  BY <1>1, <1>2

-----------------------------------------------------------------------------
(* Steps of a rollback and of a close *)

LEMMA ReapSteps ==
  ASSUME IInv, NEW t \in 1 .. MaxTurns, ReapNext(t)
  PROVE  IInv'
<1>1. PICK p \in Newest(reap[t]) :
        \/ /\ proc[p].reap = "off"
           /\ proc' = [proc EXCEPT ![p] = Stopping(@, "reap")]
           /\ UNCHANGED reap
        \/ /\ proc[p].reap = "stopped"
           /\ reap' = [reap EXCEPT ![t] = @ \ {p}]
           /\ UNCHANGED proc
  BY DEF ReapNext
<1>2. p \in reap[t] /\ p \in Procs
  BY <1>1 DEF Newest, IInv, TypeOK
<1>3. UNCHANGED <<call, turn, mode, closing>>
  BY DEF ReapNext
<1> DEFINE q == proc[p]
<1>4. /\ Sound(q) /\ Owned(q, p)
      /\ q.os # "none" /\ q.turn = t /\ ~q.listed /\ q.source \in {"none", "silent"}
  <2>1. Sound(q) /\ Owned(q, p)
    BY <1>2 DEF IInv
  <2> QED
    BY <1>2, <2>1 DEF Owned
<1>5. CASE /\ proc' = [proc EXCEPT ![p] = Stopping(@, "reap")]
           /\ UNCHANGED reap
  <2> DEFINE r == Stopping(q, "reap")
  <2>1. proc' = [proc EXCEPT ![p] = r]
    BY <1>5, <1>2 DEF IInv, TypeOK
  <2>2. /\ Sound(r) /\ Less(r, q) /\ r.os = q.os /\ r.turn = q.turn
        /\ r.listed = q.listed /\ r.source \in {"none", "silent"}
    BY <1>4, StoppingSound DEF Kinds
  <2> HIDE DEF r
  <2>3. Owned(r, p)
    BY <1>2, <1>4, <2>2 DEF Owned
  <2>4. /\ proc' \in [Procs -> Records]
        /\ \A s \in Procs : Sound(proc[s]') /\ Owned(proc[s], s)'
        /\ Shrinks /\ LimitsHold' /\ (closing' \subseteq closing => ClosingStarted')
    BY <1>2, <1>5, <2>1, <2>2, <2>3, OneProcess
  <2>5. CallsFit' /\ call' \in [Calls -> CallRecords]
    BY <1>3, <1>5, <2>4, NoCall, SameReaping
  <2> QED
    BY <1>3, <1>5, <2>4, <2>5 DEF IInv, TypeOK, ReapedTurns
<1>6. CASE /\ proc[p].reap = "stopped"
           /\ reap' = [reap EXCEPT ![t] = @ \ {p}]
           /\ UNCHANGED proc
  <2>1. /\ reap' \in [1 .. MaxTurns -> SUBSET Procs]
        /\ \A u \in 1 .. MaxTurns :
             reap'[u] = IF u = t THEN reap[u] \ {p} ELSE reap[u]
    BY <1>6 DEF IInv, TypeOK
  <2>2. q.os = "dead"
    BY <1>4, <1>6 DEF Sound
  <2>3. ASSUME NEW s \in Procs PROVE Owned(proc[s], s)'
    <3>1. Owned(proc[s], s) /\ Sound(proc[s])
      BY DEF IInv
    <3>2. proc[s].os = "none" => proc[s].reap = "off"
      BY <3>1 DEF Sound, Unborn
    <3>3. proc[s].turn \in 0 .. MaxTurns /\ (proc[s].os # "none" => proc[s].turn # 0)
      BY <3>1 DEF Sound, Records
    <3> QED
      BY <1>6, <2>1, <2>2, <3>1, <3>2, <3>3, ProcessesAssumption DEF Owned
  <2>4. Reaping = {} => Reaping' = {}
    BY <2>1 DEF Reaping
  <2>5. Shrinks
    BY <1>6 DEF Shrinks, Less
  <2>6. CallsFit' /\ call' \in [Calls -> CallRecords]
    BY <1>3, <2>4, <2>5, NoCall
  <2>7. ReapedTurns'
    BY <1>3, <2>1 DEF IInv, ReapedTurns
  <2> QED
    BY <1>3, <1>6, <2>1, <2>3, <2>5, <2>6, <2>7, ShrinkingFits, ClosingKept DEF IInv, TypeOK
<1> QED
  BY <1>1, <1>5, <1>6

LEMMA CloseSteps ==
  ASSUME IInv, CloseNext
  PROVE  IInv'
<1>1. PICK p \in Newest(closing) :
        \/ /\ proc[p].close = "off"
           /\ proc' = [proc EXCEPT ![p] = Stopping(@, "close")]
           /\ UNCHANGED closing
        \/ /\ proc[p].close = "stopped"
           /\ proc' = [proc EXCEPT ![p].listed = FALSE]
           /\ closing' = closing \ {p}
  BY DEF CloseNext
<1>2. UNCHANGED <<call, turn, mode, reap>>
  BY DEF CloseNext
<1> DEFINE q == proc[p]
<1>3. /\ p \in closing /\ p \in Procs
      /\ Sound(q) /\ Owned(q, p) /\ q \in Records /\ q.os # "none"
  BY <1>1 DEF Newest, IInv, TypeOK, Sound, ClosingStarted
<1>4. closing' \subseteq closing
  BY <1>1
<1>5. \E r : /\ proc' = [proc EXCEPT ![p] = r]
             /\ Sound(r) /\ Owned(r, p) /\ Less(r, q)
  <2>1. CASE proc' = [proc EXCEPT ![p] = Stopping(@, "close")]
    <3> DEFINE r == Stopping(q, "close")
    <3>1. proc' = [proc EXCEPT ![p] = r]
      BY <1>3, <2>1 DEF IInv, TypeOK
    <3>2. /\ Sound(r) /\ Less(r, q) /\ r.os = q.os /\ r.turn = q.turn
          /\ r.listed = q.listed /\ r.reap = q.reap
          /\ q.source \in {"none", "silent"} => r.source \in {"none", "silent"}
      BY <1>3, StoppingSound DEF Kinds
    <3> HIDE DEF r
    <3>3. Owned(r, p)
      BY <1>3, <3>2 DEF Owned
    <3> QED
      BY <3>1, <3>2, <3>3
  <2>2. CASE proc[p].close = "stopped" /\ proc' = [proc EXCEPT ![p].listed = FALSE]
    <3> DEFINE r == [q EXCEPT !.listed = FALSE]
    <3>1. proc' = [proc EXCEPT ![p] = r]
      BY <1>3, <2>2 DEF IInv, TypeOK, Records
    <3>2. q.os = "dead"
      BY <1>3, <2>2 DEF Sound
    <3>3. /\ r \in Records /\ r.os = q.os /\ r.state = q.state /\ r.turn = q.turn
          /\ ~r.listed /\ r.port = q.port /\ r.source = q.source
          /\ r.tool = q.tool /\ r.reap = q.reap /\ r.close = q.close
      BY <1>3 DEF Records
    <3> HIDE DEF r
    <3>4. Sound(r) /\ Owned(r, p) /\ Less(r, q)
      BY <1>3, <3>2, <3>3 DEF Sound, Owned, Less
    <3> QED
      BY <3>1, <3>4
  <2> QED
    BY <1>1, <2>1, <2>2
<1>6. /\ proc' \in [Procs -> Records]
      /\ \A s \in Procs : Sound(proc[s]') /\ Owned(proc[s], s)'
      /\ Shrinks /\ LimitsHold' /\ (closing' \subseteq closing => ClosingStarted')
  BY <1>2, <1>3, <1>5, OneProcess
<1>7. CallsFit' /\ call' \in [Calls -> CallRecords]
  BY <1>2, <1>6, NoCall, SameReaping
<1>8. closing' \in SUBSET Procs
  BY <1>4 DEF IInv, TypeOK
<1> QED
  BY <1>2, <1>4, <1>6, <1>7, <1>8 DEF IInv, TypeOK, ReapedTurns

-----------------------------------------------------------------------------
(* Steps of a turn *)

\* Between turns no call is under way.
LEMMA AllFree ==
  ASSUME call' = [c \in Calls |-> Free]
  PROVE  CallsFit' /\ call' \in [Calls -> CallRecords]
<1>1. Free \in CallRecords
  BY ProcessesAssumption DEF Free, CallRecords
<1> QED
  BY <1>1 DEF CallsFit, Free

\* Every watch that is told to falls silent, and what is doomed leaves the list.
LEMMA Silenced ==
  ASSUME NEW q, Sound(q), q.os # "none", NEW r \in Records,
         r.os = q.os, r.state = q.state, r.turn = q.turn, r.port = q.port,
         r.tool = q.tool, r.reap = q.reap, r.close = q.close,
         r.listed => q.listed, r.source \in {q.source, "silent"}
  PROVE  Sound(r) /\ Less(r, q)
BY DEF Sound, Less

LEMMA RollBackStep ==
  ASSUME IInv, RollBack
  PROVE  IInv'
<1>1. /\ turn \in 1 .. MaxTurns /\ reap[turn] = {}
      /\ mode = "stopping" /\ mode' = "idle" /\ UNCHANGED <<turn, closing>>
      /\ call' = [c \in Calls |-> Free]
      /\ reap' = [reap EXCEPT ![turn] = Doomed]
  <2>1. mode = "stopping" /\ turn # 0 /\ turn \in 0 .. MaxTurns
    BY DEF RollBack, IInv, TypeOK, ReapedTurns
  <2>2. turn \in 1 .. MaxTurns
    BY <2>1, ProcessesAssumption
  <2>3. reap[turn] = {}
    BY <2>1, <2>2 DEF IInv, ReapedTurns
  <2> QED
    BY <2>1, <2>2, <2>3 DEF RollBack
<1>2. \A t \in 1 .. MaxTurns : reap'[t] = IF t = turn THEN Doomed ELSE reap[t]
  BY <1>1 DEF IInv, TypeOK
<1>3. reap' \in [1 .. MaxTurns -> SUBSET Procs]
  BY <1>1 DEF IInv, TypeOK, Doomed, Listed
<1>4. ASSUME NEW p \in Procs
      PROVE  /\ Sound(proc'[p]) /\ Less(proc'[p], proc[p]) /\ Owned(proc[p], p)'
             /\ proc'[p].os # "none" => proc[p].os # "none"
  <2> DEFINE q == proc[p]
             listed == q.listed /\ p \notin Doomed
             source == IF q.source # "none" /\ q.turn = turn THEN "silent" ELSE q.source
             r == [q EXCEPT !.listed = listed, !.source = source]
  <2>1. proc'[p] = r
    BY <1>4 DEF RollBack
  <2>2. Sound(q) /\ Owned(q, p) /\ q \in Records
    BY <1>4 DEF IInv, Sound
  <2>3. CASE q.os = "none"
    <3>1. q = Unborn
      BY <2>2, <2>3 DEF Sound
    <3>2. p \notin Doomed
      BY <3>1 DEF Doomed, Listed, Unborn
    <3>3. r = q
      <4>1. q.listed = FALSE /\ source = q.source
        BY <3>1 DEF Unborn
      <4>2. listed = FALSE
        BY <4>1
      <4>3. r = [q EXCEPT !.listed = FALSE, !.source = q.source]
        BY <4>1, <4>2
      <4> QED
        BY <2>2, <4>1, <4>3 DEF Records
    <3>4. \A t \in 1 .. MaxTurns : p \notin reap'[t]
      BY <1>2, <2>2, <2>3, <3>2 DEF Owned
    <3>5. q.reap = "off" /\ q.os = "none"
      BY <3>1 DEF Unborn
    <3> QED
      BY <2>1, <2>2, <3>3, <3>4, <3>5 DEF Owned, Less
  <2>4. CASE q.os # "none"
    <3>1. p \in Doomed <=> q.listed /\ q.turn = turn
      BY <1>4 DEF Doomed, Listed
    <3>2. /\ r \in Records
          /\ r.os = q.os /\ r.state = q.state /\ r.turn = q.turn /\ r.port = q.port
          /\ r.tool = q.tool /\ r.reap = q.reap /\ r.close = q.close
          /\ r.source = source
      BY <2>2 DEF Records
    <3>3. r.listed <=> q.listed /\ p \notin Doomed
      BY <2>2 DEF Records
    <3>4. /\ source \in {q.source, "silent"}
          /\ q.source \in {"none", "silent"} \/ p \in Doomed => source \in {"none", "silent"}
      BY <2>2, <3>1 DEF Records
    <3> HIDE DEF r, source
    <3>5. Sound(r) /\ Less(r, q)
      BY <2>2, <2>4, <3>2, <3>3, <3>4, Silenced
    <3>6. q.turn \in 1 .. MaxTurns
      BY <2>2, <2>4, ProcessesAssumption DEF Sound, Records
    <3>7. \A t \in 1 .. MaxTurns : p \in reap'[t] =>
            /\ r.os # "none" /\ r.turn = t /\ ~r.listed /\ r.source \in {"none", "silent"}
      BY <1>2, <2>2, <2>4, <3>1, <3>2, <3>3, <3>6, <3>4 DEF Owned
    <3>8. r.reap \in {"abort", "wait"} => p \in reap'[r.turn]
      BY <1>1, <1>2, <2>2, <3>2, <3>6 DEF Owned
    <3>9. r.os = "live" => r.listed \/ p \in reap'[r.turn]
      BY <1>1, <1>2, <2>2, <3>1, <3>2, <3>3, <3>6 DEF Owned
    <3>10. Owned(proc[p], p)'
      BY <2>1, <3>7, <3>8, <3>9 DEF Owned
    <3> QED
      BY <2>1, <2>4, <3>2, <3>5, <3>10 DEF r
  <2> QED
    BY <2>3, <2>4
<1>5. proc' \in [Procs -> Records]
  <2>1. \A p \in Procs : proc'[p] \in Records
    BY <1>4 DEF Sound
  <2> QED
    BY <2>1 DEF RollBack
<1>6. Shrinks
  BY <1>4 DEF Shrinks
<1>7. CallsFit' /\ call' \in [Calls -> CallRecords]
  BY <1>1, AllFree
<1>8. ReapedTurns'
  BY <1>1, <1>2 DEF IInv, ReapedTurns
<1> QED
  BY <1>1, <1>3, <1>4, <1>5, <1>6, <1>7, <1>8, ShrinkingFits, ClosingKept
     DEF IInv, TypeOK

LEMMA CloseStep ==
  ASSUME IInv, Close
  PROVE  IInv'
<1>1. /\ mode = "idle" /\ mode' = "closed" /\ closing' = Listed
      /\ UNCHANGED <<call, turn, reap>>
  BY DEF Close
<1>2. ASSUME NEW p \in Procs
      PROVE  /\ Sound(proc'[p]) /\ Less(proc'[p], proc[p]) /\ Owned(proc'[p], p)
             /\ p \in Listed => proc'[p].os # "none"
  <2> DEFINE q == proc[p]
             source == IF q.source = "none" THEN q.source ELSE "silent"
             r == [q EXCEPT !.source = source]
  <2>1. proc'[p] = r
    BY <1>2 DEF Close
  <2>2. Sound(q) /\ Owned(q, p) /\ q \in Records
    BY <1>2 DEF IInv, Sound
  <2>3. CASE q.os = "none"
    <3>1. q = Unborn
      BY <2>2, <2>3 DEF Sound
    <3>2. r = q /\ p \notin Listed
      <4>1. source = "none" /\ ~q.listed
        BY <3>1 DEF Unborn
      <4> QED
        BY <3>1, <4>1 DEF Unborn, Listed
    <3> QED
      BY <2>1, <2>2, <3>2 DEF Less
  <2>4. CASE q.os # "none"
    <3>1. /\ r \in Records
          /\ r.os = q.os /\ r.state = q.state /\ r.turn = q.turn /\ r.port = q.port
          /\ r.tool = q.tool /\ r.reap = q.reap /\ r.close = q.close
          /\ r.listed = q.listed /\ r.source \in {q.source, "silent"}
          /\ q.source \in {"none", "silent"} => r.source \in {"none", "silent"}
      BY <2>2 DEF Records
    <3> HIDE DEF r
    <3>2. Sound(r) /\ Less(r, q)
      BY <2>2, <2>4, <3>1, Silenced
    <3>3. Owned(r, p)
      BY <2>2, <3>1, <3>2 DEF Owned
    <3> QED
      BY <2>1, <2>4, <3>1, <3>2, <3>3 DEF r
  <2> QED
    BY <2>3, <2>4
<1>3. \A p \in Procs : Owned(proc[p], p)'
  BY <1>1, <1>2 DEF Owned
<1>4. proc' \in [Procs -> Records]
  <2>1. \A p \in Procs : proc'[p] \in Records
    BY <1>2 DEF Sound
  <2> QED
    BY <2>1 DEF Close
<1>5. Shrinks
  BY <1>2 DEF Shrinks
<1>6. CallsFit' /\ call' \in [Calls -> CallRecords]
  BY <1>1, <1>5, NoCall, SameReaping
<1>7. ClosingStarted' /\ closing' \in SUBSET Procs
  BY <1>1, <1>2 DEF ClosingStarted, Listed
<1>8. ReapedTurns'
  BY <1>1 DEF IInv, ReapedTurns
<1> QED
  BY <1>1, <1>2, <1>3, <1>4, <1>5, <1>6, <1>7, <1>8, ShrinkingFits DEF IInv, TypeOK

LEMMA TurnSteps ==
  ASSUME IInv, BeginTurn \/ EndTurn \/ StopTurn
  PROVE  IInv'
<1>1. UNCHANGED <<proc, reap, closing>>
  BY DEF BeginTurn, EndTurn, StopTurn
<1>2. /\ proc' \in [Procs -> Records]
      /\ \A r \in Procs : Sound(proc[r]') /\ Owned(proc[r], r)'
      /\ Shrinks /\ LimitsHold' /\ (closing' \subseteq closing => ClosingStarted')
  BY <1>1, NoProcess
<1>3. CallsFit' /\ call' \in [Calls -> CallRecords]
  <2>1. CASE UNCHANGED call
    BY <1>1, <1>2, <2>1, NoCall, SameReaping
  <2>2. CASE call' = [c \in Calls |-> Free]
    BY <2>2, AllFree
  <2> QED
    BY <2>1, <2>2 DEF BeginTurn, EndTurn, StopTurn
<1>4. /\ turn' \in 0 .. MaxTurns
      /\ mode' \in {"idle", "running", "stopping", "closed"}
  BY ProcessesAssumption DEF BeginTurn, EndTurn, StopTurn, IInv, TypeOK
<1>5. ReapedTurns'
  BY <1>1, ProcessesAssumption
     DEF BeginTurn, EndTurn, StopTurn, IInv, TypeOK, ReapedTurns
<1> QED
  BY <1>1, <1>2, <1>3, <1>4, <1>5 DEF IInv, TypeOK

-----------------------------------------------------------------------------
(* Steps of a call *)

\* What prune takes off the list has exited.
LEMMA PruneStep ==
  ASSUME IInv, UNCHANGED reap, Prune
  PROVE  /\ proc' \in [Procs -> Records]
         /\ \A r \in Procs : Sound(proc[r]') /\ Owned(proc[r], r)'
         /\ Shrinks /\ LimitsHold'
         /\ closing' \subseteq closing => ClosingStarted'
<1>1. ASSUME NEW p \in Procs
      PROVE  Sound(proc'[p]) /\ Owned(proc'[p], p) /\ Less(proc'[p], proc[p])
  <2> DEFINE q == proc[p]
             r == [q EXCEPT !.listed = q.listed /\ p \notin Pruned]
  <2>1. proc'[p] = r
    BY <1>1 DEF Prune
  <2>2. Sound(q) /\ Owned(q, p) /\ q \in Records
    BY <1>1 DEF IInv, Sound
  <2>3. CASE p \notin Pruned
    <3>1. r = q
      BY <2>2, <2>3 DEF Records
    <3> QED
      BY <2>1, <2>2, <3>1 DEF Less
  <2>4. CASE p \in Pruned
    <3>1. q.state = "exited" /\ q.os = "dead"
      <4>1. q.state = "exited"
        BY <2>4 DEF Pruned, ExitedProcs
      <4> QED
        BY <2>2, <4>1 DEF Sound, Records, Unborn
    <3>2. /\ r \in Records
          /\ r.os = q.os /\ r.state = q.state /\ r.turn = q.turn /\ r.port = q.port
          /\ r.tool = q.tool /\ r.reap = q.reap /\ r.close = q.close
          /\ ~r.listed /\ r.source = q.source
      BY <2>2, <2>4 DEF Records
    <3> HIDE DEF r
    <3>3. Sound(r) /\ Less(r, q)
      BY <2>2, <3>1, <3>2, Silenced
    <3>4. Owned(r, p)
      BY <2>2, <3>1, <3>2 DEF Owned
    <3> QED
      BY <2>1, <3>3, <3>4 DEF r
  <2> QED
    BY <2>3, <2>4
<1>2. \A p \in Procs : Owned(proc[p], p)'
  BY <1>1 DEF Owned
<1>3. proc' \in [Procs -> Records]
  <2>1. \A p \in Procs : proc'[p] \in Records
    BY <1>1 DEF Sound
  <2> QED
    BY <2>1 DEF Prune
<1>4. Shrinks
  BY <1>1 DEF Shrinks
<1> QED
  BY <1>1, <1>2, <1>3, <1>4, ShrinkingFits, ClosingKept DEF IInv

\* Any step of a call that starts nothing: its processes and its next place.
LEMMA CallStepKeeps ==
  ASSUME IInv, UNCHANGED <<turn, mode, reap, closing>>,
         proc' \in [Procs -> Records],
         \A r \in Procs : Sound(proc[r]') /\ Owned(proc[r], r)',
         Shrinks, LimitsHold', ClosingStarted',
         NEW c \in Calls, NEW d \in CallRecords, call' = [call EXCEPT ![c] = d],
         d.at \in {"confirm", "approved", "launch", "scan", "waiting", "stopping"}
           => Reaping = {},
         d.at \in {"scan", "waiting", "stopping"} => d.p \in Procs,
         d.at = "launch" => Fits(d.port),
         d.at \in {"launch", "stopping"} => LockFree
  PROVE  IInv'
<1>1. CallsFit' /\ call' \in [Calls -> CallRecords]
  BY OneCall, SameReaping
<1>2. ReapedTurns'
  BY DEF IInv, ReapedTurns
<1> QED
  BY <1>1, <1>2 DEF IInv, TypeOK

\* The records a call goes through.
LEMMA CallAfter ==
  ASSUME IInv, NEW c \in Calls,
         NEW where \in {"free", "use", "confirm", "approved", "launch", "scan", "waiting",
                       "stopping", "done"}
  PROVE  /\ [Free EXCEPT !.at = where] \in CallRecords
         /\ [call[c] EXCEPT !.at = where] \in CallRecords
         /\ [call[c] EXCEPT !.at = where].p = call[c].p
         /\ [call[c] EXCEPT !.at = where].port = call[c].port
         /\ [call[c] EXCEPT !.at = where].at = where
         /\ [Free EXCEPT !.at = where].at = where
<1>1. Free \in CallRecords
  BY ProcessesAssumption DEF Free, CallRecords
<1>2. call[c] \in CallRecords
  BY DEF IInv, TypeOK
<1> QED
  BY <1>1, <1>2 DEF CallRecords

LEMMA QuietCallSteps ==
  ASSUME IInv, NEW c \in Calls,
         Asks(c) \/ Confirm(c) \/ Recheck(c) \/ NotReadyInTime(c) \/ CancelCall(c)
  PROVE  IInv'
<1>1. UNCHANGED <<proc, turn, mode, reap, closing>>
  BY DEF Asks, Confirm, Recheck, NotReadyInTime, CancelCall, Shielded
<1>2. /\ proc' \in [Procs -> Records]
      /\ \A r \in Procs : Sound(proc[r]') /\ Owned(proc[r], r)'
      /\ Shrinks /\ LimitsHold' /\ ClosingStarted'
  BY <1>1, NoProcess
<1>3. SUFFICES \E d \in CallRecords :
        /\ call' = [call EXCEPT ![c] = d]
        /\ d.at \in {"confirm", "approved", "launch", "scan", "waiting", "stopping"}
             => Reaping = {}
        /\ d.at \notin {"scan", "waiting", "stopping"}
        /\ d.at = "launch" => Fits(d.port) /\ LockFree
  BY <1>1, <1>2, CallStepKeeps
<1>4. ASSUME Done(c)
      PROVE  \E d \in CallRecords :
               /\ call' = [call EXCEPT ![c] = d]
               /\ d.at = "done"
  BY <1>4, CallAfter DEF Done
<1>5. CASE Asks(c)
  <2>1. PICK d \in CallRecords : call' = [call EXCEPT ![c] = d] /\ d.at = "use"
    <3>1. Free \in CallRecords
      BY ProcessesAssumption DEF Free, CallRecords
    <3>2. ASSUME NEW port \in Ports \cup {NoPort}, NEW watch \in BOOLEAN
          PROVE  LET d == [Free EXCEPT !.at = "use", !.op = "start", !.port = port,
                                       !.watch = watch]
                 IN  d \in CallRecords /\ d.at = "use"
      BY <3>1 DEF CallRecords
    <3>3. ASSUME NEW p \in Listed
          PROVE  LET d == [Free EXCEPT !.at = "use", !.op = "stop", !.p = p]
                 IN  d \in CallRecords /\ d.at = "use"
      <4>1. p \in 0 .. MaxStarts
        BY ProcessesAssumption DEF Listed, Procs
      <4> QED
        BY <3>1, <4>1 DEF CallRecords
    <3>4. LET d == [Free EXCEPT !.at = "use"]
          IN  d \in CallRecords /\ d.at = "use"
      BY <3>1 DEF CallRecords
    <3> QED
      BY <1>5, <3>2, <3>3, <3>4 DEF Asks
  <2> QED
    BY <2>1
<1>6. CASE Confirm(c)
  <2>1. call[c].at = "confirm" /\ Reaping = {}
    BY <1>6 DEF Confirm, IInv, CallsFit
  <2>2. CASE CallAt(c, "approved")
    <3> DEFINE d == [call[c] EXCEPT !.at = "approved"]
    <3>1. d \in CallRecords /\ d.at = "approved"
      BY CallAfter
    <3>2. call' = [call EXCEPT ![c] = d]
      BY <2>2 DEF CallAt, IInv, TypeOK
    <3> QED
      BY <2>1, <3>1, <3>2
  <2> QED
    BY <1>4, <1>6, <2>2 DEF Confirm
<1>7. CASE Recheck(c)
  <2>1. CASE Fits(call[c].port) /\ CallAt(c, "launch")
    <3> DEFINE d == [call[c] EXCEPT !.at = "launch"]
    <3>1. d \in CallRecords /\ d.at = "launch" /\ d.port = call[c].port
      BY CallAfter
    <3>2. call' = [call EXCEPT ![c] = d]
      BY <2>1 DEF CallAt, IInv, TypeOK
    <3>3. LockFree /\ Reaping = {}
      BY <1>7 DEF Recheck, Settled
    <3> HIDE DEF d
    <3>4. Fits(d.port)
      BY <2>1, <3>1
    <3> QED
      BY <3>1, <3>2, <3>3, <3>4
  <2> QED
    BY <1>4, <1>7, <2>1 DEF Recheck, FitsNow
<1>8. CASE NotReadyInTime(c) \/ CancelCall(c)
  BY <1>4, <1>8 DEF NotReadyInTime, CancelCall
<1> QED
  BY <1>5, <1>6, <1>7, <1>8

LEMMA PruningCallSteps ==
  ASSUME IInv, NEW c \in Calls, Check(c) \/ List(c)
  PROVE  IInv'
<1>1. UNCHANGED <<turn, mode, reap, closing>> /\ Reaping = {}
  BY DEF Check, List, Enters, Settled
<1>2. /\ proc' \in [Procs -> Records]
      /\ \A r \in Procs : Sound(proc[r]') /\ Owned(proc[r], r)'
      /\ Shrinks /\ LimitsHold' /\ ClosingStarted'
  BY <1>1, PruneStep, NoProcess DEF Check, List
<1>3. PICK d \in CallRecords :
        /\ call' = [call EXCEPT ![c] = d] /\ d.at \in {"confirm", "done"}
  <2>1. CASE Done(c)
    BY <2>1, CallAfter DEF Done
  <2>2. CASE CallAt(c, "confirm")
    <3>1. call' = [call EXCEPT ![c] = [call[c] EXCEPT !.at = "confirm"]]
      BY <2>2 DEF CallAt, IInv, TypeOK
    <3> QED
      BY <3>1, CallAfter
  <2> QED
    BY <2>1, <2>2 DEF Check, List
<1> QED
  BY <1>1, <1>2, <1>3, CallStepKeeps

LEMMA ScanStep ==
  ASSUME IInv, NEW c \in Calls, Scan(c)
  PROVE  IInv'
<1> DEFINE p == call[c].p
           q == proc[p]
<1>1. /\ UNCHANGED <<turn, mode, reap, closing>>
      /\ call[c].at \in {"scan", "waiting"} /\ p \in Procs /\ Reaping = {}
  BY DEF Scan, IInv, CallsFit
<1>2. CASE Done(c) /\ UNCHANGED proc
  <2>1. PICK d \in CallRecords : call' = [call EXCEPT ![c] = d] /\ d.at = "done"
    BY <1>2, CallAfter DEF Done
  <2>2. /\ proc' \in [Procs -> Records]
        /\ \A r \in Procs : Sound(proc[r]') /\ Owned(proc[r], r)'
        /\ Shrinks /\ LimitsHold' /\ ClosingStarted'
    BY <1>1, <1>2, NoProcess
  <2> QED
    BY <1>1, <2>1, <2>2, CallStepKeeps
<1>3. CASE proc' = [proc EXCEPT ![p].changed = FALSE] /\ CallAt(c, "waiting")
           /\ q.state # "exited"
  <2> DEFINE r == [q EXCEPT !.changed = FALSE]
             d == [call[c] EXCEPT !.at = "waiting"]
  <2>1. proc' = [proc EXCEPT ![p] = r]
    BY <1>1, <1>3 DEF IInv, TypeOK, Records
  <2>2. Sound(q) /\ Owned(q, p) /\ q \in Records
    BY <1>1 DEF IInv, Sound
  <2>3. q.os = "none" => r = Unborn
    <3>1. q.os = "none" => q = Unborn /\ q.changed = FALSE
      BY <2>2 DEF Sound, Unborn
    <3>2. q.changed = FALSE => r = q
      BY <2>2 DEF Records
    <3> QED
      BY <3>1, <3>2
  <2>4. /\ r \in Records
        /\ r.os = q.os /\ r.state = q.state /\ r.listed = q.listed /\ r.turn = q.turn
        /\ r.source = q.source /\ r.port = q.port
        /\ r.tool = q.tool /\ r.reap = q.reap /\ r.close = q.close
    BY <2>2 DEF Records
  <2> HIDE DEF r
  <2>5. Sound(r) /\ Owned(r, p) /\ Less(r, q)
    BY <2>2, <2>3, <2>4 DEF Sound, Owned, Less
  <2>6. /\ proc' \in [Procs -> Records]
        /\ \A s \in Procs : Sound(proc[s]') /\ Owned(proc[s], s)'
        /\ Shrinks /\ LimitsHold' /\ ClosingStarted'
    BY <1>1, <2>1, <2>5, OneProcess
  <2>7. d \in CallRecords /\ d.at = "waiting" /\ d.p = p
    BY CallAfter
  <2>8. call' = [call EXCEPT ![c] = d]
    BY <1>3 DEF CallAt, IInv, TypeOK
  <2> HIDE DEF d
  <2> QED
    BY <1>1, <2>6, <2>7, <2>8, CallStepKeeps
<1> QED
  BY <1>2, <1>3 DEF Scan

LEMMA StopSteps ==
  ASSUME IInv, NEW c \in Calls, StopBegins(c) \/ StopEnds(c)
  PROVE  IInv'
<1> DEFINE p == call[c].p
           q == proc[p]
<1>1. UNCHANGED <<turn, mode, reap, closing>>
  BY DEF StopBegins, StopEnds
<1>2. CASE StopEnds(c)
  <2>1. p \in Procs /\ q.tool = "stopped" /\ Done(c)
    BY <1>2 DEF StopEnds, IInv, CallsFit
  <2>2. Sound(q) /\ Owned(q, p) /\ q \in Records
    BY <2>1 DEF IInv, Sound
  <2>3. q.os = "dead"
    BY <2>1, <2>2 DEF Sound
  <2> DEFINE r == [q EXCEPT !.listed = FALSE]
  <2>4. proc' = [proc EXCEPT ![p] = r]
    BY <1>2, <2>1 DEF StopEnds, IInv, TypeOK, Records
  <2>5. /\ r \in Records
        /\ r.os = q.os /\ r.state = q.state /\ r.turn = q.turn /\ r.port = q.port
        /\ r.tool = q.tool /\ r.reap = q.reap /\ r.close = q.close
        /\ ~r.listed /\ r.source = q.source
    BY <2>2 DEF Records
  <2> HIDE DEF r
  <2>6. Sound(r) /\ Less(r, q)
    BY <2>2, <2>3, <2>5, Silenced
  <2>7. Owned(r, p)
    BY <2>2, <2>3, <2>5 DEF Owned
  <2>8. /\ proc' \in [Procs -> Records]
        /\ \A s \in Procs : Sound(proc[s]') /\ Owned(proc[s], s)'
        /\ Shrinks /\ LimitsHold' /\ ClosingStarted'
    BY <1>1, <2>1, <2>4, <2>6, <2>7, OneProcess
  <2>9. PICK d \in CallRecords : call' = [call EXCEPT ![c] = d] /\ d.at = "done"
    BY <2>1, CallAfter DEF Done
  <2> QED
    BY <1>1, <2>8, <2>9, CallStepKeeps
<1>3. CASE StopBegins(c) /\ p \notin Listed
  <2>1. UNCHANGED proc /\ Done(c)
    BY <1>3 DEF StopBegins
  <2>2. PICK d \in CallRecords : call' = [call EXCEPT ![c] = d] /\ d.at = "done"
    BY <2>1, CallAfter DEF Done
  <2>3. /\ proc' \in [Procs -> Records]
        /\ \A r \in Procs : Sound(proc[r]') /\ Owned(proc[r], r)'
        /\ Shrinks /\ LimitsHold' /\ ClosingStarted'
    BY <1>1, <2>1, NoProcess
  <2> QED
    BY <1>1, <2>2, <2>3, CallStepKeeps
<1>4. CASE StopBegins(c) /\ p \in Listed
  <2>1. /\ p \in Procs /\ q.listed /\ CallAt(c, "stopping")
        /\ LockFree /\ Reaping = {}
    BY <1>4 DEF StopBegins, Listed, Enters, Settled
  <2>2. Sound(q) /\ Owned(q, p)
    BY <2>1 DEF IInv
  <2>3. q.os # "none"
    BY <2>1, <2>2 DEF Sound, Unborn
  <2> DEFINE r == Stopping(q, "tool")
             d == [call[c] EXCEPT !.at = "stopping"]
  <2>4. proc' = [proc EXCEPT ![p] = r]
    BY <1>4, <2>1 DEF StopBegins, IInv, TypeOK
  <2>5. /\ Sound(r) /\ Less(r, q) /\ r.os = q.os /\ r.turn = q.turn
        /\ r.listed = q.listed /\ r.reap = q.reap
        /\ q.source \in {"none", "silent"} => r.source \in {"none", "silent"}
    BY <2>2, <2>3, StoppingSound DEF Kinds
  <2> HIDE DEF r
  <2>6. Owned(r, p)
    BY <2>2, <2>5 DEF Owned
  <2>7. /\ proc' \in [Procs -> Records]
        /\ \A s \in Procs : Sound(proc[s]') /\ Owned(proc[s], s)'
        /\ Shrinks /\ LimitsHold' /\ ClosingStarted'
    BY <1>1, <2>1, <2>4, <2>5, <2>6, OneProcess
  <2>8. d \in CallRecords /\ d.at = "stopping" /\ d.p = p
    BY CallAfter
  <2>9. call' = [call EXCEPT ![c] = d]
    BY <2>1 DEF CallAt, IInv, TypeOK
  <2> HIDE DEF d
  <2> QED
    BY <1>1, <2>1, <2>7, <2>8, <2>9, CallStepKeeps
<1> QED
  BY <1>2, <1>3, <1>4

\* A launch takes the room its second check found: what runs is what is counted,
\* as no kill is under way.
LEMMA LaunchStep ==
  ASSUME IInv, NEW c \in Calls, Launch(c)
  PROVE  IInv'
<1>1. /\ UNCHANGED <<turn, mode, reap, closing>>
      /\ mode = "running" /\ call[c].at = "launch"
      /\ Reaping = {} /\ Fits(call[c].port)
  BY DEF Launch, IInv, CallsFit
<1>2. CASE Done(c) /\ UNCHANGED proc
  <2>1. PICK d \in CallRecords : call' = [call EXCEPT ![c] = d] /\ d.at = "done"
    BY <1>2, CallAfter DEF Done
  <2>2. /\ proc' \in [Procs -> Records]
        /\ \A r \in Procs : Sound(proc[r]') /\ Owned(proc[r], r)'
        /\ Shrinks /\ LimitsHold' /\ ClosingStarted'
    BY <1>1, <1>2, NoProcess
  <2> QED
    BY <1>1, <2>1, <2>2, CallStepKeeps
<1>3. ASSUME NEW p \in Unused,
             proc' = [proc EXCEPT ![p] =
               [Unborn EXCEPT !.os = "live", !.state = "running", !.listed = TRUE,
                              !.turn = turn, !.port = call[c].port,
                              !.source = IF call[c].watch THEN "active" ELSE "none"]],
             IF call[c].watch THEN Done(c)
             ELSE call' = [call EXCEPT ![c] = [Free EXCEPT !.at = "scan", !.p = p]]
      PROVE  IInv'
  <2> DEFINE r == [Unborn EXCEPT !.os = "live", !.state = "running", !.listed = TRUE,
                     !.turn = turn, !.port = call[c].port,
                     !.source = IF call[c].watch THEN "active" ELSE "none"]
             port == call[c].port
  <2>1. p \in Procs /\ Sound(proc[p]) /\ Owned(proc[p], p) /\ proc[p].os = "none"
    BY <1>3 DEF Unused, IInv
  <2>2. port \in Ports \cup {NoPort}
    BY DEF IInv, TypeOK, CallRecords
  <2>3. turn \in 0 .. MaxTurns /\ turn # 0
    BY <1>1 DEF IInv, TypeOK, ReapedTurns
  <2>4. Unborn \in Records
    BY ProcessesAssumption DEF Unborn, Records, Stages
  <2>5. /\ r \in Records /\ r.os = "live" /\ r.state = "running" /\ r.listed
        /\ r.turn = turn /\ r.port = port
        /\ r.tool = "off" /\ r.reap = "off" /\ r.close = "off"
    BY <2>2, <2>3, <2>4 DEF Records, Unborn
  <2> HIDE DEF r, port
  <2>6. Sound(r)
    BY <2>3, <2>5 DEF Sound
  <2>7. Owned(r, p)
    BY <2>1, <2>5 DEF Owned
  <2>8. \A s \in Procs : proc'[s] = IF s = p THEN r ELSE proc[s]
    BY <1>3 DEF IInv, TypeOK, r, port
  <2>9. proc' \in [Procs -> Records]
    BY <1>3, <2>1, <2>5 DEF IInv, TypeOK, r, port
  <2>10. \A s \in Procs : Sound(proc'[s]) /\ Owned(proc'[s], s)
    BY <2>6, <2>7, <2>8 DEF IInv
  <2>11. \A s \in Procs : Owned(proc[s], s)'
    BY <1>1, <2>10 DEF Owned
  <2>12. LimitsHold'
    <3>1. Live \subseteq RunningProcs
      <4> SUFFICES ASSUME NEW s \in Live PROVE s \in RunningProcs
        OBVIOUS
      <4>1. s \in Procs /\ proc[s].os = "live" /\ Sound(proc[s]) /\ Owned(proc[s], s)
        BY DEF Live, IInv
      <4>2. proc[s].turn \in 1 .. MaxTurns /\ proc[s].state = "running"
        BY <4>1, ProcessesAssumption DEF Sound, Records
      <4>3. proc[s].listed
        BY <1>1, <4>1, <4>2 DEF Owned, Reaping
      <4> QED
        BY <4>1, <4>2, <4>3 DEF RunningProcs, Listed
    <3>2. Live' \subseteq Live \cup {p}
      BY <2>8 DEF Live
    <3>3. /\ RunningProcs \in SUBSET Procs /\ Live \in SUBSET Procs
          /\ Live' \in SUBSET Procs /\ Live \cup {p} \in SUBSET Procs
      BY <2>1 DEF RunningProcs, Listed, Live
    <3>4. /\ Cardinality(Live) <= Cardinality(RunningProcs)
          /\ Cardinality(Live') <= Cardinality(Live \cup {p})
      BY <3>1, <3>2, <3>3, SmallerSet
    <3>5. Cardinality(Live \cup {p}) <= Cardinality(Live) + 1
      BY <3>3, ProcsFinite, FS_AddElement
    <3>6. /\ Cardinality(RunningProcs) \in Nat /\ Cardinality(Live) \in Nat
          /\ Cardinality(Live') \in Nat /\ Cardinality(Live \cup {p}) \in Nat
      BY <3>3, ProcsFinite
    <3>7. Cardinality(RunningProcs) < MaxProcesses
      BY <1>1 DEF Fits
    <3>8. Cardinality(Live') <= MaxProcesses
      BY <3>4, <3>5, <3>6, <3>7, ProcessesAssumption
    <3>9. ASSUME NEW s \in Listed', NEW u \in Listed', s # u, proc[s]'.port # NoPort
          PROVE  proc[s]'.port # proc[u]'.port
      <4>1. /\ s \in Procs /\ (s # p => s \in Listed /\ proc'[s] = proc[s])
            /\ u \in Procs /\ (u # p => u \in Listed /\ proc'[u] = proc[u])
        BY <2>8, <3>9 DEF Listed
      <4>2. port # NoPort => \A v \in Listed : proc[v].port # port
        BY <1>1 DEF Fits, port
      <4>3. proc'[p].port = port
        BY <2>1, <2>5, <2>8
      <4>4. \A v, w \in Listed :
              v # w /\ proc[v].port # NoPort => proc[v].port # proc[w].port
        BY DEF IInv, LimitsHold
      <4> QED
        BY <3>9, <4>1, <4>2, <4>3, <4>4
    <3> QED
      BY <3>8, <3>9 DEF LimitsHold
  <2>13. ClosingStarted'
    BY <1>1, <2>5, <2>8 DEF IInv, TypeOK, ClosingStarted
  <2>14. PICK d \in CallRecords :
           /\ call' = [call EXCEPT ![c] = d]
           /\ d.at = "done" \/ (d.at = "scan" /\ d.p = p)
    <3>1. CASE Done(c)
      BY <3>1, CallAfter DEF Done
    <3>2. CASE call' = [call EXCEPT ![c] = [Free EXCEPT !.at = "scan", !.p = p]]
      <4>1. Free \in CallRecords /\ p \in 0 .. MaxStarts
        BY <2>1, ProcessesAssumption DEF Free, CallRecords, Procs
      <4>2. LET d == [Free EXCEPT !.at = "scan", !.p = p]
            IN  d \in CallRecords /\ d.at = "scan" /\ d.p = p
        BY <4>1 DEF CallRecords
      <4> QED
        BY <3>2, <4>2
    <3> QED
      BY <1>3, <3>1, <3>2
  <2>15. call' \in [Calls -> CallRecords] /\ Reaping' = {}
    BY <1>1, <2>14, SameReaping DEF IInv, TypeOK
  <2>16. CallsFit'
    <3>1. \A e \in Calls : call'[e] = IF e = c THEN d ELSE call[e]
      BY <2>14 DEF IInv, TypeOK
    <3>2. \A e \in Calls : call'[e].at # "launch"
      BY <1>1, <2>14, <3>1 DEF IInv, CallsFit
    <3>3. \A e, f \in Calls : call'[e].at \in {"launch", "stopping"}
                              /\ call'[f].at \in {"launch", "stopping"} => e = f
      BY <1>1, <2>14, <3>1 DEF IInv, CallsFit
    <3>4. \A e \in Calls : call'[e].at \in {"scan", "waiting", "stopping"}
                           => call'[e].p \in Procs
      BY <2>1, <2>14, <3>1 DEF IInv, CallsFit
    <3> QED
      BY <2>15, <3>2, <3>3, <3>4 DEF CallsFit
  <2>17. ReapedTurns'
    BY <1>1 DEF IInv, ReapedTurns
  <2> QED
    BY <1>1, <2>9, <2>10, <2>11, <2>12, <2>13, <2>15, <2>16, <2>17 DEF IInv, TypeOK
<1> QED
  BY <1>2, <1>3 DEF Launch

-----------------------------------------------------------------------------
(* Theorems *)

LEMMA InitIInv == Init => IInv
<1> SUFFICES ASSUME Init PROVE IInv
  OBVIOUS
<1>1. Unborn \in Records /\ Free \in CallRecords
  BY ProcessesAssumption DEF Unborn, Records, Stages, Free, CallRecords
<1>2. TypeOK
  BY <1>1, ProcessesAssumption DEF Init, TypeOK
<1>3. \A p \in Procs : Sound(proc[p]) /\ Owned(proc[p], p)
  BY <1>1 DEF Init, Sound, Owned, Unborn
<1>4. ReapedTurns /\ CallsFit /\ ClosingStarted
  BY DEF Init, ReapedTurns, CallsFit, ClosingStarted, Free
<1>5. LimitsHold
  <2>1. Live = {} /\ Listed = {}
    BY DEF Init, Live, Listed, Unborn
  <2> QED
    BY <2>1, FS_EmptySet, ProcessesAssumption DEF LimitsHold
<1> QED
  BY <1>2, <1>3, <1>4, <1>5 DEF IInv

LEMMA StutterIInv ==
  ASSUME IInv, UNCHANGED vars
  PROVE  IInv'
<1>1. UNCHANGED <<proc, call, turn, mode, reap, closing>>
  BY DEF vars
<1>2. /\ proc' \in [Procs -> Records]
      /\ \A r \in Procs : Sound(proc[r]') /\ Owned(proc[r], r)'
      /\ Shrinks /\ LimitsHold' /\ ClosingStarted'
  BY <1>1, NoProcess
<1>3. CallsFit' /\ call' \in [Calls -> CallRecords]
  BY <1>1, <1>2, NoCall, SameReaping
<1> QED
  BY <1>1, <1>2, <1>3 DEF IInv, TypeOK, ReapedTurns

LEMMA NextIInv == IInv /\ [Next]_vars => IInv'
<1> SUFFICES ASSUME IInv, [Next]_vars PROVE IInv'
  OBVIOUS
<1>1. ASSUME NEW c \in Calls, CallStep(c) PROVE IInv'
  BY <1>1, QuietCallSteps, PruningCallSteps, LaunchStep, ScanStep, StopSteps
     DEF CallStep
<1> QED
  BY <1>1, ProcessSteps, ReapSteps, CloseSteps, TurnSteps, RollBackStep, CloseStep,
     StutterIInv
     DEF Next

\* Every reachable state of the process plugin satisfies the strengthening.
THEOREM InductiveInvariant == Spec => []IInv
BY InitIInv, NextIInv, PTL DEF Spec

\* However many calls start processes at once, and whatever is being killed
\* meanwhile, no more than max_processes run, and no two listed ones share a port.
THEOREM LimitsHoldTheorem == Spec => []LimitsHold
<1>1. IInv => LimitsHold
  BY DEF IInv
<1> QED
  BY <1>1, InductiveInvariant, PTL

\* What a rolled-back turn started is unlisted, silent, and dead before a tool
\* goes on; a command that runs is on the list or being killed.
THEOREM VoidedAreGoneTheorem == Spec => []VoidedAreGone
<1>1. IInv => VoidedAreGone
  <2> SUFFICES ASSUME IInv PROVE VoidedAreGone
    OBVIOUS
  <2> DEFINE voided == {p \in Procs : proc[p].turn # 0 /\ proc[p].reap # "off"}
                         \cup UNION {reap[t] : t \in 1 .. MaxTurns}
  <2>1. ASSUME NEW p \in voided
        PROVE  /\ p \in Procs /\ ~proc[p].listed
               /\ proc[p].source \in {"none", "silent"}
               /\ Reaping = {} => proc[p].os # "live"
    <3>1. CASE \E t \in 1 .. MaxTurns : p \in reap[t]
      BY <3>1 DEF IInv, TypeOK, Owned, Reaping
    <3>2. CASE p \in Procs /\ proc[p].reap # "off"
      <4>1. Sound(proc[p]) /\ Owned(proc[p], p)
        BY <3>2 DEF IInv
      <4>2. proc[p].turn \in 1 .. MaxTurns \/ proc[p].os = "none"
        BY <4>1, ProcessesAssumption DEF Sound, Records
      <4> QED
        BY <3>2, <4>1, <4>2 DEF Sound, Owned, Reaping
    <3> QED
      BY <2>1, <3>1, <3>2
  <2>2. ASSUME NEW p \in Live PROVE p \in Listed \cup voided
    <3>1. p \in Procs /\ proc[p].os = "live" /\ Sound(proc[p]) /\ Owned(proc[p], p)
      BY <2>2 DEF Live, IInv
    <3>2. proc[p].turn \in 1 .. MaxTurns
      BY <3>1, ProcessesAssumption DEF Sound, Records
    <3> QED
      BY <3>1, <3>2 DEF Owned, Listed
  <2>3. (\E c \in Calls : call[c].at \in {"confirm", "launch", "stopping"})
          => Reaping = {}
    BY DEF IInv, CallsFit
  <2>4. voided \cap Listed = {}
    BY <2>1 DEF Listed
  <2>5. Reaping = {} => voided \cap Live = {}
    BY <2>1 DEF Live
  <2> QED
    BY <2>1, <2>2, <2>3, <2>4, <2>5 DEF VoidedAreGone
<1> QED
  BY <1>1, InductiveInvariant, PTL

-----------------------------------------------------------------------------
(* Places and numbers *)

\* Counting up to an element numbers a finite set of numbers from 1, in order.
LEMMA PlacesNumber ==
  ASSUME NEW K \in SUBSET Nat, IsFiniteSet(K)
  PROVE  /\ Cardinality(K) \in Nat
         /\ \A i \in K : Place(K, i) \in 1 .. Cardinality(K)
         /\ \A i, j \in K : i <= j <=> Place(K, i) <= Place(K, j)
         /\ \A n \in 1 .. Cardinality(K) : \E i \in K : Place(K, i) = n
<1> DEFINE Upto(i) == {j \in K : j <= i}
           N == Cardinality(K)
<1>0. \A i \in K : i \in Nat
  OBVIOUS
<1>1. N \in Nat
  BY FS_CardinalityType
<1>2. ASSUME NEW i \in K
      PROVE  /\ IsFiniteSet(Upto(i)) /\ Place(K, i) = Cardinality(Upto(i))
             /\ Place(K, i) \in 1 .. N
  <2>1. Upto(i) \in SUBSET K /\ i \in Upto(i)
    OBVIOUS
  <2>2. Place(K, i) = Cardinality(Upto(i))
    BY DEF Place
  <2> HIDE DEF Upto
  <2>3. IsFiniteSet(Upto(i)) /\ Cardinality(Upto(i)) <= N
    BY <2>1, FS_Subset
  <2>4. Cardinality(Upto(i)) \in Nat /\ Cardinality(Upto(i)) # 0
    BY <2>1, <2>3, FS_CardinalityType, FS_EmptySet
  <2> QED
    BY <1>1, <2>2, <2>3, <2>4
<1>3. ASSUME NEW i \in K, NEW j \in K, i <= j
      PROVE  Place(K, i) <= Place(K, j)
  <2>0. \A k \in K : k <= i => k <= j
    BY <1>0, <1>3
  <2>1. Upto(i) \in SUBSET Upto(j)
    BY <2>0
  <2> HIDE DEF Upto
  <2> QED
    BY <1>2, <2>1, FS_Subset
<1>4. ASSUME NEW i \in K, NEW j \in K, i < j
      PROVE  Place(K, i) < Place(K, j)
  <2>0. (\A k \in K : k <= i => k <= j) /\ j <= j /\ ~(j <= i)
    BY <1>0, <1>4
  <2>1. Upto(i) \in SUBSET Upto(j) /\ j \in Upto(j) /\ j \notin Upto(i)
    BY <2>0
  <2> HIDE DEF Upto
  <2>2. /\ Cardinality(Upto(i)) <= Cardinality(Upto(j))
        /\ Cardinality(Upto(i)) # Cardinality(Upto(j))
    BY <1>2, <2>1, FS_Subset
  <2>3. Place(K, i) = Cardinality(Upto(i)) /\ Place(K, j) = Cardinality(Upto(j))
    BY <1>2
  <2>4. Place(K, i) \in Nat /\ Place(K, j) \in Nat
    <3> HIDE DEF N
    <3> QED BY <1>1, <1>2
  <2> QED
    BY <2>2, <2>3, <2>4
<1> HIDE DEF N, Upto
<1>5. \A i, j \in K : i <= j <=> Place(K, i) <= Place(K, j)
  <2> TAKE i, j \in K
  <2>1. i \in Nat /\ j \in Nat /\ Place(K, i) \in Nat /\ Place(K, j) \in Nat
    BY <1>1, <1>2
  <2> QED
    BY <1>3, <1>4, <2>1
<1>6. \A n \in 1 .. N : \E i \in K : Place(K, i) = n
  <2> DEFINE p == [i \in K |-> Place(K, i)]
  <2>1. p \in Injection(K, 1 .. N)
    <3>1. p \in [K -> 1 .. N]
      BY <1>2
    <3>2. \A i, j \in K : p[i] = p[j] => i = j
      <4> TAKE i, j \in K
      <4>1. i \in Nat /\ j \in Nat /\ Place(K, i) \in Nat /\ Place(K, j) \in Nat
        BY <1>1, <1>2
      <4> QED
        BY <1>5, <4>1
    <3> QED
      BY <3>1, <3>2 DEF Injection, IsInjective
  <2>2. IsFiniteSet(1 .. N) /\ Cardinality(1 .. N) = N
    BY <1>1, FS_Interval
  <2>3. p \in Surjection(K, 1 .. N)
    BY <2>1, <2>2, FS_Injection DEF N
  <2> QED
    BY <2>3 DEF Surjection
<1> QED
  BY <1>1, <1>2, <1>5, <1>6 DEF N

\* The least-number principle.
LEMMA LeastNumber ==
  ASSUME NEW S \in SUBSET Nat, S # {}
  PROVE  \E x \in S : \A y \in S : x <= y
<1>1. \E x \in S : \A y \in S : ~(<<y, x>> \in OpToRel(<, Nat))
  BY NatLessThanWellFounded, WFMin
<1>2. PICK x \in S : \A y \in S : ~(<<y, x>> \in OpToRel(<, Nat))
  BY <1>1
<1>3. \A y \in S : ~(y < x)
  BY <1>2 DEF OpToRel
<1> QED
  BY <1>3

-----------------------------------------------------------------------------
(* The search tool *)

\* What an instance extends is one with what this module extends.
LEMMA SameInSearch ==
  /\ \A S : Se!Cardinality(S) = Cardinality(S)
  /\ \A S : Se!IsFiniteSet(S) <=> IsFiniteSet(S)
  /\ \A K, i : Se!Place(K, i) = Place(K, i)
<1>1. \A S : Se!Cardinality(S) = Cardinality(S)
  BY DEF Se!Cardinality, Cardinality
<1>2. \A S : Se!IsFiniteSet(S) <=> IsFiniteSet(S)
  BY DEF Se!IsFiniteSet, IsFiniteSet
<1>3. \A K, i : Se!Place(K, i) = Place(K, i)
  BY <1>1 DEF Se!Place, Place
<1> QED BY <1>1, <1>2, <1>3

\* The lowest k are k if there are as many, and all if there are no more.
LEMMA LowestAre ==
  ASSUME NEW K \in SUBSET Nat, IsFiniteSet(K), NEW k \in Nat
  PROVE  /\ IsFiniteSet(Se!Lowest(K, k)) /\ Se!Lowest(K, k) \subseteq K
         /\ Cardinality(K) <= k => Se!Lowest(K, k) = K
         /\ k <= Cardinality(K) => Cardinality(Se!Lowest(K, k)) = k
         /\ \A j \in Int : j <= k => Se!Lowest(K, j) \subseteq Se!Lowest(K, k)
<1> DEFINE N == Cardinality(K)
           low == Se!Lowest(K, k)
<1>1. low = {i \in K : Place(K, i) <= k}
  BY SameInSearch DEF Se!Lowest
<1>2. /\ N \in Nat
      /\ \A i \in K : Place(K, i) \in 1 .. N
      /\ \A i, j \in K : i <= j <=> Place(K, i) <= Place(K, j)
      /\ \A n \in 1 .. N : \E i \in K : Place(K, i) = n
  BY PlacesNumber
<1> HIDE DEF N, low
<1>3. IsFiniteSet(low) /\ low \subseteq K
  BY <1>1, FS_Subset
<1>4. ASSUME N <= k PROVE low = K
  <2>1. \A i \in K : Place(K, i) <= k
    BY <1>2, <1>4
  <2> QED BY <1>1, <2>1
<1>5. ASSUME k <= N PROVE Cardinality(low) = k
  <2> DEFINE p == [i \in low |-> Place(K, i)]
             upto == 1 .. k
  <2>1. \A i \in low : i \in K /\ i \in Nat /\ Place(K, i) \in upto
    BY <1>1, <1>2
  <2>2. p \in [low -> upto]
    BY <2>1
  <2>3. \A i, j \in low : p[i] = p[j] => i = j
    <3> TAKE i, j \in low
    <3>1. i \in Nat /\ j \in Nat /\ Place(K, i) \in Nat /\ Place(K, j) \in Nat
      BY <2>1
    <3> QED BY <1>2, <2>1, <3>1
  <2>4. \A n \in upto : \E i \in low : p[i] = n
    <3> TAKE n \in upto
    <3>1. n \in 1 .. N /\ n \in Nat /\ n <= k
      BY <1>2, <1>5
    <3>2. PICK i \in K : Place(K, i) = n
      BY <1>2, <3>1
    <3>3. i \in low
      BY <1>1, <3>1, <3>2
    <3> QED BY <3>2, <3>3
  <2>5. IsFiniteSet(upto) /\ Cardinality(upto) = IF 1 > k THEN 0 ELSE k - 1 + 1
    BY FS_Interval
  <2>6. Cardinality(upto) = k
    BY <2>5
  <2> HIDE DEF p, upto
  <2>7. ExistsBijection(low, upto)
    BY <2>2, <2>3, <2>4 DEF ExistsBijection, Bijection, Injection, Surjection, IsInjective
  <2> QED BY <1>3, <2>6, <2>7, FS_Bijection
<1>6. ASSUME NEW j \in Int, j <= k PROVE Se!Lowest(K, j) \subseteq low
  <2>1. Se!Lowest(K, j) = {i \in K : Place(K, i) <= j}
    BY SameInSearch DEF Se!Lowest
  <2>2. \A i \in K : Place(K, i) \in Nat
    BY <1>2
  <2>3. \A i \in K : Place(K, i) <= j => Place(K, i) <= k
    BY <1>6, <2>2
  <2> QED BY <1>1, <2>1, <2>3
<1> QED BY <1>3, <1>4, <1>5, <1>6 DEF N, low

\* A listing has each number.
LEMMA InOrderLists ==
  ASSUME NEW K \in SUBSET Nat, IsFiniteSet(K)
  PROVE  Se!InOrder(K) \in Seq(K) /\ Se!ToSet(Se!InOrder(K)) = K
<1> DEFINE N == Cardinality(K)
           Nth(n) == CHOOSE i \in K : Place(K, i) = n
           f == Se!InOrder(K)
<1>1. f = [n \in 1 .. N |-> Nth(n)]
  BY SameInSearch DEF Se!InOrder
<1>2. /\ N \in Nat
      /\ \A i \in K : Place(K, i) \in 1 .. N
      /\ \A i, j \in K : i <= j <=> Place(K, i) <= Place(K, j)
      /\ \A n \in 1 .. N : \E i \in K : Place(K, i) = n
  BY PlacesNumber
<1>3. \A n \in 1 .. N : Nth(n) \in K /\ Place(K, Nth(n)) = n
  BY <1>2
<1> HIDE DEF N, f, Nth
<1>4. f \in Seq(K)
  BY <1>1, <1>2, <1>3
<1>5. \A i \in K : f[Place(K, i)] = i
  <2> TAKE i \in K
  <2> DEFINE j == Nth(Place(K, i))
  <2>1. j \in K /\ Place(K, j) = Place(K, i) /\ f[Place(K, i)] = j
    BY <1>1, <1>2, <1>3
  <2> HIDE DEF j
  <2>2. i \in Nat /\ j \in Nat /\ Place(K, i) \in Nat
    BY <1>2, <2>1
  <2>3. i <= j /\ j <= i
    BY <1>2, <2>1, <2>2
  <2> QED BY <2>1, <2>2, <2>3
<1>6. Se!ToSet(f) = K
  <2>1. DOMAIN f = 1 .. N /\ \A n \in 1 .. N : f[n] \in K
    BY <1>1, <1>3
  <2>2. \A i \in K : \E n \in DOMAIN f : f[n] = i
    BY <1>2, <1>5, <2>1
  <2> QED BY <2>1, <2>2 DEF Se!ToSet
<1> QED BY <1>4, <1>6 DEF f

\* The nodes of a tree.
LEMMA TreeIs ==
  ASSUME Se!IsTree(seTree), NEW n \in DOMAIN seTree
  PROVE  /\ DOMAIN seTree = 1 .. Len(seTree) /\ Len(seTree) \in Nat
         /\ seTree[n].in \in Seq(DOMAIN seTree)
         /\ seTree[n].is \in Se!Skips \cup Se!Directories \cup Se!FileKinds
         /\ seTree[n].fits \in BOOLEAN
         /\ seTree[n].lines \in SUBSET Nat /\ IsFiniteSet(seTree[n].lines)
<1> DEFINE R == [in : Seq(1 .. Len(seTree)),
                 is : Se!Skips \cup Se!Directories \cup Se!FileKinds,
                 fits : BOOLEAN, lines : SUBSET Nat]
<1>1. seTree \in Seq(R)
  BY DEF Se!IsTree
<1> HIDE DEF R
<1>2. DOMAIN seTree = 1 .. Len(seTree) /\ Len(seTree) \in Nat
  BY <1>1
<1>3. Se!IsFiniteSet(seTree[n].lines)
  BY DEF Se!IsTree
<1>4. seTree[n] \in R
  BY <1>1, <1>2
<1> QED BY <1>2, <1>3, <1>4, SameInSearch DEF R

\* On the way to a node below a directory, or at the node, something is in it.
LEMMA OnTheWay ==
  ASSUME Se!IsTree(seTree), NEW n \in DOMAIN seTree
  PROVE  /\ \E c \in Se!Entries(<< >>) : c = n \/ c \in Se!Above(n)
         /\ \A a \in Se!Above(n) :
              /\ a \in DOMAIN seTree /\ seTree[a].is \in Se!Directories
              /\ \E c \in Se!Entries(Append(seTree[a].in, a)) : c = n \/ c \in Se!Above(n)
<1> DEFINE in == seTree[n].in
           path == Append(in, n)
           N == Len(in)
           none == << >>
<1>1. in \in Seq(DOMAIN seTree) /\ N \in Nat /\ DOMAIN in = 1 .. N
  BY TreeIs
<1>2. /\ path \in Seq(DOMAIN seTree) /\ Len(path) = N + 1 /\ path[N + 1] = n
      /\ \A k \in 1 .. N : path[k] = in[k]
  BY <1>1
<1>3. /\ seTree[path[1]].in = none
      /\ \A k \in 1 .. Len(path) - 1 :
           /\ seTree[path[k]].is \in Se!Directories
           /\ seTree[path[k + 1]].in = Append(seTree[path[k]].in, path[k])
  BY DEF Se!IsTree
<1>4. Se!Above(n) = {in[k] : k \in 1 .. N}
  BY <1>1 DEF Se!Above, Se!ToSet
<1> HIDE DEF in, path, N, none
<1>5. \A k \in 1 .. N + 1 : path[k] \in DOMAIN seTree /\ (path[k] = n \/ path[k] \in Se!Above(n))
  BY <1>1, <1>2, <1>4
<1>6. \E c \in Se!Entries(none) : c = n \/ c \in Se!Above(n)
  <2>1. path[1] \in Se!Entries(none)
    BY <1>1, <1>3, <1>5 DEF Se!Entries
  <2> QED BY <1>1, <1>5, <2>1
<1>7. ASSUME NEW a \in Se!Above(n)
      PROVE  /\ a \in DOMAIN seTree /\ seTree[a].is \in Se!Directories
             /\ \E c \in Se!Entries(Append(seTree[a].in, a)) : c = n \/ c \in Se!Above(n)
  <2>1. PICK k \in 1 .. N : a = path[k]
    BY <1>2, <1>4, <1>7
  <2>2. k \in 1 .. N + 1 /\ k + 1 \in 1 .. N + 1 /\ k \in 1 .. Len(path) - 1
    BY <1>1, <1>2, <2>1
  <2>3. path[k + 1] \in Se!Entries(Append(seTree[a].in, a))
    BY <1>3, <1>5, <2>1, <2>2 DEF Se!Entries
  <2> QED BY <1>3, <1>5, <2>1, <2>2, <2>3
<1> QED BY <1>6, <1>7 DEF none

\* What is in a directory: it is listed, or the listing was cut and says so.
LEMMA ListedOrOver ==
  ASSUME Se!IsTree(seTree), seOptions.entries \in Nat, NEW in
  PROVE  /\ Se!Listed(in) \in Seq(DOMAIN seTree)
         /\ Se!ToSet(Se!Listed(in)) \subseteq Se!Entries(in)
         /\ \/ Se!ToSet(Se!Listed(in)) = Se!Entries(in)
            \/ Se!Over(in) /\ Cardinality(Se!Entries(in)) > seOptions.entries
<1> DEFINE E == Se!Entries(in)
           low == Se!Lowest(E, seOptions.entries)
<1>1. DOMAIN seTree = 1 .. Len(seTree) /\ Len(seTree) \in Nat
  BY DEF Se!IsTree
<1>2. E \subseteq DOMAIN seTree
  BY DEF Se!Entries
<1>3. E \in SUBSET Nat /\ IsFiniteSet(E)
  <2>1. IsFiniteSet(DOMAIN seTree)
    BY <1>1, FS_Interval
  <2> HIDE DEF E
  <2> QED BY <1>1, <1>2, <2>1, FS_Subset
<1> HIDE DEF E
<1>4. /\ IsFiniteSet(low) /\ low \subseteq E
      /\ Cardinality(E) <= seOptions.entries => low = E
  BY <1>3, LowestAre
<1>5. Se!Listed(in) = Se!InOrder(low)
  BY DEF Se!Listed, E
<1>6. Cardinality(E) \in Nat
  BY <1>3, FS_CardinalityType
<1> HIDE DEF low
<1>7. Se!InOrder(low) \in Seq(low) /\ Se!ToSet(Se!InOrder(low)) = low
  BY <1>3, <1>4, InOrderLists
<1>8. Se!Listed(in) \in Seq(DOMAIN seTree)
  BY <1>2, <1>4, <1>5, <1>7
<1>9. low = E \/ Cardinality(E) > seOptions.entries
  BY <1>4, <1>6
<1>10. Cardinality(E) > seOptions.entries => Se!Over(in)
  BY SameInSearch DEF Se!Over, E
<1> QED BY <1>4, <1>5, <1>7, <1>8, <1>9, <1>10 DEF E

SearchTypeInv ==
  /\ Se!IsTree(seTree)
  /\ seOptions \in [hits : Nat, perFile : Nat, files : Nat, entries : Nat, depth : Nat]
  /\ seMode \in {"content", "files", "names"}
  /\ seTodo \in Seq(DOMAIN seTree)
  /\ IsFiniteSet(seHits)
  /\ seOmitted \in [DOMAIN seTree -> Nat]
  /\ seSkipped \in [Se!Skips -> Nat]

\* Only directories that may be searched were entered.
TodoInv == \A m \in Se!ToSet(seTodo) : \A a \in Se!Above(m) : seTree[a].is = "dir"

\* The first matches of a file, and no other, are shown.
HitsInv ==
  /\ seHits \subseteq Se!Wanted
  /\ seMode = "content" =>
       \A h \in seHits : h[2] \in Se!Lowest(seTree[h[1]].lines, seOptions.perFile)

\* Where more are counted, all are shown that fit.
OmittedInv ==
  \A n \in DOMAIN seTree : seOmitted[n] > 0 =>
    /\ seMode = "content" /\ {n} \X seTree[n].lines \subseteq Se!Wanted
    /\ Cardinality(seTree[n].lines) > seOptions.perFile
    /\ seOmitted[n] = Cardinality(seTree[n].lines) - seOptions.perFile
    /\ {n} \X Se!Lowest(seTree[n].lines, seOptions.perFile) \subseteq seHits

\* What kept matches of n out, whatever their number.
Excused(n) ==
  \/ seNotes \cap {"matches", "files", "time"} # {}
  \/ seOmitted[n] > 0
  \/ seTree[n].is \in Se!Skips /\ seSkipped[seTree[n].is] > 0
  \/ \E a \in Se!Above(n) : \/ seTree[a].is = "excluded" /\ "pruned" \in seNotes
                            \/ seTree[a].is = "locked" /\ seSkipped["unreadable"] > 0
                            \/ Len(seTree[a].in) >= seOptions.depth /\ "depth" \in seNotes
  \/ "entries" \in seNotes
       /\ \E d \in {<< >>} \cup {Append(seTree[a].in, a) : a \in Se!Above(n)} :
            Cardinality(Se!Entries(d)) > seOptions.entries

\* The walk has still to come to n.
Coming(n) == ~seDone /\ \E m \in Se!ToSet(seTodo) : m = n \/ m \in Se!Above(n)

CoverInv == \A w \in Se!Wanted \ seHits : Excused(w[1]) \/ Coming(w[1])

\* The inductive invariant of a search.
SearchInv == SearchTypeInv /\ TodoInv /\ HitsInv /\ OmittedInv /\ CoverInv

LEMMA WantedAre ==
  ASSUME SearchTypeInv, NEW w \in Se!Wanted
  PROVE  /\ w[1] \in DOMAIN seTree /\ w = <<w[1], w[2]>>
         /\ seTree[w[1]].is \in Se!FileKinds /\ seTree[w[1]].fits
         /\ \A a \in Se!Above(w[1]) : seTree[a].is # "runtime"
         /\ seMode = "files" => seTree[w[1]].lines # {}
         /\ seMode = "content" => w[2] \in seTree[w[1]].lines
<1> DEFINE files == {n \in DOMAIN seTree :
                       /\ seTree[n].is \in Se!FileKinds /\ seTree[n].fits
                       /\ \A a \in Se!Above(n) : seTree[a].is # "runtime"}
<1>1. CASE seMode = "names"
  <2>1. w \in files \X {0}
    BY <1>1 DEF Se!Wanted
  <2> QED BY <1>1, <2>1
<1>2. CASE seMode = "files"
  <2>1. w \in {n \in files : seTree[n].lines # {}} \X {0}
    BY <1>2 DEF Se!Wanted
  <2> QED BY <1>2, <2>1
<1>3. CASE seMode = "content"
  <2>1. w \in UNION {{n} \X seTree[n].lines : n \in files}
    BY <1>3 DEF Se!Wanted
  <2> QED BY <1>3, <2>1
<1> QED BY <1>1, <1>2, <1>3 DEF SearchTypeInv

\* A queue and what is taken off it or put before it.
LEMMA QueueIs ==
  ASSUME NEW S, NEW q \in Seq(S)
  PROVE  /\ q # << >> => /\ Head(q) \in S /\ Tail(q) \in Seq(S)
                         /\ Head(q) \in Se!ToSet(q)
                         /\ Se!ToSet(q) = {Head(q)} \cup Se!ToSet(Tail(q))
         /\ q = << >> => Se!ToSet(q) = {}
         /\ Se!ToSet(q) \subseteq S
         /\ \A p \in Seq(S) : /\ p \o q \in Seq(S)
                              /\ Se!ToSet(p \o q) = Se!ToSet(p) \cup Se!ToSet(q)
         /\ \A e \in S : Se!ToSet(Append(q, e)) = Se!ToSet(q) \cup {e}
<1>1. ASSUME q # << >>
      PROVE  /\ Head(q) \in S /\ Tail(q) \in Seq(S) /\ Head(q) \in Se!ToSet(q)
             /\ Se!ToSet(q) = {Head(q)} \cup Se!ToSet(Tail(q))
  <2>1. /\ Len(q) \in Nat \ {0} /\ DOMAIN q = 1 .. Len(q) /\ Head(q) = q[1]
        /\ Head(q) \in S /\ Tail(q) \in Seq(S)
        /\ DOMAIN Tail(q) = 1 .. Len(q) - 1
        /\ \A i \in 1 .. Len(q) - 1 : Tail(q)[i] = q[i + 1]
    BY <1>1
  <2>2. \A x \in Se!ToSet(q) : x = Head(q) \/ x \in Se!ToSet(Tail(q))
    <3> TAKE x \in Se!ToSet(q)
    <3>1. PICK i \in 1 .. Len(q) : x = q[i]
      BY <2>1 DEF Se!ToSet
    <3>2. i # 1 => i - 1 \in 1 .. Len(q) - 1 /\ Tail(q)[i - 1] = x
      BY <2>1, <3>1
    <3> QED BY <2>1, <3>1, <3>2 DEF Se!ToSet
  <2>3. \A x \in Se!ToSet(Tail(q)) : x \in Se!ToSet(q)
    <3> TAKE x \in Se!ToSet(Tail(q))
    <3>1. PICK i \in 1 .. Len(q) - 1 : x = Tail(q)[i]
      BY <2>1 DEF Se!ToSet
    <3>2. i + 1 \in DOMAIN q /\ x = q[i + 1]
      BY <2>1, <3>1
    <3> QED BY <3>2 DEF Se!ToSet
  <2>4. Head(q) \in Se!ToSet(q)
    BY <2>1 DEF Se!ToSet
  <2> QED BY <2>1, <2>2, <2>3, <2>4
<1>2. q = << >> => Se!ToSet(q) = {}
  BY DEF Se!ToSet
<1>3. Se!ToSet(q) \subseteq S
  BY DEF Se!ToSet
<1>4. ASSUME NEW p \in Seq(S)
      PROVE  p \o q \in Seq(S) /\ Se!ToSet(p \o q) = Se!ToSet(p) \cup Se!ToSet(q)
  <2> DEFINE r == p \o q
  <2>1. /\ r \in Seq(S) /\ Len(p) \in Nat /\ Len(q) \in Nat
        /\ DOMAIN p = 1 .. Len(p) /\ DOMAIN q = 1 .. Len(q)
        /\ DOMAIN r = 1 .. Len(p) + Len(q)
        /\ \A i \in 1 .. Len(p) + Len(q) :
             r[i] = IF i <= Len(p) THEN p[i] ELSE q[i - Len(p)]
    BY <1>4
  <2> HIDE DEF r
  <2>2. \A x \in Se!ToSet(r) : x \in Se!ToSet(p) \cup Se!ToSet(q)
    <3> TAKE x \in Se!ToSet(r)
    <3>1. PICK i \in 1 .. Len(p) + Len(q) : x = r[i]
      BY <2>1 DEF Se!ToSet
    <3>2. CASE i <= Len(p)
      <4>1. i \in 1 .. Len(p) /\ x = p[i]
        BY <2>1, <3>1, <3>2
      <4> QED BY <2>1, <4>1 DEF Se!ToSet
    <3>3. CASE i > Len(p)
      <4>1. i - Len(p) \in 1 .. Len(q) /\ x = q[i - Len(p)]
        BY <2>1, <3>1, <3>3
      <4> QED BY <2>1, <4>1 DEF Se!ToSet
    <3> QED BY <2>1, <3>1, <3>2, <3>3
  <2>3. \A x \in Se!ToSet(p) : x \in Se!ToSet(r)
    <3> TAKE x \in Se!ToSet(p)
    <3>1. PICK i \in 1 .. Len(p) : x = p[i]
      BY <2>1 DEF Se!ToSet
    <3>2. i \in DOMAIN r /\ r[i] = x
      BY <2>1, <3>1
    <3> QED BY <3>2 DEF Se!ToSet
  <2>4. \A x \in Se!ToSet(q) : x \in Se!ToSet(r)
    <3> TAKE x \in Se!ToSet(q)
    <3>1. PICK i \in 1 .. Len(q) : x = q[i]
      BY <2>1 DEF Se!ToSet
    <3>2. Len(p) + i \in 1 .. Len(p) + Len(q) /\ ~(Len(p) + i <= Len(p))
          /\ Len(p) + i - Len(p) = i
      BY <2>1, <3>1
    <3>3. r[Len(p) + i] = q[i]
      BY <2>1, <3>2
    <3> QED BY <2>1, <3>1, <3>2, <3>3 DEF Se!ToSet
  <2>5. Se!ToSet(r) = Se!ToSet(p) \cup Se!ToSet(q)
    BY <2>2, <2>3, <2>4
  <2> QED BY <2>1, <2>5 DEF r
<1>5. ASSUME NEW e \in S PROVE Se!ToSet(Append(q, e)) = Se!ToSet(q) \cup {e}
  <2> DEFINE r == Append(q, e)
  <2>1. /\ Len(q) \in Nat /\ DOMAIN q = 1 .. Len(q) /\ DOMAIN r = 1 .. Len(q) + 1
        /\ r[Len(q) + 1] = e /\ \A i \in 1 .. Len(q) : r[i] = q[i]
    BY <1>5
  <2> HIDE DEF r
  <2>2. Se!ToSet(r) = {r[i] : i \in 1 .. Len(q) + 1} /\ Se!ToSet(q) = {q[i] : i \in 1 .. Len(q)}
    BY <2>1 DEF Se!ToSet
  <2>3. \A i \in 1 .. Len(q) + 1 : i = Len(q) + 1 \/ i \in 1 .. Len(q)
    BY <2>1
  <2>4. Se!ToSet(r) = Se!ToSet(q) \cup {e}
    BY <2>1, <2>2, <2>3
  <2> QED BY <2>4 DEF r
<1> QED BY <1>1, <1>2, <1>3, <1>4, <1>5

\* What is searched, and with what, stays as it was.
LEMMA SearchFrame ==
  ASSUME UNCHANGED <<seTree, seOptions, seMode>>
  PROVE  /\ Se!Wanted' = Se!Wanted
         /\ \A n : Se!Above(n)' = Se!Above(n)
         /\ \A d : Se!Entries(d)' = Se!Entries(d)
         /\ Se!IsTree(seTree)' <=> Se!IsTree(seTree)
<1>1. \A n : Se!Above(n)' = Se!Above(n)
  BY DEF Se!Above
<1>2. \A d : Se!Entries(d)' = Se!Entries(d)
  BY DEF Se!Entries
<1>3. Se!Wanted' = Se!Wanted
  BY <1>1 DEF Se!Wanted
<1>4. Se!IsTree(seTree)' <=> Se!IsTree(seTree)
  OBVIOUS
<1> QED BY <1>1, <1>2, <1>3, <1>4

\* The notes and the counts only grow, and with them what they excuse.
LEMMA ExcusesStay ==
  ASSUME UNCHANGED <<seTree, seOptions, seMode>>, seNotes \subseteq seNotes',
         NEW n, n \in DOMAIN seTree, Excused(n),
         seOmitted[n] > 0 => seOmitted'[n] > 0,
         \A k \in Se!Skips : seSkipped[k] > 0 => seSkipped'[k] > 0
  PROVE  Excused(n)'
<1>1. "unreadable" \in Se!Skips
  BY DEF Se!Skips
<1>2. CASE seNotes \cap {"matches", "files", "time"} # {}
  BY <1>2 DEF Excused
<1>3. CASE seOmitted[n] > 0
  BY <1>3 DEF Excused
<1>4. CASE seTree[n].is \in Se!Skips /\ seSkipped[seTree[n].is] > 0
  BY <1>4 DEF Excused
<1>5. CASE \E a \in Se!Above(n) :
             \/ seTree[a].is = "excluded" /\ "pruned" \in seNotes
             \/ seTree[a].is = "locked" /\ seSkipped["unreadable"] > 0
             \/ Len(seTree[a].in) >= seOptions.depth /\ "depth" \in seNotes
  <2>1. \E a \in Se!Above(n)' :
             \/ seTree'[a].is = "excluded" /\ "pruned" \in seNotes'
             \/ seTree'[a].is = "locked" /\ seSkipped'["unreadable"] > 0
             \/ Len(seTree'[a].in) >= seOptions'.depth /\ "depth" \in seNotes'
    BY <1>1, <1>5, SearchFrame
  <2> QED BY <2>1 DEF Excused
<1>6. CASE /\ "entries" \in seNotes
           /\ \E d \in {<< >>} \cup {Append(seTree[a].in, a) : a \in Se!Above(n)} :
                Cardinality(Se!Entries(d)) > seOptions.entries
  <2>1. /\ "entries" \in seNotes'
        /\ \E d \in {<< >>} \cup {Append(seTree'[a].in, a) : a \in Se!Above(n)'} :
             Cardinality(Se!Entries(d)') > seOptions'.entries
    BY <1>6, SearchFrame
  <2> QED BY <2>1 DEF Excused
<1> QED BY <1>2, <1>3, <1>4, <1>5, <1>6 DEF Excused

\* A step that stops the walk, or that goes on behind Here and leaves no match at
\* Here or below it without an excuse.
LEMMA WalkKeeps ==
  ASSUME SearchInv, UNCHANGED <<seTree, seOptions, seMode>>,
         seHits \subseteq seHits', seNotes \subseteq seNotes',
         \A n \in DOMAIN seTree : seOmitted[n] > 0 => seOmitted'[n] > 0,
         \A k \in Se!Skips : seSkipped[k] > 0 => seSkipped'[k] > 0,
         \/ seNotes' \cap {"matches", "files", "time"} # {}
         \/ /\ ~seDone' /\ seTodo # << >>
            /\ Se!ToSet(Tail(seTodo)) \subseteq Se!ToSet(seTodo')
            /\ \A w \in Se!Wanted \ seHits' :
                 Se!Here = w[1] \/ Se!Here \in Se!Above(w[1])
                 => Excused(w[1])' \/ Coming(w[1])'
  PROVE  CoverInv'
<1>1. SUFFICES ASSUME NEW w \in Se!Wanted \ seHits'
               PROVE  Excused(w[1])' \/ Coming(w[1])'
  BY SearchFrame DEF CoverInv
<1>2. /\ SearchTypeInv /\ w[1] \in DOMAIN seTree /\ w \notin seHits
      /\ Excused(w[1]) \/ Coming(w[1])
  BY <1>1, WantedAre DEF SearchInv, CoverInv
<1>3. CASE seNotes' \cap {"matches", "files", "time"} # {}
  BY <1>3 DEF Excused
<1>4. CASE Excused(w[1])
  BY <1>2, <1>4, ExcusesStay
<1>5. CASE /\ Coming(w[1]) /\ ~seDone' /\ seTodo # << >>
           /\ Se!ToSet(Tail(seTodo)) \subseteq Se!ToSet(seTodo')
           /\ Se!Here = w[1] \/ Se!Here \in Se!Above(w[1])
                => Excused(w[1])' \/ Coming(w[1])'
  <2>1. PICK m \in Se!ToSet(seTodo) : m = w[1] \/ m \in Se!Above(w[1])
    BY <1>5 DEF Coming
  <2>2. m = Se!Here \/ m \in Se!ToSet(seTodo')
    BY <1>2, <1>5, QueueIs DEF SearchTypeInv, Se!Here
  <2>3. CASE m \in Se!ToSet(seTodo')
    BY <1>5, <2>1, <2>3, SearchFrame DEF Coming
  <2> QED BY <1>5, <2>1, <2>2, <2>3
<1> QED BY <1>1, <1>2, <1>3, <1>4, <1>5

\* One of whose matches are shown, and how many are counted, nothing changes.
LEMMA ShownStays ==
  ASSUME SearchInv, UNCHANGED <<seTree, seOptions, seMode, seHits, seOmitted>>
  PROVE  HitsInv' /\ OmittedInv'
<1>1. HitsInv'
  BY SearchFrame DEF SearchInv, HitsInv
<1>2. OmittedInv'
  BY SearchFrame DEF SearchInv, OmittedInv
<1> QED BY <1>1, <1>2

\* A walk that passes over what is here.
LEMMA PassKeeps ==
  ASSUME SearchInv, UNCHANGED <<seTree, seOptions, seMode>>,
         seHits \subseteq seHits', IsFiniteSet(seHits'), HitsInv', OmittedInv',
         seOmitted' \in [DOMAIN seTree -> Nat], seSkipped' \in [Se!Skips -> Nat],
         seNotes \subseteq seNotes',
         \A n \in DOMAIN seTree : seOmitted[n] > 0 => seOmitted'[n] > 0,
         \A k \in Se!Skips : seSkipped[k] > 0 => seSkipped'[k] > 0,
         ~seDone, seTodo # << >>, Se!Pass,
         \A w \in Se!Wanted \ seHits' :
           Se!Here = w[1] \/ Se!Here \in Se!Above(w[1]) => Excused(w[1])'
  PROVE  SearchInv'
<1>1. /\ SearchTypeInv /\ TodoInv /\ seTodo' = Tail(seTodo) /\ ~seDone'
      /\ seTodo \in Seq(DOMAIN seTree)
  BY DEF SearchInv, SearchTypeInv, Se!Pass
<1>2. /\ seTodo' \in Seq(DOMAIN seTree)
      /\ Se!ToSet(seTodo') \subseteq Se!ToSet(seTodo)
  BY <1>1, QueueIs
<1>3. SearchTypeInv'
  BY <1>1, <1>2, SearchFrame DEF SearchTypeInv
<1>4. TodoInv'
  BY <1>1, <1>2, SearchFrame DEF TodoInv
<1>5. CoverInv'
  BY <1>1, WalkKeeps
<1> QED BY <1>3, <1>4, <1>5 DEF SearchInv

\* A walk that is stopped.
LEMMA StopKeeps ==
  ASSUME SearchInv, UNCHANGED <<seTree, seOptions, seMode, seOmitted, seSkipped>>,
         seHits \subseteq seHits', IsFiniteSet(seHits'), HitsInv', OmittedInv',
         NEW note \in {"matches", "files", "time"}, Se!Stop(note)
  PROVE  SearchInv'
<1>1. /\ SearchTypeInv /\ TodoInv /\ seTodo' = seTodo
      /\ seNotes \subseteq seNotes'
      /\ seNotes' \cap {"matches", "files", "time"} # {}
  BY DEF SearchInv, Se!Stop
<1>2. SearchTypeInv'
  BY <1>1, SearchFrame DEF SearchTypeInv
<1>3. TodoInv'
  BY <1>1, SearchFrame DEF TodoInv
<1>4. CoverInv'
  BY <1>1, WalkKeeps
<1> QED BY <1>2, <1>3, <1>4 DEF SearchInv

\* What is here, and what a match here or below says of it.
LEMMA HereIs ==
  ASSUME SearchInv, NEW kinds, Se!At(kinds)
  PROVE  /\ ~seDone /\ seTodo # << >> /\ Se!Here \in DOMAIN seTree
         /\ seTree[Se!Here].is \in kinds
         /\ \A a \in Se!Above(Se!Here) : seTree[a].is = "dir"
         /\ \A w \in Se!Wanted :
              /\ w[1] \in DOMAIN seTree /\ w = <<w[1], w[2]>>
              /\ Se!Here = w[1] =>
                   seTree[Se!Here].is \in Se!FileKinds /\ seTree[Se!Here].fits
              /\ Se!Here \in Se!Above(w[1]) =>
                   /\ seTree[Se!Here].is \in Se!Directories \ {"runtime"}
                   /\ Se!IsTree(seTree)
<1>1. /\ ~seDone /\ seTodo # << >> /\ seTree[Se!Here].is \in kinds
      /\ SearchTypeInv /\ TodoInv /\ Se!IsTree(seTree) /\ seTodo \in Seq(DOMAIN seTree)
  BY DEF SearchInv, SearchTypeInv, Se!At
<1>2. Se!Here \in DOMAIN seTree /\ Se!Here \in Se!ToSet(seTodo)
  BY <1>1, QueueIs DEF Se!Here
<1>3. \A a \in Se!Above(Se!Here) : seTree[a].is = "dir"
  BY <1>1, <1>2 DEF TodoInv
<1>4. ASSUME NEW w \in Se!Wanted
      PROVE  /\ w[1] \in DOMAIN seTree /\ w = <<w[1], w[2]>>
             /\ Se!Here = w[1] =>
                  seTree[Se!Here].is \in Se!FileKinds /\ seTree[Se!Here].fits
             /\ Se!Here \in Se!Above(w[1]) =>
                  /\ seTree[Se!Here].is \in Se!Directories \ {"runtime"}
                  /\ Se!IsTree(seTree)
  <2>1. /\ w[1] \in DOMAIN seTree /\ w = <<w[1], w[2]>>
        /\ seTree[w[1]].is \in Se!FileKinds /\ seTree[w[1]].fits
        /\ \A a \in Se!Above(w[1]) : seTree[a].is # "runtime"
    BY <1>1, WantedAre
  <2>2. \A a \in Se!Above(w[1]) : seTree[a].is \in Se!Directories
    BY <1>1, <2>1, OnTheWay
  <2> QED BY <1>1, <2>1, <2>2
<1> QED BY <1>1, <1>2, <1>3, <1>4

LEMMA SearchInit ==
  ASSUME Se!Init
  PROVE  SearchInv
<1>1. /\ seTree \in Trees /\ seOptions \in SearchCaps
      /\ seMode \in {"content", "files", "names"}
      /\ seTodo = Se!Listed(<< >>) /\ seHits = {}
      /\ seOmitted = [n \in DOMAIN seTree |-> 0]
      /\ seSkipped = [k \in Se!Skips |-> 0]
      /\ seNotes = {x \in {"entries"} : Se!Over(<< >>)} /\ seDone = FALSE
  BY DEF Se!Init
<1> DEFINE none == << >>
<1>2. /\ Se!IsTree(seTree)
      /\ seOptions \in [hits : Nat, perFile : Nat, files : Nat, entries : Nat, depth : Nat]
  BY <1>1, SearchAssumption
<1>3. seOptions.entries \in Nat
  BY <1>2
<1>4. /\ Se!Listed(none) \in Seq(DOMAIN seTree)
      /\ Se!ToSet(Se!Listed(none)) \subseteq Se!Entries(none)
      /\ \/ Se!ToSet(Se!Listed(none)) = Se!Entries(none)
         \/ Se!Over(none) /\ Cardinality(Se!Entries(none)) > seOptions.entries
  BY <1>2, <1>3, ListedOrOver
<1>5. SearchTypeInv
  BY <1>1, <1>2, <1>4, FS_EmptySet DEF SearchTypeInv
<1>6. TodoInv
  <2>1. \A m \in Se!ToSet(seTodo) : seTree[m].in = none
    BY <1>1, <1>4 DEF Se!Entries
  <2>2. \A m \in Se!ToSet(seTodo) : Se!Above(m) = {}
    BY <2>1 DEF Se!Above, Se!ToSet
  <2> QED BY <2>2 DEF TodoInv
<1>7. HitsInv /\ OmittedInv
  BY <1>1 DEF HitsInv, OmittedInv
<1>8. ASSUME NEW w \in Se!Wanted PROVE Excused(w[1]) \/ Coming(w[1])
  <2>1. w[1] \in DOMAIN seTree
    BY <1>5, WantedAre
  <2>2. PICK c \in Se!Entries(none) : c = w[1] \/ c \in Se!Above(w[1])
    BY <1>2, <2>1, OnTheWay
  <2>3. CASE Se!ToSet(seTodo) = Se!Entries(none)
    BY <1>1, <2>2, <2>3 DEF Coming
  <2>4. CASE Se!Over(none) /\ Cardinality(Se!Entries(none)) > seOptions.entries
    BY <1>1, <2>4 DEF Excused
  <2> QED BY <1>1, <1>4, <2>3, <2>4
<1> QED BY <1>5, <1>6, <1>7, <1>8 DEF SearchInv, CoverInv

\* One more of a kind is passed over.
LEMMA SkipCounts ==
  ASSUME SearchTypeInv, NEW kind \in Se!Skips, Se!Skip(kind)
  PROVE  /\ seSkipped' \in [Se!Skips -> Nat] /\ seSkipped'[kind] > 0
         /\ \A k \in Se!Skips : seSkipped[k] > 0 => seSkipped'[k] > 0
<1>1. seSkipped \in [Se!Skips -> Nat] /\ seSkipped' = [seSkipped EXCEPT ![kind] = @ + 1]
  BY DEF SearchTypeInv, Se!Skip
<1> QED BY <1>1

LEMMA PassOverKeeps ==
  ASSUME SearchInv, Se!PassOver
  PROVE  SearchInv'
<1>1. /\ Se!At({"link", "special"}) /\ Se!Pass
      /\ UNCHANGED <<seTree, seOptions, seMode, seHits, seOmitted, seNotes>>
      /\ IF seTree[Se!Here].fits THEN Se!Skip(seTree[Se!Here].is) ELSE UNCHANGED seSkipped
      /\ SearchTypeInv
  BY DEF Se!PassOver, Se!input, Se!found, SearchInv
<1>2. /\ seTree[Se!Here].is \in Se!Skips
      /\ seTree[Se!Here].is \notin Se!FileKinds \cup Se!Directories
  BY <1>1, HereIs DEF Se!Skips, Se!FileKinds, Se!Directories
<1>3. /\ seSkipped' \in [Se!Skips -> Nat]
      /\ \A k \in Se!Skips : seSkipped[k] > 0 => seSkipped'[k] > 0
  <2>1. CASE Se!Skip(seTree[Se!Here].is)
    BY <1>1, <1>2, <2>1, SkipCounts
  <2>2. CASE UNCHANGED seSkipped
    BY <1>1, <2>2 DEF SearchTypeInv
  <2> QED BY <1>1, <2>1, <2>2
<1>4. \A w \in Se!Wanted : ~(Se!Here = w[1] \/ Se!Here \in Se!Above(w[1]))
  BY <1>1, <1>2, HereIs
<1>5. /\ HitsInv' /\ OmittedInv' /\ IsFiniteSet(seHits') /\ ~seDone /\ seTodo # << >>
      /\ seOmitted' \in [DOMAIN seTree -> Nat]
  BY <1>1, ShownStays, HereIs DEF SearchTypeInv
<1> QED BY <1>1, <1>3, <1>4, <1>5, PassKeeps

\* What the step over a directory or an unsuitable file changes besides its note.
LEMMA NoteKeeps ==
  ASSUME SearchInv, NEW kinds, Se!At(kinds), Se!Pass, seNotes \subseteq seNotes',
         UNCHANGED <<seTree, seOptions, seMode, seHits, seOmitted>>,
         seSkipped' \in [Se!Skips -> Nat],
         \A k \in Se!Skips : seSkipped[k] > 0 => seSkipped'[k] > 0,
         \A w \in Se!Wanted \ seHits :
           Se!Here = w[1] \/ Se!Here \in Se!Above(w[1]) => Excused(w[1])'
  PROVE  SearchInv'
<1>1. /\ HitsInv' /\ OmittedInv' /\ IsFiniteSet(seHits') /\ ~seDone /\ seTodo # << >>
      /\ seOmitted' \in [DOMAIN seTree -> Nat]
  BY ShownStays, HereIs DEF SearchInv, SearchTypeInv
<1> QED BY <1>1, PassKeeps

LEMMA PruneKeeps ==
  ASSUME SearchInv, Se!Prune
  PROVE  SearchInv'
<1>1. /\ Se!At({"excluded", "runtime"}) /\ Se!Pass
      /\ seNotes' = seNotes \cup {x \in {"pruned"} : seTree[Se!Here].is = "excluded"}
      /\ UNCHANGED <<seTree, seOptions, seMode, seHits, seOmitted, seSkipped>>
  BY DEF Se!Prune, Se!input, Se!found
<1>2. seTree[Se!Here].is \in {"excluded", "runtime"}
  BY <1>1, HereIs
<1>3. ASSUME NEW w \in Se!Wanted \ seHits, Se!Here = w[1] \/ Se!Here \in Se!Above(w[1])
      PROVE  Excused(w[1])'
  <2>1. Se!Here # w[1]
    BY <1>1, <1>2, HereIs DEF Se!FileKinds
  <2>2. Se!Here \in Se!Above(w[1]) /\ seTree[Se!Here].is = "excluded"
    BY <1>1, <1>2, <1>3, <2>1, HereIs
  <2>3. Se!Here \in Se!Above(w[1])' /\ seTree'[Se!Here].is = "excluded" /\ "pruned" \in seNotes'
    BY <1>1, <2>2, SearchFrame
  <2> QED BY <2>3 DEF Excused
<1> QED BY <1>1, <1>3, NoteKeeps DEF SearchInv, SearchTypeInv

LEMMA StopDescendingKeeps ==
  ASSUME SearchInv, Se!StopDescending
  PROVE  SearchInv'
<1>1. /\ Se!At({"dir", "locked"}) /\ Se!Pass /\ seNotes' = seNotes \cup {"depth"}
      /\ Len(seTree[Se!Here].in) >= seOptions.depth
      /\ UNCHANGED <<seTree, seOptions, seMode, seHits, seOmitted, seSkipped>>
  BY DEF Se!StopDescending, Se!TooDeep, Se!input, Se!found
<1>2. ASSUME NEW w \in Se!Wanted \ seHits, Se!Here = w[1] \/ Se!Here \in Se!Above(w[1])
      PROVE  Excused(w[1])'
  <2>1. Se!Here # w[1]
    BY <1>1, HereIs DEF Se!FileKinds
  <2>2. /\ Se!Here \in Se!Above(w[1])' /\ Len(seTree'[Se!Here].in) >= seOptions'.depth
        /\ "depth" \in seNotes'
    BY <1>1, <1>2, <2>1, SearchFrame
  <2> QED BY <2>2 DEF Excused
<1> QED BY <1>1, <1>2, NoteKeeps DEF SearchInv, SearchTypeInv

LEMMA CannotDescendKeeps ==
  ASSUME SearchInv, Se!CannotDescend
  PROVE  SearchInv'
<1>1. /\ Se!At({"locked"}) /\ Se!Pass /\ Se!Skip("unreadable")
      /\ UNCHANGED <<seTree, seOptions, seMode, seHits, seOmitted, seNotes>>
  BY DEF Se!CannotDescend, Se!input, Se!found
<1>2. "unreadable" \in Se!Skips /\ seTree[Se!Here].is = "locked"
  BY <1>1, HereIs DEF Se!Skips
<1>3. /\ seSkipped' \in [Se!Skips -> Nat] /\ seSkipped'["unreadable"] > 0
      /\ \A k \in Se!Skips : seSkipped[k] > 0 => seSkipped'[k] > 0
  BY <1>1, <1>2, SkipCounts DEF SearchInv
<1>4. ASSUME NEW w \in Se!Wanted \ seHits, Se!Here = w[1] \/ Se!Here \in Se!Above(w[1])
      PROVE  Excused(w[1])'
  <2>1. Se!Here # w[1]
    BY <1>1, HereIs DEF Se!FileKinds
  <2>2. /\ Se!Here \in Se!Above(w[1])' /\ seTree'[Se!Here].is = "locked"
    BY <1>1, <1>2, <1>4, <2>1, SearchFrame
  <2> QED BY <1>3, <2>2 DEF Excused
<1> QED BY <1>1, <1>3, <1>4, NoteKeeps

\* The way to a match below Here goes on with what is listed, or the listing was cut.
LEMMA DescendKeeps ==
  ASSUME SearchInv, Se!Descend
  PROVE  SearchInv'
<1> DEFINE in == Append(seTree[Se!Here].in, Se!Here)
           listed == Se!Listed(in)
<1>1. /\ Se!At({"dir"}) /\ seTodo' = listed \o Tail(seTodo) /\ UNCHANGED seDone
      /\ seNotes' = seNotes \cup {x \in {"entries"} : Se!Over(in)}
      /\ UNCHANGED <<seTree, seOptions, seMode, seHits, seOmitted, seSkipped>>
  BY DEF Se!Descend, Se!input, Se!found
<1>2. /\ SearchTypeInv /\ TodoInv /\ Se!IsTree(seTree) /\ seOptions.entries \in Nat
      /\ seTodo \in Seq(DOMAIN seTree) /\ seTree[Se!Here].is = "dir"
      /\ ~seDone /\ seTodo # << >> /\ Se!Here \in DOMAIN seTree
      /\ \A a \in Se!Above(Se!Here) : seTree[a].is = "dir"
  BY <1>1, HereIs DEF SearchInv, SearchTypeInv
<1>3. /\ listed \in Seq(DOMAIN seTree)
      /\ Se!ToSet(listed) \subseteq Se!Entries(in)
      /\ \/ Se!ToSet(listed) = Se!Entries(in)
         \/ Se!Over(in) /\ Cardinality(Se!Entries(in)) > seOptions.entries
  BY <1>2, ListedOrOver
<1>4. seTree[Se!Here].in \in Seq(DOMAIN seTree)
  BY <1>2, TreeIs
<1>5. Se!ToSet(in) = Se!Above(Se!Here) \cup {Se!Here}
  BY <1>2, <1>4, QueueIs DEF Se!Above
<1>6. \A m \in Se!Entries(in) : Se!Above(m) = Se!Above(Se!Here) \cup {Se!Here}
  BY <1>5 DEF Se!Entries, Se!Above
<1> HIDE DEF listed
<1>7. Tail(seTodo) \in Seq(DOMAIN seTree) /\ Se!ToSet(Tail(seTodo)) \subseteq Se!ToSet(seTodo)
  BY <1>2, QueueIs
<1>8. /\ seTodo' \in Seq(DOMAIN seTree)
      /\ Se!ToSet(seTodo') = Se!ToSet(listed) \cup Se!ToSet(Tail(seTodo))
  <2>1. \A q \in Seq(DOMAIN seTree) : \A p \in Seq(DOMAIN seTree) :
          /\ p \o q \in Seq(DOMAIN seTree)
          /\ Se!ToSet(p \o q) = Se!ToSet(p) \cup Se!ToSet(q)
    BY QueueIs
  <2>2. /\ listed \o Tail(seTodo) \in Seq(DOMAIN seTree)
        /\ Se!ToSet(listed \o Tail(seTodo)) = Se!ToSet(listed) \cup Se!ToSet(Tail(seTodo))
    BY <1>3, <1>7, <2>1
  <2> QED BY <1>1, <2>2
<1>9. SearchTypeInv'
  BY <1>1, <1>2, <1>8, SearchFrame DEF SearchTypeInv
<1>10. TodoInv'
  <2>1. ASSUME NEW m \in Se!ToSet(seTodo'), NEW a \in Se!Above(m) PROVE seTree[a].is = "dir"
    BY <1>2, <1>3, <1>6, <1>7, <1>8, <2>1 DEF TodoInv
  <2> QED BY <1>1, <2>1, SearchFrame DEF TodoInv
<1>11. ASSUME NEW w \in Se!Wanted \ seHits', Se!Here = w[1] \/ Se!Here \in Se!Above(w[1])
       PROVE  Excused(w[1])' \/ Coming(w[1])'
  <2>1. Se!Here # w[1] /\ w[1] \in DOMAIN seTree
    BY <1>1, <1>2, HereIs DEF Se!FileKinds
  <2>2. Se!Here \in Se!Above(w[1])
    BY <1>11, <2>1
  <2>3. PICK c \in Se!Entries(in) : c = w[1] \/ c \in Se!Above(w[1])
    BY <1>2, <2>1, <2>2, OnTheWay
  <2>4. CASE Se!ToSet(listed) = Se!Entries(in)
    BY <1>1, <1>2, <1>8, <2>3, <2>4, SearchFrame DEF Coming
  <2>5. CASE Se!Over(in) /\ Cardinality(Se!Entries(in)) > seOptions.entries
    <3>1. PICK d \in {Append(seTree[a].in, a) : a \in Se!Above(w[1])} :
                 Cardinality(Se!Entries(d)) > seOptions.entries
      BY <2>2, <2>5
    <3>2. d \in {Append(seTree'[a].in, a) : a \in Se!Above(w[1])'}
      BY <1>1, SearchFrame
    <3>3. Cardinality(Se!Entries(d)') > seOptions'.entries
      BY <1>1, <3>1, SearchFrame
    <3>4. "entries" \in seNotes'
      BY <1>1, <2>5
    <3> QED BY <3>2, <3>3, <3>4 DEF Excused
  <2> QED BY <1>3, <2>4, <2>5
<1>12. CoverInv'
  BY <1>1, <1>2, <1>8, <1>11, WalkKeeps
<1> QED BY <1>1, <1>9, <1>10, <1>12, ShownStays DEF SearchInv

LEMMA PassByFileKeeps ==
  ASSUME SearchInv, Se!PassByFile
  PROVE  SearchInv'
<1>1. /\ Se!At(Se!FileKinds) /\ ~seTree[Se!Here].fits /\ Se!Pass
      /\ UNCHANGED <<seTree, seOptions, seMode, seHits, seOmitted, seSkipped, seNotes>>
  BY DEF Se!PassByFile, Se!input, Se!found
<1>2. ASSUME NEW w \in Se!Wanted PROVE ~(Se!Here = w[1] \/ Se!Here \in Se!Above(w[1]))
  BY <1>1, HereIs DEF Se!FileKinds, Se!Directories
<1> QED BY <1>1, <1>2, NoteKeeps DEF SearchInv, SearchTypeInv

LEMMA ReadFailsKeeps ==
  ASSUME SearchInv, Se!ReadFails
  PROVE  SearchInv'
<1> DEFINE kind == seTree[Se!Here].is
<1>1. /\ Se!At(Se!FileKinds \ {"text"}) /\ Se!Pass /\ Se!Skip(kind)
      /\ UNCHANGED <<seTree, seOptions, seMode, seHits, seOmitted, seNotes>>
  BY DEF Se!ReadFails, Se!AtFile, Se!input, Se!found
<1>2. kind \in Se!Skips /\ kind \in Se!FileKinds
  BY <1>1, HereIs DEF Se!Skips, Se!FileKinds
<1>3. /\ seSkipped' \in [Se!Skips -> Nat] /\ seSkipped'[kind] > 0
      /\ \A k \in Se!Skips : seSkipped[k] > 0 => seSkipped'[k] > 0
  BY <1>1, <1>2, SkipCounts DEF SearchInv
<1>4. ASSUME NEW w \in Se!Wanted \ seHits, Se!Here = w[1] \/ Se!Here \in Se!Above(w[1])
      PROVE  Excused(w[1])'
  <2>1. Se!Here = w[1]
    BY <1>1, <1>2, <1>4, HereIs DEF Se!FileKinds, Se!Directories
  <2>2. seTree'[w[1]].is \in Se!Skips /\ seSkipped'[seTree'[w[1]].is] > 0
    BY <1>1, <1>2, <1>3, <2>1
  <2> QED BY <2>2 DEF Excused
<1> QED BY <1>1, <1>3, <1>4, NoteKeeps

LEMMA TooManyFilesKeeps ==
  ASSUME SearchInv, Se!TooManyFiles \/ Se!TimeOut
  PROVE  SearchInv'
<1>1. /\ Se!Stop("files") \/ Se!Stop("time")
      /\ UNCHANGED <<seTree, seOptions, seMode, seHits, seOmitted, seSkipped>>
  BY DEF Se!TooManyFiles, Se!TimeOut, Se!input, Se!found
<1>2. HitsInv' /\ OmittedInv' /\ IsFiniteSet(seHits')
  BY <1>1, ShownStays DEF SearchInv, SearchTypeInv
<1> QED BY <1>1, <1>2, StopKeeps

LEMMA FinishKeeps ==
  ASSUME SearchInv, Se!Finish
  PROVE  SearchInv'
<1>1. /\ seTodo = << >> /\ seDone' = TRUE
      /\ UNCHANGED <<seTree, seOptions, seMode, seTodo, seHits, seOmitted, seSkipped, seNotes>>
  BY DEF Se!Finish, Se!input, Se!found
<1>2. SearchTypeInv'
  BY <1>1, SearchFrame DEF SearchInv, SearchTypeInv
<1>3. TodoInv'
  BY <1>1, SearchFrame DEF SearchInv, TodoInv
<1>4. CoverInv'
  <2>1. \A n : ~Coming(n)
    BY <1>1 DEF Coming, Se!ToSet
  <2>2. \A w \in Se!Wanted \ seHits : Excused(w[1]) /\ w[1] \in DOMAIN seTree
    BY <2>1, WantedAre DEF SearchInv, CoverInv
  <2>3. \A w \in Se!Wanted \ seHits : Excused(w[1])'
    BY <1>1, <2>2, ExcusesStay
  <2> QED BY <1>1, <2>3, SearchFrame DEF CoverInv
<1> QED BY <1>1, <1>2, <1>3, <1>4, ShownStays DEF SearchInv

\* What is a match at a file that was reached.
LEMMA WantedHere ==
  ASSUME SearchInv, NEW kinds \in SUBSET Se!FileKinds, Se!AtFile(kinds)
  PROVE  /\ seMode = "names" => <<Se!Here, 0>> \in Se!Wanted
         /\ seMode = "files" /\ seTree[Se!Here].lines # {} => <<Se!Here, 0>> \in Se!Wanted
         /\ seMode = "content" => {Se!Here} \X seTree[Se!Here].lines \subseteq Se!Wanted
         /\ \A w \in Se!Wanted : Se!Here = w[1] \/ Se!Here \in Se!Above(w[1]) =>
              /\ w = <<Se!Here, w[2]>>
              /\ seMode = "names" => w[2] = 0
              /\ seMode = "files" => w[2] = 0 /\ seTree[Se!Here].lines # {}
              /\ seMode = "content" => w[2] \in seTree[Se!Here].lines
<1> DEFINE files == {n \in DOMAIN seTree :
                       /\ seTree[n].is \in Se!FileKinds /\ seTree[n].fits
                       /\ \A a \in Se!Above(n) : seTree[a].is # "runtime"}
<1>1. Se!At(kinds) /\ seTree[Se!Here].fits
  BY DEF Se!AtFile
<1>2. Se!Here \in files /\ seTree[Se!Here].is \in Se!FileKinds
  BY <1>1, HereIs
<1>3. seMode = "names" => Se!Wanted = files \X {0}
  BY DEF Se!Wanted
<1>4. seMode = "files" => Se!Wanted = {n \in files : seTree[n].lines # {}} \X {0}
  BY DEF Se!Wanted
<1>5. seMode = "content" => Se!Wanted = UNION {{n} \X seTree[n].lines : n \in files}
  BY DEF Se!Wanted
<1> HIDE DEF files
<1>6. ASSUME NEW w \in Se!Wanted, Se!Here = w[1] \/ Se!Here \in Se!Above(w[1])
      PROVE  /\ w = <<Se!Here, w[2]>>
             /\ seMode = "names" => w[2] = 0
             /\ seMode = "files" => w[2] = 0 /\ seTree[Se!Here].lines # {}
             /\ seMode = "content" => w[2] \in seTree[Se!Here].lines
  <2>1. Se!Here = w[1] /\ w = <<w[1], w[2]>>
    BY <1>1, <1>2, <1>6, HereIs DEF Se!FileKinds, Se!Directories
  <2>2. /\ seMode = "files" => seTree[w[1]].lines # {}
        /\ seMode = "content" => w[2] \in seTree[w[1]].lines
    BY WantedAre DEF SearchInv
  <2>3. seMode = "names" \/ seMode = "files" => w[2] = 0
    BY <1>3, <1>4
  <2> QED BY <2>1, <2>2, <2>3
<1>7. seMode = "names" => <<Se!Here, 0>> \in Se!Wanted
  BY <1>2, <1>3
<1>8. seMode = "files" /\ seTree[Se!Here].lines # {} => <<Se!Here, 0>> \in Se!Wanted
  BY <1>2, <1>4
<1>9. seMode = "content" => {Se!Here} \X seTree[Se!Here].lines \subseteq Se!Wanted
  BY <1>2, <1>5
<1> QED BY <1>6, <1>7, <1>8, <1>9

\* Where nothing more is counted, more may be shown.
LEMMA OmittedStays ==
  ASSUME SearchInv, UNCHANGED <<seTree, seOptions, seMode, seOmitted>>,
         seHits \subseteq seHits'
  PROVE  OmittedInv'
BY SearchFrame DEF SearchInv, OmittedInv

LEMMA AddFileKeeps ==
  ASSUME SearchInv, NEW kinds \in SUBSET Se!FileKinds, Se!AtFile(kinds), Se!AddFile,
         seMode # "content", <<Se!Here, 0>> \in Se!Wanted,
         UNCHANGED <<seTree, seOptions, seMode, seOmitted, seSkipped>>
  PROVE  SearchInv'
<1>1. /\ SearchTypeInv /\ HitsInv /\ Se!At(kinds)
      /\ seMode \in {"content", "files", "names"}
      /\ seOmitted' \in [DOMAIN seTree -> Nat] /\ seSkipped' \in [Se!Skips -> Nat]
  BY DEF SearchInv, SearchTypeInv, Se!AtFile
<1>2. CASE Se!Stop("matches") /\ UNCHANGED seHits
  <2>1. HitsInv' /\ OmittedInv' /\ IsFiniteSet(seHits')
    BY <1>1, <1>2, ShownStays DEF SearchTypeInv
  <2> QED BY <1>2, <2>1, StopKeeps
<1>3. CASE Se!Pass /\ seHits' = seHits \cup {<<Se!Here, 0>>} /\ UNCHANGED seNotes
  <2>1. HitsInv'
    BY <1>1, <1>3, SearchFrame DEF HitsInv
  <2>2. OmittedInv'
    BY <1>3, OmittedStays
  <2>3. IsFiniteSet(seHits')
    BY <1>1, <1>3, FS_AddElement DEF SearchTypeInv
  <2>4. \A w \in Se!Wanted : Se!Here = w[1] \/ Se!Here \in Se!Above(w[1]) => w \in seHits'
    BY <1>1, <1>3, WantedHere
  <2>5. ~seDone /\ seTodo # << >>
    BY <1>1, HereIs
  <2> QED BY <1>1, <1>3, <2>1, <2>2, <2>3, <2>4, <2>5, PassKeeps
<1> QED BY <1>2, <1>3 DEF Se!AddFile

LEMMA FindNameKeeps ==
  ASSUME SearchInv, Se!FindName
  PROVE  SearchInv'
<1>1. /\ seMode = "names" /\ Se!AtFile(Se!FileKinds) /\ Se!AddFile
      /\ UNCHANGED <<seTree, seOptions, seMode, seOmitted, seSkipped>>
  BY DEF Se!FindName, Se!input
<1>2. <<Se!Here, 0>> \in Se!Wanted
  BY <1>1, WantedHere
<1> QED BY <1>1, <1>2, AddFileKeeps

LEMMA FindFileKeeps ==
  ASSUME SearchInv, Se!FindFile
  PROVE  SearchInv'
<1>1. /\ seMode = "files" /\ Se!AtFile({"text"}) /\ Se!At({"text"})
      /\ UNCHANGED <<seTree, seOptions, seMode, seOmitted, seSkipped>>
      /\ IF seTree[Se!Here].lines # {} THEN Se!AddFile
         ELSE Se!Pass /\ UNCHANGED <<seHits, seNotes>>
  BY DEF Se!FindFile, Se!AtFile, Se!input
<1>2. {"text"} \in SUBSET Se!FileKinds
  BY DEF Se!FileKinds
<1>3. CASE seTree[Se!Here].lines # {}
  <2>1. <<Se!Here, 0>> \in Se!Wanted
    BY <1>1, <1>2, <1>3, WantedHere
  <2> QED BY <1>1, <1>2, <1>3, <2>1, AddFileKeeps
<1>4. CASE seTree[Se!Here].lines = {}
  <2>1. \A w \in Se!Wanted : ~(Se!Here = w[1] \/ Se!Here \in Se!Above(w[1]))
    BY <1>1, <1>2, <1>4, WantedHere
  <2>2. seSkipped' \in [Se!Skips -> Nat]
    BY <1>1 DEF SearchInv, SearchTypeInv
  <2> QED BY <1>1, <1>4, <2>1, <2>2, NoteKeeps
<1> QED BY <1>3, <1>4

\* A file's first matches are taken, as many as may be shown of it or fewer.
LEMMA TakeKeeps ==
  ASSUME SearchInv, seMode = "content", Se!AtFile({"text"}),
         NEW k \in Int, k <= seOptions.perFile, Se!Take(k),
         UNCHANGED <<seTree, seOptions, seMode>>
  PROVE  HitsInv' /\ IsFiniteSet(seHits') /\ seHits \subseteq seHits'
<1> DEFINE K == seTree[Se!Here].lines
           taken == {Se!Here} \X Se!Lowest(K, k)
<1>1. /\ SearchTypeInv /\ HitsInv /\ Se!At({"text"}) /\ Se!IsTree(seTree)
      /\ seOptions.perFile \in Nat /\ seHits' = seHits \cup taken
      /\ IsFiniteSet(seHits)
  BY DEF SearchInv, SearchTypeInv, Se!AtFile, Se!Take
<1>2. {"text"} \in SUBSET Se!FileKinds
  BY DEF Se!FileKinds
<1>3. Se!Here \in DOMAIN seTree
  BY <1>1, HereIs
<1>4. K \in SUBSET Nat /\ IsFiniteSet(K)
  BY <1>1, <1>3, TreeIs
<1>5. {Se!Here} \X K \subseteq Se!Wanted
  BY <1>2, WantedHere
<1> HIDE DEF K
<1>6. /\ Se!Lowest(K, k) \subseteq Se!Lowest(K, seOptions.perFile)
      /\ Se!Lowest(K, seOptions.perFile) \subseteq K
  BY <1>1, <1>4, LowestAre
<1>7. taken \subseteq Se!Wanted
  BY <1>5, <1>6
<1>8. \A h \in taken : h[1] = Se!Here /\ h[2] \in Se!Lowest(K, seOptions.perFile)
  BY <1>6
<1>9. IsFiniteSet(taken)
  <2>1. IsFiniteSet(Se!Lowest(K, k))
    BY <1>4, <1>6, FS_Subset
  <2> QED BY <2>1, FS_Singleton, FS_Product
<1> HIDE DEF taken
<1>10. IsFiniteSet(seHits')
  BY <1>1, <1>9, FS_Union
<1>11. seHits' \subseteq Se!Wanted
  BY <1>1, <1>7 DEF HitsInv
<1>12. \A h \in seHits' : h[2] \in Se!Lowest(seTree[h[1]].lines, seOptions.perFile)
  BY <1>1, <1>8 DEF HitsInv, K
<1>13. HitsInv'
  BY <1>11, <1>12, SearchFrame DEF HitsInv
<1> QED BY <1>1, <1>10, <1>13

LEMMA FindLinesKeeps ==
  ASSUME SearchInv, Se!FindLines
  PROVE  SearchInv'
<1> DEFINE K == seTree[Se!Here].lines
           n == Cardinality(K)
           most == seOptions.perFile
<1>1. /\ seMode = "content" /\ Se!AtFile({"text"}) /\ Se!At({"text"})
      /\ UNCHANGED <<seTree, seOptions, seMode, seSkipped>>
  BY DEF Se!FindLines, Se!AtFile, Se!input
<1>2. \/ /\ n <= Se!Room /\ n <= most
         /\ Se!Take(n) /\ Se!Pass /\ UNCHANGED <<seOmitted, seNotes>>
      \/ /\ n > most /\ most <= Se!Room
         /\ Se!Take(most) /\ Se!Pass /\ UNCHANGED seNotes
         /\ seOmitted' = [seOmitted EXCEPT ![Se!Here] = n - most]
      \/ /\ ~(n <= Se!Room /\ n <= most) /\ ~(n > most /\ most <= Se!Room)
         /\ Se!Take(Se!Room) /\ Se!Stop("matches") /\ UNCHANGED seOmitted
  BY SameInSearch DEF Se!FindLines, Se!LeftOver
<1>3. /\ SearchTypeInv /\ HitsInv /\ OmittedInv /\ Se!IsTree(seTree)
      /\ seSkipped' \in [Se!Skips -> Nat] /\ seOmitted \in [DOMAIN seTree -> Nat]
      /\ seOptions.hits \in Nat /\ most \in Nat /\ IsFiniteSet(seHits)
  BY <1>1 DEF SearchInv, SearchTypeInv
<1>4. {"text"} \in SUBSET Se!FileKinds
  BY DEF Se!FileKinds
<1>5. ~seDone /\ seTodo # << >> /\ Se!Here \in DOMAIN seTree
  BY <1>1, HereIs
<1>6. K \in SUBSET Nat /\ IsFiniteSet(K) /\ n \in Nat
  BY <1>3, <1>5, TreeIs, FS_CardinalityType
<1>7. /\ {Se!Here} \X K \subseteq Se!Wanted
      /\ \A w \in Se!Wanted : Se!Here = w[1] \/ Se!Here \in Se!Above(w[1])
           => w \in {Se!Here} \X K /\ w[1] = Se!Here
  BY <1>1, <1>4, WantedHere
<1>8. Se!Room \in Int
  BY <1>3, FS_CardinalityType, SameInSearch DEF Se!Room
<1>9. CASE /\ n <= Se!Room /\ n <= most
           /\ Se!Take(n) /\ Se!Pass /\ UNCHANGED <<seOmitted, seNotes>>
  <2>1. HitsInv' /\ IsFiniteSet(seHits') /\ seHits \subseteq seHits'
    BY <1>1, <1>6, <1>9, TakeKeeps
  <2>2. OmittedInv'
    BY <1>1, <1>9, <2>1, OmittedStays
  <2>3. Se!Lowest(K, n) = K
    BY <1>6, LowestAre
  <2>4. {Se!Here} \X K \subseteq seHits'
    BY <1>9, <2>3 DEF Se!Take
  <2>5. \A w \in Se!Wanted \ seHits' : ~(Se!Here = w[1] \/ Se!Here \in Se!Above(w[1]))
    BY <1>7, <2>4
  <2> QED BY <1>1, <1>3, <1>5, <1>9, <2>1, <2>2, <2>5, PassKeeps
<1>10. CASE /\ n > most /\ most <= Se!Room
            /\ Se!Take(most) /\ Se!Pass /\ UNCHANGED seNotes
            /\ seOmitted' = [seOmitted EXCEPT ![Se!Here] = n - most]
  <2>1. HitsInv' /\ IsFiniteSet(seHits') /\ seHits \subseteq seHits'
    BY <1>1, <1>3, <1>10, TakeKeeps
  <2>2. n - most \in Nat /\ n - most > 0
    BY <1>3, <1>6, <1>10
  <2>3. /\ seOmitted' \in [DOMAIN seTree -> Nat]
        /\ seOmitted'[Se!Here] = n - most
        /\ \A m \in DOMAIN seTree : m # Se!Here => seOmitted'[m] = seOmitted[m]
    BY <1>3, <1>5, <1>10, <2>2
  <2>4. \A m \in DOMAIN seTree : seOmitted[m] > 0 => seOmitted'[m] > 0
    BY <2>2, <2>3
  <2>5. {Se!Here} \X Se!Lowest(K, most) \subseteq seHits'
    BY <1>10 DEF Se!Take
  <2>6. OmittedInv'
    <3>1. ASSUME NEW m \in DOMAIN seTree, seOmitted'[m] > 0
          PROVE  /\ {m} \X seTree[m].lines \subseteq Se!Wanted
                 /\ Cardinality(seTree[m].lines) > most
                 /\ seOmitted'[m] = Cardinality(seTree[m].lines) - most
                 /\ {m} \X Se!Lowest(seTree[m].lines, most) \subseteq seHits'
      <4>1. CASE m = Se!Here
        BY <1>7, <1>10, <2>3, <2>5, <4>1
      <4>2. CASE m # Se!Here
        BY <1>3, <2>1, <2>3, <3>1, <4>2 DEF OmittedInv
      <4> QED BY <4>1, <4>2
    <3> QED BY <1>1, <3>1, SearchFrame DEF OmittedInv
  <2>7. \A w \in Se!Wanted \ seHits' :
          Se!Here = w[1] \/ Se!Here \in Se!Above(w[1]) => Excused(w[1])'
    BY <1>7, <2>2, <2>3 DEF Excused
  <2> HIDE DEF n, most, K
  <2>8. seNotes \subseteq seNotes' /\ \A k \in Se!Skips : seSkipped[k] > 0 => seSkipped'[k] > 0
    BY <1>1, <1>10
  <2> QED BY <1>1, <1>3, <1>5, <1>10, <2>1, <2>3, <2>4, <2>6, <2>7, <2>8, PassKeeps
<1>11. CASE /\ ~(n <= Se!Room /\ n <= most) /\ ~(n > most /\ most <= Se!Room)
            /\ Se!Take(Se!Room) /\ Se!Stop("matches") /\ UNCHANGED seOmitted
  <2>1. Se!Room <= most
    BY <1>3, <1>6, <1>8, <1>11
  <2>2. HitsInv' /\ IsFiniteSet(seHits') /\ seHits \subseteq seHits'
    BY <1>1, <1>8, <1>11, <2>1, TakeKeeps
  <2>3. OmittedInv'
    BY <1>1, <1>11, <2>2, OmittedStays
  <2> QED BY <1>1, <1>11, <2>2, <2>3, StopKeeps
<1> QED BY <1>2, <1>9, <1>10, <1>11

LEMMA TimeOutInFileKeeps ==
  ASSUME SearchInv, Se!TimeOutInFile
  PROVE  SearchInv'
<1>1. /\ seMode # "names" /\ Se!AtFile({"text"}) /\ Se!Stop("time")
      /\ UNCHANGED <<seTree, seOptions, seMode, seOmitted, seSkipped>>
      /\ IF seMode = "files" THEN UNCHANGED seHits
         ELSE \E k \in 0 .. seOptions.perFile : k <= Se!Room /\ Se!Take(k)
  BY DEF Se!TimeOutInFile, Se!input
<1>2. seMode \in {"content", "files", "names"} /\ seOptions.perFile \in Nat
  BY DEF SearchInv, SearchTypeInv
<1>3. CASE UNCHANGED seHits
  <2>1. HitsInv' /\ OmittedInv' /\ IsFiniteSet(seHits')
    BY <1>1, <1>3, ShownStays DEF SearchInv, SearchTypeInv
  <2> QED BY <1>1, <1>3, <2>1, StopKeeps
<1>4. CASE seMode = "content" /\ \E k \in 0 .. seOptions.perFile : Se!Take(k)
  <2>1. PICK k \in 0 .. seOptions.perFile : Se!Take(k)
    BY <1>4
  <2>2. k \in Int /\ k <= seOptions.perFile
    BY <1>2
  <2>3. HitsInv' /\ IsFiniteSet(seHits') /\ seHits \subseteq seHits'
    BY <1>1, <1>4, <2>1, <2>2, TakeKeeps
  <2>4. OmittedInv'
    BY <1>1, <2>3, OmittedStays
  <2> QED BY <1>1, <2>3, <2>4, StopKeeps
<1> QED BY <1>1, <1>2, <1>3, <1>4

LEMMA SearchStep ==
  ASSUME SearchInv, Se!Next
  PROVE  SearchInv'
<1>1. CASE Se!Walk
  BY <1>1, PassOverKeeps, PruneKeeps, StopDescendingKeeps, DescendKeeps, CannotDescendKeeps
     DEF Se!Walk
<1>2. CASE Se!Scan
  BY <1>2, PassByFileKeeps, TooManyFilesKeeps, ReadFailsKeeps, FindNameKeeps, FindFileKeeps,
     FindLinesKeeps, TimeOutInFileKeeps DEF Se!Scan
<1> QED BY <1>1, <1>2, TooManyFilesKeeps, FinishKeeps DEF Se!Next

\* When the walk is over only excuses are left, and the count of what a file has
\* beyond the matches shown is right.
LEMMA FooterHolds ==
  ASSUME SearchInv
  PROVE  Se!FooterIsHonest
<1>1. SearchTypeInv /\ HitsInv /\ OmittedInv /\ CoverInv /\ Se!IsTree(seTree)
      /\ seOptions.perFile \in Nat
  BY DEF SearchInv, SearchTypeInv
<1>2. SUFFICES ASSUME seDone, NEW w \in Se!Wanted \ seHits
               PROVE  Se!Explained(w[1])
  BY <1>1 DEF Se!FooterIsHonest, HitsInv
<1> DEFINE n == w[1]
           K == seTree[n].lines
           low == Se!Lowest(K, seOptions.perFile)
           missing == {v \in Se!Wanted \ seHits : v[1] = n}
<1>3. Excused(n) /\ n \in DOMAIN seTree
  BY <1>1, <1>2, WantedAre DEF CoverInv, Coming
<1>4. K \in SUBSET Nat /\ IsFiniteSet(K)
  BY <1>1, <1>3, TreeIs
<1>5. ASSUME seOmitted[n] > 0 PROVE seOmitted[n] = Se!Cardinality(missing)
  <2>1. /\ seMode = "content" /\ {n} \X K \subseteq Se!Wanted
        /\ Cardinality(K) > seOptions.perFile
        /\ seOmitted[n] = Cardinality(K) - seOptions.perFile
        /\ {n} \X low \subseteq seHits
    BY <1>1, <1>3, <1>5 DEF OmittedInv
  <2>2. \A v \in Se!Wanted : v = <<v[1], v[2]>> /\ v[2] \in seTree[v[1]].lines
    BY <1>1, <2>1, WantedAre
  <2>3. \A v \in seHits : v[1] = n => v[2] \in low
    BY <1>1, <2>1 DEF HitsInv
  <2> HIDE DEF K
  <2>4. IsFiniteSet(low) /\ low \subseteq K /\ Cardinality(low) = seOptions.perFile
    <3>1. Cardinality(K) \in Nat
      BY <1>4, FS_CardinalityType
    <3> QED BY <1>1, <1>4, <2>1, <3>1, LowestAre
  <2> USE DEF K
  <2>5. missing = {n} \X (K \ low)
    <3>1. \A v \in missing : v \in {n} \X (K \ low)
      <4> TAKE v \in missing
      <4>1. v \in Se!Wanted /\ v \notin seHits /\ v[1] = n
        OBVIOUS
      <4>2. v = <<n, v[2]>> /\ v[2] \in K
        BY <2>2, <4>1
      <4>3. v[2] \notin low
        BY <2>1, <4>1, <4>2
      <4> QED BY <4>2, <4>3
    <3>2. \A i \in K \ low : <<n, i>> \in missing
      <4> TAKE i \in K \ low
      <4>1. <<n, i>> \in Se!Wanted
        BY <2>1
      <4>2. <<n, i>> \notin seHits
        BY <2>3
      <4> QED BY <4>1, <4>2
    <3> QED BY <3>1, <3>2
  <2> HIDE DEF K, low, missing, n
  <2>6. Cardinality(K \ low) = Cardinality(K) - seOptions.perFile /\ IsFiniteSet(K \ low)
    <3>1. K \cap low = low
      BY <2>4
    <3> QED BY <1>4, <2>4, <3>1, FS_Difference
  <2>7. Cardinality({n} \X (K \ low)) = Cardinality(K \ low)
    <3>1. IsFiniteSet({n}) /\ Cardinality({n}) = 1
      BY FS_Singleton
    <3>2. Cardinality({n} \X (K \ low)) = Cardinality({n}) * Cardinality(K \ low)
      BY <2>6, <3>1, FS_Product
    <3>3. Cardinality(K \ low) \in Nat
      BY <2>6, FS_CardinalityType
    <3> QED BY <3>1, <3>2, <3>3
  <2> QED BY <2>1, <2>5, <2>6, <2>7, SameInSearch
<1> HIDE DEF n
<1>6. seNotes \cap {"matches", "files", "time"} # {} => Se!Explained(n)
  BY DEF Se!Explained
<1>7. seOmitted[n] > 0 => Se!Explained(n)
  BY <1>5 DEF Se!Explained
<1>8. seTree[n].is \in Se!Skips /\ seSkipped[seTree[n].is] > 0 => Se!Explained(n)
  BY DEF Se!Explained
<1>9. ASSUME \E a \in Se!Above(n) :
               \/ seTree[a].is = "excluded" /\ "pruned" \in seNotes
               \/ seTree[a].is = "locked" /\ seSkipped["unreadable"] > 0
               \/ Len(seTree[a].in) >= seOptions.depth /\ "depth" \in seNotes
      PROVE  Se!Explained(n)
  BY <1>9 DEF Se!Explained
<1>10. ASSUME "entries" \in seNotes,
              \E d \in {<< >>} \cup {Append(seTree[a].in, a) : a \in Se!Above(n)} :
                Cardinality(Se!Entries(d)) > seOptions.entries
       PROVE  Se!Explained(n)
  BY <1>10, SameInSearch DEF Se!Explained
<1> QED BY <1>3, <1>6, <1>7, <1>8, <1>9, <1>10 DEF Excused, n

\* A search that comes back without a match that is there says why
\* (tools/builtin/fs.py, _coverage_footer).
THEOREM FootersStayHonest == MCSpec => []FooterIsHonest
<1>1. MCInit => SearchInv
  BY SearchInit DEF MCInit
<1>2. SearchInv /\ [MCNext]_allVars => SearchInv'
  <2>1. ASSUME SearchInv, UNCHANGED seVars PROVE SearchInv'
    <3>1. UNCHANGED <<seTree, seOptions, seMode, seTodo, seHits, seOmitted, seSkipped, seNotes, seDone>>
      BY <2>1 DEF seVars
    <3>2. SearchTypeInv' /\ TodoInv'
      BY <2>1, <3>1, SearchFrame DEF SearchInv, SearchTypeInv, TodoInv
    <3>3. CoverInv'
      <4>1. ASSUME NEW w \in Se!Wanted \ seHits PROVE Excused(w[1])' \/ Coming(w[1])'
        <5>1. Excused(w[1]) \/ Coming(w[1])
          BY <2>1 DEF SearchInv, CoverInv
        <5>2. w[1] \in DOMAIN seTree
          BY <2>1, WantedAre DEF SearchInv
        <5>3. Coming(w[1]) => Coming(w[1])'
          BY <3>1, SearchFrame DEF Coming
        <5>4. Excused(w[1]) => Excused(w[1])'
          BY <3>1, <5>2, ExcusesStay
        <5> QED BY <5>1, <5>3, <5>4
      <4> QED BY <3>1, <4>1, SearchFrame DEF CoverInv
    <3> QED BY <2>1, <3>1, <3>2, <3>3, ShownStays DEF SearchInv
  <2>2. MCNext => Se!Next \/ UNCHANGED seVars
    BY DEF MCNext
  <2>3. UNCHANGED allVars => UNCHANGED seVars
    BY DEF allVars
  <2> QED BY <2>1, <2>2, <2>3, SearchStep
<1>3. SearchInv => FooterIsHonest
  BY FooterHolds DEF FooterIsHonest
<1> QED BY <1>1, <1>2, <1>3, PTL DEF MCSpec


-----------------------------------------------------------------------------
(* A window of a file that is read in chunks *)

\* What an instance extends is one with what this module extends.
LEMMA SameInPaging ==
  /\ \A S : Pg!Cardinality(S) = Cardinality(S)
  /\ \A K, i : Pg!Place(K, i) = Place(K, i)
  /\ \A K : Pg!InOrder(K) = InOrder(K)
<1>1. \A S : Pg!Cardinality(S) = Cardinality(S)
  BY DEF Pg!Cardinality, Cardinality
<1>2. \A K, i : Pg!Place(K, i) = Place(K, i)
  BY <1>1 DEF Pg!Place, Place
<1>3. \A K : Pg!InOrder(K) = InOrder(K)
  BY <1>1, <1>2 DEF Pg!InOrder, InOrder
<1> QED BY <1>1, <1>2, <1>3

LEMMA LesserOf ==
  ASSUME NEW a \in Int, NEW b \in Int
  PROVE  Pg!Min({a, b}) = IF a <= b THEN a ELSE b
BY DEF Pg!Min

\* How many of a set of numbers come up to any number.
LEMMA CountUpTo ==
  ASSUME NEW K \in SUBSET Nat, IsFiniteSet(K), NEW a \in Nat
  PROVE  /\ Cardinality(K) \in Nat /\ Place(K, a) \in 0 .. Cardinality(K)
         /\ (\A j \in K : j <= a) => Place(K, a) = Cardinality(K)
         /\ (\E j \in K : j > a) => Place(K, a) < Cardinality(K)
         /\ (\A j \in K : j > a) => Place(K, a) = 0
         /\ a \in K => Place(K, a) > 0
<1> DEFINE low == {j \in K : j <= a}
<1>1. Place(K, a) = Cardinality(low) /\ low \subseteq K
  BY DEF Place
<1>2. \A j \in K : j \in low <=> j <= a
  OBVIOUS
<1> HIDE DEF low
<1>3. /\ IsFiniteSet(low) /\ Cardinality(low) \in Nat /\ Cardinality(K) \in Nat
      /\ Cardinality(low) <= Cardinality(K)
      /\ Cardinality(low) = Cardinality(K) => low = K
  BY <1>1, FS_Subset, FS_CardinalityType
<1>4. (\A j \in K : j <= a) => low = K
  BY <1>1, <1>2
<1>5. ASSUME NEW j \in K, j > a PROVE low # K
  BY <1>2, <1>5
<1>6. (\A j \in K : j > a) => low = {}
  <2>1. ASSUME \A j \in K : j > a, NEW j \in low PROVE FALSE
    BY <1>1, <1>2, <2>1
  <2> QED BY <2>1
<1>7. low = {} <=> Cardinality(low) = 0
  BY <1>3, FS_EmptySet
<1>8. a \in K => low # {}
  BY <1>2
<1> DEFINE n == Cardinality(low)
           N == Cardinality(K)
<1>9. n \in Nat /\ N \in Nat /\ n <= N /\ Place(K, a) = n
  BY <1>1, <1>3
<1>10. (\A j \in K : j <= a) => n = N
  BY <1>4
<1>11. (\E j \in K : j > a) => n # N
  BY <1>3, <1>5
<1>12. (\A j \in K : j > a) => n = 0
  BY <1>6, <1>7
<1>13. a \in K => n # 0
  BY <1>7, <1>8
<1> HIDE DEF n, N
<1>14. /\ N \in Nat /\ Place(K, a) \in 0 .. N
       /\ (\A j \in K : j <= a) => Place(K, a) = N
       /\ (\E j \in K : j > a) => Place(K, a) < N
       /\ (\A j \in K : j > a) => Place(K, a) = 0
       /\ a \in K => Place(K, a) > 0
  BY <1>9, <1>10, <1>11, <1>12, <1>13
<1> QED BY <1>14 DEF N

LEMMA NextPlace ==
  ASSUME NEW K \in SUBSET Nat, IsFiniteSet(K), NEW a \in Nat, NEW e \in K, a < e,
         \A j \in K : j <= a \/ e <= j
  PROVE  Place(K, e) = Place(K, a) + 1
<1> DEFINE low == {j \in K : j <= a}
           upto == {j \in K : j <= e}
<1>1. Place(K, a) = Cardinality(low) /\ Place(K, e) = Cardinality(upto) /\ low \subseteq K
  BY DEF Place
<1>2. upto = low \cup {e}
  <2>1. \A j \in K : j \in Nat
    OBVIOUS
  <2>2. \A j \in K : j <= e <=> j <= a \/ j = e
    BY <2>1
  <2> QED BY <2>2
<1>3. e \notin low
  OBVIOUS
<1> HIDE DEF low, upto
<1>4. IsFiniteSet(low)
  BY <1>1, FS_Subset
<1>5. Cardinality(low \cup {e}) = Cardinality(low) + 1
  BY <1>3, <1>4, FS_AddElement
<1> QED BY <1>1, <1>2, <1>5

LEMMA EndsAre ==
  ASSUME pgFile \in Seq({"x", "r", "n"})
  PROVE  /\ Len(pgFile) \in Nat /\ DOMAIN pgFile = 1 .. Len(pgFile)
         /\ Pg!Ends \in SUBSET Nat /\ IsFiniteSet(Pg!Ends)
         /\ \A i \in Pg!Ends : i \in Nat /\ 1 <= i /\ i <= Len(pgFile)
         /\ \A i \in 1 .. Len(pgFile) :
              i \in Pg!Ends <=> \/ i = Len(pgFile) \/ pgFile[i] = "n"
                                \/ pgFile[i] = "r" /\ pgFile[i + 1] # "n"
<1>1. Len(pgFile) \in Nat /\ DOMAIN pgFile = 1 .. Len(pgFile)
  OBVIOUS
<1>2. Pg!Ends \subseteq 1 .. Len(pgFile)
  BY DEF Pg!Ends, Pg!Length
<1>3. IsFiniteSet(1 .. Len(pgFile))
  BY <1>1, FS_Interval
<1>4. IsFiniteSet(Pg!Ends)
  BY <1>2, <1>3, FS_Subset
<1>5. \A i \in 1 .. Len(pgFile) :
        i \in Pg!Ends <=> \/ i = Len(pgFile) \/ pgFile[i] = "n"
                          \/ pgFile[i] = "r" /\ pgFile[i + 1] # "n"
  BY DEF Pg!Ends, Pg!Length
<1> DEFINE K == Pg!Ends
<1> HIDE DEF K
<1>6. K \subseteq 1 .. Len(pgFile)
  BY <1>2 DEF K
<1>7. K \in SUBSET Nat /\ \A i \in K : i \in Nat /\ 1 <= i /\ i <= Len(pgFile)
  BY <1>1, <1>6
<1> QED BY <1>1, <1>4, <1>5, <1>7 DEF K

LEMMA LineEndsAre ==
  ASSUME pgFile \in Seq({"x", "r", "n"})
  PROVE  /\ Len(Pg!LineEnds) = Cardinality(Pg!Ends)
         /\ \A i \in Pg!Ends : Pg!LineEnds[Place(Pg!Ends, i)] = i
<1> DEFINE K == Pg!Ends
           N == Cardinality(K)
           Nth(n) == CHOOSE i \in K : Place(K, i) = n
<1>1. Pg!LineEnds = [n \in 1 .. N |-> Nth(n)]
  BY SameInPaging DEF Pg!LineEnds, InOrder
<1>2. K \in SUBSET Nat /\ IsFiniteSet(K)
  BY EndsAre
<1> HIDE DEF K
<1>3. /\ N \in Nat
      /\ \A i \in K : Place(K, i) \in 1 .. N
      /\ \A i, j \in K : i <= j <=> Place(K, i) <= Place(K, j)
      /\ \A n \in 1 .. N : \E i \in K : Place(K, i) = n
  BY <1>2, PlacesNumber
<1>4. \A n \in 1 .. N : Nth(n) \in K /\ Place(K, Nth(n)) = n
  BY <1>3
<1> HIDE DEF N, Nth
<1>5. Len(Pg!LineEnds) = N
  BY <1>1, <1>3
<1>6. \A i \in K : Pg!LineEnds[Place(K, i)] = i
  <2> TAKE i \in K
  <2> DEFINE j == Nth(Place(K, i))
  <2>1. j \in K /\ Place(K, j) = Place(K, i) /\ Pg!LineEnds[Place(K, i)] = j
    BY <1>1, <1>3, <1>4
  <2> HIDE DEF j
  <2>2. i \in Nat /\ j \in Nat /\ Place(K, i) \in Nat
    BY <1>2, <1>3, <2>1
  <2>3. i <= j /\ j <= i
    BY <1>3, <2>1, <2>2
  <2> QED BY <2>1, <2>2, <2>3
<1> QED BY <1>5, <1>6 DEF K, N

\* A line of n characters as it is shown.
Clipped(n) ==
  IF n > pgWidth THEN [kept |-> pgWidth, dropped |-> n - pgWidth]
  ELSE [kept |-> n, dropped |-> 0]

\* Between two ends that follow each other lies a line.
LEMMA LineBetween ==
  ASSUME pgFile \in Seq({"x", "r", "n"}),
         NEW a \in Nat, a = 0 \/ a \in Pg!Ends, NEW e \in Pg!Ends, a < e,
         \A j \in Pg!Ends : j <= a \/ e <= j,
         NEW s \in Nat, a + s <= e,
         \A i \in a + 1 .. e : pgFile[i] = "x" <=> i <= a + s
  PROVE  Pg!Whole(Place(Pg!Ends, a) + 1) = Clipped(s)
<1> DEFINE K == Pg!Ends
           k == Place(K, a) + 1
           L0 == Pg!LineEnds
           chars == {i \in 1 .. L0[k] : pgFile[i] = "x" /\ (k = 1 \/ i > L0[k - 1])}
<1>1. /\ K \in SUBSET Nat /\ IsFiniteSet(K)
      /\ \A i \in K : i \in Nat /\ 1 <= i /\ i <= Len(pgFile)
  BY EndsAre
<1>2. k = Place(K, e)
  BY <1>1, NextPlace
<1>3. \A i \in K : L0[Place(K, i)] = i
  BY LineEndsAre
<1> HIDE DEF L0, K
<1>4. /\ Place(K, a) \in Nat
      /\ (\A j \in K : j > a) => Place(K, a) = 0
      /\ a \in K => Place(K, a) > 0
  BY <1>1, CountUpTo
<1>5. a = 0 \/ a \in K
  BY DEF K
<1>6. /\ k = 1 <=> a = 0
      /\ a # 0 => L0[k - 1] = a
  <2>1. ASSUME a = 0 PROVE Place(K, a) = 0
    <3>1. \A j \in K : j > a
      BY <1>1, <2>1
    <3> QED BY <1>4, <3>1
  <2>2. a # 0 => a \in K /\ Place(K, a) > 0
    BY <1>4, <1>5
  <2>3. k - 1 = Place(K, a)
    BY <1>4 DEF K
  <2>4. k = 1 <=> Place(K, a) = 0
    BY <1>4 DEF K
  <2> QED BY <1>3, <1>4, <2>1, <2>2, <2>3, <2>4
<1>7. L0[k] = e
  BY <1>2, <1>3 DEF K
<1>8. e \in Nat
  BY <1>1 DEF K
<1> HIDE DEF k
<1>9. chars = a + 1 .. a + s
  <2>1. \A i \in 1 .. e : (k = 1 \/ i > L0[k - 1]) <=> i > a
    BY <1>6, <1>8
  <2>2. \A i : i \in chars <=> i \in 1 .. e /\ i > a /\ pgFile[i] = "x"
    BY <1>7, <2>1
  <2>3. \A i : i \in chars <=> i \in a + 1 .. e /\ pgFile[i] = "x"
    BY <1>8, <2>2
  <2>4. \A i : i \in chars <=> i \in a + 1 .. e /\ i <= a + s
    BY <2>3
  <2> HIDE DEF chars
  <2>5. \A i : i \in chars <=> i \in a + 1 .. a + s
    BY <1>8, <2>4
  <2> QED BY <2>5
<1>10. Pg!Characters(k) = Cardinality(chars)
  BY SameInPaging DEF Pg!Characters, L0
<1> HIDE DEF chars
<1>11. Cardinality(a + 1 .. a + s) = s
  <2>1. Cardinality(a + 1 .. a + s) = IF a + 1 > a + s THEN 0 ELSE a + s - (a + 1) + 1
    BY FS_Interval
  <2> QED BY <2>1
<1>12. Pg!Characters(k) = s
  BY <1>9, <1>10, <1>11
<1>13. Pg!Whole(k) = Clipped(s)
  BY <1>12 DEF Pg!Whole, Clipped
<1> QED BY <1>13 DEF k, K

LineStart == pgPos - (pgLine.kept + pgLine.dropped)

PageTypeInv ==
  /\ pgFile \in Seq({"x", "r", "n"}) /\ pgChunk \in Nat /\ pgWidth \in Nat
  /\ pgWindow \in [first : Nat, last : Nat]
  /\ 1 <= pgWindow.first /\ pgWindow.first <= pgWindow.last
  /\ pgRead \in 0 .. Len(pgFile) /\ pgPos \in 0 .. pgRead
  /\ pgEof \in BOOLEAN /\ pgStarted \in BOOLEAN
  /\ pgTotal \in 0 .. pgWindow.last

\* What is consumed since the last end is the beginning of one line.
LineInv ==
  /\ LineStart \in Nat /\ LineStart <= pgPos
  /\ LineStart = 0 \/ LineStart \in Pg!Ends
  /\ pgTotal = Place(Pg!Ends, LineStart)
  /\ \A i \in LineStart + 1 .. pgPos : pgFile[i] = "x"
  /\ pgLine = Clipped(pgPos - LineStart)

\* The page has the lines so far that are in the window.
PageInv ==
  /\ DOMAIN pgPage = {k \in 1 .. pgTotal : k >= pgWindow.first}
  /\ \A k \in DOMAIN pgPage : pgPage[k] = Pg!Whole(k)

ReaderInv ==
  /\ pgEof => pgRead = Len(pgFile)
  /\ pgStarted <=> LineStart < pgPos
  /\ pgStatus = "reading" => pgTotal < pgWindow.last
  /\ pgStatus = "peeking" => pgTotal = pgWindow.last /\ LineStart = pgPos

\* The inductive invariant of a page.
PagingInv == PageTypeInv /\ LineInv /\ PageInv /\ ReaderInv /\ Pg!PagesMatchTheText

LEMMA PagingFrame ==
  ASSUME UNCHANGED <<pgFile, pgChunk, pgWidth, pgWindow>>
  PROVE  /\ Pg!Ends' = Pg!Ends
         /\ \A k : Pg!Whole(k)' = Pg!Whole(k)
         /\ \A n : Clipped(n)' = Clipped(n)
         /\ Pg!Expected' = Pg!Expected
<1>1. Pg!Length' = Pg!Length
  BY DEF Pg!Length
<1>2. Pg!Ends' = Pg!Ends
  BY <1>1 DEF Pg!Ends
<1>3. Pg!LineEnds' = Pg!LineEnds
  BY <1>2 DEF Pg!LineEnds
<1>4. \A k : Pg!Characters(k)' = Pg!Characters(k)
  BY <1>3 DEF Pg!Characters
<1>5. \A k : Pg!Whole(k)' = Pg!Whole(k)
  BY <1>4 DEF Pg!Whole
<1>6. \A n : Clipped(n)' = Clipped(n)
  BY DEF Clipped
<1>7. Pg!Expected' = Pg!Expected
  BY <1>3, <1>5 DEF Pg!Expected
<1> QED BY <1>2, <1>5, <1>6, <1>7

\* What is clipped of the parts is what is clipped of the whole.
LEMMA AbsorbIs ==
  ASSUME PagingInv, NEW n \in Nat
  PROVE  /\ Pg!Absorb(n) = Clipped(pgPos - LineStart + n)
         /\ pgPos - LineStart \in Nat
<1> DEFINE m == pgPos - LineStart
<1>1. /\ pgPos \in Nat /\ LineStart \in Nat /\ LineStart <= pgPos /\ pgWidth \in Nat
      /\ pgLine = Clipped(m)
  BY DEF PagingInv, PageTypeInv, LineInv
<1>2. m \in Nat
  BY <1>1
<1> HIDE DEF m
<1>3. ASSUME m > pgWidth PROVE Pg!Absorb(n) = Clipped(m + n)
  <2>1. pgLine.kept = pgWidth /\ pgLine.dropped = m - pgWidth
    BY <1>1, <1>3 DEF Clipped
  <2>2. pgLine.dropped > 0 /\ m + n > pgWidth /\ pgLine.dropped + n - 0 = m + n - pgWidth
    BY <1>1, <1>2, <1>3, <2>1
  <2>3. pgLine.kept + 0 = pgWidth
    BY <1>1, <2>1
  <2> DEFINE kept == pgLine.kept + 0
             dropped == pgLine.dropped + n - 0
  <2>4. Pg!Absorb(n) = [kept |-> kept, dropped |-> dropped]
    BY <2>2 DEF Pg!Absorb
  <2>5. kept = pgWidth /\ dropped = m + n - pgWidth
    BY <2>2, <2>3
  <2> HIDE DEF kept, dropped
  <2> QED BY <1>1, <1>2, <2>2, <2>4, <2>5 DEF Clipped
<1>4. ASSUME m <= pgWidth PROVE Pg!Absorb(n) = Clipped(m + n)
  <2>1. pgLine.kept = m /\ pgLine.dropped = 0
    BY <1>1, <1>2, <1>4 DEF Clipped
  <2>2. pgWidth - m \in Int /\ n \in Int /\ ~(pgLine.dropped > 0)
    BY <1>1, <1>2, <2>1
  <2>3. CASE n <= pgWidth - m
    <3>1. Pg!Min({n, pgWidth - pgLine.kept}) = n
      BY <2>1, <2>2, <2>3, LesserOf
    <3>2. /\ ~(m + n > pgWidth) /\ pgLine.kept + n = m + n
          /\ pgLine.dropped + n - n = 0
      BY <1>1, <1>2, <2>1, <2>3
    <3>3. Pg!Absorb(n) = [kept |-> pgLine.kept + n, dropped |-> pgLine.dropped + n - n]
      BY <2>2, <3>1 DEF Pg!Absorb
    <3> QED BY <3>2, <3>3 DEF Clipped
  <2>4. CASE ~(n <= pgWidth - m)
    <3>1. Pg!Min({n, pgWidth - pgLine.kept}) = pgWidth - m
      BY <2>1, <2>2, <2>4, LesserOf
    <3>2. /\ m + n > pgWidth /\ pgLine.kept + (pgWidth - m) = pgWidth
          /\ pgLine.dropped + n - (pgWidth - m) = m + n - pgWidth
      BY <1>1, <1>2, <2>1, <2>4
    <3> DEFINE kept == pgLine.kept + (pgWidth - m)
               dropped == pgLine.dropped + n - (pgWidth - m)
    <3>3. Pg!Absorb(n) = [kept |-> kept, dropped |-> dropped]
      BY <2>2, <3>1 DEF Pg!Absorb
    <3>4. kept = pgWidth /\ dropped = m + n - pgWidth /\ m + n > pgWidth
      BY <3>2
    <3> HIDE DEF kept, dropped
    <3> QED BY <1>1, <1>2, <3>3, <3>4 DEF Clipped
  <2> QED BY <2>3, <2>4
<1>5. m > pgWidth \/ m <= pgWidth
  BY <1>1, <1>2
<1> QED BY <1>2, <1>3, <1>4, <1>5 DEF m

LEMMA ClippedIs ==
  ASSUME pgWidth \in Nat, NEW n \in Nat
  PROVE  /\ Clipped(n) \in [kept : Nat, dropped : Nat]
         /\ Clipped(n).kept + Clipped(n).dropped = n
BY DEF Clipped

LEMMA PagingInit ==
  ASSUME Pg!Init
  PROVE  PagingInv
<1>1. /\ pgFile \in LargeFiles /\ pgChunk \in Chunks /\ pgWidth \in Widths
      /\ pgWindow \in Windows
      /\ pgRead = 0 /\ pgPos = 0 /\ pgEof = FALSE /\ pgStarted = FALSE /\ pgTotal = 0
      /\ pgLine = [kept |-> 0, dropped |-> 0] /\ DOMAIN pgPage = {} /\ pgStatus = "reading"
  BY DEF Pg!Init, Pg!Blank
<1>2. /\ pgFile \in Seq({"x", "r", "n"}) /\ pgChunk \in Nat /\ pgWidth \in Nat
      /\ pgWindow \in [first : Nat, last : Nat]
      /\ 1 <= pgWindow.first /\ pgWindow.first <= pgWindow.last
  BY <1>1, PagingAssumption
<1>3. pgWindow.first \in Nat /\ pgWindow.last \in Nat
  BY <1>2
<1>4. PageTypeInv
  <2>1. Len(pgFile) \in Nat
    BY <1>2
  <2>2. /\ pgRead \in 0 .. Len(pgFile) /\ pgPos \in 0 .. pgRead
        /\ pgTotal \in 0 .. pgWindow.last
    BY <1>1, <1>3, <2>1
  <2>3. pgEof \in BOOLEAN /\ pgStarted \in BOOLEAN
    BY <1>1
  <2> QED BY <1>2, <2>2, <2>3 DEF PageTypeInv
<1>5. LineStart = 0
  BY <1>1 DEF LineStart
<1>6. LineInv
  <2>1. Place(Pg!Ends, 0) = 0
    <3>1. ASSUME NEW j \in Pg!Ends PROVE j > 0
      <4>1. j \in Nat /\ 1 <= j
        BY <1>2, EndsAre
      <4> QED BY <4>1
    <3> QED BY <1>2, <3>1, EndsAre, CountUpTo
  <2>2. Clipped(0) = [kept |-> 0, dropped |-> 0]
    BY <1>2 DEF Clipped
  <2> QED BY <1>1, <1>5, <2>1, <2>2 DEF LineInv
<1>7. PageInv
  BY <1>1 DEF PageInv
<1>8. ReaderInv /\ Pg!PagesMatchTheText
  BY <1>1, <1>2, <1>3, <1>5 DEF ReaderInv, Pg!PagesMatchTheText
<1> QED BY <1>4, <1>6, <1>7, <1>8 DEF PagingInv

\* A line that ends at e is counted and, in the window, shown.
LEMMA EmitKeeps ==
  ASSUME PagingInv, pgStatus = "reading",
         UNCHANGED <<pgFile, pgChunk, pgWidth, pgWindow, pgRead, pgEof>>,
         NEW e \in Pg!Ends, LineStart < e, e <= pgRead, pgPos' = e,
         \A j \in Pg!Ends : j <= LineStart \/ e <= j,
         NEW s \in Nat, LineStart + s <= e,
         \A i \in LineStart + 1 .. e : pgFile[i] = "x" <=> i <= LineStart + s,
         Pg!Emit(Clipped(s))
  PROVE  PagingInv'
<1> DEFINE finished == Clipped(s)
           n == pgTotal + 1
<1>1. /\ PageTypeInv /\ LineInv /\ PageInv /\ ReaderInv
      /\ pgFile \in Seq({"x", "r", "n"}) /\ pgWidth \in Nat
      /\ pgWindow.first \in Nat /\ pgWindow.last \in Nat /\ 1 <= pgWindow.first
      /\ pgTotal \in Nat /\ pgTotal < pgWindow.last
      /\ LineStart \in Nat /\ (LineStart = 0 \/ LineStart \in Pg!Ends)
      /\ pgTotal = Place(Pg!Ends, LineStart)
  BY DEF PagingInv, PageTypeInv, LineInv, ReaderInv
<1>2. /\ pgTotal' = n /\ pgLine' = [kept |-> 0, dropped |-> 0] /\ pgStarted' = FALSE
      /\ pgPage' = IF n >= pgWindow.first
                   THEN [i \in DOMAIN pgPage \cup {n} |-> IF i = n THEN finished ELSE pgPage[i]]
                   ELSE pgPage
      /\ pgStatus' = IF n = pgWindow.last THEN "peeking" ELSE pgStatus
  BY DEF Pg!Emit, Pg!Blank
<1>3. /\ Pg!Ends \in SUBSET Nat /\ IsFiniteSet(Pg!Ends) /\ e \in Nat
      /\ Len(pgFile) \in Nat
  BY <1>1, EndsAre
<1>4. Place(Pg!Ends, e) = n
  BY <1>1, <1>3, NextPlace
<1>5. finished = Pg!Whole(n)
  BY <1>1, <1>3, LineBetween
<1>6. LineStart' = e
  BY <1>2, <1>3 DEF LineStart
<1>7. PageTypeInv'
  <2>1. pgTotal' \in 0 .. pgWindow.last /\ pgPos' \in 0 .. pgRead
    BY <1>1, <1>2, <1>3 DEF PageTypeInv
  <2>2. pgStarted' \in BOOLEAN
    BY <1>2
  <2> QED BY <1>1, <2>1, <2>2 DEF PageTypeInv
<1>8. LineInv'
  <2>1. Pg!Ends' = Pg!Ends /\ Clipped(0)' = Clipped(0)
    BY PagingFrame
  <2>2. Clipped(0) = [kept |-> 0, dropped |-> 0]
    BY <1>1 DEF Clipped
  <2>3. pgPos' - LineStart' = 0
    BY <1>3, <1>6
  <2>4. pgLine' = Clipped(pgPos - LineStart)'
    BY <1>2, <2>1, <2>2, <2>3 DEF Clipped
  <2>5. pgTotal' = Place(Pg!Ends', LineStart')
    BY <1>2, <1>4, <1>6, <2>1
  <2>6. \A i \in LineStart' + 1 .. pgPos' : pgFile'[i] = "x"
    BY <1>3, <1>6
  <2> QED BY <1>3, <1>6, <2>1, <2>4, <2>5, <2>6 DEF LineInv
<1>9. PageInv'
  <2>1. DOMAIN pgPage' = {k \in 1 .. n : k >= pgWindow.first}
    <3>1. DOMAIN pgPage = {k \in 1 .. pgTotal : k >= pgWindow.first}
      BY <1>1 DEF PageInv
    <3>2. \A k : k \in 1 .. n <=> k \in 1 .. pgTotal \/ k = n
      BY <1>1
    <3>3. CASE n >= pgWindow.first
      <4>1. DOMAIN pgPage' = DOMAIN pgPage \cup {n}
        BY <1>2, <3>3
      <4> QED BY <3>1, <3>2, <3>3, <4>1
    <3>4. CASE ~(n >= pgWindow.first)
      BY <1>2, <3>1, <3>2, <3>4
    <3> QED BY <3>3, <3>4
  <2>2. \A k \in DOMAIN pgPage' : pgPage'[k] = Pg!Whole(k)
    <3>1. \A k \in DOMAIN pgPage : pgPage[k] = Pg!Whole(k) /\ k # n
      BY <1>1 DEF PageInv
    <3> HIDE DEF finished, n
    <3>2. CASE n >= pgWindow.first
      <4>1. pgPage' = [i \in DOMAIN pgPage \cup {n} |-> IF i = n THEN finished ELSE pgPage[i]]
        BY <1>2, <3>2
      <4> QED BY <1>5, <3>1, <4>1
    <3>3. CASE ~(n >= pgWindow.first)
      BY <1>2, <3>1, <3>3
    <3> QED BY <3>2, <3>3
  <2> QED BY <1>2, <2>1, <2>2, PagingFrame DEF PageInv
<1>10. ReaderInv'
  BY <1>1, <1>2, <1>3, <1>6 DEF ReaderInv
<1>11. Pg!PagesMatchTheText'
  BY <1>2 DEF Pg!PagesMatchTheText
<1> QED BY <1>7, <1>8, <1>9, <1>10, <1>11 DEF PagingInv

\* The next break in what is decoded.
LEMMA BreakIs ==
  ASSUME PageTypeInv
  PROVE  /\ Pg!Breaks = {} => \A i \in pgPos + 1 .. pgRead : pgFile[i] = "x"
         /\ Pg!Breaks # {} => /\ Pg!Break \in Nat /\ pgPos < Pg!Break /\ Pg!Break <= pgRead
                              /\ pgFile[Pg!Break] \in {"r", "n"}
                              /\ \A i \in pgPos + 1 .. Pg!Break - 1 : pgFile[i] = "x"
<1>1. /\ pgFile \in Seq({"x", "r", "n"}) /\ pgPos \in Nat /\ pgRead \in Nat
      /\ pgRead <= Len(pgFile)
  <2>1. pgFile \in Seq({"x", "r", "n"}) /\ Len(pgFile) \in Nat
    BY DEF PageTypeInv
  <2> QED BY <2>1 DEF PageTypeInv
<1>2. Pg!Breaks = {i \in pgPos + 1 .. pgRead : pgFile[i] # "x"}
  BY DEF Pg!Breaks
<1>3. \A i \in pgPos + 1 .. pgRead : pgFile[i] \in {"x", "r", "n"}
  BY <1>1
<1>4. ASSUME Pg!Breaks # {}
      PROVE  Pg!Break \in Pg!Breaks /\ \A j \in Pg!Breaks : Pg!Break <= j
  <2>1. Pg!Breaks \in SUBSET Nat
    BY <1>1, <1>2
  <2>2. \E x \in Pg!Breaks : \A y \in Pg!Breaks : x <= y
    BY <1>4, <2>1, LeastNumber
  <2> QED BY <2>2 DEF Pg!Break, Pg!Min
<1>5. ASSUME Pg!Breaks # {}
      PROVE  /\ Pg!Break \in Nat /\ pgPos < Pg!Break /\ Pg!Break <= pgRead
             /\ pgFile[Pg!Break] \in {"r", "n"}
             /\ \A i \in pgPos + 1 .. Pg!Break - 1 : pgFile[i] = "x"
  <2>1. Pg!Break \in pgPos + 1 .. pgRead /\ pgFile[Pg!Break] # "x"
    BY <1>2, <1>4, <1>5
  <2>2. \A i \in pgPos + 1 .. pgRead : pgFile[i] # "x" => Pg!Break <= i
    BY <1>2, <1>4, <1>5
  <2>3. pgFile[Pg!Break] \in {"r", "n"}
    BY <1>3, <2>1
  <2> QED BY <1>1, <2>1, <2>2, <2>3
<1> QED BY <1>2, <1>5

LEMMA EndLineKeeps ==
  ASSUME PagingInv, Pg!EndLine
  PROVE  PagingInv'
<1> DEFINE b == Pg!Break
           e == Pg!BreakEnd
           s == b - 1 - LineStart
<1>1. /\ pgStatus = "reading" /\ Pg!Breaks # {} /\ ~Pg!Split
      /\ Pg!Emit(Pg!Absorb(b - 1 - pgPos)) /\ pgPos' = e
      /\ UNCHANGED <<pgFile, pgChunk, pgWidth, pgWindow, pgRead, pgEof>>
  BY DEF Pg!EndLine, Pg!input
<1>2. /\ PageTypeInv /\ LineInv /\ ReaderInv /\ pgFile \in Seq({"x", "r", "n"})
      /\ pgPos \in Nat /\ pgRead \in Nat /\ LineStart \in Nat /\ LineStart <= pgPos
      /\ \A i \in LineStart + 1 .. pgPos : pgFile[i] = "x"
      /\ pgEof => pgRead = Len(pgFile)
  BY DEF PagingInv, PageTypeInv, LineInv, ReaderInv
<1>3. /\ b \in Nat /\ pgPos < b /\ b <= pgRead
      /\ pgFile[b] \in {"r", "n"}
      /\ \A i \in pgPos + 1 .. b - 1 : pgFile[i] = "x"
  BY <1>1, <1>2, BreakIs
<1>4. Len(pgFile) \in Nat /\ pgRead <= Len(pgFile)
  <2>1. Len(pgFile) \in Nat
    BY <1>2, EndsAre
  <2> QED BY <1>2, <2>1 DEF PageTypeInv
<1>5. /\ \A i \in Pg!Ends : i \in Nat /\ 1 <= i /\ i <= Len(pgFile)
      /\ \A i \in 1 .. Len(pgFile) :
           i \in Pg!Ends <=> \/ i = Len(pgFile) \/ pgFile[i] = "n"
                             \/ pgFile[i] = "r" /\ pgFile[i + 1] # "n"
  BY <1>2, EndsAre
<1>6. /\ pgFile[b] = "r" /\ b = pgRead => b = Len(pgFile)
      /\ e = IF pgFile[b] = "r" /\ b < pgRead /\ pgFile[b + 1] = "n" THEN b + 1 ELSE b
  BY <1>1, <1>2 DEF Pg!Split, Pg!BreakEnd
<1> HIDE DEF b, e
<1>7. /\ e \in Nat /\ b <= e /\ e <= pgRead
      /\ e = b \/ (e = b + 1 /\ pgFile[b] = "r" /\ pgFile[e] = "n")
  BY <1>2, <1>3, <1>6
<1>8. b \in 1 .. Len(pgFile) /\ e \in 1 .. Len(pgFile)
  BY <1>2, <1>3, <1>4, <1>7
<1>9. e \in Pg!Ends
  <2>1. CASE e = b + 1
    BY <1>2, <1>3, <1>5, <1>7, <1>8, <2>1
  <2>2. CASE e = b
    <3>1. pgFile[b] = "r" /\ b < pgRead => pgFile[b + 1] # "n"
      BY <1>3, <1>6, <2>2
    <3>2. b < pgRead \/ b = pgRead
      BY <1>2, <1>3
    <3> QED BY <1>3, <1>5, <1>6, <1>8, <2>2, <3>1, <3>2
  <2> QED BY <1>7, <2>1, <2>2
<1>10. \A i \in LineStart + 1 .. b - 1 : pgFile[i] = "x"
  BY <1>2, <1>3
<1>11. ASSUME NEW j \in Pg!Ends PROVE j <= LineStart \/ e <= j
  <2>1. j \in 1 .. Len(pgFile) /\ j \in Nat
    BY <1>4, <1>5
  <2>2. CASE j \in LineStart + 1 .. b - 1
    <3>1. pgFile[j] = "x" /\ j # Len(pgFile)
      BY <1>2, <1>3, <1>4, <1>10, <2>1, <2>2
    <3> QED BY <1>5, <2>1, <3>1
  <2>3. CASE j = b /\ e = b + 1
    <3>1. j # Len(pgFile)
      BY <1>2, <1>3, <1>4, <1>7, <2>3
    <3>2. pgFile[j] = "r" /\ pgFile[j + 1] = "n"
      BY <1>3, <1>7, <2>3
    <3> QED BY <1>5, <2>1, <3>1, <3>2
  <2> QED BY <1>2, <1>3, <1>7, <2>1, <2>2, <2>3
<1>12. s \in Nat /\ LineStart + s = b - 1
  BY <1>2, <1>3
<1>13. Pg!Absorb(b - 1 - pgPos) = Clipped(s)
  <2>1. b - 1 - pgPos \in Nat
    BY <1>2, <1>3
  <2>2. Pg!Absorb(b - 1 - pgPos) = Clipped(pgPos - LineStart + (b - 1 - pgPos))
    BY <2>1, AbsorbIs
  <2>3. pgPos - LineStart + (b - 1 - pgPos) = s
    BY <1>2, <1>3
  <2> QED BY <2>2, <2>3
<1>14. Pg!Emit(Clipped(s))
  BY <1>1, <1>13
<1> HIDE DEF s
<1>15. ASSUME NEW i \in LineStart + 1 .. e PROVE pgFile[i] = "x" <=> i <= LineStart + s
  <2>1. CASE i <= b - 1
    BY <1>2, <1>3, <1>10, <1>12, <2>1
  <2>2. CASE i > b - 1
    <3>1. i = b \/ (i = e /\ pgFile[e] = "n")
      BY <1>2, <1>3, <1>7, <2>2
    <3>2. pgFile[i] # "x"
      BY <1>3, <3>1
    <3> QED BY <1>3, <1>12, <2>2, <3>2
  <2> QED BY <1>2, <1>3, <1>7, <2>1, <2>2
<1>16. LineStart < e /\ e <= pgRead /\ LineStart + s <= e
  BY <1>2, <1>3, <1>7, <1>12
<1> QED BY <1>1, <1>9, <1>11, <1>12, <1>14, <1>15, <1>16, EmitKeeps

LEMMA LastLineKeeps ==
  ASSUME PagingInv, Pg!LastLine
  PROVE  PagingInv'
<1> DEFINE e == pgRead
           s == pgRead - LineStart
<1>1. /\ pgStatus = "reading" /\ Pg!Breaks = {} /\ pgEof /\ (pgStarted \/ pgPos < pgRead)
      /\ Pg!Emit(Pg!Absorb(pgRead - pgPos)) /\ pgPos' = pgRead
      /\ UNCHANGED <<pgFile, pgChunk, pgWidth, pgWindow, pgRead, pgEof>>
  BY DEF Pg!LastLine, Pg!input
<1>2. /\ PageTypeInv /\ pgFile \in Seq({"x", "r", "n"})
      /\ LineStart \in Nat /\ LineStart <= pgPos
      /\ \A i \in LineStart + 1 .. pgPos : pgFile[i] = "x"
      /\ pgRead = Len(pgFile)
      /\ pgStarted => LineStart < pgPos
  BY <1>1 DEF PagingInv, PageTypeInv, LineInv, ReaderInv
<1>3. /\ Len(pgFile) \in Nat
      /\ \A i \in Pg!Ends : i \in Nat /\ 1 <= i /\ i <= Len(pgFile)
      /\ \A i \in 1 .. Len(pgFile) :
           i \in Pg!Ends <=> \/ i = Len(pgFile) \/ pgFile[i] = "n"
                             \/ pgFile[i] = "r" /\ pgFile[i + 1] # "n"
  BY <1>2, EndsAre
<1>4. pgRead \in Nat /\ pgPos \in Nat /\ pgPos <= pgRead
  BY <1>2, <1>3 DEF PageTypeInv
<1>5. LineStart < pgRead
  BY <1>1, <1>2, <1>4
<1>6. \A i \in LineStart + 1 .. pgRead : pgFile[i] = "x"
  <2>1. \A i \in pgPos + 1 .. pgRead : pgFile[i] = "x"
    BY <1>1, <1>2, BreakIs
  <2> QED BY <1>2, <1>4, <2>1
<1>7. pgRead \in Pg!Ends
  <2>1. pgRead \in 1 .. Len(pgFile)
    BY <1>2, <1>4, <1>5
  <2> QED BY <1>2, <1>3, <2>1
<1>8. ASSUME NEW j \in Pg!Ends PROVE j <= LineStart \/ pgRead <= j
  <2>1. j \in 1 .. Len(pgFile) /\ j \in Nat
    BY <1>3
  <2>2. CASE j \in LineStart + 1 .. pgRead
    <3>1. pgFile[j] = "x"
      BY <1>6, <2>2
    <3>2. j = Len(pgFile)
      BY <1>3, <2>1, <3>1
    <3> QED BY <1>2, <1>3, <3>2
  <2> QED BY <1>2, <1>4, <2>1, <2>2
<1>9. s \in Nat /\ LineStart + s = pgRead
  BY <1>2, <1>4, <1>5
<1>10. Pg!Absorb(pgRead - pgPos) = Clipped(s)
  <2>1. pgRead - pgPos \in Nat
    BY <1>4
  <2>2. Pg!Absorb(pgRead - pgPos) = Clipped(pgPos - LineStart + (pgRead - pgPos))
    BY <2>1, AbsorbIs
  <2>3. pgPos - LineStart + (pgRead - pgPos) = s
    BY <1>2, <1>4
  <2> QED BY <2>2, <2>3
<1>11. Pg!Emit(Clipped(s))
  BY <1>1, <1>10
<1> HIDE DEF s
<1>12. \A i \in LineStart + 1 .. pgRead : pgFile[i] = "x" <=> i <= LineStart + s
  BY <1>2, <1>4, <1>6, <1>9
<1>13. pgRead <= pgRead /\ LineStart + s <= pgRead
  BY <1>4, <1>9
<1> QED BY <1>1, <1>5, <1>7, <1>8, <1>9, <1>11, <1>12, <1>13, EmitKeeps
LEMMA FillIs ==
  ASSUME PageTypeInv, ReaderInv, Pg!Fill
  PROVE  /\ pgRead' \in 0 .. Len(pgFile) /\ pgRead <= pgRead'
         /\ pgEof' \in BOOLEAN /\ (pgEof' => pgRead' = Len(pgFile))
<1>1. /\ Len(pgFile) \in Nat /\ pgChunk \in Nat
  BY DEF PageTypeInv
<1>2. pgRead \in Nat /\ pgRead <= Len(pgFile)
  BY <1>1 DEF PageTypeInv
<1>3. /\ pgRead' = IF Len(pgFile) <= pgRead + pgChunk THEN Len(pgFile) ELSE pgRead + pgChunk
      /\ pgEof' = (pgEof \/ pgRead = Len(pgFile))
  BY <1>1, <1>2, LesserOf DEF Pg!Fill
<1>4. pgEof' => pgRead = Len(pgFile)
  BY <1>3 DEF ReaderInv
<1>5. pgEof' \in BOOLEAN
  BY <1>3
<1> QED BY <1>1, <1>2, <1>3, <1>4, <1>5

LEMMA ReadOnKeeps ==
  ASSUME PagingInv, Pg!ReadOn
  PROVE  PagingInv'
<1> DEFINE stop == IF Pg!Split THEN pgRead - 1 ELSE pgRead
<1>1. /\ pgStatus = "reading" /\ (Pg!Breaks = {} \/ Pg!Split) /\ ~pgEof
      /\ pgLine' = Pg!Absorb(stop - pgPos) /\ pgStarted' = (pgStarted \/ stop > pgPos)
      /\ pgPos' = stop /\ Pg!Fill
      /\ UNCHANGED <<pgFile, pgChunk, pgWidth, pgWindow, pgTotal, pgPage, pgStatus>>
  BY DEF Pg!ReadOn, Pg!input
<1>2. /\ PageTypeInv /\ LineInv /\ PageInv /\ ReaderInv
      /\ pgFile \in Seq({"x", "r", "n"}) /\ pgWidth \in Nat
      /\ LineStart \in Nat /\ LineStart <= pgPos
      /\ \A i \in LineStart + 1 .. pgPos : pgFile[i] = "x"
  BY DEF PagingInv, PageTypeInv, LineInv
<1>3. pgRead \in Nat /\ pgPos \in Nat /\ pgPos <= pgRead
  <2>1. Len(pgFile) \in Nat
    BY <1>2, EndsAre
  <2> QED BY <1>2, <2>1 DEF PageTypeInv
<1>4. /\ stop \in Nat /\ pgPos <= stop /\ stop <= pgRead
      /\ \A i \in pgPos + 1 .. stop : pgFile[i] = "x"
  <2>1. CASE Pg!Split
    <3>1. Pg!Breaks # {} /\ Pg!Break = pgRead
      BY <2>1 DEF Pg!Split
    <3>2. pgPos < pgRead /\ \A i \in pgPos + 1 .. pgRead - 1 : pgFile[i] = "x"
      BY <1>2, <3>1, BreakIs
    <3> QED BY <1>3, <2>1, <3>2
  <2>2. CASE ~Pg!Split
    BY <1>1, <1>2, <1>3, <2>2, BreakIs
  <2> QED BY <2>1, <2>2
<1> HIDE DEF stop
<1>5. /\ pgRead' \in 0 .. Len(pgFile) /\ pgRead <= pgRead'
      /\ pgEof' \in BOOLEAN /\ (pgEof' => pgRead' = Len(pgFile))
  BY <1>1, <1>2, FillIs
<1>6. pgLine' = Clipped(stop - LineStart) /\ stop - LineStart \in Nat
  <2>1. stop - pgPos \in Nat
    BY <1>3, <1>4
  <2>2. pgPos - LineStart + (stop - pgPos) = stop - LineStart /\ stop - LineStart \in Nat
    BY <1>2, <1>3, <1>4
  <2> QED BY <1>1, <1>2, <2>1, <2>2, AbsorbIs
<1>7. LineStart' = LineStart
  <2>1. pgLine'.kept + pgLine'.dropped = stop - LineStart
    BY <1>2, <1>6, ClippedIs
  <2>2. LineStart' = stop - (stop - LineStart)
    BY <1>1, <2>1 DEF LineStart
  <2> QED BY <1>2, <1>4, <2>2
<1>8. PageTypeInv'
  <2>1. pgStarted' \in BOOLEAN
    BY <1>1, <1>2 DEF PageTypeInv
  <2>2. pgPos' \in 0 .. pgRead'
    <3>1. Len(pgFile) \in Nat
      BY <1>2, EndsAre
    <3> QED BY <1>1, <1>3, <1>4, <1>5, <3>1
  <2> QED BY <1>1, <1>2, <1>5, <2>1, <2>2 DEF PageTypeInv
<1>9. LineInv'
  <2>1. Pg!Ends' = Pg!Ends
    BY <1>1, PagingFrame
  <2>2. \A i \in LineStart + 1 .. stop : pgFile[i] = "x"
    BY <1>2, <1>3, <1>4
  <2>3. pgLine' = Clipped(pgPos - LineStart)'
    BY <1>1, <1>6, <1>7 DEF Clipped
  <2>4. LineStart <= stop
    BY <1>2, <1>3, <1>4
  <2> QED BY <1>1, <1>2, <1>7, <2>1, <2>2, <2>3, <2>4 DEF LineInv
<1>10. PageInv'
  BY <1>1, <1>2, PagingFrame DEF PageInv
<1>11. ReaderInv'
  <2>1. pgStarted <=> LineStart < pgPos
    BY <1>2 DEF ReaderInv
  <2>3. pgStarted' <=> LineStart < pgPos \/ stop > pgPos
    BY <1>1, <2>1
  <2>4. LineStart < pgPos \/ stop > pgPos <=> LineStart < stop
    BY <1>2, <1>3, <1>4
  <2>2. pgTotal < pgWindow.last
    BY <1>1, <1>2 DEF ReaderInv
  <2> QED BY <1>1, <1>5, <1>7, <2>2, <2>3, <2>4 DEF ReaderInv
<1>12. Pg!PagesMatchTheText'
  BY <1>1 DEF Pg!PagesMatchTheText
<1> QED BY <1>8, <1>9, <1>10, <1>11, <1>12 DEF PagingInv

LEMMA PeekKeeps ==
  ASSUME PagingInv, Pg!Peek
  PROVE  PagingInv'
<1>1. /\ pgStatus = "peeking" /\ Pg!Fill
      /\ UNCHANGED <<pgFile, pgChunk, pgWidth, pgWindow, pgPos, pgLine, pgStarted, pgTotal,
                     pgPage, pgStatus>>
  BY DEF Pg!Peek, Pg!input
<1>2. PageTypeInv /\ LineInv /\ PageInv /\ ReaderInv /\ pgFile \in Seq({"x", "r", "n"})
  BY DEF PagingInv, PageTypeInv
<1>3. /\ pgRead' \in 0 .. Len(pgFile) /\ pgRead <= pgRead'
      /\ pgEof' \in BOOLEAN /\ (pgEof' => pgRead' = Len(pgFile))
  BY <1>1, <1>2, FillIs
<1>4. LineStart' = LineStart
  BY <1>1 DEF LineStart
<1>5. PageTypeInv'
  <2>1. Len(pgFile) \in Nat
    BY <1>2, EndsAre
  <2>2. pgPos \in 0 .. pgRead'
    BY <1>2, <1>3, <2>1 DEF PageTypeInv
  <2> QED BY <1>1, <1>2, <1>3, <2>2 DEF PageTypeInv
<1>6. LineInv'
  <2>1. Clipped(pgPos - LineStart)' = Clipped(pgPos - LineStart)
    BY <1>1, <1>4 DEF Clipped
  <2> QED BY <1>1, <1>2, <1>4, <2>1, PagingFrame DEF LineInv
<1>7. PageInv'
  BY <1>1, <1>2, PagingFrame DEF PageInv
<1>8. ReaderInv'
  <2>1. pgTotal = pgWindow.last /\ LineStart = pgPos /\ (pgStarted <=> LineStart < pgPos)
    BY <1>1, <1>2 DEF ReaderInv
  <2>2. pgEof' => pgRead' = Len(pgFile')
    BY <1>1, <1>3
  <2>3. pgStarted' <=> LineStart' < pgPos'
    BY <1>1, <1>4, <2>1
  <2> QED BY <1>1, <1>4, <2>1, <2>2, <2>3 DEF ReaderInv
<1>9. Pg!PagesMatchTheText'
  BY <1>1 DEF Pg!PagesMatchTheText
<1> QED BY <1>5, <1>6, <1>7, <1>8, <1>9 DEF PagingInv

\* Nothing but the verdict changes once the page is there.
LEMMA ReaderStops ==
  ASSUME PageTypeInv, LineInv, PageInv, ReaderInv, pgStatus' \notin {"reading", "peeking"},
         UNCHANGED <<pgFile, pgChunk, pgWidth, pgWindow, pgRead, pgPos, pgEof, pgLine,
                     pgStarted, pgTotal, pgPage>>
  PROVE  PageTypeInv' /\ LineInv' /\ PageInv' /\ ReaderInv'
<1>1. LineStart' = LineStart
  BY DEF LineStart
<1>2. Clipped(pgPos - LineStart)' = Clipped(pgPos - LineStart)
  BY <1>1 DEF Clipped
<1>3. PageTypeInv'
  BY DEF PageTypeInv
<1>4. LineInv'
  BY <1>1, <1>2, PagingFrame DEF LineInv
<1>5. PageInv'
  BY PagingFrame DEF PageInv
<1>6. ReaderInv'
  BY <1>1 DEF ReaderInv
<1> QED BY <1>3, <1>4, <1>5, <1>6

\* The page is the window's part of the lines counted so far.
LEMMA PageIs ==
  ASSUME PageTypeInv, PageInv, pgWindow.first <= pgTotal
  PROVE  {<<k, pgPage[k]>> : k \in DOMAIN pgPage}
           = {<<k, Pg!Whole(k)>> : k \in pgWindow.first .. pgTotal}
<1>1. pgWindow.first \in Nat /\ 1 <= pgWindow.first /\ pgTotal \in Nat
  BY DEF PageTypeInv
<1>2. DOMAIN pgPage = pgWindow.first .. pgTotal
  <2>1. \A k : k \in 1 .. pgTotal /\ k >= pgWindow.first <=> k \in pgWindow.first .. pgTotal
    BY <1>1
  <2> QED BY <2>1 DEF PageInv
<1>3. \A k \in pgWindow.first .. pgTotal : pgPage[k] = Pg!Whole(k)
  BY <1>2 DEF PageInv
<1> QED BY <1>2, <1>3

LEMMA OutOfLinesKeeps ==
  ASSUME PagingInv, Pg!OutOfLines
  PROVE  PagingInv'
<1> DEFINE all == Len(Pg!LineEnds)
<1>1. /\ pgStatus = "reading" /\ pgEof /\ pgPos = pgRead /\ ~pgStarted
      /\ pgStatus' = IF DOMAIN pgPage # {} THEN "page"
                     ELSE IF pgTotal = 0 THEN "empty" ELSE "past"
      /\ UNCHANGED <<pgFile, pgChunk, pgWidth, pgWindow, pgRead, pgPos, pgEof, pgLine,
                     pgStarted, pgTotal, pgPage>>
  BY DEF Pg!OutOfLines, Pg!input
<1>2. /\ PageTypeInv /\ LineInv /\ PageInv /\ ReaderInv /\ pgFile \in Seq({"x", "r", "n"})
      /\ pgWindow.first \in Nat /\ pgWindow.last \in Nat /\ 1 <= pgWindow.first
      /\ pgTotal \in Nat /\ LineStart \in Nat
      /\ pgTotal = Place(Pg!Ends, LineStart)
      /\ DOMAIN pgPage = {k \in 1 .. pgTotal : k >= pgWindow.first}
  BY DEF PagingInv, PageTypeInv, LineInv, PageInv
<1>3. LineStart = Len(pgFile) /\ pgTotal < pgWindow.last
  <2>1. pgRead = Len(pgFile) /\ ~(LineStart < pgPos) /\ LineStart <= pgPos /\ pgPos \in Nat
    BY <1>1, <1>2 DEF ReaderInv, LineInv, PageTypeInv
  <2> QED BY <1>1, <1>2, <2>1 DEF ReaderInv
<1>4. all = pgTotal
  <2>1. /\ Pg!Ends \in SUBSET Nat /\ IsFiniteSet(Pg!Ends)
        /\ \A j \in Pg!Ends : j <= LineStart
    BY <1>2, <1>3, EndsAre
  <2>2. Place(Pg!Ends, LineStart) = Cardinality(Pg!Ends)
    BY <1>2, <2>1, CountUpTo
  <2> QED BY <1>2, <2>2, LineEndsAre
<1>5. PageTypeInv' /\ LineInv' /\ PageInv' /\ ReaderInv'
  BY <1>1, <1>2, ReaderStops
<1>6. Pg!PagesMatchTheText'
  <2>1. /\ Pg!Expected' = Pg!Expected
        /\ {<<k, pgPage[k]>> : k \in DOMAIN pgPage}' = {<<k, pgPage[k]>> : k \in DOMAIN pgPage}
    BY <1>1, PagingFrame
  <2>2. Pg!Min({all, pgWindow.last}) = all
    BY <1>2, <1>3, <1>4, LesserOf
  <2> HIDE DEF all
  <2>3. <<pgStatus', {<<k, pgPage[k]>> : k \in DOMAIN pgPage}>> = Pg!Expected
    <3>1. CASE pgTotal = 0
      <4>1. DOMAIN pgPage = {}
        BY <1>2, <3>1
      <4>2. {<<k, pgPage[k]>> : k \in DOMAIN pgPage} = {}
        BY <4>1
      <4>3. Pg!Expected = <<"empty", {}>>
        BY <1>4, <3>1 DEF Pg!Expected, all
      <4> QED BY <1>1, <3>1, <4>1, <4>2, <4>3
    <3>2. CASE pgTotal # 0 /\ pgWindow.first > pgTotal
      <4>1. DOMAIN pgPage = {}
        BY <1>2, <3>2
      <4>2. {<<k, pgPage[k]>> : k \in DOMAIN pgPage} = {}
        BY <4>1
      <4>3. Pg!Expected = <<"past", {}>>
        BY <1>4, <3>2 DEF Pg!Expected, all
      <4> QED BY <1>1, <3>2, <4>1, <4>2, <4>3
    <3>3. CASE pgTotal # 0 /\ ~(pgWindow.first > pgTotal)
      <4>1. pgTotal \in DOMAIN pgPage
        BY <1>2, <3>3
      <4>2. {<<k, pgPage[k]>> : k \in DOMAIN pgPage}
              = {<<k, Pg!Whole(k)>> : k \in pgWindow.first .. pgTotal}
        BY <1>2, <3>3, PageIs
      <4>3. Pg!Expected = <<"page", {<<k, Pg!Whole(k)>> : k \in pgWindow.first .. pgTotal}>>
        <5>1. ~(pgTotal < pgTotal)
          BY <1>2
        <5> QED BY <1>4, <2>2, <3>3, <5>1 DEF Pg!Expected, all
      <4>4. pgStatus' = "page"
        BY <1>1, <4>1
      <4> QED BY <4>2, <4>3, <4>4
    <3> QED BY <3>1, <3>2, <3>3
  <2> QED BY <2>1, <2>3 DEF Pg!PagesMatchTheText
<1> QED BY <1>5, <1>6 DEF PagingInv

LEMMA PeekedKeeps ==
  ASSUME PagingInv, Pg!Peeked
  PROVE  PagingInv'
<1> DEFINE all == Len(Pg!LineEnds)
<1>1. /\ pgStatus = "peeking" /\ (pgPos < pgRead \/ pgEof)
      /\ pgStatus' = IF pgPos < pgRead THEN "page, more" ELSE "page"
      /\ UNCHANGED <<pgFile, pgChunk, pgWidth, pgWindow, pgRead, pgPos, pgEof, pgLine,
                     pgStarted, pgTotal, pgPage>>
  BY DEF Pg!Peeked, Pg!input
<1>2. /\ PageTypeInv /\ LineInv /\ PageInv /\ ReaderInv /\ pgFile \in Seq({"x", "r", "n"})
      /\ pgWindow.first \in Nat /\ pgWindow.last \in Nat /\ 1 <= pgWindow.first
      /\ pgWindow.first <= pgWindow.last
      /\ pgTotal \in Nat /\ LineStart \in Nat
      /\ pgTotal = Place(Pg!Ends, LineStart)
      /\ pgTotal = pgWindow.last /\ LineStart = pgPos
      /\ pgEof => pgRead = Len(pgFile)
  BY <1>1 DEF PagingInv, PageTypeInv, LineInv, ReaderInv
<1>3. Len(pgFile) \in Nat
  BY <1>2, EndsAre
<1>4. pgRead \in Nat /\ pgPos \in Nat /\ pgPos <= pgRead /\ pgRead <= Len(pgFile)
  BY <1>2, <1>3 DEF PageTypeInv
<1>5. /\ Pg!Ends \in SUBSET Nat /\ IsFiniteSet(Pg!Ends)
      /\ \A i \in Pg!Ends : i \in Nat /\ i <= Len(pgFile)
      /\ Len(pgFile) >= 1 => Len(pgFile) \in Pg!Ends
  <2>1. Len(pgFile) >= 1 => Len(pgFile) \in 1 .. Len(pgFile)
    BY <1>3
  <2> QED BY <1>2, <2>1, EndsAre
<1>6. all = Cardinality(Pg!Ends) /\ all \in Nat /\ pgTotal <= all
  <2>1. Cardinality(Pg!Ends) \in Nat /\ Place(Pg!Ends, LineStart) \in 0 .. Cardinality(Pg!Ends)
    BY <1>2, <1>5, CountUpTo
  <2>2. all = Cardinality(Pg!Ends)
    BY <1>2, LineEndsAre
  <2> HIDE DEF all
  <2> QED BY <1>2, <2>1, <2>2
<1>7. pgPos < pgRead => pgTotal < all
  <2>1. ASSUME pgPos < pgRead PROVE Len(pgFile) \in Pg!Ends /\ Len(pgFile) > LineStart
    BY <1>2, <1>3, <1>4, <1>5, <2>1
  <2> QED BY <1>2, <1>5, <1>6, <2>1, CountUpTo
<1>8. ~(pgPos < pgRead) => pgTotal = all
  <2>1. ASSUME ~(pgPos < pgRead) PROVE \A j \in Pg!Ends : j <= LineStart
    BY <1>1, <1>2, <1>3, <1>4, <1>5, <2>1
  <2> QED BY <1>2, <1>5, <1>6, <2>1, CountUpTo
<1>9. PageTypeInv' /\ LineInv' /\ PageInv' /\ ReaderInv'
  BY <1>1, <1>2, ReaderStops
<1>10. Pg!PagesMatchTheText'
  <2>1. /\ Pg!Expected' = Pg!Expected
        /\ {<<k, pgPage[k]>> : k \in DOMAIN pgPage}' = {<<k, pgPage[k]>> : k \in DOMAIN pgPage}
    BY <1>1, PagingFrame
  <2>2. Pg!Min({all, pgWindow.last}) = pgTotal
    <3> HIDE DEF all
    <3>1. Pg!Min({all, pgWindow.last}) = IF all <= pgWindow.last THEN all ELSE pgWindow.last
      BY <1>2, <1>6, LesserOf
    <3> QED BY <1>2, <1>6, <3>1
  <2>3. all # 0 /\ ~(pgWindow.first > all)
    BY <1>2, <1>6
  <2>4. {<<k, pgPage[k]>> : k \in DOMAIN pgPage}
          = {<<k, Pg!Whole(k)>> : k \in pgWindow.first .. pgTotal}
    BY <1>2, PageIs
  <2>5. Pg!Expected = <<IF pgTotal < all THEN "page, more" ELSE "page",
                        {<<k, Pg!Whole(k)>> : k \in pgWindow.first .. pgTotal}>>
    BY <2>2, <2>3 DEF Pg!Expected
  <2> HIDE DEF all
  <2>6. (IF pgTotal < all THEN "page, more" ELSE "page") = pgStatus'
    <3>1. CASE pgPos < pgRead
      BY <1>1, <1>7, <3>1
    <3>2. CASE ~(pgPos < pgRead)
      BY <1>1, <1>2, <1>8, <3>2
    <3> QED BY <3>1, <3>2
  <2>7. <<pgStatus', {<<k, pgPage[k]>> : k \in DOMAIN pgPage}>> = Pg!Expected
    BY <2>4, <2>5, <2>6
  <2> QED BY <2>1, <2>7 DEF Pg!PagesMatchTheText
<1> QED BY <1>9, <1>10 DEF PagingInv

\* A page of a file that is read in chunks has the lines and the remainder
\* marker that the same window of the whole text has, however the chunks and a
\* \r\n fall (tools/builtin/fs.py, _StreamLines).
THEOREM PagesKeepMatching == MCSpec => []PagesMatchTheText
<1>1. MCInit => PagingInv
  BY PagingInit DEF MCInit
<1>2. PagingInv /\ [MCNext]_allVars => PagingInv'
  <2>1. ASSUME PagingInv, UNCHANGED pgVars PROVE PagingInv'
    <3>1. UNCHANGED <<pgFile, pgChunk, pgWidth, pgWindow, pgRead, pgPos, pgEof, pgLine,
                      pgStarted, pgTotal, pgPage, pgStatus>>
      BY <2>1 DEF pgVars
    <3>2. PageTypeInv' /\ LineInv' /\ PageInv' /\ ReaderInv'
      <4>1. LineStart' = LineStart
        BY <3>1 DEF LineStart
      <4>2. Clipped(pgPos - LineStart)' = Clipped(pgPos - LineStart)
        BY <3>1, <4>1 DEF Clipped
      <4> QED BY <2>1, <3>1, <4>1, <4>2, PagingFrame
            DEF PagingInv, PageTypeInv, LineInv, PageInv, ReaderInv
    <3>3. Pg!PagesMatchTheText'
      BY <2>1, <3>1, PagingFrame DEF PagingInv, Pg!PagesMatchTheText
    <3> QED BY <3>2, <3>3 DEF PagingInv
  <2>2. MCNext => Pg!Next \/ UNCHANGED pgVars
    BY DEF MCNext
  <2>3. UNCHANGED allVars => UNCHANGED pgVars
    BY DEF allVars
  <2>4. PagingInv /\ Pg!Next => PagingInv'
    BY EndLineKeeps, ReadOnKeeps, LastLineKeeps, OutOfLinesKeeps, PeekKeeps, PeekedKeeps
       DEF Pg!Next
  <2> QED BY <2>1, <2>2, <2>3, <2>4
<1>3. PagingInv => PagesMatchTheText
  BY DEF PagingInv, PagesMatchTheText
<1> QED BY <1>1, <1>2, <1>3, PTL DEF MCSpec

-----------------------------------------------------------------------------
(* Patches *)

\* What holds of 0 and with a number of the next holds of all of them.
LEMMA AllNumbers ==
  ASSUME NEW S \in SUBSET Nat, 0 \in S, \A n \in S : n + 1 \in S
  PROVE  \A n \in Nat : n \in S
<1> SUFFICES ASSUME Nat \ S # {} PROVE FALSE
  OBVIOUS
<1>1. PICK x \in Nat \ S : \A y \in Nat \ S : x <= y
  <2>1. Nat \ S \in SUBSET Nat
    OBVIOUS
  <2> QED BY <2>1, LeastNumber
<1>2. x # 0 /\ x - 1 \in Nat
  BY <1>1
<1>3. x - 1 \in S
  BY <1>1, <1>2
<1>4. x - 1 + 1 = x
  BY <1>1
<1> QED BY <1>1, <1>3, <1>4

\* The places m to n of a sequence.
LEMMA SubSeqIs ==
  ASSUME NEW S, NEW f \in Seq(S), NEW m \in Nat, NEW n \in Nat,
         1 <= m, m <= n + 1, n <= Len(f)
  PROVE  /\ SubSeq(f, m, n) \in Seq(S) /\ Len(SubSeq(f, m, n)) = n + 1 - m
         /\ \A k \in 1 .. n + 1 - m : SubSeq(f, m, n)[k] = f[m - 1 + k]
<1>1. CASE m <= n
  <2>1. m \in 1 .. n + 1 /\ n + 1 - m \in Nat /\ n - m + 1 = n + 1 - m
    BY <1>1
  <2> QED BY <1>1, <2>1
<1>2. CASE m = n + 1
  <2>1. n + 1 - m = 0 /\ 1 .. 0 = {}
    BY <1>2
  <2> QED BY <1>2, <2>1
<1> QED BY <1>1, <1>2

\* The hunks a diff may have.
HunkRows == [start : Nat, old : Seq(TextLine), new : Seq(TextLine)]

\* A sequence after another.
LEMMA ConcatIs ==
  ASSUME NEW X, NEW p \in Seq(X), NEW q \in Seq(X)
  PROVE  /\ p \o q \in Seq(X) /\ Len(p \o q) = Len(p) + Len(q)
         /\ \A i \in 1 .. Len(p) : (p \o q)[i] = p[i]
         /\ \A j \in 1 .. Len(q) : (p \o q)[Len(p) + j] = q[j]
  OBVIOUS

\* What stands between a and e replaced.
Spliced(q, a, s, e) == SubSeq(q, 1, a) \o s \o SubSeq(q, e + 1, Len(q))

LEMMA SpliceIs ==
  ASSUME NEW X, NEW q \in Seq(X), NEW s \in Seq(X), NEW a \in Nat, NEW e \in Nat,
         a <= e, e <= Len(q)
  PROVE  /\ Spliced(q, a, s, e) \in Seq(X)
         /\ Len(Spliced(q, a, s, e)) = Len(q) + (Len(s) - (e - a))
         /\ \A i \in 1 .. a : Spliced(q, a, s, e)[i] = q[i]
         /\ \A k \in 1 .. Len(s) : Spliced(q, a, s, e)[a + k] = s[k]
         /\ \A j \in e + 1 .. Len(q) : Spliced(q, a, s, e)[j + (Len(s) - (e - a))] = q[j]
<1> DEFINE r == Spliced(q, a, s, e)
           d == Len(s) - (e - a)
           f == SubSeq(q, 1, a)
           b == SubSeq(q, e + 1, Len(q))
           N == Len(q)
           M == Len(s)
<1>1. N \in Nat /\ M \in Nat
  OBVIOUS
<1>2. f \in Seq(X) /\ Len(f) = a /\ \A i \in 1 .. a : f[i] = q[i]
  <2>1. 1 \in Nat /\ 1 <= 1 /\ 1 <= a + 1 /\ a <= Len(q) /\ a + 1 - 1 = a
    BY <1>1
  <2>2. \A i \in 1 .. a : 1 - 1 + i = i
    OBVIOUS
  <2> QED BY <2>1, <2>2, SubSeqIs
<1>3. b \in Seq(X) /\ Len(b) = N - e /\ \A j \in 1 .. N - e : b[j] = q[e + j]
  <2> DEFINE m == e + 1
  <2>1. m \in Nat /\ 1 <= m /\ m <= N + 1 /\ N <= N /\ N + 1 - m = N - e
    BY <1>1
  <2>2. \A j \in 1 .. N - e : m - 1 + j = e + j
    OBVIOUS
  <2>3. b = SubSeq(q, m, N)
    OBVIOUS
  <2> HIDE DEF m, b
  <2>4. b \in Seq(X) /\ Len(b) = N + 1 - m /\ \A j \in 1 .. N + 1 - m : b[j] = q[m - 1 + j]
    BY <1>1, <2>1, <2>3, SubSeqIs
  <2> QED BY <2>1, <2>2, <2>4
<1>4. r = f \o s \o b
  BY DEF Spliced
<1> HIDE DEF f, b, d, r
<1>5. /\ f \o s \in Seq(X) /\ Len(f \o s) = a + M
      /\ \A i \in 1 .. a : (f \o s)[i] = q[i]
      /\ \A k \in 1 .. M : (f \o s)[a + k] = s[k]
  <2> HIDE DEF M
  <2>1. /\ f \o s \in Seq(X) /\ Len(f \o s) = a + M
        /\ \A i \in 1 .. a : (f \o s)[i] = f[i]
        /\ \A k \in 1 .. M : (f \o s)[a + k] = s[k]
    <3>1. Len(f) = a /\ Len(s) = M /\ f \in Seq(X)
      BY <1>2 DEF M
    <3>2. f \o s \in Seq(X) /\ Len(f \o s) = a + M
      BY <3>1, ConcatIs
    <3>3. \A i \in 1 .. a : (f \o s)[i] = f[i]
      BY <3>1, ConcatIs
    <3>4. \A k \in 1 .. M : (f \o s)[a + k] = s[k]
      BY <3>1, ConcatIs
    <3> QED BY <3>2, <3>3, <3>4
  <2> QED BY <1>2, <2>1
<1> DEFINE g == f \o s
<1> HIDE DEF g
<1>6. g \in Seq(X) /\ Len(g) = a + M /\ r = g \o b
  BY <1>4, <1>5 DEF g
<1>7. /\ g \o b \in Seq(X) /\ Len(g \o b) = a + M + (N - e)
      /\ \A i \in 1 .. a + M : (g \o b)[i] = g[i]
      /\ \A j \in 1 .. N - e : (g \o b)[a + M + j] = b[j]
  <2> DEFINE x == a + M
             y == N - e
  <2>1. x \in Nat /\ x = Len(g) /\ y \in Nat /\ y = Len(b)
    BY <1>1, <1>3, <1>6
  <2> HIDE DEF x, y
  <2>2. /\ g \o b \in Seq(X) /\ Len(g \o b) = x + y
        /\ \A i \in 1 .. x : (g \o b)[i] = g[i]
        /\ \A j \in 1 .. y : (g \o b)[x + j] = b[j]
    <3>1. g \in Seq(X) /\ b \in Seq(X)
      BY <1>3, <1>6
    <3> QED BY <2>1, <3>1, ConcatIs
  <2> QED BY <2>2 DEF x, y
<1> HIDE DEF N, M
<1>8. d = M - (e - a) /\ d \in Int
  <2>1. M \in Nat /\ d = M - (e - a)
    BY <1>1 DEF M, d
  <2> QED BY <2>1
<1>9. r \in Seq(X) /\ Len(r) = N + d
  <2>1. a + M + (N - e) = N + d
    BY <1>1, <1>8
  <2> QED BY <1>6, <1>7, <2>1
<1>10. ASSUME NEW i \in 1 .. a PROVE r[i] = q[i]
  <2>1. i \in 1 .. a + M
    BY <1>1
  <2> QED BY <1>5, <1>6, <1>7, <2>1 DEF g
<1>11. ASSUME NEW k \in 1 .. M PROVE r[a + k] = s[k]
  <2>1. a + k \in 1 .. a + M
    BY <1>1
  <2> QED BY <1>5, <1>6, <1>7, <2>1 DEF g
<1>12. ASSUME NEW j \in e + 1 .. N PROVE r[j + d] = q[j]
  <2>1. j - e \in 1 .. N - e /\ j + d = a + M + (j - e) /\ e + (j - e) = j
    BY <1>1, <1>8
  <2>2. (g \o b)[a + M + (j - e)] = b[j - e] /\ b[j - e] = q[e + (j - e)]
    BY <1>3, <1>7, <2>1
  <2> QED BY <1>6, <2>1, <2>2
<1> QED BY <1>9, <1>10, <1>11, <1>12 DEF N, M, d, r

\* How far the hunks move what follows them.
LEMMA ShiftIs ==
  ASSUME paDiff \in Seq(HunkRows)
  PROVE  /\ Pa!Shift \in [0 .. Len(paDiff) -> Int] /\ Pa!Shift[0] = 0
         /\ \A n \in 1 .. Len(paDiff) :
              Pa!Shift[n] = Pa!Shift[n - 1] + (Len(paDiff[n].new) - Len(paDiff[n].old))
<1> DEFINE N == Len(paDiff)
           more(n) == Len(paDiff[n].new) - Len(paDiff[n].old)
           Rec(f, m) == /\ f \in [0 .. m -> Int] /\ f[0] = 0
                        /\ \A n \in 1 .. m : f[n] = f[n - 1] + more(n)
<1>1. N \in Nat /\ \A n \in 1 .. N : paDiff[n] \in HunkRows
  OBVIOUS
<1>2. \A n \in 1 .. N : more(n) \in Int
  <2> TAKE n \in 1 .. N
  <2>1. paDiff[n].new \in Seq(TextLine) /\ paDiff[n].old \in Seq(TextLine)
    BY <1>1 DEF HunkRows
  <2> QED BY <2>1
<1> DEFINE T == {m \in Nat : m <= N => \E f : Rec(f, m)}
<1> HIDE DEF more, N
<1>3. 0 \in T
  <2> DEFINE f == [n \in 0 .. 0 |-> 0]
  <2>1. f \in [0 .. 0 -> Int] /\ f[0] = 0 /\ 1 .. 0 = {}
    OBVIOUS
  <2> HIDE DEF f
  <2>2. Rec(f, 0)
    BY <2>1
  <2> QED BY <2>2
<1>4. ASSUME NEW m \in T PROVE m + 1 \in T
  <2> SUFFICES ASSUME m + 1 <= N PROVE \E f : Rec(f, m + 1)
    BY <1>4
  <2>1. m \in Nat /\ m + 1 \in 1 .. N
    BY <1>1
  <2>2. PICK f : Rec(f, m)
    <3> HIDE DEF Rec
    <3>1. m <= N
      BY <1>1, <2>1
    <3> QED BY <1>4, <3>1
  <2> DEFINE next == f[m] + more(m + 1)
             g == [n \in 0 .. m + 1 |-> IF n = m + 1 THEN next ELSE f[n]]
  <2>3. /\ 0 \in 0 .. m + 1 /\ m + 1 \in 0 .. m + 1 /\ m \in 0 .. m /\ 0 # m + 1 /\ m # m + 1
        /\ \A n \in 0 .. m : n \in 0 .. m + 1 /\ n # m + 1
        /\ \A n \in 0 .. m + 1 : n = m + 1 \/ n \in 0 .. m
        /\ \A n \in 1 .. m + 1 : n = m + 1 \/ (n \in 1 .. m /\ n - 1 \in 0 .. m)
        /\ m + 1 - 1 = m
    BY <2>1
  <2>4. next \in Int
    BY <1>2, <2>1, <2>2, <2>3
  <2>5. g[m + 1] = next /\ \A n \in 0 .. m : g[n] = f[n]
    BY <2>3
  <2>6. g \in [0 .. m + 1 -> Int]
    BY <2>2, <2>3, <2>4
  <2> HIDE DEF g
  <2>7. g[0] = 0
    <3>1. 0 \in 0 .. m
      BY <2>1
    <3> QED BY <2>2, <2>5, <3>1
  <2>8. ASSUME NEW n \in 1 .. m + 1 PROVE g[n] = g[n - 1] + more(n)
    <3>1. CASE n = m + 1
      <4>1. g[n - 1] = f[m]
        BY <2>3, <2>5, <3>1
      <4> QED BY <2>5, <3>1, <4>1
    <3>2. CASE n # m + 1
      <4>1. n \in 1 .. m /\ n - 1 \in 0 .. m /\ n \in 0 .. m
        BY <2>3, <3>2
      <4> QED BY <2>2, <2>5, <4>1
    <3> QED BY <3>1, <3>2
  <2> QED BY <2>6, <2>7, <2>8
<1>5. PICK f : Rec(f, N)
  <2>1. T \in SUBSET Nat
    OBVIOUS
  <2>2. \A m \in Nat : m \in T
    <3> HIDE DEF T
    <3> QED BY <1>3, <1>4, <2>1, AllNumbers
  <2>3. N <= N
    BY <1>1
  <2> QED BY <1>1, <2>2, <2>3
<1> DEFINE Val(h, n) == IF n = 0 THEN 0 ELSE h[n - 1] + more(n)
<1>6. Pa!Shift = CHOOSE h : h = [n \in 0 .. N |-> Val(h, n)]
  BY DEF Pa!Shift, N, more
<1>7. f = [n \in 0 .. N |-> Val(f, n)]
  <2>1. f \in [0 .. N -> Int] /\ \A n \in 0 .. N : f[n] = Val(f, n)
    <3>1. \A n \in 0 .. N : n = 0 \/ n \in 1 .. N
      BY <1>1
    <3>2. \A n \in 1 .. N : n # 0
      OBVIOUS
    <3> QED BY <1>5, <3>1, <3>2
  <2> HIDE DEF Val
  <2> QED BY <2>1
<1>8. Pa!Shift = [n \in 0 .. N |-> Val(Pa!Shift, n)]
  <2> HIDE DEF Val
  <2> QED BY <1>6, <1>7
<1> DEFINE h == Pa!Shift
<1> HIDE DEF h
<1>9. DOMAIN h = 0 .. N /\ \A n \in 0 .. N : h[n] = Val(h, n)
  <2> HIDE DEF Val
  <2>1. h = [n \in 0 .. N |-> Val(h, n)]
    BY <1>8 DEF h
  <2> QED BY <2>1
<1>10. h = [n \in 0 .. N |-> h[n]] /\ h[0] = 0 /\ \A n \in 1 .. N : h[n] = h[n - 1] + more(n)
  <2>1. 0 \in 0 .. N /\ \A n \in 1 .. N : n \in 0 .. N /\ n # 0
    BY <1>1
  <2>2. h = [n \in 0 .. N |-> h[n]]
    <3> HIDE DEF Val
    <3>1. h = [n \in 0 .. N |-> Val(h, n)]
      BY <1>8 DEF h
    <3> QED BY <1>9, <3>1
  <2> QED BY <1>9, <2>1, <2>2
<1>11. \A n \in 0 .. N : h[n] \in Int
  <2> DEFINE U == {m \in Nat : m <= N => h[m] \in Int}
  <2>1. 0 \in U
    BY <1>10
  <2>2. ASSUME NEW m \in U PROVE m + 1 \in U
    <3> SUFFICES ASSUME m + 1 <= N PROVE h[m + 1] \in Int
      BY <2>2
    <3>1. m + 1 \in 1 .. N /\ m + 1 - 1 = m /\ m <= N
      BY <1>1
    <3>2. h[m] \in Int /\ more(m + 1) \in Int
      BY <1>2, <2>2, <3>1
    <3> DEFINE i == m + 1
    <3>3. i \in 1 .. N /\ i - 1 = m
      BY <3>1
    <3> HIDE DEF i
    <3>4. h[i] = h[i - 1] + more(i)
      BY <1>10, <3>3
    <3>5. h[m + 1] = h[m] + more(m + 1)
      BY <3>3, <3>4 DEF i
    <3> QED BY <3>2, <3>5
  <2>3. U \in SUBSET Nat
    OBVIOUS
  <2>4. \A m \in Nat : m \in U
    <3> HIDE DEF U
    <3> QED BY <2>1, <2>2, <2>3, AllNumbers
  <2> QED BY <1>1, <2>4
<1>12. h \in [0 .. N -> Int]
  BY <1>10, <1>11
<1> QED BY <1>10, <1>12 DEF h, N, more

\* The lines up to here are still those of the file.
Bound == IF Len(paLeft) = Len(paDiff) THEN Len(paFile) ELSE Pa!Index(paDiff[Len(paLeft) + 1])

\* How far the hunks moved what follows the n-th, without those to be applied.
Moved(n) == Pa!Shift[n] - Pa!Shift[Len(paLeft)]

\* What a patch is made of, and how far it is applied.
PatchTypeInv ==
  /\ paFile \in Seq(TextLine) /\ paLines \in Seq(TextLine)
  /\ paDiff \in Seq(HunkRows) /\ paLeft \in Seq(HunkRows)
  /\ paStatus \in {"parsed", "applying", "rejected", "patched"}
  /\ \A i \in 1 .. Len(paFile) - 1 : paFile[i].end # "none"
  /\ Len(paLeft) <= Len(paDiff) /\ \A n \in 1 .. Len(paLeft) : paLeft[n] = paDiff[n]
  /\ paStatus = "parsed" => paLines = paFile /\ Len(paLeft) = Len(paDiff)
  /\ paStatus = "applying" => Pa!InPlace(paDiff)

\* The lines in front of the hunks that are applied are those of the file.
FrontInv ==
  /\ Bound \in Nat /\ Bound <= Len(paFile) /\ Bound <= Len(paLines)
  /\ Len(paLines) = Len(paFile) + Moved(Len(paDiff))
  /\ \A p \in 1 .. Bound : paLines[p] = paFile[p]

\* The lines of the applied hunks stand behind them.
HunkInv ==
  \A n \in Len(paLeft) + 1 .. Len(paDiff) : \A k \in 1 .. Len(paDiff[n].new) :
    /\ Bound < Pa!Index(paDiff[n]) + Moved(n - 1) + k
    /\ Pa!Index(paDiff[n]) + Moved(n - 1) + k <= Len(paLines)
    /\ paLines[Pa!Index(paDiff[n]) + Moved(n - 1) + k] \in
         {paDiff[n].new[k], Pa!Adapted(paDiff[n].new)[k]}

\* So do the lines of the file behind them.
OtherInv ==
  \A n \in Len(paLeft) + 1 .. Len(paDiff) : \A p \in Pa!Between(n) :
    /\ Bound < p + Moved(n) /\ p + Moved(n) <= Len(paLines)
    /\ paLines[p + Moved(n)] = paFile[p]

\* No line is joined to the next one.
WholeInv == Pa!Regular => Pa!LinesAreWhole

AppliedInv == FrontInv /\ HunkInv /\ OtherInv /\ WholeInv

PatchInv ==
  /\ PatchTypeInv /\ Pa!PatchIsExact
  /\ paStatus = "applying" => AppliedInv

\* Where the hunks of a diff in order stand.
LEMMA HunksAre ==
  ASSUME paDiff \in Seq(HunkRows), Pa!InPlace(paDiff), NEW n \in 1 .. Len(paDiff)
  PROVE  /\ Len(paDiff) \in Nat
         /\ paDiff[n] \in HunkRows
         /\ paDiff[n].old \in Seq(TextLine) /\ paDiff[n].new \in Seq(TextLine)
         /\ Len(paDiff[n].old) \in Nat /\ Len(paDiff[n].new) \in Nat
         /\ Pa!Index(paDiff[n]) \in Nat
         /\ Pa!End(paDiff[n]) = Pa!Index(paDiff[n]) + Len(paDiff[n].old)
         /\ Pa!End(paDiff[n]) \in Nat /\ Pa!Index(paDiff[n]) <= Pa!End(paDiff[n])
         /\ n + 1 \in 1 .. Len(paDiff) => Pa!End(paDiff[n]) <= Pa!Index(paDiff[n + 1])
<1> DEFINE N == Len(paDiff)
           h == paDiff[n]
<1>1. N \in Nat /\ DOMAIN paDiff = 1 .. N /\ h \in HunkRows
  OBVIOUS
<1>2. h.old \in Seq(TextLine) /\ h.new \in Seq(TextLine) /\ h.start \in Nat
  BY <1>1 DEF HunkRows
<1>3. Len(h.old) \in Nat /\ Len(h.new) \in Nat
  BY <1>2
<1>4. Pa!Index(h) \in Int
  BY <1>2 DEF Pa!Index
<1>5. Pa!Index(h) >= 0
  BY <1>1 DEF Pa!InPlace, Pa!Placed
<1>6. Pa!End(h) = Pa!Index(h) + Len(h.old)
  BY DEF Pa!End
<1>7. n + 1 \in 1 .. N => Pa!End(h) <= Pa!Index(paDiff[n + 1])
  <2> SUFFICES ASSUME n + 1 \in 1 .. N PROVE Pa!End(h) <= Pa!Index(paDiff[n + 1])
    OBVIOUS
  <2>1. n \in 1 .. N - 1
    BY <1>1
  <2>2. Pa!Index(paDiff[n + 1]) >= Pa!End(h)
    BY <2>1 DEF Pa!InPlace
  <2>3. paDiff[n + 1] \in HunkRows
    BY <1>1
  <2>4. Pa!Index(paDiff[n + 1]) \in Int
    <3> DEFINE g == paDiff[n + 1]
    <3> HIDE DEF g
    <3>1. g \in HunkRows
      BY <2>3 DEF g
    <3>2. Pa!Index(g) \in Int
      BY <3>1 DEF HunkRows, Pa!Index
    <3> QED BY <3>2 DEF g
  <2> DEFINE x == Pa!Index(paDiff[n + 1])
             y == Pa!End(h)
             z == Pa!Index(h)
             l == Len(h.old)
  <2>5. z \in Int /\ l \in Nat /\ y = z + l /\ x \in Int /\ x >= y
    BY <1>3, <1>4, <1>6, <2>2, <2>4
  <2> HIDE DEF x, y, z, l
  <2>6. y <= x
    BY <2>5
  <2> QED BY <2>6 DEF x, y
<1> DEFINE z == Pa!Index(h)
           l == Len(h.old)
<1> HIDE DEF z, l
<1>8. z \in Nat /\ z + l \in Nat /\ z <= z + l
  BY <1>3, <1>4, <1>5 DEF z, l
<1> QED BY <1>1, <1>2, <1>3, <1>6, <1>7, <1>8 DEF z, l

LEMMA PatchInit == Pa!Init => PatchInv
<1> SUFFICES ASSUME Pa!Init PROVE PatchInv
  OBVIOUS
<1>1. /\ paFile \in PatchedFiles /\ paDiff \in Diffs /\ paLines = paFile /\ paLeft = paDiff
      /\ paStatus = "parsed"
  BY DEF Pa!Init
<1>2. /\ paFile \in Seq(TextLine) /\ paDiff \in Seq(HunkRows)
      /\ \A i \in 1 .. Len(paFile) - 1 : paFile[i].end # "none"
  BY <1>1, PatchAssumption DEF HunkRows
<1>3. Len(paDiff) \in Nat /\ Len(paDiff) <= Len(paDiff)
  BY <1>2
<1>4. PatchTypeInv
  BY <1>1, <1>2, <1>3 DEF PatchTypeInv
<1>5. Pa!PatchIsExact
  BY <1>1 DEF Pa!PatchIsExact
<1> QED BY <1>1, <1>4, <1>5 DEF PatchInv

\* The hunks, and what they stand between, are as before.
LEMMA PatchFrame ==
  ASSUME UNCHANGED <<paFile, paDiff>>
  PROVE  /\ Pa!Shift' = Pa!Shift /\ Pa!Convention' = Pa!Convention
         /\ \A n : Pa!Between(n)' = Pa!Between(n)
         /\ \A s : Pa!Adapted(s)' = Pa!Adapted(s)
         /\ Pa!Regular' <=> Pa!Regular
         /\ Pa!Verbatim' <=> Pa!Verbatim
<1>1. Pa!Shift' = Pa!Shift
  BY DEF Pa!Shift
<1>2. Pa!Convention' = Pa!Convention
  BY DEF Pa!Convention
<1>3. \A n : Pa!Between(n)' = Pa!Between(n)
  BY DEF Pa!Between
<1>4. \A s : Pa!Adapted(s)' = Pa!Adapted(s)
  BY <1>2 DEF Pa!Adapted
<1>5. Pa!Regular' <=> Pa!Regular
  BY DEF Pa!Regular
<1>6. Pa!Verbatim' <=> Pa!Verbatim
  BY DEF Pa!Verbatim
<1> QED BY <1>1, <1>2, <1>3, <1>4, <1>5, <1>6

LEMMA AppliedStays ==
  ASSUME AppliedInv, UNCHANGED <<paFile, paDiff, paLines, paLeft>>
  PROVE  AppliedInv'
<1>1. Bound' = Bound
  BY DEF Bound
<1>2. \A n : Moved(n)' = Moved(n)
  BY PatchFrame DEF Moved
<1>3. FrontInv'
  BY <1>1, <1>2 DEF AppliedInv, FrontInv
<1>4. HunkInv'
  <2>1. \A n : Pa!Adapted(paDiff[n].new)' = Pa!Adapted(paDiff[n].new)
    BY PatchFrame DEF Pa!Adapted
  <2>2. ASSUME NEW n \in Len(paLeft) + 1 .. Len(paDiff), NEW k \in 1 .. Len(paDiff[n].new)
        PROVE  /\ Bound' < Pa!Index(paDiff[n]) + Moved(n - 1)' + k
               /\ Pa!Index(paDiff[n]) + Moved(n - 1)' + k <= Len(paLines)
               /\ paLines[Pa!Index(paDiff[n]) + Moved(n - 1)' + k] \in
                    {paDiff[n].new[k], Pa!Adapted(paDiff[n].new)'[k]}
    <3>1. Moved(n - 1)' = Moved(n - 1)
      BY <1>2
    <3>2. Pa!Adapted(paDiff[n].new)' = Pa!Adapted(paDiff[n].new)
      BY <2>1
    <3> QED BY <1>1, <3>1, <3>2 DEF AppliedInv, HunkInv
  <2> QED BY <2>2 DEF HunkInv
<1>5. OtherInv'
  BY <1>1, <1>2, PatchFrame DEF AppliedInv, OtherInv
<1>6. WholeInv'
  BY PatchFrame DEF AppliedInv, WholeInv, Pa!LinesAreWhole
<1> QED BY <1>3, <1>4, <1>5, <1>6 DEF AppliedInv

LEMMA ValidateKeeps == ASSUME PatchInv, Pa!Validate PROVE PatchInv'
<1>1. /\ UNCHANGED <<paFile, paDiff, paLines, paLeft>> /\ paStatus = "parsed"
      /\ paStatus' = IF paDiff # << >> /\ Pa!Ordered(paDiff) THEN "applying" ELSE "rejected"
  BY DEF Pa!Validate
<1>2. /\ paFile \in Seq(TextLine) /\ paLines = paFile /\ Len(paLeft) = Len(paDiff)
      /\ paDiff \in Seq(HunkRows)
      /\ \A i \in 1 .. Len(paFile) - 1 : paFile[i].end # "none"
  BY <1>1 DEF PatchInv, PatchTypeInv
<1>3. paStatus' = "applying" => Pa!InPlace(paDiff)
  BY <1>1 DEF Pa!Ordered
<1>4. PatchTypeInv'
  BY <1>1, <1>3 DEF PatchInv, PatchTypeInv
<1>5. Pa!PatchIsExact'
  <2>1. paStatus' # "patched" /\ (paStatus' = "rejected" => paDiff = << >> \/ ~Pa!Ordered(paDiff))
    BY <1>1
  <2>2. Pa!Ordered(paDiff)' <=> Pa!Ordered(paDiff)
    BY <1>1
  <2> QED BY <1>1, <2>1, <2>2 DEF Pa!PatchIsExact
<1>6. ASSUME paStatus' = "applying" PROVE AppliedInv
  <2>1. Len(paFile) \in Nat /\ Len(paDiff) \in Nat
    BY <1>2
  <2>2. Bound = Len(paFile)
    BY <1>2 DEF Bound
  <2>3. Moved(Len(paDiff)) = 0
    <3>1. Len(paDiff) \in 0 .. Len(paDiff)
      BY <2>1
    <3> DEFINE x == Pa!Shift[Len(paDiff)]
    <3>2. x \in Int
      BY <1>2, <3>1, ShiftIs
    <3>3. Moved(Len(paDiff)) = x - x
      BY <1>2 DEF Moved
    <3> HIDE DEF x
    <3> QED BY <3>2, <3>3
  <2>4. FrontInv
    BY <1>2, <2>1, <2>2, <2>3 DEF FrontInv
  <2>5. Len(paLeft) + 1 .. Len(paDiff) = {}
    BY <1>2, <2>1
  <2>6. HunkInv /\ OtherInv
    BY <2>5 DEF HunkInv, OtherInv
  <2>7. WholeInv
    BY <1>2 DEF WholeInv, Pa!LinesAreWhole
  <2> QED BY <2>4, <2>6, <2>7 DEF AppliedInv
<1>7. AppliedInv => AppliedInv'
  BY <1>1, AppliedStays
<1> QED BY <1>4, <1>5, <1>6, <1>7 DEF PatchInv

\* The next hunk: its number, the lines it takes and how many it adds.
Remaining == Len(paLeft)
NextHunk == paDiff[Remaining]
From == Pa!Index(NextHunk)
Upto == Pa!End(NextHunk)
Gain == Len(NextHunk.new) - Len(NextHunk.old)

\* The lines of a hunk with the line ends of the file.
LEMMA AdaptedIs ==
  ASSUME NEW s \in Seq(TextLine)
  PROVE  /\ Pa!Adapted(s) \in Seq(TextLine) /\ Len(Pa!Adapted(s)) = Len(s)
         /\ \A k \in 1 .. Len(s) :
              /\ Pa!Adapted(s)[k].text = s[k].text
              /\ Pa!Adapted(s)[k].end = IF s[k].end = "lf" THEN Pa!Convention ELSE s[k].end
<1>1. Pa!Convention \in {"lf", "crlf"}
  BY DEF Pa!Convention
<1> DEFINE new(k) == [s[k] EXCEPT !.end = IF @ = "lf" THEN Pa!Convention ELSE @]
<1>2. Len(s) \in Nat /\ DOMAIN s = 1 .. Len(s) /\ \A k \in 1 .. Len(s) : s[k] \in TextLine
  OBVIOUS
<1>3. ASSUME NEW k \in 1 .. Len(s)
      PROVE  /\ new(k) \in TextLine /\ new(k).text = s[k].text
             /\ new(k).end = IF s[k].end = "lf" THEN Pa!Convention ELSE s[k].end
  <2>1. s[k] \in TextLine
    BY <1>2
  <2> QED BY <1>1, <2>1 DEF TextLine
<1>4. Pa!Adapted(s) = [k \in 1 .. Len(s) |-> new(k)]
  BY <1>2 DEF Pa!Adapted
<1> HIDE DEF new
<1> QED BY <1>2, <1>3, <1>4

\* Applying the next hunk replaces its lines.
LEMMA ApplyIs ==
  ASSUME PatchTypeInv, FrontInv, Pa!ApplyHunk, paStatus = "applying"
  PROVE  /\ Remaining \in 1 .. Len(paDiff) /\ From \in Nat /\ Upto \in Nat
         /\ From <= Upto /\ Upto <= Bound /\ Gain \in Int
         /\ Upto + Gain = From + Len(NextHunk.new) /\ Len(NextHunk.new) \in Nat
         /\ paLeft' \in Seq(HunkRows) /\ Len(paLeft') = Remaining - 1
         /\ \A n \in 1 .. Remaining - 1 : paLeft'[n] = paDiff[n]
         /\ paLines' \in Seq(TextLine) /\ Len(paLines') = Len(paLines) + Gain
         /\ \A i \in 1 .. From : paLines'[i] = paLines[i]
         /\ \A k \in 1 .. Len(NextHunk.new) :
              paLines'[From + k] \in {NextHunk.new[k], Pa!Adapted(NextHunk.new)[k]}
         /\ \A j \in Upto + 1 .. Len(paLines) : paLines'[j + Gain] = paLines[j]
         /\ Bound' = From
         /\ \A n \in 0 .. Len(paDiff) : Moved(n) \in Int /\ Moved(n)' = Moved(n) + Gain
         /\ Moved(Remaining) = 0 /\ \A n : n = Remaining - 1 => Moved(n)' = 0
<1> DEFINE N == Len(paDiff)
           M == Len(paLeft)
           q == paLines
<1>1. /\ paDiff \in Seq(HunkRows) /\ paLeft \in Seq(HunkRows) /\ q \in Seq(TextLine)
      /\ Pa!InPlace(paDiff) /\ paLeft # << >>
      /\ M <= N /\ \A n \in 1 .. M : paLeft[n] = paDiff[n]
      /\ UNCHANGED <<paFile, paDiff>>
  BY DEF PatchTypeInv, Pa!ApplyHunk, Pa!Applying
<1>2. M \in Nat /\ N \in Nat /\ M # 0
  BY <1>1
<1>3. M \in 1 .. N /\ M \in 1 .. M /\ M - 1 \in Nat /\ M - 1 \in 0 .. N /\ M \in 0 .. N
  BY <1>1, <1>2
<1>4. Pa!Last(paLeft) = NextHunk
  BY <1>1, <1>3 DEF Pa!Last, NextHunk, Remaining
<1>5. /\ NextHunk.old \in Seq(TextLine) /\ NextHunk.new \in Seq(TextLine)
      /\ Len(NextHunk.old) \in Nat /\ Len(NextHunk.new) \in Nat /\ From \in Nat
      /\ Upto = From + Len(NextHunk.old) /\ Upto \in Nat /\ From <= Upto
      /\ (M + 1 \in 1 .. N => Upto <= Pa!Index(paDiff[M + 1]))
  BY <1>1, <1>3, HunksAre DEF NextHunk, Remaining, From, Upto
<1>6. PICK s \in Pa!Fitting(NextHunk) :
        paLines' = SubSeq(q, 1, From) \o s \o SubSeq(q, Upto + 1, Len(q))
  BY <1>4 DEF Pa!ApplyHunk, From, Upto
<1>7. ~(Upto > Len(q)) /\ s \in {NextHunk.new, Pa!Adapted(NextHunk.new)}
  BY <1>6 DEF Pa!Fitting, Upto
<1>8. Len(q) \in Nat /\ Len(paFile) \in Nat
  BY <1>1 DEF PatchTypeInv
<1>9. Upto <= Len(q)
  BY <1>5, <1>7, <1>8
<1>10. s \in Seq(TextLine) /\ Len(s) = Len(NextHunk.new)
  BY <1>5, <1>7, AdaptedIs
<1>11. /\ paLeft' \in Seq(HunkRows) /\ Len(paLeft') = M - 1
       /\ \A n \in 1 .. M - 1 : paLeft'[n] = paDiff[n]
  <2> DEFINE p == paLeft
             t == M - 1
             r == SubSeq(p, 1, t)
  <2>1. paLeft' = r
    BY DEF Pa!ApplyHunk, Pa!Front
  <2>2. 1 \in Nat /\ t \in Nat /\ 1 <= 1 /\ 1 <= t + 1 /\ t <= Len(p) /\ t + 1 - 1 = t
    BY <1>2, <1>3
  <2>3. p \in Seq(HunkRows)
    BY <1>1
  <2> HIDE DEF t, r
  <2>4. r = SubSeq(p, 1, t)
    BY DEF r
  <2>5. r \in Seq(HunkRows) /\ Len(r) = t /\ \A n \in 1 .. t : r[n] = p[1 - 1 + n]
    BY <2>2, <2>3, <2>4, SubSeqIs
  <2>6. \A n \in 1 .. t : 1 - 1 + n = n /\ n \in 1 .. M
    BY <1>2 DEF t
  <2>7. \A n \in 1 .. t : r[n] = paDiff[n]
    BY <1>1, <2>5, <2>6
  <2> QED BY <2>1, <2>5, <2>7 DEF t
<1>12. Gain = Len(s) - (Upto - From) /\ Gain \in Int /\ Upto + Gain = From + Len(NextHunk.new)
  <2> DEFINE x == Len(NextHunk.old)
             y == Len(NextHunk.new)
  <2>1. Gain = y - x /\ x \in Nat /\ y \in Nat /\ Upto = From + x /\ From \in Nat /\ Len(s) = y
    BY <1>5, <1>10 DEF Gain
  <2> HIDE DEF x, y
  <2>2. y - x = y - (Upto - From) /\ y - x \in Int /\ Upto + (y - x) = From + y
    BY <2>1
  <2> QED BY <2>1, <2>2 DEF y
<1>13. /\ paLines' \in Seq(TextLine) /\ Len(paLines') = Len(q) + Gain
       /\ \A i \in 1 .. From : paLines'[i] = q[i]
       /\ \A k \in 1 .. Len(s) : paLines'[From + k] = s[k]
       /\ \A j \in Upto + 1 .. Len(q) : paLines'[j + Gain] = q[j]
  <2> DEFINE l == paLines
             a == From
             t == Upto
  <2>1. /\ l \in Seq(TextLine) /\ s \in Seq(TextLine) /\ a \in Nat /\ t \in Nat /\ a <= t /\ t <= Len(l)
        /\ Gain = Len(s) - (t - a) /\ paLines' = Spliced(l, a, s, t)
    BY <1>1, <1>5, <1>6, <1>9, <1>10, <1>12 DEF Spliced
  <2> HIDE DEF l, a, t
  <2>0. l \in Seq(TextLine) /\ s \in Seq(TextLine) /\ a \in Nat /\ t \in Nat /\ a <= t /\ t <= Len(l)
    BY <2>1
  <2> DEFINE r == Spliced(l, a, s, t)
  <2>2. r \in Seq(TextLine)
    BY <2>0, SpliceIs
  <2>3. Len(r) = Len(l) + (Len(s) - (t - a))
    BY <2>0, SpliceIs
  <2>4. \A i \in 1 .. a : r[i] = l[i]
    BY <2>0, SpliceIs
  <2>5. \A k \in 1 .. Len(s) : r[a + k] = s[k]
    BY <2>0, SpliceIs
  <2>6. \A j \in t + 1 .. Len(l) : r[j + (Len(s) - (t - a))] = l[j]
    BY <2>0, SpliceIs
  <2>7. \A j \in t + 1 .. Len(l) : r[j + Gain] = l[j]
    BY <2>1, <2>6
  <2>8. Len(r) = Len(l) + Gain
    BY <2>1, <2>3
  <2> HIDE DEF r
  <2>9. paLines' = r
    BY <2>1 DEF r
  <2> QED BY <2>2, <2>4, <2>5, <2>7, <2>8, <2>9 DEF l, a, t
<1>14. \A k \in 1 .. Len(NextHunk.new) : paLines'[From + k] \in {NextHunk.new[k], Pa!Adapted(NextHunk.new)[k]}
  BY <1>7, <1>10, <1>13
<1>15. Upto <= Bound
  <2>1. CASE M = N
    <3>1. Bound = Len(paFile)
      BY <2>1 DEF Bound
    <3>2. Moved(N) = 0
      <4> DEFINE x == Pa!Shift[N]
      <4>1. x \in Int
        BY <1>1, <1>2, <1>3, <2>1, ShiftIs
      <4>2. Moved(N) = x - x
        BY <2>1 DEF Moved
      <4> HIDE DEF x
      <4> QED BY <4>1, <4>2
    <3>3. Len(q) = Len(paFile)
      BY <1>8, <3>2 DEF FrontInv
    <3> QED BY <1>9, <3>1, <3>3
  <2>2. CASE M # N
    <3>1. M + 1 \in 1 .. N
      BY <1>2, <1>3, <2>2
    <3>2. Bound = Pa!Index(paDiff[M + 1])
      BY <2>2 DEF Bound
    <3> QED BY <1>5, <3>1, <3>2
  <2> QED BY <2>1, <2>2
<1>16. Bound' = From
  <2>1. M - 1 # N /\ M - 1 + 1 = M
    BY <1>2, <1>3
  <2>2. Len(paLeft)' # Len(paDiff)' /\ Len(paLeft)' + 1 = M
    BY <1>1, <1>11, <2>1
  <2>3. Bound' = Pa!Index(paDiff'[Len(paLeft)' + 1])
    BY <2>2 DEF Bound
  <2> QED BY <1>1, <2>2, <2>3 DEF From, NextHunk, Remaining
<1>17. /\ \A n \in 0 .. N : Moved(n) \in Int /\ Moved(n)' = Moved(n) + Gain
       /\ Moved(M) = 0 /\ \A n : n = M - 1 => Moved(n)' = 0
  <2> DEFINE S(n) == Pa!Shift[n]
  <2>1. /\ \A n \in 0 .. N : S(n) \in Int
        /\ S(M) = S(M - 1) + Gain
    <3>1. S(M) = S(M - 1) + (Len(paDiff[M].new) - Len(paDiff[M].old))
      BY <1>1, <1>3, ShiftIs
    <3> QED BY <1>1, <3>1, ShiftIs DEF Gain, NextHunk, Remaining
  <2>2. \A n : Moved(n) = S(n) - S(M)
    BY DEF Moved
  <2>3. \A n : Moved(n)' = S(n) - S(M - 1)
    BY <1>1, <1>11, PatchFrame DEF Moved
  <2>4. S(M) \in Int /\ S(M - 1) \in Int
    BY <1>3, <2>1
  <2> HIDE DEF S
  <2>5. ASSUME NEW n \in 0 .. N PROVE Moved(n) \in Int /\ Moved(n)' = Moved(n) + Gain
    <3>1. S(n) \in Int
      BY <2>1
    <3>2. S(n) - S(M) \in Int /\ S(n) - S(M - 1) = S(n) - S(M) + Gain
      BY <1>12, <2>1, <2>4, <3>1
    <3> QED BY <2>2, <2>3, <3>2
  <2>6. Moved(M) = 0
    <3>1. S(M) - S(M) = 0
      BY <2>4
    <3> QED BY <2>2, <3>1
  <2>7. ASSUME NEW n, n = M - 1 PROVE Moved(n)' = 0
    <3>1. S(n) - S(n) = 0
      BY <2>4, <2>7
    <3>2. Moved(n)' = S(n) - S(M - 1)
      BY <2>3
    <3> QED BY <2>7, <3>1, <3>2
  <2> QED BY <2>5, <2>6, <2>7
<1> QED BY <1>3, <1>5, <1>11, <1>12, <1>13, <1>14, <1>15, <1>16, <1>17 DEF Remaining

LEMMA ApplyFront ==
  ASSUME PatchTypeInv, FrontInv, Pa!ApplyHunk, paStatus = "applying"
  PROVE  FrontInv'
<1> DEFINE a == From
           t == Upto
           g == Gain
           b == Bound
           size == Len(paLines)
           F == Len(paFile)
           w == Len(NextHunk.new)
           v == Moved(Len(paDiff))
<1>1. /\ a \in Nat /\ t \in Nat /\ a <= t /\ t <= b /\ g \in Int /\ t + g = a + w /\ w \in Nat
      /\ Len(paLines') = size + g /\ Bound' = a
      /\ \A i \in 1 .. a : paLines'[i] = paLines[i]
  BY ApplyIs
<1>2. paFile' = paFile /\ paDiff' = paDiff
  BY DEF Pa!ApplyHunk
<1>3. b \in Nat /\ b <= F /\ b <= size /\ size = F + v /\ \A p \in 1 .. b : paLines[p] = paFile[p]
  BY DEF FrontInv
<1>4. size \in Nat /\ F \in Nat /\ Len(paDiff) \in 0 .. Len(paDiff)
  BY DEF PatchTypeInv
<1>5. v \in Int /\ \A n \in 0 .. Len(paDiff) : Moved(n)' = Moved(n) + g
  BY <1>4, ApplyIs
<1>6. Moved(Len(paDiff))' = v + g
  <2> DEFINE N == Len(paDiff)
  <2>1. \A n : n = N => Moved(n)' = Moved(n) + g
    BY <1>4, <1>5
  <2>2. Moved(Len(paDiff))' = Pa!Shift'[Len(paDiff)] - Pa!Shift'[Len(paLeft')]
    BY <1>2 DEF Moved
  <2>3. \A n : Moved(n)' = Pa!Shift'[n] - Pa!Shift'[Len(paLeft')]
    BY DEF Moved
  <2> QED BY <2>1, <2>2, <2>3
<1>7. \A i \in 1 .. a : i \in 1 .. b
  BY <1>1, <1>3
<1>8. \A i \in 1 .. a : paLines'[i] = paFile[i]
  BY <1>1, <1>3, <1>7
<1> HIDE DEF a, t, g, b, size, F, w, v
<1>9. a <= F /\ a <= size + g /\ size + g = F + (v + g)
  <2>1. a <= b /\ a <= F
    BY <1>1, <1>3, <1>4
  <2>2. t <= size /\ t + g <= size + g
    BY <1>1, <1>3, <1>4
  <2>3. a <= a + w
    BY <1>1
  <2> QED BY <1>1, <1>3, <1>4, <1>5, <2>1, <2>2, <2>3
<1> QED BY <1>1, <1>2, <1>6, <1>8, <1>9 DEF FrontInv, F

LEMMA ApplyHunks ==
  ASSUME PatchTypeInv, FrontInv, HunkInv, Pa!ApplyHunk, paStatus = "applying"
  PROVE  HunkInv'
<1> DEFINE Spot(n, x) == Pa!Index(paDiff[n]) + x
<1>1. /\ Remaining \in 1 .. Len(paDiff) /\ Len(paLeft') = Remaining - 1 /\ Bound' = From
      /\ From \in Nat /\ Upto \in Nat /\ Upto <= Bound /\ Gain \in Int
      /\ Upto + Gain = From + Len(NextHunk.new) /\ Len(NextHunk.new) \in Nat
      /\ Len(paLines') = Len(paLines) + Gain
  BY ApplyIs
<1>2. paDiff' = paDiff /\ paFile' = paFile
  BY DEF Pa!ApplyHunk
<1>3. Len(paLines) \in Nat /\ Len(paDiff) \in Nat /\ Bound \in Nat /\ Bound <= Len(paLines)
  BY DEF PatchTypeInv, FrontInv
<1>4. Upto <= Len(paLines)
  BY <1>1, <1>3
<1>6. ASSUME NEW n \in Remaining .. Len(paDiff), NEW k \in 1 .. Len(paDiff[n].new),
             NEW z, \A l : l = n - 1 => z = Moved(l)'
      PROVE  /\ From < Spot(n, z) + k /\ Spot(n, z) + k <= Len(paLines')
             /\ paLines'[Spot(n, z) + k] \in {paDiff[n].new[k], Pa!Adapted(paDiff[n].new)[k]}
  <2>1. n \in 1 .. Len(paDiff) /\ n - 1 \in 0 .. Len(paDiff)
    BY <1>1, <1>3
  <2>2. Len(paDiff[n].new) \in Nat /\ Pa!Index(paDiff[n]) \in Nat
    <3>1. paDiff \in Seq(HunkRows) /\ Pa!InPlace(paDiff)
      BY DEF PatchTypeInv
    <3> QED BY <2>1, <3>1, HunksAre
  <2>3. CASE n = Remaining
    <3>1. z = 0
      BY <1>6, <2>3, ApplyIs
    <3>2. Spot(n, z) = From /\ paDiff[n] = NextHunk
      BY <2>2, <2>3, <3>1 DEF From, NextHunk
    <3>3. paLines'[From + k] \in {NextHunk.new[k], Pa!Adapted(NextHunk.new)[k]}
      BY <3>2, ApplyIs
    <3>4. From < From + k /\ From + k <= Len(paLines')
      <4> DEFINE w == Len(NextHunk.new)
                 size == Len(paLines)
      <4>1. k \in 1 .. w
        BY <3>2
      <4>2. Upto + Gain = From + w /\ w \in Nat /\ Upto <= size /\ size \in Nat /\ Len(paLines') = size + Gain
        BY <1>1, <1>3, <1>4
      <4> HIDE DEF w, size
      <4>3. From + k <= From + w /\ Upto + Gain <= size + Gain
        BY <1>1, <4>1, <4>2
      <4> QED BY <1>1, <4>1, <4>2, <4>3
    <3> QED BY <3>2, <3>3, <3>4
  <2>4. CASE n # Remaining
    <3> DEFINE x == Moved(n - 1)
               i == Spot(n, x) + k
               size == Len(paLines)
    <3>1. n \in Len(paLeft) + 1 .. Len(paDiff)
      BY <1>1, <1>3, <2>1, <2>4 DEF Remaining
    <3>2. /\ Bound < i /\ i <= size
          /\ paLines[i] \in {paDiff[n].new[k], Pa!Adapted(paDiff[n].new)[k]}
      BY <3>1 DEF HunkInv
    <3>3. x \in Int /\ z = x + Gain
      BY <1>6, <2>1, ApplyIs
    <3>4. Spot(n, z) + k = i + Gain /\ i \in Int
      <4> DEFINE c == Pa!Index(paDiff[n])
      <4>1. c \in Nat /\ i = c + x + k /\ Spot(n, z) = c + z
        BY <2>2
      <4> HIDE DEF c, i, x, Spot
      <4> QED BY <1>1, <3>3, <4>1
    <3> HIDE DEF i, x
    <3>5. i \in Upto + 1 .. size
      BY <1>1, <1>3, <3>2, <3>4
    <3>6. paLines'[i + Gain] = paLines[i]
      BY <3>5, ApplyIs
    <3>7. From < i + Gain /\ i + Gain <= size + Gain
      <4> DEFINE w == Len(NextHunk.new)
      <4>1. Upto + Gain = From + w /\ w \in Nat
        BY <1>1
      <4> HIDE DEF w, size
      <4>2. Upto + Gain < i + Gain
        BY <1>1, <3>4, <3>5
      <4>3. i <= size /\ size \in Nat
        BY <1>3, <3>2 DEF size
      <4> QED BY <1>1, <3>4, <4>1, <4>2, <4>3
    <3> QED BY <1>1, <3>2, <3>4, <3>6, <3>7
  <2> QED BY <2>3, <2>4
<1>7. ASSUME NEW n \in Remaining .. Len(paDiff), NEW k \in 1 .. Len(paDiff[n].new)
      PROVE  /\ From < Pa!Index(paDiff[n]) + Moved(n - 1)' + k
             /\ Pa!Index(paDiff[n]) + Moved(n - 1)' + k <= Len(paLines')
             /\ paLines'[Pa!Index(paDiff[n]) + Moved(n - 1)' + k] \in
                  {paDiff[n].new[k], Pa!Adapted(paDiff[n].new)[k]}
  <2> DEFINE z == Pa!Shift'[n - 1] - Pa!Shift'[Len(paLeft')]
  <2>1. Moved(n - 1)' = z /\ \A l : l = n - 1 => z = Moved(l)'
    BY DEF Moved
  <2> HIDE DEF z, Spot
  <2>2. /\ From < Spot(n, z) + k /\ Spot(n, z) + k <= Len(paLines')
        /\ paLines'[Spot(n, z) + k] \in {paDiff[n].new[k], Pa!Adapted(paDiff[n].new)[k]}
    BY <1>6, <2>1
  <2> QED BY <2>1, <2>2 DEF Spot
<1>8. Remaining - 1 + 1 = Remaining
  BY <1>1, <1>3
<1>9. \A n : Pa!Adapted(paDiff[n].new)' = Pa!Adapted(paDiff[n].new)
  BY <1>2 DEF Pa!Adapted, Pa!Convention
<1>10. SUFFICES ASSUME NEW n \in Len(paLeft') + 1 .. Len(paDiff'), NEW k \in 1 .. Len(paDiff'[n].new)
       PROVE  /\ Bound' < Pa!Index(paDiff'[n]) + Moved(n - 1)' + k
              /\ Pa!Index(paDiff'[n]) + Moved(n - 1)' + k <= Len(paLines')
              /\ paLines'[Pa!Index(paDiff'[n]) + Moved(n - 1)' + k] \in
                   {paDiff'[n].new[k], Pa!Adapted(paDiff[n].new)'[k]}
  BY DEF HunkInv
<1>11. n \in Remaining .. Len(paDiff) /\ k \in 1 .. Len(paDiff[n].new) /\ Bound' = From
  BY <1>1, <1>2, <1>8
<1>12. Pa!Adapted(paDiff[n].new)' = Pa!Adapted(paDiff[n].new)
  BY <1>9
<1> HIDE DEF Spot
<1> QED BY <1>2, <1>7, <1>11, <1>12

LEMMA ApplyOthers ==
  ASSUME PatchTypeInv, FrontInv, OtherInv, Pa!ApplyHunk, paStatus = "applying"
  PROVE  OtherInv'
<1>1. /\ Remaining \in 1 .. Len(paDiff) /\ Len(paLeft') = Remaining - 1 /\ Bound' = From
      /\ From \in Nat /\ Upto \in Nat /\ Upto <= Bound /\ Gain \in Int
      /\ Upto + Gain = From + Len(NextHunk.new) /\ Len(NextHunk.new) \in Nat
      /\ Len(paLines') = Len(paLines) + Gain
  BY ApplyIs
<1>2. paDiff' = paDiff /\ paFile' = paFile /\ \A n : Pa!Between(n)' = Pa!Between(n)
  BY PatchFrame DEF Pa!ApplyHunk
<1>3. Len(paLines) \in Nat /\ Len(paDiff) \in Nat /\ Bound \in Nat /\ Bound <= Len(paLines)
  BY DEF PatchTypeInv, FrontInv
<1>4. ASSUME NEW i \in Int, Upto < i, i <= Len(paLines)
      PROVE  /\ From < i + Gain /\ i + Gain <= Len(paLines')
             /\ paLines'[i + Gain] = paLines[i]
  <2>1. i \in Upto + 1 .. Len(paLines)
    BY <1>1, <1>3, <1>4
  <2>2. paLines'[i + Gain] = paLines[i]
    BY <2>1, ApplyIs
  <2> DEFINE w == Len(NextHunk.new)
             size == Len(paLines)
  <2>3. Upto + Gain = From + w /\ w \in Nat /\ size \in Nat /\ i <= size /\ Len(paLines') = size + Gain
    BY <1>1, <1>3, <1>4
  <2> HIDE DEF w, size
  <2>4. Upto + Gain < i + Gain /\ i + Gain <= size + Gain
    BY <1>1, <1>4, <2>3
  <2> QED BY <1>1, <2>2, <2>3, <2>4
<1>5. ASSUME NEW n \in Remaining .. Len(paDiff), NEW p \in Pa!Between(n)
      PROVE  /\ From < p + Moved(n)' /\ p + Moved(n)' <= Len(paLines')
             /\ paLines'[p + Moved(n)'] = paFile[p]
  <2> DEFINE x == Moved(n)
             z == Moved(n)'
  <2>1. n \in 0 .. Len(paDiff) /\ n \in Nat
    BY <1>1, <1>3
  <2>2. x \in Int /\ z = x + Gain
    BY <2>1, ApplyIs
  <2>3. p \in 1 .. Len(paFile) /\ Len(paFile) \in Nat
    BY DEF PatchTypeInv, Pa!Between
  <2>4. /\ p + x \in Int /\ Upto < p + x /\ p + x <= Len(paLines)
        /\ paLines[p + x] = paFile[p]
    <3>1. CASE n = Remaining
      <4>1. x = 0
        BY <3>1, ApplyIs
      <4>2. Upto < p
        <5>1. n > 0
          BY <1>1, <3>1
        <5> QED BY <3>1, <5>1 DEF Pa!Between, Upto, NextHunk
      <4>3. p <= Bound
        <5>1. CASE Len(paLeft) = Len(paDiff)
          BY <2>3, <5>1 DEF Bound
        <5>2. CASE Len(paLeft) # Len(paDiff)
          <6>1. n < Len(paDiff) /\ n = Len(paLeft)
            BY <1>1, <1>3, <3>1, <5>2 DEF Remaining
          <6>2. p <= Pa!Index(paDiff[n + 1])
            BY <6>1 DEF Pa!Between
          <6> QED BY <5>2, <6>1, <6>2 DEF Bound
        <5> QED BY <5>1, <5>2
      <4>4. p + x = p /\ p \in 1 .. Bound
        BY <1>3, <2>3, <4>1, <4>3
      <4>5. paLines[p] = paFile[p]
        BY <4>4 DEF FrontInv
      <4>6. p <= Len(paLines)
        BY <1>3, <2>3, <4>3
      <4> HIDE DEF x
      <4> QED BY <2>3, <4>2, <4>4, <4>5, <4>6
    <3>2. CASE n # Remaining
      <4>1. n \in Len(paLeft) + 1 .. Len(paDiff)
        BY <1>1, <1>3, <2>1, <3>2 DEF Remaining
      <4>2. Bound < p + x /\ p + x <= Len(paLines) /\ paLines[p + x] = paFile[p]
        BY <4>1 DEF OtherInv
      <4> HIDE DEF x
      <4>3. p + x \in Int
        BY <2>2, <2>3
      <4>4. Upto < p + x
        BY <1>1, <1>3, <4>2, <4>3
      <4> QED BY <4>2, <4>3, <4>4
    <3> QED BY <3>1, <3>2
  <2> HIDE DEF x, z
  <2>5. p + z = p + x + Gain
    BY <1>1, <2>2, <2>3
  <2>6. From < p + x + Gain /\ p + x + Gain <= Len(paLines') /\ paLines'[p + x + Gain] = paLines[p + x]
    BY <1>4, <2>4
  <2> QED BY <2>4, <2>5, <2>6 DEF z
<1>6. Remaining - 1 + 1 = Remaining
  BY <1>1, <1>3
<1>7. SUFFICES ASSUME NEW n \in Len(paLeft') + 1 .. Len(paDiff'), NEW p \in Pa!Between(n)'
      PROVE  /\ Bound' < p + Moved(n)' /\ p + Moved(n)' <= Len(paLines')
             /\ paLines'[p + Moved(n)'] = paFile'[p]
  BY DEF OtherInv
<1>8. n \in Remaining .. Len(paDiff) /\ p \in Pa!Between(n) /\ Bound' = From
  BY <1>1, <1>2, <1>6
<1> QED BY <1>2, <1>5, <1>8

LEMMA ApplyWhole ==
  ASSUME PatchTypeInv, FrontInv, WholeInv, Pa!ApplyHunk, paStatus = "applying"
  PROVE  WholeInv'
<1> DEFINE a == From
           t == Upto
           g == Gain
           w == Len(NextHunk.new)
           size == Len(paLines)
           F == Len(paFile)
<1>1. /\ Remaining \in 1 .. Len(paDiff) /\ a \in Nat /\ t \in Nat /\ a <= t /\ t <= Bound /\ g \in Int
      /\ t + g = a + w /\ w \in Nat
      /\ Len(paLines') = size + g
      /\ \A i \in 1 .. a : paLines'[i] = paLines[i]
      /\ \A k \in 1 .. w : paLines'[a + k] \in {NextHunk.new[k], Pa!Adapted(NextHunk.new)[k]}
      /\ \A j \in t + 1 .. size : paLines'[j + g] = paLines[j]
  BY ApplyIs
<1>2. paFile' = paFile /\ paDiff' = paDiff
  BY DEF Pa!ApplyHunk
<1>3. /\ Bound \in Nat /\ Bound <= F /\ Bound <= size
      /\ \A p \in 1 .. Bound : paLines[p] = paFile[p]
      /\ size \in Nat /\ F \in Nat
  BY DEF FrontInv, PatchTypeInv
<1>4. SUFFICES ASSUME Pa!Regular, NEW i \in 1 .. Len(paLines') - 1 PROVE paLines'[i].end # "none"
  BY <1>2, PatchFrame DEF WholeInv, Pa!LinesAreWhole
<1>5. \A j \in 1 .. size - 1 : paLines[j].end # "none"
  BY <1>4 DEF WholeInv, Pa!LinesAreWhole
<1>6. NextHunk = paDiff[Remaining] /\ Remaining \in DOMAIN paDiff
  BY <1>1 DEF NextHunk, PatchTypeInv
<1>7. NextHunk.new \in Seq(TextLine) /\ NextHunk.old \in Seq(TextLine) /\ t = a + Len(NextHunk.old)
  BY <1>1, HunksAre DEF NextHunk, From, Upto, PatchTypeInv
<1>8. i \in 1 .. size + g - 1
  BY <1>1, <1>4
<1>9. CASE i <= a
  <2>1. i \in 1 .. a /\ paLines'[i] = paLines[i]
    BY <1>1, <1>8, <1>9
  <2>2. CASE i < size
    <3>1. i \in 1 .. size - 1
      BY <1>3, <1>8, <2>2
    <3> QED BY <1>5, <2>1, <3>1
  <2>3. CASE ~(i < size)
    <3> HIDE DEF a, t, g, w, size, F
    <3>1. i = size /\ a = size /\ t = a /\ Bound = size /\ size >= 1 /\ size <= F
      BY <1>1, <1>3, <1>8, <2>1, <2>3
    <3>2. paLines[size] = paFile[size]
      BY <1>3, <3>1
    <3>3. CASE size < F
      <4>1. size \in 1 .. F - 1
        BY <1>3, <3>1, <3>3
      <4>2. paFile[size].end # "none"
        BY <4>1 DEF PatchTypeInv, F
      <4> QED BY <2>1, <3>1, <3>2, <4>2
    <3>4. CASE ~(size < F)
      <4>1. size = F /\ F # 0
        BY <1>3, <3>1, <3>4
      <4>2. Len(NextHunk.old) = 0
        <5> DEFINE o == Len(NextHunk.old)
        <5>1. o \in Nat /\ t = a + o
          BY <1>7
        <5> HIDE DEF o
        <5>2. o = 0
          BY <1>1, <3>1, <5>1
        <5> QED BY <5>2 DEF o
      <4>3. NextHunk.old = << >>
        BY <1>7, <4>2
      <4>4. Pa!Index(NextHunk) = Len(paFile)
        BY <3>1, <4>1 DEF a, From, F
      <4>5. paFile = << >> \/ Pa!Terminated(paFile)
        BY <1>4, <1>6, <4>3, <4>4 DEF Pa!Regular
      <4>6. paFile # << >>
        BY <4>1 DEF F
      <4>7. paFile[F].end # "none"
        BY <4>5, <4>6 DEF Pa!Terminated, Pa!Last, F
      <4> QED BY <2>1, <3>1, <3>2, <4>1, <4>7
    <3> QED BY <3>3, <3>4
  <2> QED BY <2>2, <2>3
<1>10. CASE a < i /\ i <= a + w
  <2> DEFINE k == i - a
  <2>1. k \in 1 .. w /\ a + k = i
    <3> HIDE DEF a, t, g, w, size, F
    <3> QED BY <1>1, <1>8, <1>10
  <2>2. paLines'[i] \in {NextHunk.new[k], Pa!Adapted(NextHunk.new)[k]}
    <3> HIDE DEF k
    <3> QED BY <1>1, <2>1
  <2> HIDE DEF k
  <2>3. NextHunk.new[k].end # "none"
    <3>1. \A j \in DOMAIN NextHunk.new : NextHunk.new[j].end # "none"
      BY <1>4, <1>6 DEF Pa!Regular
    <3>2. k \in DOMAIN NextHunk.new
      BY <1>7, <2>1
    <3> QED BY <3>1, <3>2
  <2>4. Pa!Adapted(NextHunk.new)[k].end # "none"
    <3>1. Pa!Adapted(NextHunk.new)[k].end =
            IF NextHunk.new[k].end = "lf" THEN Pa!Convention ELSE NextHunk.new[k].end
      BY <1>7, <2>1, AdaptedIs
    <3>2. Pa!Convention # "none"
      BY DEF Pa!Convention
    <3> QED BY <2>3, <3>1, <3>2
  <2> QED BY <2>2, <2>3, <2>4
<1>11. CASE a + w < i
  <2> DEFINE j == i - g
  <2>1. j \in t + 1 .. size /\ j \in 1 .. size - 1 /\ j + g = i
    <3> HIDE DEF a, t, g, w, size, F
    <3> QED BY <1>1, <1>3, <1>8, <1>11
  <2> HIDE DEF j
  <2>2. paLines'[i] = paLines[j]
    BY <1>1, <2>1
  <2> QED BY <1>5, <2>1, <2>2
<1>12. i <= a \/ (a < i /\ i <= a + w) \/ a + w < i
  <2> HIDE DEF a, t, g, w, size, F
  <2> QED BY <1>1, <1>8
<1> QED BY <1>9, <1>10, <1>11, <1>12

LEMMA ApplyKeeps == ASSUME PatchInv, Pa!ApplyHunk PROVE PatchInv'
<1>1. /\ paStatus = "applying" /\ paStatus' = "applying" /\ PatchTypeInv /\ AppliedInv
      /\ paFile' = paFile /\ paDiff' = paDiff
  BY DEF Pa!ApplyHunk, Pa!Applying, PatchInv
<1>2. FrontInv /\ HunkInv /\ OtherInv /\ WholeInv
  BY <1>1 DEF AppliedInv
<1>3. AppliedInv'
  BY <1>1, <1>2, ApplyFront, ApplyHunks, ApplyOthers, ApplyWhole DEF AppliedInv
<1>4. /\ Remaining \in 1 .. Len(paDiff)
      /\ paLeft' \in Seq(HunkRows) /\ Len(paLeft') = Remaining - 1
      /\ \A n \in 1 .. Remaining - 1 : paLeft'[n] = paDiff[n]
      /\ paLines' \in Seq(TextLine)
  BY <1>1, <1>2, ApplyIs
<1>5. PatchTypeInv'
  <2>1. Len(paDiff) \in Nat /\ Len(paLeft') <= Len(paDiff)
    BY <1>1, <1>4 DEF PatchTypeInv
  <2>2. \A n \in 1 .. Len(paLeft') : paLeft'[n] = paDiff[n]
    BY <1>4
  <2>3. Pa!InPlace(paDiff)
    BY <1>1 DEF PatchTypeInv
  <2>4. Pa!InPlace(paDiff)'
    BY <1>1, <2>3
  <2> QED BY <1>1, <1>4, <2>1, <2>2, <2>4 DEF PatchTypeInv
<1>6. Pa!PatchIsExact'
  BY <1>1 DEF Pa!PatchIsExact
<1> QED BY <1>3, <1>5, <1>6 DEF PatchInv

\* A hunk that names its lines word for word fits.
LEMMA RejectKeeps == ASSUME PatchInv, Pa!Reject PROVE PatchInv'
<1>1. /\ UNCHANGED <<paFile, paDiff, paLines, paLeft>> /\ paStatus = "applying" /\ paLeft # << >>
      /\ paStatus' = "rejected" /\ Pa!Fitting(Pa!Last(paLeft)) = {}
  BY DEF Pa!Reject, Pa!Applying
<1>2. PatchTypeInv /\ FrontInv
  BY <1>1 DEF PatchInv, AppliedInv
<1> DEFINE N == Len(paDiff)
           M == Len(paLeft)
<1>3. /\ paDiff \in Seq(HunkRows) /\ paLeft \in Seq(HunkRows) /\ paLines \in Seq(TextLine)
      /\ paFile \in Seq(TextLine)
      /\ Pa!InPlace(paDiff) /\ M <= N /\ \A n \in 1 .. M : paLeft[n] = paDiff[n]
  BY <1>1, <1>2 DEF PatchTypeInv
<1>4. M \in 1 .. N /\ M \in 1 .. M /\ N \in Nat
  BY <1>1, <1>3
<1>5. Pa!Last(paLeft) = NextHunk
  BY <1>3, <1>4 DEF Pa!Last, NextHunk, Remaining
<1>6. /\ NextHunk.old \in Seq(TextLine) /\ From \in Nat /\ Upto \in Nat
      /\ Upto = From + Len(NextHunk.old) /\ From <= Upto
      /\ (M + 1 \in 1 .. N => Upto <= Pa!Index(paDiff[M + 1]))
  BY <1>3, <1>4, HunksAre DEF NextHunk, Remaining, From, Upto
<1>7. ASSUME Pa!Verbatim PROVE FALSE
  <2>1. Upto <= Len(paFile) /\ SubSeq(paFile, From + 1, Upto) = NextHunk.old
    <3>1. M \in DOMAIN paDiff
      BY <1>3, <1>4
    <3> QED BY <1>7, <3>1 DEF Pa!Verbatim, NextHunk, Remaining, From, Upto
  <2>2. Upto <= Bound
    <3>1. CASE M = N
      BY <2>1, <3>1 DEF Bound
    <3>2. CASE M # N
      <4>1. M + 1 \in 1 .. N
        BY <1>4, <3>2
      <4> QED BY <1>6, <3>2, <4>1 DEF Bound
    <3> QED BY <3>1, <3>2
  <2>3. /\ Bound \in Nat /\ Bound <= Len(paLines) /\ Len(paLines) \in Nat /\ Len(paFile) \in Nat
        /\ \A p \in 1 .. Bound : paLines[p] = paFile[p]
    BY <1>2, <1>3 DEF FrontInv
  <2> DEFINE m == From + 1
             t == Upto
             x == SubSeq(paLines, m, t)
             y == SubSeq(paFile, m, t)
  <2>4. /\ m \in Nat /\ t \in Nat /\ 1 <= m /\ m <= t + 1 /\ t <= Len(paLines) /\ t <= Len(paFile)
        /\ t + 1 - m = Len(NextHunk.old) /\ y = NextHunk.old
    <3> DEFINE o == Len(NextHunk.old)
               l == Len(paLines)
    <3>1. o \in Nat /\ t = From + o /\ l \in Nat /\ t <= Bound /\ Bound <= l /\ t <= Len(paFile)
      BY <1>6, <2>1, <2>2, <2>3
    <3> HIDE DEF o, l, t
    <3>2. t <= l /\ t + 1 - (From + 1) = o /\ m <= t + 1 /\ m \in Nat /\ 1 <= m /\ t \in Nat
      BY <1>6, <2>3, <3>1
    <3> QED BY <2>1, <3>1, <3>2 DEF o, l, t
  <2> HIDE DEF m, t
  <2>5. x \in Seq(TextLine) /\ Len(x) = t + 1 - m /\ \A j \in 1 .. t + 1 - m : x[j] = paLines[m - 1 + j]
    <3>1. m \in Nat /\ t \in Nat /\ 1 <= m /\ m <= t + 1 /\ t <= Len(paLines)
      BY <2>4
    <3>2. paLines \in Seq(TextLine)
      BY <1>3
    <3> QED BY <3>1, <3>2, SubSeqIs
  <2>6. y \in Seq(TextLine) /\ Len(y) = t + 1 - m /\ \A j \in 1 .. t + 1 - m : y[j] = paFile[m - 1 + j]
    <3>1. m \in Nat /\ t \in Nat /\ 1 <= m /\ m <= t + 1 /\ t <= Len(paFile)
      BY <2>4
    <3>2. paFile \in Seq(TextLine)
      BY <1>3
    <3> QED BY <3>1, <3>2, SubSeqIs
  <2>7. \A j \in 1 .. t + 1 - m : m - 1 + j \in 1 .. Bound
    <3>1. t <= Bound
      BY <2>2 DEF t
    <3> QED BY <2>3, <2>4, <3>1
  <2>8. \A j \in 1 .. t + 1 - m : x[j] = y[j]
    BY <2>3, <2>5, <2>6, <2>7
  <2>9. x = SubSeq(paLines, Pa!Index(NextHunk) + 1, Pa!End(NextHunk))
    BY DEF m, t, From, Upto
  <2> HIDE DEF x, y
  <2>10. \A atEnd : Pa!Match(x, NextHunk.old, atEnd)
    <3>1. Len(x) = Len(NextHunk.old) /\ DOMAIN x = 1 .. t + 1 - m
      BY <2>4, <2>5
    <3>2. \A j \in DOMAIN x : x[j] = NextHunk.old[j]
      BY <2>4, <2>8, <3>1
    <3> QED BY <3>1, <3>2 DEF Pa!Match
  <2>11. ~(Pa!End(NextHunk) > Len(paLines))
    BY <1>6, <2>3, <2>4 DEF t, Upto
  <2>12. Pa!Fitting(NextHunk) = {NextHunk.new}
    BY <2>9, <2>10, <2>11 DEF Pa!Fitting
  <2> QED BY <1>1, <1>5, <2>12
<1>8. ~(Pa!Verbatim')
  BY <1>1, <1>7, PatchFrame
<1>9. Pa!PatchIsExact'
  BY <1>1, <1>8 DEF Pa!PatchIsExact
<1>10. PatchTypeInv'
  BY <1>1, <1>2 DEF PatchTypeInv
<1> QED BY <1>1, <1>9, <1>10 DEF PatchInv

\* Only the end of the last line may change when a file is saved.
LEMMA RestoredIs ==
  ASSUME paFile \in Seq(TextLine), paLines \in Seq(TextLine)
  PROVE  /\ Pa!Restored \in Seq(TextLine) /\ Len(Pa!Restored) = Len(paLines)
         /\ \A i \in 1 .. Len(paLines) : /\ Pa!Restored[i].text = paLines[i].text
                                         /\ i < Len(paLines) => Pa!Restored[i] = paLines[i]
         /\ Len(paLines) # 0 =>
              (Pa!Restored[Len(paLines)].end # "none" <=> Pa!Terminated(paFile))
<1> DEFINE size == Len(paLines)
           e == IF Pa!Terminated(paFile) THEN Pa!Convention ELSE "none"
<1>1. size \in Nat /\ DOMAIN paLines = 1 .. size /\ \A i \in 1 .. size : paLines[i] \in TextLine
  OBVIOUS
<1>2. Pa!Convention \in {"lf", "crlf"}
  BY DEF Pa!Convention
<1>3. e \in {"lf", "crlf", "none"} /\ (e # "none" <=> Pa!Terminated(paFile))
  BY <1>2
<1>4. Pa!Terminated(paLines) <=> size # 0 /\ paLines[size].end # "none"
  BY <1>1 DEF Pa!Terminated, Pa!Last
<1>5. CASE paLines = << >> \/ Pa!Terminated(paFile) = Pa!Terminated(paLines)
  <2>1. Pa!Restored = paLines
    BY <1>5 DEF Pa!Restored
  <2>2. size # 0 => (paLines[size].end # "none" <=> Pa!Terminated(paFile))
    <3>1. CASE paLines = << >>
      BY <3>1
    <3>2. CASE Pa!Terminated(paFile) = Pa!Terminated(paLines)
      <4>1. Pa!Terminated(paFile) <=> Pa!Terminated(paLines)
        BY <3>2
      <4> QED BY <1>4, <4>1
    <3> QED BY <1>5, <3>1, <3>2
  <2> QED BY <2>1, <2>2
<1>6. CASE ~(paLines = << >> \/ Pa!Terminated(paFile) = Pa!Terminated(paLines))
  <2>1. Pa!Restored = [paLines EXCEPT ![size].end = e]
    BY <1>6 DEF Pa!Restored
  <2>2. size \in 1 .. size
    BY <1>1, <1>6
  <2> DEFINE new == [paLines[size] EXCEPT !.end = e]
  <2>3. new \in TextLine /\ new.text = paLines[size].text /\ new.end = e
    <3>1. paLines[size] \in TextLine
      BY <1>1, <2>2
    <3> HIDE DEF e, size
    <3> QED BY <1>3, <3>1 DEF TextLine
  <2>4. Pa!Restored = [paLines EXCEPT ![size] = new]
    BY <2>1
  <2> HIDE DEF new, e
  <2>5. Pa!Restored = [i \in 1 .. size |-> IF i = size THEN new ELSE paLines[i]]
    BY <1>1, <2>4
  <2> DEFINE r == [i \in 1 .. size |-> IF i = size THEN new ELSE paLines[i]]
  <2>6. r \in Seq(TextLine) /\ Len(r) = size
    <3> HIDE DEF size
    <3> QED BY <1>1, <2>3
  <2>7. r[size] = new /\ \A i \in 1 .. size : i # size => r[i] = paLines[i]
    BY <2>2
  <2> HIDE DEF r
  <2>8. \A i \in 1 .. size : r[i].text = paLines[i].text /\ (i < size => r[i] = paLines[i])
    <3> TAKE i \in 1 .. size
    <3>1. CASE i = size
      <4>1. r[i].text = paLines[i].text
        BY <2>3, <2>7, <3>1
      <4>2. ~(i < size)
        BY <1>1, <3>1
      <4> QED BY <4>1, <4>2
    <3>2. CASE i # size
      BY <2>7, <3>2
    <3> QED BY <3>1, <3>2
  <2>9. r[size].end # "none" <=> Pa!Terminated(paFile)
    BY <1>3, <2>3, <2>7
  <2>10. Pa!Restored = r
    BY <2>5 DEF r
  <2> HIDE DEF size
  <2> QED BY <2>6, <2>8, <2>9, <2>10 DEF size
<1> QED BY <1>5, <1>6

LEMMA SaveKeeps == ASSUME PatchInv, Pa!Save PROVE PatchInv'
<1> DEFINE N == Len(paDiff)
           size == Len(paLines)
           r == Pa!Restored
<1>1. /\ UNCHANGED <<paFile, paDiff, paLeft>> /\ paStatus = "applying" /\ paLeft = << >>
      /\ paLines' = r /\ paStatus' = "patched"
  BY DEF Pa!Save
<1>2. PatchTypeInv /\ FrontInv /\ HunkInv /\ OtherInv /\ WholeInv
  BY <1>1 DEF PatchInv, AppliedInv
<1>3. /\ paFile \in Seq(TextLine) /\ paLines \in Seq(TextLine) /\ paDiff \in Seq(HunkRows)
      /\ Pa!InPlace(paDiff) /\ N \in Nat /\ size \in Nat /\ Len(paFile) \in Nat
  BY <1>1, <1>2 DEF PatchTypeInv
<1>4. /\ r \in Seq(TextLine) /\ Len(r) = size
      /\ \A i \in 1 .. size : r[i].text = paLines[i].text /\ (i < size => r[i] = paLines[i])
      /\ size # 0 => (r[size].end # "none" <=> Pa!Terminated(paFile))
  BY <1>3, RestoredIs
<1> HIDE DEF r
<1>5. Len(paLeft) = 0 /\ 0 \in 0 .. N /\ \A n \in 1 .. N : n \in 0 .. N /\ n - 1 \in 0 .. N
  BY <1>1, <1>3
<1>6. \A n \in 0 .. N : Moved(n) = Pa!Shift[n]
  <2>1. Pa!Shift[0] = 0 /\ \A n \in 0 .. N : Pa!Shift[n] \in Int
    BY <1>3, ShiftIs
  <2> DEFINE S(n) == Pa!Shift[n]
  <2>2. \A n : Moved(n) = S(n) - S(0)
    BY <1>5 DEF Moved
  <2> HIDE DEF S
  <2>3. \A n \in 0 .. N : S(n) \in Int
    BY <2>1 DEF S
  <2>4. S(0) = 0
    BY <2>1 DEF S
  <2>5. \A n \in 0 .. N : Moved(n) = S(n)
    BY <2>2, <2>3, <2>4
  <2> QED BY <2>5 DEF S
<1>7. Bound \in Nat /\ Bound <= size /\ \A p \in 1 .. Bound : paLines[p] = paFile[p]
  BY <1>2 DEF FrontInv
\* What stood in the lines stands in what is saved.
<1>8. ASSUME NEW i \in Int, NEW line, NEW ends, 1 <= i, i <= size, paLines[i].text = line.text,
             paLines[i].end \in {line.end} \cup ends
      PROVE  /\ i \in DOMAIN r /\ r[i].text = line.text
             /\ i < Len(r) => r[i].end \in {line.end} \cup ends
  <2>1. i \in 1 .. size
    BY <1>3, <1>8
  <2> QED BY <1>4, <1>8, <2>1
<1>9. Pa!Shift' = Pa!Shift /\ Pa!Convention' = Pa!Convention /\ \A n : Pa!Between(n)' = Pa!Between(n)
  BY <1>1, PatchFrame
<1>10. Len(paLines') = Len(paFile') + Pa!Shift'[Len(paDiff')]
  <2>1. size = Len(paFile) + Moved(N)
    BY <1>2 DEF FrontInv
  <2>2. N \in 0 .. N
    BY <1>3
  <2>3. Moved(N) = Pa!Shift[N]
    BY <1>6, <2>2
  <2> QED BY <1>1, <1>4, <1>9, <2>1, <2>3
<1>11. Pa!HunksStand'
  <2>1. ASSUME NEW n \in 1 .. N, NEW k \in 1 .. Len(paDiff[n].new),
               NEW i, i = Pa!Index(paDiff[n]) + Pa!Shift[n - 1] + k
        PROVE  /\ i \in DOMAIN r /\ r[i].text = paDiff[n].new[k].text
               /\ i < Len(r) => r[i].end \in {paDiff[n].new[k].end} \cup {Pa!Convention}
    <3>1. Moved(n - 1) = Pa!Shift[n - 1]
      BY <1>5, <1>6
    <3>2. n \in Len(paLeft) + 1 .. Len(paDiff)
      BY <1>5
    <3>3. /\ Bound < i /\ i <= size
          /\ paLines[i] \in {paDiff[n].new[k], Pa!Adapted(paDiff[n].new)[k]}
      BY <1>2, <2>1, <3>1, <3>2 DEF HunkInv
    <3>4. paDiff[n].new \in Seq(TextLine) /\ Pa!Index(paDiff[n]) \in Nat
      BY <1>3, HunksAre
    <3>5. i \in Int
      <4> DEFINE x == Pa!Shift[n - 1]
                 y == Pa!Index(paDiff[n])
      <4>1. x \in Int
        BY <1>3, <1>5, ShiftIs
      <4>2. y \in Int /\ k \in Int /\ i = y + x + k
        BY <2>1, <3>4
      <4> HIDE DEF x, y
      <4> QED BY <4>1, <4>2
    <3>6. 1 <= i
      BY <1>7, <3>3, <3>5
    <3>7. /\ paLines[i].text = paDiff[n].new[k].text
          /\ paLines[i].end \in {paDiff[n].new[k].end} \cup {Pa!Convention}
      <4>1. /\ Pa!Adapted(paDiff[n].new)[k].text = paDiff[n].new[k].text
            /\ Pa!Adapted(paDiff[n].new)[k].end =
                 IF paDiff[n].new[k].end = "lf" THEN Pa!Convention ELSE paDiff[n].new[k].end
        BY <3>4, AdaptedIs
      <4> QED BY <3>3, <4>1
    <3> QED BY <1>8, <3>3, <3>5, <3>6, <3>7
  <2>2. DOMAIN paDiff = 1 .. N /\ \A n \in 1 .. N : DOMAIN paDiff[n].new = 1 .. Len(paDiff[n].new)
    <3>1. ASSUME NEW n \in 1 .. N PROVE DOMAIN paDiff[n].new = 1 .. Len(paDiff[n].new)
      <4>1. paDiff[n].new \in Seq(TextLine)
        BY <1>3, HunksAre
      <4> QED BY <4>1
    <3> QED BY <1>3, <3>1
  <2> QED BY <1>1, <1>9, <2>1, <2>2 DEF Pa!HunksStand, Pa!Stands, Pa!Index
<1>12. Pa!OthersStand'
  <2>1. ASSUME NEW n \in 0 .. N, NEW p \in Pa!Between(n), NEW i, i = p + Pa!Shift[n]
        PROVE  /\ i \in DOMAIN r /\ r[i].text = paFile[p].text
               /\ i < Len(r) => r[i].end \in {paFile[p].end} \cup {}
    <3>1. p \in 1 .. Len(paFile)
      BY <1>3 DEF Pa!Between
    <3>2. Pa!Shift[n] \in Int /\ Moved(n) = Pa!Shift[n]
      BY <1>3, <1>6, ShiftIs
    <3>3. i \in Int
      BY <1>3, <2>1, <3>1, <3>2
    <3>4. 1 <= i /\ i <= size /\ paLines[i] = paFile[p]
      <4>1. CASE n = 0
        <5>1. Pa!Shift[0] = 0
          BY <1>3, ShiftIs
        <5>2. i = p
          BY <1>3, <2>1, <3>1, <4>1, <5>1
        <5>3. p <= Bound
          <6>1. CASE N = 0
            BY <1>5, <3>1, <6>1 DEF Bound
          <6>2. CASE N # 0
            <7>1. p <= Pa!Index(paDiff[n + 1]) /\ n + 1 = 1
              <8>1. n < Len(paDiff)
                BY <1>3, <4>1, <6>2
              <8> QED BY <4>1, <8>1 DEF Pa!Between
            <7>2. Bound = Pa!Index(paDiff[1])
              BY <1>5, <6>2 DEF Bound
            <7> QED BY <7>1, <7>2
          <6> QED BY <6>1, <6>2
        <5>4. p \in 1 .. Bound /\ p <= size
          BY <1>3, <1>7, <3>1, <5>3
        <5> QED BY <1>7, <3>1, <5>2, <5>4
      <4>2. CASE n # 0
        <5>1. n \in Len(paLeft) + 1 .. Len(paDiff)
          BY <1>3, <1>5, <4>2
        <5>2. Bound < i /\ i <= size /\ paLines[i] = paFile[p]
          BY <1>2, <2>1, <3>2, <5>1 DEF OtherInv
        <5>3. 1 <= i
          BY <1>7, <3>3, <5>2
        <5> QED BY <5>2, <5>3
      <4> QED BY <4>1, <4>2
    <3>5. paLines[i].text = paFile[p].text /\ paLines[i].end \in {paFile[p].end} \cup {}
      BY <3>4
    <3> QED BY <1>8, <3>3, <3>4, <3>5
  <2> QED BY <1>1, <1>9, <2>1 DEF Pa!OthersStand, Pa!Stands
<1>13. paLines' # << >> => Pa!Terminated(paLines)' = Pa!Terminated(paFile)'
  <2> SUFFICES ASSUME r # << >> PROVE Pa!Terminated(r) = Pa!Terminated(paFile)
    BY <1>1 DEF Pa!Terminated
  <2>1. size # 0
    BY <1>4
  <2>2. Pa!Terminated(r) <=> r[size].end # "none"
    BY <1>4 DEF Pa!Terminated, Pa!Last
  <2>3. Pa!Terminated(r) \in BOOLEAN /\ Pa!Terminated(paFile) \in BOOLEAN
    BY DEF Pa!Terminated
  <2>4. Pa!Terminated(r) <=> Pa!Terminated(paFile)
    BY <1>4, <2>1, <2>2
  <2> QED BY <2>3, <2>4
<1>14. Pa!Regular' => Pa!LinesAreWhole'
  <2> SUFFICES ASSUME Pa!Regular, NEW i \in 1 .. size - 1 PROVE r[i].end # "none"
    BY <1>1, <1>4, PatchFrame DEF Pa!LinesAreWhole
  <2>1. i \in 1 .. size /\ i < size
    BY <1>3
  <2>2. paLines[i].end # "none"
    BY <1>2 DEF WholeInv, Pa!LinesAreWhole
  <2> QED BY <1>4, <2>1, <2>2
<1>15. Pa!PatchIsExact'
  BY <1>1, <1>10, <1>11, <1>12, <1>13, <1>14 DEF Pa!PatchIsExact
<1>16. PatchTypeInv'
  BY <1>1, <1>2, <1>4 DEF PatchTypeInv
<1> QED BY <1>1, <1>15, <1>16 DEF PatchInv

\* A diff is applied to exactly the lines it names or not at all, and a diff in
\* order that matches word for word is never rejected (tools/builtin/patch.py,
\* _validate_hunk_ranges, _apply).
THEOREM PatchesStayExact == MCSpec => []PatchIsExact
<1>1. MCInit => PatchInv
  BY PatchInit DEF MCInit
<1>2. PatchInv /\ [MCNext]_allVars => PatchInv'
  <2>1. ASSUME PatchInv, UNCHANGED paVars PROVE PatchInv'
    <3>1. UNCHANGED <<paFile, paDiff, paLines, paLeft, paStatus>>
      BY <2>1 DEF paVars
    <3>2. PatchTypeInv'
      BY <2>1, <3>1 DEF PatchInv, PatchTypeInv
    <3>3. Pa!PatchIsExact'
      <4>1. Pa!HunksStand' <=> Pa!HunksStand
        BY <3>1, PatchFrame DEF Pa!HunksStand, Pa!Stands
      <4>2. Pa!OthersStand' <=> Pa!OthersStand
        BY <3>1, PatchFrame DEF Pa!OthersStand, Pa!Stands
      <4>3. Pa!LinesAreWhole' <=> Pa!LinesAreWhole
        BY <3>1 DEF Pa!LinesAreWhole
      <4> QED BY <2>1, <3>1, <4>1, <4>2, <4>3, PatchFrame DEF PatchInv, Pa!PatchIsExact
    <3>4. AppliedInv => AppliedInv'
      BY <3>1, AppliedStays
    <3> QED BY <2>1, <3>1, <3>2, <3>3, <3>4 DEF PatchInv
  <2>2. MCNext => Pa!Next \/ UNCHANGED paVars
    BY DEF MCNext
  <2>3. UNCHANGED allVars => UNCHANGED paVars
    BY DEF allVars
  <2>4. PatchInv /\ Pa!Next => PatchInv'
    BY ValidateKeeps, ApplyKeeps, RejectKeeps, SaveKeeps DEF Pa!Next
  <2> QED BY <2>1, <2>2, <2>3, <2>4
<1>3. PatchInv => PatchIsExact
  BY DEF PatchInv, PatchIsExact
<1> QED BY <1>1, <1>2, <1>3, PTL DEF MCSpec

=============================================================================
