--------------------------- MODULE WorkersProofs ---------------------------
(***************************************************************************)
(* The plugin hooks, the requests of a run, the evaluation jobs and the    *)
(* browser plugin beside each other in MCWorkers, for every value of the   *)
(* constants: shutdown is final and every objection counts, for any number *)
(* of plugins and of concurrent calls of start and aclose; what a response *)
(* gives to the loop is whole and what it cost is accounted for, for any   *)
(* number of requests, also beside each other, and any limits, wherever    *)
(* one is cut off; a trial is decided once by attempts that are unique; a  *)
(* browser session gives back what it made and reaches only what its user  *)
(* agreed to, for any number of calls, hosts, launches, tunnels and tabs.  *)
(***************************************************************************)
EXTENDS MCWorkers, Sequences, TLAPS, FiniteSetTheorems

-----------------------------------------------------------------------------
(* Plugin hooks *)

\* The lifecycle lock: who is between its entry and its exit holds it alone.
LockInv ==
  /\ pc \in [Tasks -> {"idle", "queued", "starting", "closing"}]
  /\ op \in [Tasks -> {"start", "close"}]
  /\ \A t \in Tasks : pc[t] \in {"starting", "closing"} => lock = {t}

\* Nothing starts once a close was entered, and before it nothing is closed:
\* so what runs was never closed.
ShutInv ==
  /\ closing \in BOOLEAN /\ returned \in BOOLEAN
  /\ \A t \in Tasks : pc[t] = "starting" => ~closing
  /\ \A t \in Tasks : pc[t] = "closing" => closing
  /\ ~closing => closed = {} /\ ~returned
  /\ closed \subseteq All /\ running \subseteq All \ closed
  /\ returned => closed = All

LifecycleInv == LockInv /\ ShutInv

\* Somebody who is against it ends the asking at once.
ChainInv == verdict \in {"none", "passed"} => ~objected

LEMMA InitLifecycle == Init => LifecycleInv
  BY DEF Init, LifecycleInv, LockInv, ShutInv

\* The steps of one task, each under the lock or on the way to it.
LEMMA LifecycleStep ==
  ASSUME LifecycleInv, NEW t \in Tasks,
         \/ Call(t) \/ Enter(t) \/ StartNext(t) \/ Started(t) \/ CloseNext(t)
         \/ Closed(t) \/ CancelQueued(t)
  PROVE  LifecycleInv'
<1> USE DEF LifecycleInv, LockInv, ShutInv, Leave, asking
<1>1. CASE Call(t)
  BY <1>1 DEF Call
<1>2. CASE Enter(t)
  BY <1>2 DEF Enter, MayStart
<1>3. CASE StartNext(t)
  <2>1. PICK p \in Earliest(All \ started) :
          /\ running' = running \cup {p}
          /\ \/ started' = started \cup {p} /\ UNCHANGED <<pc, lock>>
             \/ Leave(t) /\ UNCHANGED started
    BY <1>3 DEF StartNext
  <2>2. p \in All /\ ~closing /\ closed = {}
    BY <2>1, <1>3 DEF StartNext, Earliest
  <2>3. QED BY <1>3, <2>1, <2>2 DEF StartNext, All
<1>4. CASE Started(t)
  BY <1>4 DEF Started
<1>5. CASE CloseNext(t)
  <2>1. PICK p \in Latest(ToClose) :
          \/ closed' = closed \cup {p} /\ running' = running \ {p} /\ UNCHANGED <<pc, lock>>
          \/ running' \in {running, running \ {p}} /\ Leave(t) /\ UNCHANGED closed
    BY <1>5 DEF CloseNext
  <2>2. p \in All
    BY <2>1 DEF Latest, ToClose
  <2>3. closing /\ ToClose # {} /\ pc[t] = "closing"
    BY <1>5 DEF CloseNext
  <2>4. ~returned
    BY <2>3 DEF ToClose
  <2>5. QED BY <1>5, <2>1, <2>2, <2>3, <2>4 DEF CloseNext, All
<1>6. CASE Closed(t)
  BY <1>6 DEF Closed, ToClose
<1>7. CASE CancelQueued(t)
  BY <1>7 DEF CancelQueued
<1>8. QED BY <1>1, <1>2, <1>3, <1>4, <1>5, <1>6, <1>7

\* Asking the plugins is not under the lock and leaves the lifecycle alone.
LEMMA ChainKeepsLifecycle == LifecycleInv /\ (Chain \/ UNCHANGED vars) => LifecycleInv'
<1>1. Chain \/ UNCHANGED vars => UNCHANGED lifecycle
  BY DEF Chain, Ask, Agrees, Objects, AsksTheUser, Fails, Answered, Passes, Done, vars
<1>2. LifecycleInv /\ UNCHANGED lifecycle => LifecycleInv'
  BY DEF LifecycleInv, LockInv, ShutInv, lifecycle, All
<1>3. QED BY <1>1, <1>2

LEMMA ChainStep == ChainInv /\ [Next]_vars => ChainInv'
<1> SUFFICES ASSUME ChainInv, [Next]_vars PROVE ChainInv'
  OBVIOUS
<1> USE DEF ChainInv
<1>1. CASE Lifecycle
  BY <1>1 DEF Lifecycle, Call, Enter, StartNext, Started, CloseNext, Closed, CancelQueued, asking
<1>2. CASE Ask \/ Agrees \/ Objects \/ AsksTheUser \/ Passes \/ Done
  BY <1>2 DEF Ask, Agrees, Objects, AsksTheUser, Passes, Done, Asking, Goes
<1>3. CASE Fails
  BY <1>3 DEF Fails, Asking, Goes
<1>4. ASSUME NEW yes \in BOOLEAN, NEW failed \in BOOLEAN, Answered(yes, failed)
      PROVE  ChainInv'
  BY <1>4 DEF Answered, Goes, Accepts
<1>5. CASE UNCHANGED vars
  BY <1>5 DEF vars, asking
<1>6. QED BY <1>1, <1>2, <1>3, <1>4, <1>5 DEF Next, Chain

\* Whatever fails, waits or is cancelled, in any order of calls: once an aclose
\* has returned no plugin runs, and what was passed nobody objected to
\* (HookRunner.start, aclose, before_tool).
THEOREM Honoured == Spec => []HooksAreHonoured
<1>1. Init => LifecycleInv /\ ChainInv
  BY InitLifecycle DEF Init, ChainInv
<1>2. LifecycleInv /\ ChainInv /\ [Next]_vars => LifecycleInv' /\ ChainInv'
  BY LifecycleStep, ChainKeepsLifecycle, ChainStep DEF Next, Lifecycle
<1>3. LifecycleInv /\ ChainInv => HooksAreHonoured
  BY DEF LifecycleInv, ShutInv, ChainInv, HooksAreHonoured, NothingRunsAfterClose,
         PassedUnopposed
<1>4. QED BY <1>1, <1>2, <1>3, PTL DEF Spec

-----------------------------------------------------------------------------
(* Requests *)

RqCalls == {"none", "empty", "part", "whole"}

Response ==
  [call : RqCalls, finish : {"none", "stop", "length"},
   thinking : {"none", "open", "signed"}, text : BOOLEAN, usage : SUBSET Rq!Counts]

Given == [call : {"none", "valid", "invalid"}, thinking : {"none", "open", "signed"}]

Request ==
  [provider : {"openai", "anthropic"}, intent : {"none", "bare", "full"},
   pc : {"opening", "streaming", "closing", "delivered", "settled"},
   got : Response, ending : {"none", "end", "broken", "stop"},
   observed : SUBSET Rq!Counts, given : Given,
   transport : {"none", "open", "background", "closed"}, cut : BOOLEAN]

\* A response that says it stopped of itself is complete: after the finish
\* reason only counts arrive. Thinking is Anthropic's, and a call is made only
\* if the model meant to make one.
Finished(r) ==
  /\ r.got.finish = "stop" => Rq!Complete(r) /\ r.got.thinking # "open"
  /\ r.provider = "openai" => r.got.thinking = "none"
  /\ r.got.call # "none" => r.intent # "none"

\* Only a delivered chunk is given, and it is whole.
GivenWhole(r) ==
  /\ r.pc # "delivered" => r.given = Rq!NoChunk
  /\ r.given.call = "valid" => Rq!Complete(r)
  /\ r.given.thinking # "open"

\* When the counts of a request are reported: not before its stream is read, and
\* before it is closed in one client, afterwards in the other - or never, when a
\* Stop hits that close.
Reporting(r) ==
  /\ r.pc = "opening" => r.got.usage = {} /\ r.observed = {}
  /\ r.pc = "streaming" => r.observed = {}
  /\ r.pc = "closing" => r.observed = IF r.provider = "openai" THEN r.got.usage ELSE {}
  /\ r.pc = "delivered" => r.observed = r.got.usage
  /\ r.pc = "settled" => r.observed = r.got.usage \/ (r.cut /\ r.observed = {})

\* Only a stream that is read or being closed has its transport open.
Transporting(r) ==
  /\ r.cut => r.pc = "settled"
  /\ r.transport = "open" => r.pc \in {"streaming", "closing"} \/ r.cut

Sound(r) == r \in Request /\ Finished(r) /\ GivenWhole(r) /\ Reporting(r) /\ Transporting(r)

\* A request that is about to be settled.
Ready(r) ==
  /\ r \in Request
  /\ r.observed = r.got.usage \/ (r.cut /\ r.observed = {})
  /\ r.transport = "open" => r.cut

LEMMA FreshIsSound ==
  ASSUME NEW p \in {"openai", "anthropic"}, NEW i \in {"none", "bare", "full"}
  PROVE  Sound(Rq!Fresh(p, i)) /\ Rq!Fresh(p, i).observed = {} /\ Rq!Fresh(p, i).pc = "opening"
<1>1. Rq!Nothing \in Response /\ Rq!NoChunk \in Given
  BY DEF Rq!Nothing, Rq!NoChunk, Response, Given, RqCalls
<1>2. Rq!Fresh(p, i) \in Request
  BY <1>1 DEF Rq!Fresh, Request
<1> QED BY <1>2 DEF Rq!Fresh, Rq!Nothing, Rq!NoChunk, Sound, Finished, GivenWhole, Reporting,
              Transporting, Rq!Complete

LEMMA OverIsSound ==
  ASSUME NEW r, Ready(r)
  PROVE  /\ Sound(Rq!Over(r)) /\ Rq!Over(r).observed = r.observed /\ Rq!Over(r).pc = "settled"
         /\ Rq!Over(r).got.usage = r.got.usage /\ Rq!Over(r).cut = r.cut
<1> DEFINE g == [Rq!Nothing EXCEPT !.usage = r.got.usage]
           o == Rq!Over(r)
<1>1. r \in Request /\ r.got.usage \in SUBSET Rq!Counts
  BY DEF Ready, Request, Response
<1>2. g \in Response /\ g.usage = r.got.usage /\ g.call = "none" /\ g.finish = "none"
      /\ g.thinking = "none"
  BY <1>1 DEF Rq!Nothing, Response, RqCalls
<1>3. Rq!NoChunk \in Given /\ Rq!NoChunk.call = "none" /\ Rq!NoChunk.thinking = "none"
  BY DEF Rq!NoChunk, Given
<1> HIDE DEF g
<1>4. o \in Request
  BY <1>1, <1>2, <1>3 DEF Rq!Over, Request, g
<1>5. /\ o.pc = "settled" /\ o.intent = "none" /\ o.given = Rq!NoChunk /\ o.got = g
      /\ o.observed = r.observed /\ o.transport = r.transport /\ o.cut = r.cut
      /\ o.provider = r.provider
  BY <1>1 DEF Rq!Over, Request, g
<1> HIDE DEF o
<1>6. Sound(o)
  BY <1>2, <1>3, <1>4, <1>5 DEF Ready, Sound, Finished, GivenWhole, Reporting, Transporting, Rq!Complete
<1> QED BY <1>2, <1>5, <1>6 DEF o

\* One event of the stream keeps the response well-formed.
LEMMA ArrivalIsSound ==
  ASSUME NEW r, Sound(r), r.pc = "streaming", NEW g \in Rq!Arrivals(r)
  PROVE  LET q == [r EXCEPT !.got = g]
         IN Sound(q) /\ q.pc = "streaming" /\ q.observed = r.observed
<1> DEFINE q == [r EXCEPT !.got = g]
<1>1. r \in Request /\ r.got \in Response /\ r.given = Rq!NoChunk /\ Finished(r)
  BY DEF Sound, Request, GivenWhole
<1>2. /\ g \in Response => q \in Request
      /\ q.got = g /\ q.provider = r.provider /\ q.intent = r.intent /\ q.pc = r.pc
      /\ q.given = r.given /\ q.observed = r.observed /\ q.transport = r.transport /\ q.cut = r.cut
  BY <1>1 DEF Request
<1> HIDE DEF q
<1>3. SUFFICES g \in Response /\ Finished(q)
  BY <1>1, <1>2 DEF q, Sound, GivenWhole, Reporting, Transporting, Rq!NoChunk
<1>4. CASE \E u \in Rq!NextUsage(r) : g = [r.got EXCEPT !.usage = u]
  <2>1. PICK u \in Rq!NextUsage(r) : g = [r.got EXCEPT !.usage = u]
    BY <1>4
  <2>2. g \in Response /\ g.call = r.got.call /\ g.finish = r.got.finish /\ g.thinking = r.got.thinking
    BY <1>1, <2>1 DEF Rq!NextUsage, Response
  <2> QED BY <1>1, <1>2, <2>2 DEF Finished, Rq!Complete
<1>5. CASE r.got.finish = "none" /\ \E c \in Rq!NextCall(r) : g = [r.got EXCEPT !.call = c]
  <2>1. PICK c \in Rq!NextCall(r) : g = [r.got EXCEPT !.call = c]
    BY <1>5
  <2>2. c \in RqCalls /\ r.intent # "none"
    BY <1>1, <2>1 DEF Rq!NextCall, RqCalls, Response, Finished
  <2>3. g \in Response /\ g.finish = "none" /\ g.thinking = r.got.thinking
    BY <1>1, <1>5, <2>1, <2>2 DEF Response
  <2> QED BY <1>1, <1>2, <2>2, <2>3 DEF Finished
<1>6. CASE r.got.finish = "none" /\ \E f \in Rq!Finishes(r) : g = [r.got EXCEPT !.finish = f]
  <2>1. PICK f \in Rq!Finishes(r) : g = [r.got EXCEPT !.finish = f]
    BY <1>6
  <2>2. /\ f \in {"stop", "length"}
        /\ f = "stop" => Rq!Complete(r) /\ r.got.thinking # "open"
    BY <2>1 DEF Rq!Finishes
  <2>3. g \in Response /\ g.call = r.got.call /\ g.finish = f /\ g.thinking = r.got.thinking
    BY <1>1, <2>1, <2>2 DEF Response
  <2> QED BY <1>1, <1>2, <2>2, <2>3 DEF Finished, Rq!Complete
<1>7. CASE r.got.finish = "none" /\ g \in Rq!Content(r)
  <2>1. \/ g = [r.got EXCEPT !.text = TRUE]
        \/ r.provider = "anthropic" /\ \E t \in {"open", "signed"} : g = [r.got EXCEPT !.thinking = t]
    BY <1>7 DEF Rq!Content
  <2>2. CASE g = [r.got EXCEPT !.text = TRUE]
    <3>1. g \in Response /\ g.call = r.got.call /\ g.finish = "none" /\ g.thinking = r.got.thinking
      BY <1>1, <1>7, <2>2 DEF Response
    <3> QED BY <1>1, <1>2, <3>1 DEF Finished
  <2>3. CASE r.provider = "anthropic" /\ \E t \in {"open", "signed"} : g = [r.got EXCEPT !.thinking = t]
    <3>1. g \in Response /\ g.call = r.got.call /\ g.finish = "none"
      BY <1>1, <1>7, <2>3 DEF Response
    <3> QED BY <1>1, <1>2, <2>3, <3>1 DEF Finished
  <2> QED BY <2>1, <2>2, <2>3
<1> QED BY <1>4, <1>5, <1>6, <1>7 DEF Rq!Arrivals

\* What a request is once it has reported.
LEMMA ReportedIs ==
  ASSUME NEW r \in Request
  PROVE  LET q == Rq!Reported(r)
         IN /\ q \in Request /\ q.observed = r.got.usage /\ q.got = r.got /\ q.provider = r.provider
            /\ q.intent = r.intent /\ q.pc = r.pc /\ q.given = r.given
            /\ q.transport = r.transport /\ q.cut = r.cut /\ q.ending = r.ending
  BY DEF Rq!Reported, Request, Response

\* The end of a stream, with the report that goes before the close.
LEMMA EndIsSound ==
  ASSUME NEW r, Sound(r), r.pc = "streaming", NEW e \in {"end", "broken", "stop"}
  PROVE  LET q == [r EXCEPT !.pc = "closing", !.ending = e]
         IN /\ q \in Request /\ q.pc = "closing" /\ q.got = r.got /\ q.observed = {}
            /\ q.provider = r.provider
            /\ IF Rq!ReportsFirst(q) THEN Sound(Rq!Reported(q)) ELSE Sound(q)
<1> DEFINE q == [r EXCEPT !.pc = "closing", !.ending = e]
<1>1. r \in Request /\ r.given = Rq!NoChunk /\ r.observed = {} /\ ~r.cut
  BY DEF Sound, GivenWhole, Reporting, Transporting
<1>2. /\ q \in Request
      /\ q.got = r.got /\ q.provider = r.provider /\ q.intent = r.intent /\ q.pc = "closing"
      /\ q.given = r.given /\ q.observed = r.observed /\ q.transport = r.transport /\ q.cut = r.cut
  BY <1>1 DEF Request
<1> HIDE DEF q
<1>3. Finished(r)
  BY DEF Sound
<1>4. CASE q.provider = "openai"
  <2>1. Sound(Rq!Reported(q))
    BY <1>1, <1>2, <1>3, <1>4, ReportedIs
       DEF Sound, Finished, GivenWhole, Reporting, Transporting, Rq!Complete, Rq!NoChunk
  <2> QED BY <1>1, <1>2, <1>4, <2>1 DEF Rq!ReportsFirst, q
<1>5. CASE q.provider # "openai"
  <2>1. Sound(q)
    BY <1>1, <1>2, <1>3, <1>5
       DEF Sound, Finished, GivenWhole, Reporting, Transporting, Rq!Complete, Rq!NoChunk
  <2> QED BY <1>1, <1>2, <1>5, <2>1 DEF Rq!ReportsFirst, q
<1> QED BY <1>4, <1>5

\* The terminal chunk: what a delivered response was built into is whole.
LEMMA ChunkIsSound ==
  ASSUME NEW r \in Request, r.pc = "closing", Finished(r), ~r.cut, r.transport = "closed",
         r.observed = r.got.usage, Rq!Delivers(r)
  PROVE  LET q == [r EXCEPT !.pc = "delivered", !.given = Rq!Chunk(r.got)]
         IN Sound(q) /\ q.pc = "delivered" /\ q.observed = r.observed
<1> DEFINE ch == Rq!Chunk(r.got)
           q == [r EXCEPT !.pc = "delivered", !.given = ch]
<1>1. r.got \in Response /\ r.got.finish \in {"stop", "length"}
  BY DEF Request, Rq!Delivers, Response
<1>2. ch \in Given
  BY <1>1 DEF Rq!Chunk, Rq!Built, Response, Given
<1>3. ch.call = "valid" => Rq!Complete(r)
  BY <1>1 DEF Rq!Chunk, Rq!Built, Finished, Rq!Complete
<1>4. ch.thinking # "open"
  BY <1>1 DEF Rq!Chunk, Rq!Delivers, Rq!Rejects, Finished, Request
<1> HIDE DEF ch
<1>5. /\ q \in Request
      /\ q.got = r.got /\ q.provider = r.provider /\ q.intent = r.intent /\ q.pc = "delivered"
      /\ q.given = ch /\ q.observed = r.observed /\ q.transport = r.transport /\ q.cut = r.cut
  BY <1>2 DEF Request
<1> HIDE DEF q
<1>6. Sound(q)
  BY <1>3, <1>4, <1>5 DEF Sound, Finished, GivenWhole, Reporting, Transporting, Rq!Complete
<1> QED BY <1>5, <1>6 DEF q, ch

-----------------------------------------------------------------------------
(* The accounts of the requests *)

Record == [id : Nat, tokens : Nat, available : {"missing", "partial", "reported"}]

SettledOf(qs) == {n \in DOMAIN qs : qs[n].pc = "settled"}
ReportsIn(qs, ns) == UNION {{n} \X qs[n].observed : n \in ns}
Honest(qs, rec) ==
  LET r == qs[rec.id]
  IN \/ /\ r.observed = r.got.usage /\ rec.tokens = Cardinality(r.got.usage)
        /\ rec.available = "reported" <=> r.got.usage = Rq!Counts
     \/ r.cut /\ rec.tokens = 0 /\ rec.available = "missing"

\* What an instance extends is one with what this module extends.
LEMMA SameCardinality == \A S : Rq!Cardinality(S) = Cardinality(S)
  BY DEF Rq!Cardinality, Cardinality

LEMMA CountsAreFew ==
  /\ IsFiniteSet(Rq!Counts)
  /\ \A u \in SUBSET Rq!Counts : IsFiniteSet(u) /\ Cardinality(u) \in Nat
<1>1. IsFiniteSet({}) /\ IsFiniteSet({} \cup {"input"}) /\ IsFiniteSet(({} \cup {"input"}) \cup {"output"})
  BY FS_EmptySet, FS_AddElement
<1>2. Rq!Counts = ({} \cup {"input"}) \cup {"output"}
  BY DEF Rq!Counts
<1> QED BY <1>1, <1>2, FS_Subset, FS_CardinalityType

\* The reports of some requests are finitely many pairs.
LEMMA ReportsFinite ==
  ASSUME NEW qs \in Seq(Request), NEW ns \in SUBSET (DOMAIN qs)
  PROVE  IsFiniteSet(ReportsIn(qs, ns)) /\ Cardinality(ReportsIn(qs, ns)) \in Nat
<1> DEFINE D == 1 .. Len(qs)
           C == Rq!Counts
<1>0. DOMAIN qs = D /\ \A n \in D : qs[n] \in Request
  OBVIOUS
<1>1. DOMAIN qs = D /\ \A n \in D : qs[n].observed \in SUBSET C
  BY <1>0 DEF Request
<1>2. IsFiniteSet(D)
  BY FS_Interval
<1>3. IsFiniteSet(C)
  BY CountsAreFew
<1> HIDE DEF D, C
<1>4. IsFiniteSet(D \X C)
  BY <1>2, <1>3, FS_Product
<1>5. ReportsIn(qs, ns) \subseteq D \X C
  <2> SUFFICES ASSUME NEW p \in ReportsIn(qs, ns) PROVE p \in D \X C
    OBVIOUS
  <2>1. PICK n \in ns : p \in {n} \X qs[n].observed
    BY DEF ReportsIn
  <2>2. n \in D /\ qs[n].observed \subseteq C
    BY <1>1
  <2> QED BY <2>1, <2>2
<1> QED BY <1>4, <1>5, FS_Subset, FS_CardinalityType

\* One more request adds its own.
LEMMA ReportsAdd ==
  ASSUME NEW qs \in Seq(Request), NEW ns \in SUBSET (DOMAIN qs), NEW n \in DOMAIN qs, n \notin ns
  PROVE  Cardinality(ReportsIn(qs, ns \cup {n}))
           = Cardinality(ReportsIn(qs, ns)) + Cardinality(qs[n].observed)
<1> DEFINE all == ReportsIn(qs, ns \cup {n})
           T == ReportsIn(qs, ns)
           obs == qs[n].observed
           New == {n} \X obs
<1>0. qs[n] \in Request
  OBVIOUS
<1>1. obs \in SUBSET Rq!Counts
  BY <1>0 DEF Request
<1>2. all = T \cup New
  <2>1. \A p : p \in all <=> \E m \in ns \cup {n} : p \in {m} \X qs[m].observed
    BY DEF ReportsIn
  <2>2. \A p : p \in T <=> \E m \in ns : p \in {m} \X qs[m].observed
    BY DEF ReportsIn
  <2>3. \A p : p \in all <=> p \in T \/ p \in New
    BY <2>1, <2>2
  <2> QED BY <2>3
<1>3. T \cap New = {}
  <2> SUFFICES ASSUME NEW p \in T, p \in New PROVE FALSE
    OBVIOUS
  <2>1. PICK m \in ns : p \in {m} \X qs[m].observed
    BY DEF ReportsIn
  <2>2. p[1] = m /\ p[1] = n
    BY <2>1
  <2> QED BY <2>2
<1>4. IsFiniteSet(New) /\ Cardinality(New) = Cardinality(obs)
  <2> DEFINE one == {n}
  <2>1. IsFiniteSet(one) /\ Cardinality(one) = 1
    BY FS_Singleton
  <2>2. IsFiniteSet(obs) /\ Cardinality(obs) \in Nat
    BY <1>1, CountsAreFew
  <2> HIDE DEF one, obs
  <2>3. IsFiniteSet(one \X obs) /\ Cardinality(one \X obs) = 1 * Cardinality(obs)
    BY <2>1, <2>2, FS_Product
  <2> QED BY <2>2, <2>3 DEF one
<1>5. IsFiniteSet(T) /\ Cardinality(T) \in Nat
  BY ReportsFinite
<1> HIDE DEF all, T, New, obs
<1>6. Cardinality(T \cup New) = Cardinality(T) + Cardinality(New) - Cardinality(T \cap New)
  BY <1>4, <1>5, FS_Union
<1>7. Cardinality(T \cap New) = 0
  BY <1>3, FS_EmptySet
<1>8. Cardinality(obs) \in Nat
  BY <1>1, CountsAreFew
<1>9. Cardinality(all) = Cardinality(T) + Cardinality(obs)
  BY <1>2, <1>4, <1>5, <1>6, <1>7, <1>8
<1> QED BY <1>9 DEF all, T, obs

LEMMA ReportsSame ==
  ASSUME NEW qs, NEW ps, NEW ns, \A n \in ns : qs[n].observed = ps[n].observed
  PROVE  ReportsIn(qs, ns) = ReportsIn(ps, ns)
<1> SUFFICES ASSUME NEW p PROVE p \in ReportsIn(qs, ns) <=> p \in ReportsIn(ps, ns)
  OBVIOUS
<1>1. p \in ReportsIn(qs, ns) <=> \E n \in ns : p \in {n} \X qs[n].observed
  BY DEF ReportsIn
<1>2. p \in ReportsIn(ps, ns) <=> \E n \in ns : p \in {n} \X ps[n].observed
  BY DEF ReportsIn
<1> QED BY <1>1, <1>2

SoundInv == rqReqs \in Seq(Request) /\ \A n \in DOMAIN rqReqs : Sound(rqReqs[n])

\* The ledger and the budget have the requests that are over, the meter has
\* also what the others have reported so far.
LedgerInv ==
  /\ rqLedger \in Seq(Record)
  /\ \A i, j \in DOMAIN rqLedger : rqLedger[i].id = rqLedger[j].id => i = j
  /\ {rqLedger[i].id : i \in DOMAIN rqLedger} = SettledOf(rqReqs)
  /\ \A i \in DOMAIN rqLedger : Honest(rqReqs, rqLedger[i])
SpentInv ==
  /\ rqSpent = Cardinality(ReportsIn(rqReqs, SettledOf(rqReqs)))
  /\ rqKnown \in BOOLEAN
  /\ rqKnown <=> \A n \in SettledOf(rqReqs) : rqReqs[n].observed = Rq!Counts
MeterInv == rqMeter = Cardinality(ReportsIn(rqReqs, DOMAIN rqReqs))

\* The inductive invariant of the accounts.
SettledInv == rqLimits \in Limits /\ SoundInv /\ LedgerInv /\ SpentInv /\ MeterInv

LEMMA SettledInit == Rq!Init => SettledInv
<1> SUFFICES ASSUME Rq!Init PROVE SettledInv
  OBVIOUS
<1> DEFINE e == << >>
<1>1. /\ rqReqs = e /\ rqLedger = e /\ e \in Seq(Request) /\ e \in Seq(Record) /\ DOMAIN e = {}
      /\ rqLimits \in Limits /\ rqSpent = 0 /\ rqKnown = TRUE /\ rqMeter = 0
  BY DEF Rq!Init
<1> HIDE DEF e
<1>2. SettledOf(e) = {} /\ ReportsIn(e, {}) = {} /\ Cardinality({}) = 0
  BY <1>1, FS_EmptySet DEF SettledOf, ReportsIn
<1>3. {e[i].id : i \in DOMAIN e} = {}
  BY <1>1
<1> QED BY <1>1, <1>2, <1>3 DEF SettledInv, SoundInv, LedgerInv, SpentInv, MeterInv

\* One request becomes another one that is sound.
LEMMA BecomesIs ==
  ASSUME SoundInv, NEW n \in DOMAIN rqReqs, NEW r, Sound(r), Rq!Becomes(n, r)
  PROVE  /\ SoundInv' /\ DOMAIN rqReqs' = DOMAIN rqReqs /\ rqReqs'[n] = r
         /\ \A m \in DOMAIN rqReqs \ {n} : rqReqs'[m] = rqReqs[m]
<1>1. /\ rqReqs' = [rqReqs EXCEPT ![n] = r] /\ rqReqs \in Seq(Request) /\ r \in Request
      /\ \A m \in DOMAIN rqReqs : Sound(rqReqs[m])
  BY DEF Rq!Becomes, SoundInv, Sound
<1>2. /\ rqReqs' \in Seq(Request) /\ DOMAIN rqReqs' = DOMAIN rqReqs /\ rqReqs'[n] = r
      /\ \A m \in DOMAIN rqReqs \ {n} : rqReqs'[m] = rqReqs[m]
  BY <1>1
<1>3. \A m \in DOMAIN rqReqs' : Sound(rqReqs'[m])
  BY <1>1, <1>2
<1> QED BY <1>2, <1>3 DEF SoundInv

\* The meter keeps its value unless the request reports for the first time.
Meters(n, r) ==
  \/ r.observed = rqReqs[n].observed /\ rqMeter' = rqMeter
  \/ rqReqs[n].observed = {} /\ rqMeter' = rqMeter + Cardinality(r.observed)

LEMMA MeterStep ==
  ASSUME SoundInv, MeterInv, NEW n \in DOMAIN rqReqs, NEW r, Sound(r), Rq!Becomes(n, r),
         Meters(n, r)
  PROVE  MeterInv'
<1> DEFINE D == DOMAIN rqReqs
           rest == D \ {n}
           qs == rqReqs
           ps == rqReqs'
<1>1. /\ qs \in Seq(Request) /\ ps \in Seq(Request) /\ DOMAIN ps = D /\ ps[n] = r
      /\ \A m \in rest : ps[m] = qs[m]
      /\ D = rest \cup {n} /\ n \in D /\ rest \in SUBSET D /\ n \notin rest
  BY BecomesIs DEF SoundInv
<1>2. rqMeter = Cardinality(ReportsIn(qs, D)) /\ Cardinality({}) = 0
  BY FS_EmptySet DEF MeterInv
<1> HIDE DEF D, rest, qs, ps
<1>3. ReportsIn(qs, rest) = ReportsIn(ps, rest)
  BY <1>1, ReportsSame
<1>4. /\ Cardinality(ReportsIn(qs, D)) = Cardinality(ReportsIn(qs, rest)) + Cardinality(qs[n].observed)
      /\ Cardinality(ReportsIn(ps, D)) = Cardinality(ReportsIn(ps, rest)) + Cardinality(r.observed)
      /\ Cardinality(ReportsIn(qs, rest)) \in Nat
  <2>1. DOMAIN qs = D
    BY DEF D, qs
  <2>2. /\ rest \in SUBSET (DOMAIN qs) /\ rest \in SUBSET (DOMAIN ps)
        /\ n \in DOMAIN qs /\ n \in DOMAIN ps
    BY <1>1, <2>1
  <2>3. Cardinality(ReportsIn(qs, rest \cup {n})) = Cardinality(ReportsIn(qs, rest)) + Cardinality(qs[n].observed)
    BY <1>1, <2>2, ReportsAdd
  <2>4. Cardinality(ReportsIn(ps, rest \cup {n})) = Cardinality(ReportsIn(ps, rest)) + Cardinality(ps[n].observed)
    BY <1>1, <2>2, ReportsAdd
  <2>5. Cardinality(ReportsIn(qs, rest)) \in Nat
    BY <1>1, <2>2, ReportsFinite
  <2> QED BY <1>1, <2>3, <2>4, <2>5
<1>5. /\ qs[n].observed \in SUBSET Rq!Counts /\ r.observed \in SUBSET Rq!Counts
  <2>1. qs[n] \in Request /\ r \in Request
    BY <1>1 DEF Sound, SoundInv, qs
  <2> QED BY <2>1 DEF Request
<1>6. Cardinality(qs[n].observed) \in Nat /\ Cardinality(r.observed) \in Nat
  BY <1>5, CountsAreFew
<1>7. \/ r.observed = qs[n].observed /\ rqMeter' = rqMeter
      \/ qs[n].observed = {} /\ rqMeter' = rqMeter + Cardinality(r.observed)
  BY DEF Meters, qs
<1>8. rqMeter' = Cardinality(ReportsIn(ps, D))
  BY <1>2, <1>3, <1>4, <1>6, <1>7
<1> QED BY <1>1, <1>8 DEF MeterInv, ps

\* A request that is not over goes on, or one that is over has its transport
\* closed: the accounts of what is over stay.
LEMMA GoesOn ==
  ASSUME SettledInv, NEW n \in DOMAIN rqReqs, NEW r, Sound(r), Rq!Becomes(n, r), Meters(n, r),
         r.pc = "settled" <=> rqReqs[n].pc = "settled",
         r.pc = "settled" => /\ r.observed = rqReqs[n].observed /\ r.got = rqReqs[n].got
                             /\ r.cut = rqReqs[n].cut,
         UNCHANGED <<rqLimits, rqLedger, rqSpent, rqKnown>>
  PROVE  SettledInv'
<1>1. /\ SoundInv' /\ DOMAIN rqReqs' = DOMAIN rqReqs /\ rqReqs'[n] = r
      /\ \A m \in DOMAIN rqReqs \ {n} : rqReqs'[m] = rqReqs[m]
  BY BecomesIs DEF SettledInv
<1>2. SettledOf(rqReqs') = SettledOf(rqReqs)
  BY <1>1 DEF SettledOf
<1>3. \A m \in SettledOf(rqReqs) :
        /\ rqReqs'[m].observed = rqReqs[m].observed /\ rqReqs'[m].got = rqReqs[m].got
        /\ rqReqs'[m].cut = rqReqs[m].cut
  BY <1>1 DEF SettledOf
<1>4. ReportsIn(rqReqs', SettledOf(rqReqs)) = ReportsIn(rqReqs, SettledOf(rqReqs))
  BY <1>3, ReportsSame
<1>5. \A i \in DOMAIN rqLedger : rqLedger[i].id \in SettledOf(rqReqs)
  BY DEF SettledInv, LedgerInv
<1>6. \A i \in DOMAIN rqLedger : Honest(rqReqs', rqLedger[i])
  BY <1>3, <1>5 DEF SettledInv, LedgerInv, Honest
<1>7. LedgerInv'
  BY <1>2, <1>6 DEF SettledInv, LedgerInv
<1>8. SpentInv'
  BY <1>2, <1>3, <1>4 DEF SettledInv, SpentInv
<1>9. MeterInv'
  BY MeterStep DEF SettledInv
<1> QED BY <1>1, <1>7, <1>8, <1>9 DEF SettledInv

\* A request ends with what its observers saw.
LEMMA TallyKeeps ==
  ASSUME SettledInv, NEW n \in DOMAIN rqReqs, rqReqs[n].pc # "settled", NEW r, Ready(r),
         Rq!Tally(n, r), Meters(n, r)
  PROVE  SettledInv'
<1> DEFINE o == Rq!Over(r)
           rec == [id |-> n, tokens |-> Rq!Cardinality(r.observed),
                   available |-> Rq!Availability(r.observed)]
<1>1. /\ Sound(o) /\ o.observed = r.observed /\ o.pc = "settled"
      /\ o.got.usage = r.got.usage /\ o.cut = r.cut
  BY OverIsSound
<1>2. /\ Rq!Becomes(n, o) /\ rqLedger' = Append(rqLedger, rec) /\ rqSpent' = rqSpent + rec.tokens
      /\ rqKnown' = (rqKnown /\ rec.available = "reported") /\ UNCHANGED rqLimits
  BY DEF Rq!Tally, Rq!run
<1>3. r.observed \in SUBSET Rq!Counts /\ Cardinality(r.observed) \in Nat
  BY CountsAreFew DEF Ready, Request
<1>4. DOMAIN rqReqs \subseteq Nat
  BY DEF SettledInv, SoundInv
<1>5. /\ rec.id = n /\ rec.tokens = Cardinality(r.observed) /\ rec \in Record
      /\ rec.available = Rq!Availability(r.observed)
  BY <1>3, <1>4, SameCardinality DEF Record, Rq!Availability
<1> HIDE DEF o, rec
<1>6. /\ SoundInv' /\ DOMAIN rqReqs' = DOMAIN rqReqs /\ rqReqs'[n] = o
      /\ \A m \in DOMAIN rqReqs \ {n} : rqReqs'[m] = rqReqs[m]
  BY <1>1, <1>2, BecomesIs DEF SettledInv
<1>7. SettledOf(rqReqs') = SettledOf(rqReqs) \cup {n} /\ n \notin SettledOf(rqReqs)
      /\ \A m \in SettledOf(rqReqs) : rqReqs'[m] = rqReqs[m]
  BY <1>1, <1>6 DEF SettledOf
<1>8. LedgerInv'
  <2> DEFINE k == Len(rqLedger) + 1
  <2>1. rqLedger \in Seq(Record)
    BY DEF SettledInv, LedgerInv
  <2>2. /\ k \in Nat /\ rqLedger' \in Seq(Record) /\ DOMAIN rqLedger' = (DOMAIN rqLedger) \cup {k}
        /\ k \notin DOMAIN rqLedger /\ rqLedger'[k] = rec
        /\ \A i \in DOMAIN rqLedger : rqLedger'[i] = rqLedger[i]
    BY <1>2, <1>5, <2>1
  <2> HIDE DEF k
  <2>3. {rqLedger'[i].id : i \in DOMAIN rqLedger'} = {rqLedger[i].id : i \in DOMAIN rqLedger} \cup {n}
    BY <1>5, <2>2
  <2>4. \A i \in DOMAIN rqLedger : rqLedger[i].id \in SettledOf(rqReqs)
    BY DEF SettledInv, LedgerInv
  <2>5. \A i, j \in DOMAIN rqLedger' : rqLedger'[i].id = rqLedger'[j].id => i = j
    BY <1>5, <1>7, <2>2, <2>4 DEF SettledInv, LedgerInv
  <2>6. \A i \in DOMAIN rqLedger : Honest(rqReqs', rqLedger[i])
    BY <1>7, <2>4 DEF SettledInv, LedgerInv, Honest
  <2>7. Honest(rqReqs', rec)
    <3>1. rqReqs'[rec.id] = o
      BY <1>5, <1>6
    <3>2. \/ r.observed = r.got.usage
          \/ r.cut /\ r.observed = {}
      BY DEF Ready
    <3>3. Rq!Availability(r.observed) = "reported" <=> r.observed = Rq!Counts
      BY DEF Rq!Availability, Rq!Counts
    <3>4. r.observed = {} => Rq!Availability(r.observed) = "missing" /\ Cardinality(r.observed) = 0
      BY FS_EmptySet DEF Rq!Availability
    <3> QED BY <1>1, <1>5, <3>1, <3>2, <3>3, <3>4 DEF Honest
  <2>8. \A i \in DOMAIN rqLedger' : Honest(rqReqs', rqLedger'[i])
    BY <2>2, <2>6, <2>7
  <2>9. {rqLedger'[i].id : i \in DOMAIN rqLedger'} = SettledOf(rqReqs')
    BY <1>7, <2>3 DEF SettledInv, LedgerInv
  <2> QED BY <2>2, <2>5, <2>8, <2>9 DEF LedgerInv
<1>9. SpentInv'
  <2> DEFINE S == SettledOf(rqReqs)
             ps == rqReqs'
  <2>1. ps \in Seq(Request) /\ n \in DOMAIN ps /\ S \in SUBSET (DOMAIN ps) /\ n \notin S
        /\ ps[n].observed = r.observed
    BY <1>1, <1>6, <1>7 DEF SoundInv, SettledOf
  <2>2. \A m \in S : ps[m].observed = rqReqs[m].observed
    BY <1>7
  <2>3. SettledOf(ps) = S \cup {n} /\ rqSpent = Cardinality(ReportsIn(rqReqs, S))
    BY <1>7 DEF SettledInv, SpentInv
  <2> HIDE DEF S, ps
  <2>4. Cardinality(ReportsIn(ps, S \cup {n})) = Cardinality(ReportsIn(ps, S)) + Cardinality(r.observed)
    BY <2>1, ReportsAdd
  <2>5. ReportsIn(ps, S) = ReportsIn(rqReqs, S)
    BY <2>2, ReportsSame
  <2>6. rqSpent' = Cardinality(ReportsIn(ps, SettledOf(ps)))
    BY <1>2, <1>5, <2>3, <2>4, <2>5
  <2>7. rqKnown <=> \A m \in S : rqReqs[m].observed = Rq!Counts
    BY DEF SettledInv, SpentInv, S
  <2>8. rec.available = "reported" <=> r.observed = Rq!Counts
    BY <1>5 DEF Rq!Availability, Rq!Counts
  <2>9. rqKnown' <=> \A m \in S \cup {n} : ps[m].observed = Rq!Counts
    <3>1. rqKnown' <=> rqKnown /\ r.observed = Rq!Counts
      BY <1>2, <2>8
    <3>2. (\A m \in S \cup {n} : ps[m].observed = Rq!Counts)
            <=> (\A m \in S : rqReqs[m].observed = Rq!Counts) /\ r.observed = Rq!Counts
      BY <2>1, <2>2
    <3> QED BY <2>7, <3>1, <3>2
  <2>10. rqKnown' \in BOOLEAN
    BY <1>2
  <2> QED BY <2>3, <2>6, <2>9, <2>10 DEF SpentInv, ps
<1>10. MeterInv'
  <2>1. Meters(n, o)
    BY <1>1 DEF Meters
  <2> QED BY <1>1, <1>2, <2>1, MeterStep DEF SettledInv
<1> QED BY <1>2, <1>6, <1>8, <1>9, <1>10 DEF SettledInv

\* Before a step on a request: it is sound, and what the step starts from.
LEMMA AtRequest ==
  ASSUME SettledInv, NEW n \in DOMAIN rqReqs
  PROVE  Sound(rqReqs[n]) /\ rqReqs[n] \in Request
BY DEF SettledInv, SoundInv, Sound

LEMMA AdmitKeeps == ASSUME SettledInv, Rq!Admit PROVE SettledInv'
<1>1. PICK p \in {"openai", "anthropic"}, i \in {"none", "bare", "full"} :
        rqReqs' = Append(rqReqs, Rq!Fresh(p, i))
  BY DEF Rq!Admit
<1> DEFINE f == Rq!Fresh(p, i)
           k == Len(rqReqs) + 1
           D == DOMAIN rqReqs
<1>2. UNCHANGED <<rqLimits, rqLedger, rqSpent, rqKnown, rqMeter>>
  BY DEF Rq!Admit, Rq!run, Rq!budget
<1>3. Sound(f) /\ f.observed = {} /\ f.pc = "opening" /\ f \in Request
  BY FreshIsSound DEF Sound
<1> HIDE DEF f
<1>4. /\ rqReqs' \in Seq(Request) /\ DOMAIN rqReqs' = D \cup {k} /\ k \notin D /\ rqReqs'[k] = f
      /\ \A n \in D : rqReqs'[n] = rqReqs[n]
  <2>1. rqReqs \in Seq(Request) /\ rqReqs' = Append(rqReqs, f)
    BY <1>1 DEF SettledInv, SoundInv, f
  <2> QED BY <1>3, <2>1
<1> HIDE DEF k, D
<1>5. SoundInv'
  <2>1. \A n \in D : Sound(rqReqs[n])
    BY DEF SettledInv, SoundInv, D
  <2>2. \A n \in DOMAIN rqReqs' : Sound(rqReqs'[n])
    BY <1>3, <1>4, <2>1
  <2> QED BY <1>4, <2>2 DEF SoundInv
<1>6. SettledOf(rqReqs') = SettledOf(rqReqs) /\ SettledOf(rqReqs) \subseteq D
  BY <1>3, <1>4 DEF SettledOf, D
<1>7. ReportsIn(rqReqs', SettledOf(rqReqs)) = ReportsIn(rqReqs, SettledOf(rqReqs))
  BY <1>4, <1>6, ReportsSame
<1>8. \A i_1 \in DOMAIN rqLedger : rqLedger[i_1].id \in D
  BY <1>6 DEF SettledInv, LedgerInv
<1>9. \A i_1 \in DOMAIN rqLedger : Honest(rqReqs', rqLedger[i_1])
  BY <1>4, <1>8 DEF SettledInv, LedgerInv, Honest
<1>10. LedgerInv'
  BY <1>2, <1>6, <1>9 DEF SettledInv, LedgerInv
<1>11. SpentInv'
  BY <1>2, <1>4, <1>6, <1>7 DEF SettledInv, SpentInv
<1>12. MeterInv'
  <2> DEFINE qs == rqReqs
             ps == rqReqs'
  <2>1. ps \in Seq(Request) /\ D \in SUBSET (DOMAIN ps) /\ k \in DOMAIN ps /\ k \notin D
        /\ DOMAIN ps = D \cup {k} /\ ps[k].observed = {}
        /\ \A n \in D : ps[n].observed = qs[n].observed
    BY <1>3, <1>4
  <2>2. rqMeter = Cardinality(ReportsIn(qs, D))
    BY DEF SettledInv, MeterInv, D
  <2> HIDE DEF ps, qs
  <2>3. Cardinality(ReportsIn(ps, D \cup {k})) = Cardinality(ReportsIn(ps, D)) + Cardinality(ps[k].observed)
    BY <2>1, ReportsAdd
  <2>4. ReportsIn(ps, D) = ReportsIn(qs, D)
    BY <2>1, ReportsSame
  <2>5. Cardinality(ReportsIn(ps, D)) \in Nat /\ Cardinality(ps[k].observed) = 0
    BY <2>1, ReportsFinite, FS_EmptySet
  <2>6. rqMeter = Cardinality(ReportsIn(ps, DOMAIN ps))
    BY <2>1, <2>2, <2>3, <2>4, <2>5
  <2> QED BY <1>2, <2>6 DEF MeterInv, ps
<1> QED BY <1>2, <1>5, <1>10, <1>11, <1>12 DEF SettledInv

\* The stream opens, brings something, or its transport is closed at last.
LEMMA StreamKeeps ==
  ASSUME SettledInv, NEW n \in DOMAIN rqReqs,
         Rq!Opens(n) \/ Rq!Event(n) \/ Rq!BackgroundClose(n)
  PROVE  SettledInv'
<1> DEFINE r == rqReqs[n]
<1>1. Sound(r) /\ r \in Request
  BY AtRequest
<1>2. UNCHANGED <<rqLimits, rqLedger, rqSpent, rqKnown, rqMeter>>
  BY DEF Rq!Opens, Rq!Event, Rq!BackgroundClose, Rq!run, Rq!budget
<1>3. CASE Rq!Opens(n)
  <2> DEFINE q == [r EXCEPT !.pc = "streaming", !.transport = "open"]
  <2>1. Rq!Becomes(n, q) /\ r.pc = "opening"
    BY <1>3 DEF Rq!Opens
  <2>2. /\ q \in Request /\ q.pc = "streaming" /\ q.transport = "open"
        /\ q.got = r.got /\ q.provider = r.provider /\ q.intent = r.intent
        /\ q.given = r.given /\ q.observed = r.observed /\ q.cut = r.cut
    BY <1>1 DEF Request
  <2> HIDE DEF q
  <2>3. Sound(q) /\ Meters(n, q)
    BY <1>1, <1>2, <2>1, <2>2 DEF Sound, Finished, GivenWhole, Reporting, Transporting, Rq!Complete, Meters
  <2> QED BY <1>2, <2>1, <2>2, <2>3, GoesOn
<1>4. CASE Rq!Event(n)
  <2>1. PICK g \in Rq!Arrivals(r) : Rq!Becomes(n, [r EXCEPT !.got = g])
    BY <1>4 DEF Rq!Event
  <2> DEFINE q == [r EXCEPT !.got = g]
  <2>2. r.pc = "streaming"
    BY <1>4 DEF Rq!Event
  <2>3. Sound(q) /\ q.pc = "streaming" /\ q.observed = r.observed
    BY <1>1, <2>2, ArrivalIsSound
  <2> HIDE DEF q
  <2>4. Meters(n, q) /\ Rq!Becomes(n, q)
    BY <1>2, <2>1, <2>3 DEF Meters, q
  <2> QED BY <1>2, <2>2, <2>3, <2>4, GoesOn
<1>5. CASE Rq!BackgroundClose(n)
  <2> DEFINE q == [r EXCEPT !.transport = "closed"]
  <2>1. Rq!Becomes(n, q)
    BY <1>5 DEF Rq!BackgroundClose
  <2>2. /\ q \in Request /\ q.pc = r.pc /\ q.transport = "closed"
        /\ q.got = r.got /\ q.provider = r.provider /\ q.intent = r.intent
        /\ q.given = r.given /\ q.observed = r.observed /\ q.cut = r.cut
    BY <1>1 DEF Request
  <2> HIDE DEF q
  <2>3. Sound(q) /\ Meters(n, q)
    BY <1>1, <1>2, <2>1, <2>2 DEF Sound, Finished, GivenWhole, Reporting, Transporting, Rq!Complete, Meters
  <2> QED BY <1>2, <2>1, <2>2, <2>3, GoesOn
<1> QED BY <1>3, <1>4, <1>5

\* The stream ends and is about to be closed.
LEMMA EndsKeep == ASSUME SettledInv, NEW n \in DOMAIN rqReqs, Rq!Ends(n) PROVE SettledInv'
<1> DEFINE r == rqReqs[n]
<1>1. Sound(r) /\ r \in Request /\ r.pc = "streaming" /\ r.observed = {}
  BY AtRequest DEF Rq!Ends, Sound, Reporting
<1>2. UNCHANGED <<rqLimits, rqLedger, rqSpent, rqKnown>>
  BY DEF Rq!Ends, Rq!run, Rq!budget
<1>3. PICK e \in {"end", "broken", "stop"} :
        LET q == [r EXCEPT !.pc = "closing", !.ending = e]
        IN IF Rq!ReportsFirst(q) THEN Rq!Becomes(n, Rq!Reported(q)) /\ Rq!Metered(q)
           ELSE Rq!Becomes(n, q) /\ UNCHANGED rqMeter
  BY DEF Rq!Ends
<1> DEFINE q == [r EXCEPT !.pc = "closing", !.ending = e]
<1>4. /\ q \in Request /\ q.pc = "closing" /\ q.got = r.got /\ q.observed = {}
      /\ IF Rq!ReportsFirst(q) THEN Sound(Rq!Reported(q)) ELSE Sound(q)
  BY <1>1, EndIsSound
<1>5. IF Rq!ReportsFirst(q) THEN Rq!Becomes(n, Rq!Reported(q)) /\ Rq!Metered(q)
      ELSE Rq!Becomes(n, q) /\ UNCHANGED rqMeter
  BY <1>3
<1> HIDE DEF q
<1>6. CASE Rq!ReportsFirst(q)
  <2> DEFINE p == Rq!Reported(q)
  <2>1. p.pc = "closing" /\ p.observed = q.got.usage /\ Sound(p) /\ Rq!Becomes(n, p)
    BY <1>4, <1>5, <1>6, ReportedIs
  <2>2. rqMeter' = rqMeter + Cardinality(p.observed)
    BY <1>5, <1>6, <2>1, SameCardinality DEF Rq!Metered
  <2> HIDE DEF p
  <2>3. Meters(n, p)
    BY <1>1, <2>2 DEF Meters
  <2> QED BY <1>1, <1>2, <2>1, <2>3, GoesOn
<1>7. CASE ~Rq!ReportsFirst(q)
  <2>1. Sound(q) /\ Rq!Becomes(n, q) /\ Meters(n, q)
    BY <1>1, <1>4, <1>5, <1>7 DEF Meters
  <2> QED BY <1>1, <1>2, <1>4, <2>1, GoesOn
<1> QED BY <1>6, <1>7

\* The closed request answers, or is over.
LEMMA AnswersKeep ==
  ASSUME SettledInv, NEW n \in DOMAIN rqReqs, rqReqs[n].pc = "closing", NEW r \in Request,
         r.pc = "closing", Finished(r), ~r.cut, r.transport = "closed",
         r.observed = r.got.usage, Rq!Answers(n, r), Meters(n, r)
  PROVE  SettledInv'
<1>1. CASE Rq!Delivers(r)
  <2> DEFINE q == [r EXCEPT !.pc = "delivered", !.given = Rq!Chunk(r.got)]
  <2>1. Rq!Becomes(n, q) /\ UNCHANGED <<rqLimits, rqLedger, rqSpent, rqKnown>>
    BY <1>1 DEF Rq!Answers, Rq!run, Rq!budget
  <2>2. Sound(q) /\ q.pc = "delivered" /\ q.observed = r.observed
    BY <1>1, ChunkIsSound
  <2> HIDE DEF q
  <2>3. Meters(n, q)
    BY <2>2 DEF Meters
  <2> QED BY <2>1, <2>2, <2>3, GoesOn
<1>2. CASE ~Rq!Delivers(r)
  <2>1. Rq!Tally(n, r) /\ Ready(r)
    BY <1>2 DEF Rq!Answers, Ready
  <2> QED BY <2>1, TallyKeeps
<1> QED BY <1>1, <1>2

\* The transport is closed, and the client that reports now reports.
LEMMA ClosedKeeps == ASSUME SettledInv, NEW n \in DOMAIN rqReqs, Rq!Closed(n) PROVE SettledInv'
<1> DEFINE r == rqReqs[n]
           q == [r EXCEPT !.transport = "closed"]
<1>1. Sound(r) /\ r \in Request /\ r.pc = "closing"
  BY AtRequest DEF Rq!Closed
<1>2. IF Rq!ReportsFirst(q) THEN Rq!Answers(n, q) /\ UNCHANGED rqMeter
      ELSE Rq!Answers(n, Rq!Reported(q)) /\ Rq!Metered(q)
  BY DEF Rq!Closed
<1>3. /\ q \in Request /\ q.pc = "closing" /\ q.transport = "closed"
      /\ q.got = r.got /\ q.provider = r.provider /\ q.intent = r.intent
      /\ q.given = r.given /\ q.observed = r.observed /\ q.cut = r.cut
  BY <1>1 DEF Request
<1> HIDE DEF q
<1>4. Finished(q) /\ ~q.cut
      /\ q.observed = IF q.provider = "openai" THEN q.got.usage ELSE {}
  BY <1>1, <1>3 DEF Sound, Finished, Reporting, Transporting, Rq!Complete
<1>5. CASE Rq!ReportsFirst(q)
  <2>1. q.observed = q.got.usage
    BY <1>4, <1>5 DEF Rq!ReportsFirst
  <2>2. Meters(n, q)
    BY <1>2, <1>3, <1>5 DEF Meters
  <2> QED BY <1>1, <1>2, <1>3, <1>4, <1>5, <2>1, <2>2, AnswersKeep
<1>6. CASE ~Rq!ReportsFirst(q)
  <2> DEFINE p == Rq!Reported(q)
  <2>1. /\ p \in Request /\ p.observed = p.got.usage /\ p.pc = "closing" /\ ~p.cut
        /\ p.transport = "closed" /\ p.got = q.got /\ p.intent = q.intent /\ p.provider = q.provider
    BY <1>3, <1>4, ReportedIs
  <2>2. q.observed = {}
    BY <1>4, <1>6 DEF Rq!ReportsFirst
  <2>3. rqMeter' = rqMeter + Cardinality(p.observed) /\ Rq!Answers(n, p)
    BY <1>2, <1>6, <2>1, SameCardinality DEF Rq!Metered
  <2> HIDE DEF p
  <2>4. Finished(p)
    BY <1>4, <2>1 DEF Finished, Rq!Complete
  <2>5. Meters(n, p)
    BY <1>3, <2>2, <2>3 DEF Meters
  <2> QED BY <1>1, <2>1, <2>3, <2>4, <2>5, AnswersKeep
<1> QED BY <1>5, <1>6

\* The request is over without a stream, with its close cut short, or after the
\* terminal chunk.
LEMMA OverKeeps ==
  ASSUME SettledInv, NEW n \in DOMAIN rqReqs, Rq!OpenFails(n) \/ Rq!StopClosing(n) \/ Rq!Settle(n)
  PROVE  SettledInv'
<1> DEFINE r == rqReqs[n]
<1>1. Sound(r) /\ r \in Request /\ r.pc \in {"opening", "closing", "delivered"} /\ rqMeter' = rqMeter
  BY AtRequest DEF Rq!OpenFails, Rq!StopClosing, Rq!Settle
<1>2. CASE Rq!OpenFails(n) \/ Rq!Settle(n)
  <2>1. Rq!Tally(n, r) /\ r.pc \in {"opening", "delivered"}
    BY <1>2 DEF Rq!OpenFails, Rq!Settle
  <2>2. Ready(r) /\ Meters(n, r)
    BY <1>1, <2>1 DEF Sound, Reporting, Transporting, Ready, Meters
  <2> QED BY <2>1, <2>2, <1>1, TallyKeeps
<1>3. CASE Rq!StopClosing(n)
  <2>1. PICK t \in IF Rq!Shields(r) THEN {"background"} ELSE {"open", "closed"} :
          Rq!Tally(n, [r EXCEPT !.transport = t, !.cut = r.provider = "anthropic"])
    BY <1>3 DEF Rq!StopClosing
  <2> DEFINE q == [r EXCEPT !.transport = t, !.cut = r.provider = "anthropic"]
  <2>2. r.pc = "closing" /\ t \in {"background", "open", "closed"}
        /\ (t = "open" => r.provider = "anthropic")
    BY <1>1, <1>3, <2>1 DEF Rq!StopClosing, Rq!Shields, Request
  <2>3. /\ q \in Request /\ q.got = r.got /\ q.observed = r.observed /\ q.transport = t
        /\ q.cut = (r.provider = "anthropic")
    BY <1>1, <2>2 DEF Request
  <2>4. Rq!Tally(n, q)
    BY <2>1
  <2> HIDE DEF q
  <2>5. Ready(q) /\ Meters(n, q)
    BY <1>1, <2>2, <2>3 DEF Sound, Reporting, Ready, Meters, Request
  <2> QED BY <1>1, <2>4, <2>5, TallyKeeps
<1> QED BY <1>2, <1>3

LEMMA RestKeeps ==
  ASSUME SettledInv, Rq!Refuse \/ UNCHANGED Rq!vars
  PROVE  SettledInv'
<1>1. UNCHANGED <<rqLimits, rqReqs, rqSpent, rqMeter, rqKnown, rqLedger>>
  BY DEF Rq!Refuse, Rq!run, Rq!budget, Rq!vars
<1> QED BY <1>1 DEF SettledInv, SoundInv, LedgerInv, SpentInv, MeterInv

LEMMA SettledStep == SettledInv /\ [Rq!Next]_(Rq!vars) => SettledInv'
  BY AdmitKeeps, StreamKeeps, EndsKeep, ClosedKeeps, OverKeeps, RestKeeps DEF Rq!Next

\* Only Admit sends a request, when all that was shown by those that are over is
\* counted.
LEMMA SpendingStep ==
  ASSUME SettledInv, [Rq!Next]_(Rq!vars), Len(rqReqs') # Len(rqReqs)
  PROVE  /\ Len(rqReqs) < rqLimits.requests
         /\ Rq!Cardinality(UNION {{n} \X rqReqs[n].got.usage :
                                    n \in {n \in Rq!Settled : ~rqReqs[n].cut}})
              < rqLimits.tokens
         /\ rqLimits.strict => \A n \in Rq!Settled : rqReqs[n].observed = Rq!Counts
<1>1. Rq!Admit
  <2>1. ASSUME NEW n \in DOMAIN rqReqs, NEW r, rqReqs' = [rqReqs EXCEPT ![n] = r]
        PROVE  FALSE
    <3>1. DOMAIN rqReqs' = DOMAIN rqReqs /\ Len(rqReqs') = Len(rqReqs)
      BY <2>1 DEF SettledInv, SoundInv
    <3> QED BY <3>1
  <2> QED BY <2>1 DEF Rq!Next, Rq!Refuse, Rq!Opens, Rq!OpenFails, Rq!Event, Rq!Ends, Rq!Closed,
                      Rq!StopClosing, Rq!Settle, Rq!BackgroundClose, Rq!vars, Rq!Tally, Rq!Answers,
                      Rq!Becomes
<1>2. rqSpent < rqLimits.tokens /\ Len(rqReqs) < rqLimits.requests /\ (rqLimits.strict => rqKnown)
  BY <1>1 DEF Rq!Admit, Rq!Within
<1>3. Rq!Settled = SettledOf(rqReqs)
  BY DEF Rq!Settled, SettledOf
<1> DEFINE S == SettledOf(rqReqs)
           shown == UNION {{n} \X rqReqs[n].got.usage : n \in {n \in S : ~rqReqs[n].cut}}
<1>4. shown \subseteq ReportsIn(rqReqs, S)
  <2> SUFFICES ASSUME NEW p \in shown PROVE p \in ReportsIn(rqReqs, S)
    OBVIOUS
  <2>1. PICK n \in S : ~rqReqs[n].cut /\ p \in {n} \X rqReqs[n].got.usage
    OBVIOUS
  <2>2. rqReqs[n].observed = rqReqs[n].got.usage
    BY <2>1 DEF SettledInv, SoundInv, Sound, Reporting, SettledOf
  <2>3. p \in {n} \X rqReqs[n].observed
    BY <2>1, <2>2
  <2> QED BY <2>3 DEF ReportsIn
<1>5. IsFiniteSet(ReportsIn(rqReqs, S)) /\ Cardinality(ReportsIn(rqReqs, S)) \in Nat
  BY ReportsFinite DEF SettledInv, SoundInv, SettledOf
<1>6. rqSpent = Cardinality(ReportsIn(rqReqs, S))
  BY DEF SettledInv, SpentInv
<1>7. rqLimits.tokens \in Nat
  BY RequestsAssumption DEF SettledInv, Limits
<1> HIDE DEF shown
<1>8. Cardinality(shown) \in Nat /\ Cardinality(shown) =< rqSpent
  <2>1. IsFiniteSet(shown) /\ Cardinality(shown) =< Cardinality(ReportsIn(rqReqs, S))
    BY <1>4, <1>5, FS_Subset
  <2> QED BY <1>6, <2>1, FS_CardinalityType
<1>9. Rq!Cardinality(shown) < rqLimits.tokens
  BY <1>2, <1>5, <1>6, <1>7, <1>8, SameCardinality
<1>10. rqKnown => \A n \in S : rqReqs[n].observed = Rq!Counts
  BY DEF SettledInv, SpentInv
<1> QED BY <1>2, <1>3, <1>9, <1>10 DEF shown

LEMMA SettledIsRight ==
  ASSUME SettledInv
  PROVE  Rq!RequestsAreAccounted /\ Rq!TransportsAreFreed /\ Rq!OnlyWholeIsGiven
<1>1. Rq!Settled = SettledOf(rqReqs)
  BY DEF Rq!Settled, SettledOf
<1>2. \A ns : Rq!ReportsOf(ns) = ReportsIn(rqReqs, ns)
  BY DEF Rq!ReportsOf, Rq!Reports, ReportsIn
<1>3. \A rec : Rq!RecordIsHonest(rec) <=> Honest(rqReqs, rec)
  BY SameCardinality DEF Rq!RecordIsHonest, Honest
<1>4. Rq!RequestsAreAccounted
  BY <1>1, <1>2, <1>3, SameCardinality
     DEF Rq!RequestsAreAccounted, SettledInv, LedgerInv, SpentInv, MeterInv
<1>5. Rq!TransportsAreFreed
  BY <1>1 DEF Rq!TransportsAreFreed, SettledInv, SoundInv, Sound, Transporting, SettledOf
<1>6. Rq!OnlyWholeIsGiven
  BY DEF Rq!OnlyWholeIsGiven, SettledInv, SoundInv, Sound, GivenWhole
<1> QED BY <1>4, <1>5, <1>6

\* Whatever part moves, the variables of the requests behave as Requests.
LEMMA RequestsMove == MCSpec => Rq!Spec
<1>1. MCInit => Rq!Init
  BY DEF MCInit
<1>2. [MCNext]_allVars => [Rq!Next]_(Rq!vars)
  <2> SUFFICES ASSUME [MCNext]_allVars, rqVars' # rqVars PROVE Rq!Next
    BY DEF rqVars, Rq!vars, Rq!run, Rq!budget
  <2> QED BY DEF MCNext, allVars, rqVars
<1> QED BY <1>1, <1>2, PTL DEF MCSpec, Rq!Spec

\* Wherever an output limit, an error or a Stop cuts a response off, a tool gets
\* only arguments the model finished and only signed thinking is replayed
\* (_ToolCallAccumulator.build, AnthropicLLMClient.stream).
THEOREM WholeIsGiven == MCSpec => []OnlyWholeIsGiven
<1>1. Rq!Spec => []Rq!OnlyWholeIsGiven
  BY SettledInit, SettledStep, SettledIsRight, PTL DEF Rq!Spec
<1> QED BY <1>1, RequestsMove, PTL DEF OnlyWholeIsGiven

\* Admission, accounts and transports agree about every request, whichever are
\* on the way beside it and however each stream ends; a close that a Stop cuts
\* short is on record as a missing count (InstrumentedClient, LLMClient,
\* ExecutionBudget, MediaAdapter.prepare).
THEOREM RequestsStaySettled == MCSpec => RequestsAreSettled
<1>1. SettledInv => Rq!RequestsAreAccounted /\ Rq!TransportsAreFreed
  BY SettledIsRight
<1>2. SettledInv /\ [Rq!Next]_(Rq!vars) =>
        [Len(rqReqs') # Len(rqReqs) =>
           /\ Len(rqReqs) < rqLimits.requests
           /\ Rq!Cardinality(UNION {{n} \X rqReqs[n].got.usage :
                                      n \in {n \in Rq!Settled : ~rqReqs[n].cut}})
                < rqLimits.tokens
           /\ rqLimits.strict => \A n \in Rq!Settled : rqReqs[n].observed = Rq!Counts]_(Rq!vars)
  BY SpendingStep
<1>3. Rq!Spec => []Rq!RequestsAreAccounted /\ []Rq!TransportsAreFreed /\ Rq!SpendsWithinLimits
  BY <1>1, <1>2, SettledInit, SettledStep, PTL DEF Rq!Spec, Rq!SpendsWithinLimits
<1> QED BY <1>3, RequestsMove DEF RequestsAreSettled, Rq!RequestsAreSettled

-----------------------------------------------------------------------------
(* Evaluation jobs *)

\* Whatever part moves, the variables of the job behave as EvalJobs.
LEMMA JobsMove == MCSpec => Jb!Spec
<1>1. MCInit => Jb!Init
  BY DEF MCInit
<1>2. [MCNext]_allVars => [Jb!Next]_(Jb!vars)
  <2> SUFFICES ASSUME [MCNext]_allVars, jbVars' # jbVars PROVE Jb!Next
    BY DEF jbVars, Jb!vars, Jb!ledger, Jb!seen, Jb!running
  <2> QED BY DEF MCNext, allVars, jbVars
<1> QED BY <1>1, <1>2, PTL DEF MCSpec, Jb!Spec

\* As long as its files can be read, no job has two records of one attempt,
\* wherever its invocations were cut off: scan never refuses it for that
\* (runner._execute_job, jobs.scan).
THEOREM AttemptsStayUnique == MCSpec => []AttemptsAreUnique
<1>1. Jb!Spec => []Jb!AttemptsAreUnique
  BY Jb!UniqueAttempts, RetriesAssumption DEF Jb!UniqueAttempts
<1> QED BY <1>1, JobsMove, PTL DEF AttemptsAreUnique

\* As long as its files can be read, a trial is decided once and within its
\* allowance, a stop ends the invocation, and nothing is left behind
\* (jobs.select, runner._execute_job, jobs.mark_interrupted).
THEOREM LedgerStaysSound == MCSpec => []LedgerIsSound
<1>1. Jb!Spec => []Jb!LedgerIsSound
  BY Jb!SoundLedger, RetriesAssumption DEF Jb!SoundLedger
<1> QED BY <1>1, JobsMove, PTL DEF LedgerIsSound

-----------------------------------------------------------------------------
(* The browser plugin *)

Waiting == {"idle", "queued"}
\* A call that uses a session it found in order.
Using == {"asking", "starting", "launching", "releasing", "opening", "acting"}
Making == {"launching", "releasing"}

BrowserTypeInv ==
  /\ brAttached \in BOOLEAN
  /\ brPc \in [BrowserCalls -> Waiting \cup Using \cup {"ready", "shutting"}]
  /\ brOp \in [BrowserCalls -> Br!Ops \cup {Br!Ending}]
  /\ brLock \in SUBSET BrowserCalls
  /\ brClosed \in BOOLEAN /\ brEnded \in BOOLEAN
  /\ brSession \in Nat /\ brSessions \in Nat /\ brLaunches \in Nat /\ brStage \in Nat
  /\ brCloseTask \in {"none", "running", "done"}
  /\ brHeld \in [Br!Kinds -> Nat] /\ brLive \in SUBSET (Br!Kinds \X Nat)

\* One call at a time is past the queue.
SessionLockInv ==
  /\ \A c \in BrowserCalls : c \in brLock <=> brPc[c] \notin Waiting
  /\ \A c, d \in brLock : c = d

NoneHeld == \A k \in Br!Kinds : brHeld[k] = 0

\* What a call, or a close, may rely on.
SessionInv ==
  /\ brSession = 0 => NoneHeld /\ brCloseTask = "none"
  /\ brCloseTask = "done" => NoneHeld
  /\ \A c \in BrowserCalls : brPc[c] \in Using => brSession # 0 /\ brCloseTask = "none"
  /\ \A c \in BrowserCalls : brPc[c] = "shutting" => brSession # 0 /\ brCloseTask # "none"
  /\ brEnded => brClosed /\ brSession = 0
  /\ \A c \in BrowserCalls : brPc[c] # "idle" /\ brOp[c] = Br!Ending => brClosed

Tunnels == [host : Hosts, session : Nat, launch : Nat, vetted : BOOLEAN]

\* The approvals of the session are its user's.
ConsentInv ==
  /\ brSession # 0 => \A h \in brApproved : <<brSession, h>> \in brConsents
  /\ \A t \in brTunnels : t \in Tunnels /\ t.session # 0
  /\ Br!ReachedWasAllowed

\* The steps of the launch that were taken, and no others.
Staged ==
  \A k \in Br!Kinds :
    brHeld[k] = IF \E i \in 1 .. brStage : Br!LaunchOrder[i] = k THEN brLaunches ELSE 0

\* Without a Stop at the wrong moment the session holds all there is.
HandleInv ==
  ~brCutShort =>
    /\ \A h \in brLive : h[2] # 0 /\ brHeld[h[1]] = h[2]
    /\ \A t \in brTunnels : t.launch = brHeld["proxy"] /\ brHeld["proxy"] # 0
    /\ \A c \in BrowserCalls : brPc[c] = "launching" =>
         brLaunches # 0 /\ brStage <= Len(Br!LaunchOrder) /\ Staged
    /\ \A c \in BrowserCalls : brPc[c] \in {"opening", "acting"} => brHeld["context"] # 0
    /\ brCloseTask = "none" /\ (\A c \in BrowserCalls : brPc[c] \notin Making)
       => NoneHeld \/ brHeld["context"] # 0

TabInv ==
  ~brCutShort =>
    /\ brOpened \cup brPopups \subseteq DOMAIN brTabs /\ brOpened \cap brPopups = {}
    /\ \A t \in DOMAIN brTabs : brTabs[t] = "ours" <=> t \in brOpened \cup brPopups
    /\ brHeld["context"] = 0 \/ ~brAttached => brOpened \cup brPopups = {}

BrowserInv ==
  /\ BrowserTypeInv /\ SessionLockInv /\ SessionInv /\ ConsentInv /\ HandleInv /\ TabInv

LEMMA BrowserInvInit == Br!Init => BrowserInv
<1> SUFFICES ASSUME Br!Init PROVE BrowserInv
  OBVIOUS
<1> USE DEF Br!Init
<1>1. /\ brHeld \in [Br!Kinds -> Nat] /\ NoneHeld
  BY DEF Br!Nothing, NoneHeld
<1>2. /\ brPc \in [BrowserCalls -> {"idle"}] /\ brOp \in [BrowserCalls -> Br!Ops \cup {Br!Ending}]
  OBVIOUS
<1>3. \A c \in BrowserCalls : brPc[c] = "idle"
  BY <1>2
<1>4. BrowserTypeInv
  BY <1>1, <1>2 DEF BrowserTypeInv, Waiting
<1>5. SessionLockInv /\ SessionInv
  BY <1>1, <1>3 DEF SessionLockInv, SessionInv, Waiting, Using
<1>6. ConsentInv
  BY DEF ConsentInv, Br!ReachedWasAllowed
<1>7. HandleInv
  BY <1>1, <1>3 DEF HandleInv
<1>8. TabInv
  <2>1. DOMAIN brTabs = {}
    OBVIOUS
  <2> QED BY <2>1 DEF TabInv
<1> QED BY <1>4, <1>5, <1>6, <1>7, <1>8 DEF BrowserInv

\* What the orders are.
LEMMA OrdersAre ==
  /\ Len(Br!CloseOrder) = 4
  /\ Br!CloseOrder[1] = "context" /\ Br!CloseOrder[2] = "browser"
  /\ Br!CloseOrder[3] = "driver" /\ Br!CloseOrder[4] = "proxy"
  /\ brAttached => /\ Len(Br!LaunchOrder) = 3 /\ Br!LaunchOrder[1] = "driver"
                   /\ Br!LaunchOrder[2] = "browser" /\ Br!LaunchOrder[3] = "context"
  /\ ~brAttached => /\ Len(Br!LaunchOrder) = 4 /\ Br!LaunchOrder[1] = "proxy" /\ Br!LaunchOrder[2] = "driver"
                    /\ Br!LaunchOrder[3] = "browser" /\ Br!LaunchOrder[4] = "context"
BY DEF Br!CloseOrder, Br!LaunchOrder

LEMMA LaunchOrderIs ==
  ASSUME BrowserTypeInv
  PROVE  /\ Len(Br!LaunchOrder) \in Nat /\ Len(Br!LaunchOrder) > 0
         /\ \A i \in 1 .. Len(Br!LaunchOrder) : Br!LaunchOrder[i] \in Br!Kinds
         /\ \A i, j \in 1 .. Len(Br!LaunchOrder) : Br!LaunchOrder[i] = Br!LaunchOrder[j] => i = j
         /\ Br!LaunchOrder[Len(Br!LaunchOrder)] = "context"
<1>0. brAttached \in BOOLEAN
  BY DEF BrowserTypeInv
<1>1. CASE brAttached
  <2>1. \A i \in 1 .. Len(Br!LaunchOrder) : i = 1 \/ i = 2 \/ i = 3
    BY <1>1, OrdersAre
  <2> QED BY <1>1, <2>1, OrdersAre DEF Br!Kinds
<1>2. CASE ~brAttached
  <2>1. \A i \in 1 .. Len(Br!LaunchOrder) : i = 1 \/ i = 2 \/ i = 3 \/ i = 4
    <3>1. Len(Br!LaunchOrder) = 4
      BY <1>2, OrdersAre
    <3> QED BY <3>1
  <2> QED BY <1>2, <2>1, OrdersAre DEF Br!Kinds
<1> QED BY <1>0, <1>1, <1>2

\* The next handle to close: none if none is held, and the context first.
LEMMA NextKindIs ==
  ASSUME BrowserTypeInv
  PROVE  /\ Br!NextKind = 0 => NoneHeld
         /\ Br!NextKind # 0 => /\ Br!NextKind \in 1 .. 4 /\ Br!CloseOrder[Br!NextKind] \in Br!Kinds
                               /\ brHeld[Br!CloseOrder[Br!NextKind]] # 0
                               /\ Br!CloseOrder[Br!NextKind] = "context" \/ brHeld["context"] = 0
<1> DEFINE I == {i \in 1 .. Len(Br!CloseOrder) : brHeld[Br!CloseOrder[i]] # 0}
<1>1. Br!NextKind = IF I # {} THEN CHOOSE x \in I : \A y \in I : x =< y ELSE 0
  BY DEF Br!NextKind, Br!SelectInSeq, Br!Min, Br!Holds
<1>2. I \in SUBSET (1 .. 4)
  BY OrdersAre
<1>3. CASE I = {}
  BY <1>1, <1>3, OrdersAre DEF NoneHeld, Br!Kinds
<1>4. CASE I # {}
  <2>1. \E x \in I : \A y \in I : x =< y
    <3> HIDE DEF I
    <3>1. CASE 1 \in I
      BY <1>2, <3>1
    <3>2. CASE 1 \notin I /\ 2 \in I
      BY <1>2, <3>2
    <3>3. CASE 1 \notin I /\ 2 \notin I /\ 3 \in I
      BY <1>2, <3>3
    <3>4. CASE 1 \notin I /\ 2 \notin I /\ 3 \notin I
      <4>1. \A x \in I : x = 4
        BY <1>2, <3>4
      <4> QED BY <1>4, <4>1
    <3> QED BY <3>1, <3>2, <3>3, <3>4
  <2>2. Br!NextKind \in I /\ \A y \in I : Br!NextKind =< y
    <3> HIDE DEF I
    <3> QED BY <1>1, <1>4, <2>1
  <2>3. Br!NextKind \in 1 .. 4
    BY <1>2, <2>2
  <2>4. brHeld[Br!CloseOrder[Br!NextKind]] # 0
    BY <2>2
  <2>5. Br!CloseOrder[Br!NextKind] \in Br!Kinds
    BY <2>3, OrdersAre DEF Br!Kinds
  <2>6. Br!CloseOrder[Br!NextKind] = "context" \/ brHeld["context"] = 0
    <3>1. CASE 1 \in I
      BY <2>2, <2>3, <3>1, OrdersAre
    <3>2. CASE 1 \notin I
      BY <3>2, OrdersAre
    <3> QED BY <3>1, <3>2
  <2> QED BY <2>3, <2>4, <2>5, <2>6
<1> QED BY <1>3, <1>4

\* A call past the queue is alone there.
LEMMA Alone ==
  ASSUME SessionLockInv, NEW c \in BrowserCalls, brPc[c] \notin Waiting
  PROVE  \A d \in BrowserCalls : d # c => brPc[d] \in Waiting
BY DEF SessionLockInv

\* Where the calls may go, and how the lock follows.
Moves ==
  \/ UNCHANGED <<brPc, brLock>>
  \/ \E c \in BrowserCalls : brPc[c] = "idle" /\ Br!Goes(c, "queued") /\ brLock' = brLock
  \/ \E c \in BrowserCalls : brPc[c] = "queued" /\ Br!Goes(c, "ready") /\ brLock = {} /\ brLock' = {c}
  \/ \E c \in BrowserCalls : \E w \in Using \cup {"ready", "shutting"} :
       brPc[c] \notin Waiting /\ Br!Goes(c, w) /\ brLock' = brLock
  \/ \E c \in BrowserCalls : Br!Goes(c, "idle") /\ brLock' = brLock \ {c}

LEMMA MovesKeepLock ==
  ASSUME BrowserTypeInv, SessionLockInv, Moves
  PROVE  SessionLockInv' /\ brLock' \in SUBSET BrowserCalls
         /\ brPc' \in [BrowserCalls -> Waiting \cup Using \cup {"ready", "shutting"}]
<1>1. brPc \in [BrowserCalls -> Waiting \cup Using \cup {"ready", "shutting"}] /\ brLock \in SUBSET BrowserCalls
  BY DEF BrowserTypeInv
<1>2. CASE UNCHANGED <<brPc, brLock>>
  BY <1>1, <1>2 DEF SessionLockInv
<1>3. ASSUME NEW c \in BrowserCalls, brPc[c] = "idle", Br!Goes(c, "queued"), brLock' = brLock
      PROVE  SessionLockInv' /\ brLock' \in SUBSET BrowserCalls
             /\ brPc' \in [BrowserCalls -> Waiting \cup Using \cup {"ready", "shutting"}]
  BY <1>1, <1>3 DEF SessionLockInv, Br!Goes, Waiting
<1>4. ASSUME NEW c \in BrowserCalls, brPc[c] = "queued", Br!Goes(c, "ready"), brLock = {}, brLock' = {c}
      PROVE  SessionLockInv' /\ brLock' \in SUBSET BrowserCalls
             /\ brPc' \in [BrowserCalls -> Waiting \cup Using \cup {"ready", "shutting"}]
  BY <1>1, <1>4 DEF SessionLockInv, Br!Goes, Waiting
<1>5. ASSUME NEW c \in BrowserCalls, NEW w \in Using \cup {"ready", "shutting"},
             brPc[c] \notin Waiting, Br!Goes(c, w), brLock' = brLock
      PROVE  SessionLockInv' /\ brLock' \in SUBSET BrowserCalls
             /\ brPc' \in [BrowserCalls -> Waiting \cup Using \cup {"ready", "shutting"}]
  <2>1. w \notin Waiting
    BY DEF Waiting, Using
  <2>2. \A d \in BrowserCalls : brPc'[d] = IF d = c THEN w ELSE brPc[d]
    BY <1>1, <1>5 DEF Br!Goes
  <2>3. brPc' \in [BrowserCalls -> Waiting \cup Using \cup {"ready", "shutting"}]
    BY <1>1, <1>5 DEF Br!Goes
  <2> QED BY <1>1, <1>5, <2>1, <2>2, <2>3 DEF SessionLockInv
<1>6. ASSUME NEW c \in BrowserCalls, Br!Goes(c, "idle"), brLock' = brLock \ {c}
      PROVE  SessionLockInv' /\ brLock' \in SUBSET BrowserCalls
             /\ brPc' \in [BrowserCalls -> Waiting \cup Using \cup {"ready", "shutting"}]
  BY <1>1, <1>6 DEF SessionLockInv, Br!Goes, Waiting
<1> QED BY <1>2, <1>3, <1>4, <1>5, <1>6 DEF Moves

\* What no step changes, and what only grows.
LEMMA StepFrame ==
  ASSUME BrowserTypeInv, [Br!Next]_(Br!vars)
  PROVE  brAttached' = brAttached /\ Moves
<1>1. CASE UNCHANGED Br!vars
  BY <1>1 DEF Br!vars, Moves
<1>2. CASE Br!World
  BY <1>2 DEF Br!World, Br!RunCloseTask, Br!Connect, Br!Request, Br!Vet, Br!Popup, Br!OwnerOpens,
     Br!OwnerCloses, Moves
<1>3. ASSUME NEW c \in BrowserCalls, Br!Step(c) PROVE brAttached' = brAttached /\ Moves
  <2>1. CASE Br!Call(c) \/ Br!Acquire(c)
    BY <2>1 DEF Br!Call, Br!Acquire, Moves
  <2>2. CASE Br!Cancel(c) \/ Br!Refuse(c) \/ Br!CancelOpen(c) \/ Br!Finish(c) \/ Br!InterruptRelease(c)
    BY <2>2 DEF Br!Cancel, Br!Refuse, Br!CancelOpen, Br!Finish, Br!InterruptRelease, Br!Leave, Moves
  <2>3. CASE Br!Shut(c) \/ Br!Use(c)
    BY <2>3 DEF Br!Shut, Br!Use, Moves, Waiting, Using
  <2>4. CASE \E yes \in BOOLEAN : Br!Answer(c, yes)
    BY <2>4 DEF Br!Answer, Br!Leave, Moves, Waiting, Using
  <2>5. CASE Br!Start(c) \/ Br!Launch(c) \/ Br!Launched(c) \/ Br!FailLaunch(c) \/ Br!Open(c)
    BY <2>5 DEF Br!Start, Br!Launch, Br!Launched, Br!FailLaunch, Br!Open, Moves, Waiting, Using
  <2>6. CASE Br!Release(c) \/ Br!ShutDone(c)
    BY <2>6 DEF Br!Release, Br!ShutDone, Br!Leave, Moves, Waiting, Using
  <2> QED BY <1>3, <2>1, <2>2, <2>3, <2>4, <2>5, <2>6 DEF Br!Step
<1> QED BY <1>1, <1>2, <1>3 DEF Br!Next

\* The state a session has besides its calls.
Kept ==
  /\ UNCHANGED <<brAttached, brSession, brSessions, brHeld, brLive, brTunnels, brApproved, brConsents, brReached,
                 brTabs, brOpened, brPopups>>

\* A call moves on, or leaves, and nothing else does.
CallMoves(c, w) ==
  /\ Kept /\ UNCHANGED <<brCloseTask, brLaunches>>
  /\ brStage' \in Nat /\ brClosed' \in BOOLEAN /\ (brClosed => brClosed') /\ brEnded' \in BOOLEAN
  /\ brOp' \in [BrowserCalls -> Br!Ops \cup {Br!Ending}]
  /\ brCutShort => brCutShort'
  /\ brPc[c] \in Waiting => brStage' = brStage
  /\ brPc' = [brPc EXCEPT ![c] = w] /\ w # "shutting" /\ w # "launching"
  /\ w \in Using => brPc[c] \in Using
  /\ brEnded' => brEnded \/ (brClosed' /\ brSession = 0)
  /\ \A d \in BrowserCalls : brOp'[d] = brOp[d] \/ (d = c /\ (w = "idle" \/ brClosed' \/ brOp'[d] # Br!Ending))
  /\ brPc[c] = "idle" /\ brOp'[c] = Br!Ending => w = "idle" \/ brClosed'
  /\ w \in {"opening", "acting"} => brCutShort' \/ brHeld["context"] # 0
  /\ brPc[c] \in Making /\ w \notin Making => brCutShort' \/ NoneHeld \/ brHeld["context"] # 0

LEMMA CallMovesKeeps ==
  ASSUME BrowserInv, NEW c \in BrowserCalls, NEW w \in Waiting \cup Using \cup {"ready", "shutting"},
         CallMoves(c, w), Moves
  PROVE  BrowserInv'
<1> USE DEF BrowserInv
<1>0. SessionLockInv' /\ brLock' \in SUBSET BrowserCalls
      /\ brPc' \in [BrowserCalls -> Waiting \cup Using \cup {"ready", "shutting"}]
  BY MovesKeepLock
<1>1. /\ UNCHANGED <<brAttached, brSession, brSessions, brHeld, brLive, brTunnels, brApproved, brConsents, brReached,
                     brTabs, brOpened, brPopups, brCloseTask, brLaunches>>
      /\ brStage' \in Nat /\ brClosed' \in BOOLEAN /\ (brClosed => brClosed') /\ brEnded' \in BOOLEAN
      /\ brOp' \in [BrowserCalls -> Br!Ops \cup {Br!Ending}]
      /\ (brCutShort => brCutShort') /\ (brPc[c] \in Waiting => brStage' = brStage)
      /\ w # "shutting" /\ w # "launching"
      /\ w \in Using => brPc[c] \in Using
      /\ (brEnded' => brEnded \/ (brClosed' /\ brSession = 0))
      /\ \A d \in BrowserCalls : brOp'[d] = brOp[d] \/ (d = c /\ (w = "idle" \/ brClosed' \/ brOp'[d] # Br!Ending))
      /\ (brPc[c] = "idle" /\ brOp'[c] = Br!Ending => w = "idle" \/ brClosed')
      /\ w \in {"opening", "acting"} => brCutShort' \/ brHeld["context"] # 0
      /\ (brPc[c] \in Making /\ w \notin Making => brCutShort' \/ NoneHeld \/ brHeld["context"] # 0)
  BY DEF CallMoves, Kept
<1>2. \A d \in BrowserCalls : brPc'[d] = IF d = c THEN w ELSE brPc[d]
  BY DEF CallMoves, BrowserTypeInv
<1>3. BrowserTypeInv'
  BY <1>0, <1>1 DEF BrowserTypeInv
<1>4. NoneHeld' = NoneHeld
  BY <1>1 DEF NoneHeld
<1>5. SessionInv'
  BY <1>1, <1>2, <1>4 DEF SessionInv
<1>6. ConsentInv'
  BY <1>1 DEF ConsentInv, Br!ReachedWasAllowed, Br!Free
<1>7. HandleInv'
  <2> SUFFICES ASSUME ~brCutShort' PROVE HandleInv'
    BY DEF HandleInv
  <2>1. /\ \A h \in brLive' : h[2] # 0 /\ brHeld'[h[1]] = h[2]
        /\ \A t \in brTunnels' : t.launch = brHeld'["proxy"] /\ brHeld'["proxy"] # 0
    BY <1>1 DEF HandleInv
  <2>2. ASSUME NEW d \in BrowserCalls, brPc'[d] = "launching"
        PROVE  brLaunches' # 0 /\ brStage' <= Len(Br!LaunchOrder') /\ Staged'
    <3>1. d # c /\ brPc[d] = "launching"
      BY <1>1, <1>2, <2>2
    <3>2. brPc[d] \notin Waiting
      BY <3>1 DEF Waiting
    <3>3. brPc[c] \in Waiting
      BY <3>1, <3>2, Alone
    <3>4. brStage' = brStage /\ brLaunches' = brLaunches /\ brHeld' = brHeld /\ Br!LaunchOrder' = Br!LaunchOrder
      BY <1>1, <3>3 DEF Br!LaunchOrder
    <3>5. brLaunches # 0 /\ brStage <= Len(Br!LaunchOrder) /\ Staged
      BY <1>1, <3>1 DEF HandleInv
    <3> QED BY <3>4, <3>5 DEF Staged
  <2>3. \A d \in BrowserCalls : brPc'[d] \in {"opening", "acting"} => brHeld'["context"] # 0
    BY <1>1, <1>2 DEF HandleInv
  <2>4. ASSUME brCloseTask' = "none", \A d \in BrowserCalls : brPc'[d] \notin Making
        PROVE  NoneHeld' \/ brHeld'["context"] # 0
    <3>1. CASE brPc[c] \in Making
      BY <1>1, <1>2, <1>4, <2>4, <3>1
    <3>2. CASE brPc[c] \notin Making
      <4>1. \A d \in BrowserCalls : brPc[d] \notin Making
        BY <1>2, <2>4, <3>2
      <4> QED BY <1>1, <1>4, <2>4, <4>1 DEF HandleInv
    <3> QED BY <3>1, <3>2
  <2> QED BY <2>1, <2>2, <2>3, <2>4 DEF HandleInv
<1>8. TabInv'
  BY <1>1 DEF TabInv
<1> QED BY <1>0, <1>3, <1>5, <1>6, <1>7, <1>8

\* The steps of that kind.
LEMMA LeavingKeeps ==
  ASSUME BrowserInv, NEW c \in BrowserCalls,
         Br!Call(c) \/ Br!Acquire(c) \/ Br!Cancel(c) \/ Br!Refuse(c) \/ Br!Finish(c) \/ Br!InterruptRelease(c)
         \/ Br!Launched(c) \/ Br!FailLaunch(c), Moves
  PROVE  BrowserInv'
<1> USE DEF BrowserInv
<1>0. /\ brStage \in Nat /\ brClosed \in BOOLEAN /\ brEnded \in BOOLEAN /\ brOp \in [BrowserCalls -> Br!Ops \cup {Br!Ending}]
      /\ brOp[c] \in Br!Ops \cup {Br!Ending}
  BY DEF BrowserTypeInv
<1>1. ASSUME NEW o \in Br!Ops \cup {Br!Ending} PROVE [brOp EXCEPT ![c] = o] \in [BrowserCalls -> Br!Ops \cup {Br!Ending}]
  BY <1>0, <1>1
<1>2. CASE Br!Call(c)
  <2>1. CallMoves(c, "queued")
    BY <1>0, <1>1, <1>2 DEF Br!Call, CallMoves, Kept, Br!Goes, Br!lifecycle, Br!handles, Br!network,
       Br!tabbing, Using, Making
  <2> QED BY <2>1, CallMovesKeeps DEF Waiting
<1>3. CASE Br!Acquire(c)
  <2>1. CallMoves(c, "ready")
    BY <1>0, <1>3 DEF Br!Acquire, CallMoves, Kept, Br!Goes, Br!lifecycle, Br!handles, Br!network,
       Br!tabbing, Using, Making, Waiting
  <2> QED BY <2>1, CallMovesKeeps DEF Waiting
<1>4. CASE Br!Cancel(c)
  <2>1. CallMoves(c, "idle")
    BY <1>0, <1>1, <1>4 DEF Br!Cancel, Br!Leave, CallMoves, Kept, Br!Goes, Br!lifecycle, Br!handles,
       Br!network, Br!tabbing, Using, Making
  <2> QED BY <2>1, CallMovesKeeps DEF Waiting
<1>5. CASE Br!Refuse(c)
  <2>1. brEnded' => brEnded \/ (brClosed' /\ brSession = 0)
    <3> SUFFICES ASSUME brOp[c] = Br!Ending, ~brEnded PROVE brClosed' /\ brSession = 0
      BY <1>5 DEF Br!Refuse
    <3>1. Br!Closes(c)
      BY DEF Br!Closes, Br!Ending
    <3>2. brSession = 0 /\ brClosed' = brClosed /\ brPc[c] = "ready"
      BY <1>5, <3>1 DEF Br!Refuse, Br!MustShut
    <3> QED BY <3>2 DEF SessionInv
  <2>2. CallMoves(c, "idle")
    BY <1>0, <1>1, <1>5, <2>1 DEF Br!Refuse, Br!Leave, CallMoves, Kept, Br!Goes, Br!lifecycle,
       Br!handles, Br!network, Br!tabbing, Using, Making
  <2> QED BY <2>2, CallMovesKeeps DEF Waiting
<1>6. CASE Br!Finish(c)
  <2>1. CallMoves(c, "idle")
    BY <1>0, <1>1, <1>6 DEF Br!Finish, Br!Leave, CallMoves, Kept, Br!Goes, Br!lifecycle, Br!handles,
       Br!network, Br!tabbing, Using, Making
  <2> QED BY <2>1, CallMovesKeeps DEF Waiting
<1>7. CASE Br!InterruptRelease(c)
  <2>1. CallMoves(c, "idle")
    BY <1>0, <1>1, <1>7 DEF Br!InterruptRelease, Br!Leave, CallMoves, Kept, Br!Goes, Br!lifecycle,
       Br!handles, Br!network, Br!tabbing, Using, Making
  <2> QED BY <2>1, CallMovesKeeps DEF Waiting
<1>8. CASE Br!Launched(c)
  <2>1. ~brCutShort => brHeld["context"] # 0
    <3> SUFFICES ASSUME ~brCutShort PROVE brHeld["context"] # 0
      OBVIOUS
    <3>1. brLaunches # 0 /\ Staged /\ brStage = Len(Br!LaunchOrder)
      BY <1>8 DEF Br!Launched, HandleInv
    <3>2. brStage \in 1 .. brStage /\ Br!LaunchOrder[brStage] = "context" /\ "context" \in Br!Kinds
      BY <1>0, <3>1, LaunchOrderIs DEF Br!Kinds
    <3> QED BY <3>1, <3>2 DEF Staged
  <2>2. CallMoves(c, "opening")
    BY <1>0, <1>8, <2>1 DEF Br!Launched, CallMoves, Kept, Br!Goes, Br!lifecycle, Br!network,
       Br!tabbing, Using, Making, Waiting
  <2> QED BY <2>2, CallMovesKeeps DEF Using
<1>9. CASE Br!FailLaunch(c)
  <2>1. CallMoves(c, "releasing")
    BY <1>0, <1>9 DEF Br!FailLaunch, CallMoves, Kept, Br!Goes, Br!lifecycle, Br!network, Br!tabbing,
       Using, Making, Waiting
  <2> QED BY <2>1, CallMovesKeeps DEF Using
<1> QED BY <1>2, <1>3, <1>4, <1>5, <1>6, <1>7, <1>8, <1>9

-----------------------------------------------------------------------------
(* Closing *)

\* One step of a close: less is held, and what is left is held as before.
LEMMA CloseStepIs ==
  ASSUME BrowserInv, Br!CloseStep, brCutShort' = brCutShort, brAttached' = brAttached
  PROVE  /\ brHeld' \in [Br!Kinds -> Nat] /\ brLive' \in SUBSET (Br!Kinds \X Nat)
         /\ brTunnels' \subseteq brTunnels
         /\ NoneHeld => NoneHeld'
         /\ ~brCutShort => /\ \A h \in brLive' : h[2] # 0 /\ brHeld'[h[1]] = h[2]
                           /\ \A t \in brTunnels' : t.launch = brHeld'["proxy"] /\ brHeld'["proxy"] # 0
         /\ TabInv'
<1> USE DEF BrowserInv
<1>1. brHeld \in [Br!Kinds -> Nat] /\ brLive \in SUBSET (Br!Kinds \X Nat) /\ "context" \in Br!Kinds /\ "proxy" \in Br!Kinds
  BY DEF BrowserTypeInv, Br!Kinds
<1>2. CASE Br!CloseTab
  <2>1. /\ UNCHANGED <<brHeld, brLive, brTunnels>> /\ brAttached /\ brHeld["context"] # 0
    BY <1>2 DEF Br!CloseTab, Br!Holds
  <2>2. PICK t : /\ t \in brOpened \cup brPopups
                 /\ brTabs' = [u \in DOMAIN brTabs \ {t} |-> brTabs[u]]
                 /\ \/ t \in brOpened /\ brOpened' = brOpened \ {t} /\ brPopups' = brPopups
                    \/ brOpened = {} /\ brOpened' = brOpened /\ brPopups' = brPopups \ {t}
    BY <1>2 DEF Br!CloseTab, Br!Drop
  <2>3. TabInv'
    <3> SUFFICES ASSUME ~brCutShort PROVE TabInv'
      BY DEF TabInv
    <3>1. /\ brOpened \cup brPopups \subseteq DOMAIN brTabs /\ brOpened \cap brPopups = {}
          /\ \A u \in DOMAIN brTabs : brTabs[u] = "ours" <=> u \in brOpened \cup brPopups
      BY DEF TabInv
    <3>2. /\ brOpened' \cup brPopups' = (brOpened \cup brPopups) \ {t}
          /\ brOpened' \subseteq brOpened /\ brPopups' \subseteq brPopups
      BY <2>2, <3>1
    <3>3. /\ DOMAIN brTabs' = DOMAIN brTabs \ {t}
          /\ \A u \in DOMAIN brTabs' : brTabs'[u] = brTabs[u]
      BY <2>2
    <3>4. brOpened' \cap brPopups' = {}
      BY <3>1, <3>2
    <3>5. \A u \in DOMAIN brTabs' : brTabs'[u] = "ours" <=> u \in brOpened' \cup brPopups'
      BY <3>1, <3>2, <3>3
    <3>6. brOpened' \cup brPopups' \subseteq DOMAIN brTabs'
      BY <3>1, <3>2, <3>3
    <3> QED BY <2>1, <3>4, <3>5, <3>6 DEF TabInv
  <2> QED BY <1>1, <2>1, <2>3 DEF HandleInv, NoneHeld
<1>3. CASE Br!CloseHandle
  <2> PICK k : k = Br!CloseOrder[Br!NextKind]
    OBVIOUS
  <2>1. /\ k \in Br!Kinds /\ brHeld[k] # 0 /\ (k = "context" \/ brHeld["context"] = 0)
        /\ brAttached /\ k = "context" => brOpened \cup brPopups = {}
        /\ brLive' = brLive \ {<<k, brHeld[k]>>} /\ brHeld' = [brHeld EXCEPT ![k] = 0]
        /\ brTunnels' = {t \in brTunnels : k # "proxy" \/ t.launch # brHeld[k]}
        /\ brOpened' = {} /\ brPopups' = {} /\ brTabs' = brTabs
    BY <1>3, NextKindIs DEF Br!CloseHandle
  <2>2. \A j \in Br!Kinds : brHeld'[j] = IF j = k THEN 0 ELSE brHeld[j]
    BY <1>1, <2>1
  <2>3. ASSUME ~brCutShort, NEW h \in brLive' PROVE h[2] # 0 /\ brHeld'[h[1]] = h[2]
    <3>1. h \in brLive /\ h # <<k, brHeld[k]>> /\ h[2] # 0 /\ brHeld[h[1]] = h[2]
      BY <2>1, <2>3 DEF HandleInv
    <3>2. h[1] \in Br!Kinds /\ h = <<h[1], h[2]>>
      BY <1>1, <3>1
    <3> QED BY <2>2, <3>1, <3>2
  <2>4. ASSUME ~brCutShort, NEW t \in brTunnels' PROVE t.launch = brHeld'["proxy"] /\ brHeld'["proxy"] # 0
    <3>1. t \in brTunnels /\ t.launch = brHeld["proxy"] /\ brHeld["proxy"] # 0
      BY <2>1, <2>4 DEF HandleInv
    <3>2. k # "proxy"
      BY <2>1, <3>1
    <3> QED BY <1>1, <2>2, <3>1, <3>2
  <2>5. TabInv'
    BY <2>1 DEF TabInv
  <2>6. NoneHeld => NoneHeld'
    BY <2>2 DEF NoneHeld
  <2>7. brHeld' \in [Br!Kinds -> Nat] /\ brLive' \in SUBSET (Br!Kinds \X Nat) /\ brTunnels' \subseteq brTunnels
    BY <1>1, <2>1
  <2> QED BY <2>3, <2>4, <2>5, <2>6, <2>7
<1> QED BY <1>2, <1>3 DEF Br!CloseStep

\* A failed launch gives back what it made.
LEMMA ReleaseKeeps ==
  ASSUME BrowserInv, NEW c \in BrowserCalls, Br!Release(c), Moves
  PROVE  BrowserInv'
<1> USE DEF BrowserInv
<1>0. /\ brStage \in Nat /\ brClosed \in BOOLEAN /\ brEnded \in BOOLEAN /\ brOp \in [BrowserCalls -> Br!Ops \cup {Br!Ending}]
  BY DEF BrowserTypeInv
<1>1. CASE Br!CloseStep /\ UNCHANGED <<brPc, brOp, brLock>>
  <2>1. /\ UNCHANGED <<brAttached, brCutShort, brPc, brOp, brLock, brCalls, brClosed, brEnded, brSession, brCloseTask,
                       brSessions, brStage, brLaunches, brApproved, brConsents, brReached>>
        /\ brPc[c] = "releasing"
    BY <1>1 DEF Br!Release, Br!lifecycle
  <2>2. /\ brHeld' \in [Br!Kinds -> Nat] /\ brLive' \in SUBSET (Br!Kinds \X Nat)
        /\ brTunnels' \subseteq brTunnels
        /\ (NoneHeld => NoneHeld')
        /\ (~brCutShort => /\ \A h \in brLive' : h[2] # 0 /\ brHeld'[h[1]] = h[2]
                           /\ \A t \in brTunnels' : t.launch = brHeld'["proxy"] /\ brHeld'["proxy"] # 0)
        /\ TabInv'
    BY <1>1, <2>1, CloseStepIs
  <2>3. \A d \in BrowserCalls : d = c \/ brPc[d] \in Waiting
    BY <2>1, Alone DEF Waiting
  <2>4. BrowserTypeInv' /\ SessionLockInv'
    BY <2>1, <2>2, MovesKeepLock DEF BrowserTypeInv
  <2>5. SessionInv'
    BY <2>1, <2>2 DEF SessionInv
  <2>6. ConsentInv'
    BY <2>1, <2>2 DEF ConsentInv, Br!ReachedWasAllowed, Br!Free
  <2>7. HandleInv'
    BY <2>1, <2>2, <2>3 DEF HandleInv, Making, Waiting
  <2> QED BY <2>2, <2>4, <2>5, <2>6, <2>7
<1>2. CASE ~Br!CloseStep \/ ~(UNCHANGED <<brPc, brOp, brLock>>)
  <2>1. Br!NextKind = 0 /\ Br!Leave(c) /\ UNCHANGED <<brHeld, brLive, brTunnels, brTabs, brOpened, brPopups>>
    BY <1>2 DEF Br!Release
  <2>2. NoneHeld
    BY <2>1, NextKindIs
  <2>3. CallMoves(c, "idle")
    BY <1>0, <2>1, <2>2 DEF Br!Release, Br!Leave, CallMoves, Kept, Br!Goes, Br!lifecycle, Using, Making
  <2> QED BY <2>3, CallMovesKeeps DEF Waiting
<1> QED BY <1>1, <1>2

\* The close that runs by itself.
LEMMA CloseTaskKeeps ==
  ASSUME BrowserInv, Br!RunCloseTask, Moves
  PROVE  BrowserInv'
<1> USE DEF BrowserInv
<1>1. /\ UNCHANGED <<brAttached, brCutShort, brPc, brOp, brLock, brCalls, brClosed, brEnded, brSession,
                     brSessions, brStage, brLaunches, brApproved, brConsents, brReached>>
      /\ brCloseTask = "running" /\ brCloseTask' \in {"running", "done"}
  BY DEF Br!RunCloseTask
<1>2. /\ brHeld' \in [Br!Kinds -> Nat] /\ brLive' \in SUBSET (Br!Kinds \X Nat)
      /\ brTunnels' \subseteq brTunnels
      /\ (NoneHeld => NoneHeld') /\ (brCloseTask' = "done" => NoneHeld')
      /\ (~brCutShort => /\ \A h \in brLive' : h[2] # 0 /\ brHeld'[h[1]] = h[2]
                         /\ \A t \in brTunnels' : t.launch = brHeld'["proxy"] /\ brHeld'["proxy"] # 0)
      /\ TabInv'
  <2>1. CASE Br!CloseStep /\ brCloseTask' = brCloseTask
    BY <1>1, <2>1, CloseStepIs
  <2>2. CASE Br!NextKind = 0 /\ UNCHANGED <<brHeld, brLive, brTunnels, brTabs, brOpened, brPopups>>
    <3>1. NoneHeld /\ NoneHeld'
      BY <2>2, NextKindIs DEF NoneHeld
    <3>2. brHeld' \in [Br!Kinds -> Nat] /\ brLive' \in SUBSET (Br!Kinds \X Nat)
      BY <2>2 DEF BrowserTypeInv
    <3>3. TabInv'
      BY <1>1, <2>2 DEF TabInv
    <3> QED BY <1>1, <2>2, <3>1, <3>2, <3>3 DEF HandleInv
  <2> QED BY <2>1, <2>2 DEF Br!RunCloseTask
<1>3. \A d \in BrowserCalls : brPc[d] \notin Using
  BY <1>1 DEF SessionInv
<1>4. BrowserTypeInv' /\ SessionLockInv'
  BY <1>1, <1>2, MovesKeepLock DEF BrowserTypeInv
<1>5. SessionInv'
  BY <1>1, <1>2 DEF SessionInv
<1>6. ConsentInv'
  BY <1>1, <1>2 DEF ConsentInv, Br!ReachedWasAllowed, Br!Free
<1>7. HandleInv'
  BY <1>1, <1>2, <1>3 DEF HandleInv, Using
<1> QED BY <1>2, <1>4, <1>5, <1>6, <1>7

\* A session is closed, or dropped.
LEMMA ShutKeeps ==
  ASSUME BrowserInv, NEW c \in BrowserCalls, Br!Shut(c) \/ Br!ShutDone(c), Moves
  PROVE  BrowserInv'
<1> USE DEF BrowserInv
<1>0. SessionLockInv' /\ brLock' \in SUBSET BrowserCalls
      /\ brPc' \in [BrowserCalls -> Waiting \cup Using \cup {"ready", "shutting"}]
  BY MovesKeepLock
<1>1. /\ UNCHANGED <<brAttached, brCutShort, brCalls, brClosed, brSessions, brStage, brLaunches, brHeld, brLive,
                     brApproved, brTunnels, brConsents, brReached, brTabs, brOpened, brPopups>>
  BY DEF Br!Shut, Br!ShutDone, Br!handles, Br!network, Br!tabbing
<1>2. brPc \in [BrowserCalls -> Waiting \cup Using \cup {"ready", "shutting"}] /\ brOp \in [BrowserCalls -> Br!Ops \cup {Br!Ending}]
  BY DEF BrowserTypeInv
<1>3. NoneHeld' = NoneHeld /\ TabInv' /\ brHeld' \in [Br!Kinds -> Nat] /\ brEnded \in BOOLEAN
  BY <1>1 DEF NoneHeld, TabInv, BrowserTypeInv
<1>4. CASE Br!Shut(c)
  <2>1. /\ brPc[c] = "ready" /\ brSession # 0 /\ brSession' = brSession /\ brCloseTask' = "running"
        /\ brOp' = brOp /\ brEnded' = brEnded /\ \A d \in BrowserCalls : brPc'[d] = IF d = c THEN "shutting" ELSE brPc[d]
    BY <1>2, <1>4 DEF Br!Shut, Br!MustShut, Br!Goes
  <2>2. \A d \in BrowserCalls : d = c \/ brPc[d] \in Waiting
    BY <2>1, Alone DEF Waiting
  <2>3. BrowserTypeInv'
    BY <1>0, <1>1, <2>1 DEF BrowserTypeInv
  <2>4. SessionInv'
    BY <1>1, <1>3, <2>1, <2>2 DEF SessionInv, Using, Waiting
  <2>5. ConsentInv'
    BY <1>1, <2>1 DEF ConsentInv, Br!ReachedWasAllowed, Br!Free
  <2>6. HandleInv'
    BY <1>1, <1>3, <2>1, <2>2 DEF HandleInv, Waiting
  <2> QED BY <1>0, <1>3, <2>3, <2>4, <2>5, <2>6
<1>5. CASE Br!ShutDone(c)
  <2>1. /\ brPc[c] = "shutting" /\ NoneHeld /\ brSession' = 0 /\ brCloseTask' = "none"
        /\ brEnded' = (brEnded \/ brOp[c] = Br!Ending)
    BY <1>5 DEF Br!ShutDone, SessionInv
  <2>2. /\ \A d \in BrowserCalls : brPc'[d] = IF d = c THEN brPc'[c] ELSE brPc[d]
        /\ \A d \in BrowserCalls : brOp'[d] = IF d = c THEN brOp'[c] ELSE brOp[d]
        /\ brPc'[c] \in {"idle", "ready"} /\ (brPc'[c] = "ready" => brOp'[c] = brOp[c])
        /\ brOp' \in [BrowserCalls -> Br!Ops \cup {Br!Ending}]
    BY <1>2, <1>5 DEF Br!ShutDone, Br!Leave, Br!Goes
  <2>3. \A d \in BrowserCalls : d = c \/ brPc[d] \in Waiting
    BY <2>1, Alone DEF Waiting
  <2>4. BrowserTypeInv'
    BY <1>0, <1>1, <1>3, <2>1, <2>2 DEF BrowserTypeInv
  <2>5. SessionInv'
    BY <1>1, <1>3, <2>1, <2>2, <2>3 DEF SessionInv, Using, Waiting
  <2>6. ConsentInv'
    BY <1>1, <2>1 DEF ConsentInv, Br!ReachedWasAllowed, Br!Free
  <2>7. HandleInv'
    BY <1>1, <1>3, <2>1, <2>2, <2>3 DEF HandleInv, Waiting
  <2> QED BY <1>0, <1>3, <2>4, <2>5, <2>6, <2>7
<1> QED BY <1>4, <1>5

-----------------------------------------------------------------------------
(* Using a session *)

\* A session is opened if there is none; the new one has no approvals.
LEMMA UseKeeps ==
  ASSUME BrowserInv, NEW c \in BrowserCalls, Br!Use(c), Moves
  PROVE  BrowserInv'
<1> USE DEF BrowserInv
<1>0. SessionLockInv' /\ brLock' \in SUBSET BrowserCalls
      /\ brPc' \in [BrowserCalls -> Waiting \cup Using \cup {"ready", "shutting"}]
  BY MovesKeepLock
<1>1. /\ UNCHANGED <<brAttached, brCutShort, brOp, brCalls, brClosed, brEnded, brCloseTask, brStage, brLaunches,
                     brHeld, brLive, brTunnels, brConsents, brReached, brTabs, brOpened, brPopups>>
      /\ brPc[c] = "ready" /\ ~brClosed
      /\ brSession = 0 \/ brCloseTask = "none"
      /\ brSession' = IF brSession = 0 THEN brSessions + 1 ELSE brSession
      /\ brSessions' = IF brSession = 0 THEN brSessions + 1 ELSE brSessions
      /\ brApproved' = IF brSession = 0 THEN {} ELSE brApproved
  BY DEF Br!Use, Br!MustShut, Br!Refuses, Br!Known, Br!handles, Br!tabbing
<1>2. /\ brPc'[c] \in {"asking", "starting"} /\ \A d \in BrowserCalls : d # c => brPc'[d] = brPc[d]
  <2>1. brPc \in [BrowserCalls -> Waiting \cup Using \cup {"ready", "shutting"}]
    BY DEF BrowserTypeInv
  <2> QED BY <2>1 DEF Br!Use, Br!Goes
<1>3. /\ brSession' # 0 /\ brSession' \in Nat /\ brSessions' \in Nat
      /\ brCloseTask = "none" /\ ~brEnded
  BY <1>1 DEF BrowserTypeInv, SessionInv
<1>4. \A d \in BrowserCalls : d = c \/ brPc[d] \in Waiting
  BY <1>1, Alone DEF Waiting
<1>5. BrowserTypeInv'
  BY <1>0, <1>1, <1>3 DEF BrowserTypeInv
<1>6. SessionInv'
  BY <1>1, <1>2, <1>3, <1>4 DEF SessionInv, NoneHeld, Waiting, Using
<1>7. ConsentInv'
  BY <1>1, <1>3 DEF ConsentInv, Br!ReachedWasAllowed, Br!Free
<1>8. HandleInv'
  BY <1>1, <1>2, <1>4 DEF HandleInv, NoneHeld, Waiting, Making
<1>9. TabInv'
  BY <1>1 DEF TabInv
<1> QED BY <1>0, <1>5, <1>6, <1>7, <1>8, <1>9

\* Only the user adds to the approvals.
LEMMA AnswerKeeps ==
  ASSUME BrowserInv, NEW c \in BrowserCalls, NEW yes \in BOOLEAN, Br!Answer(c, yes), Moves
  PROVE  BrowserInv'
<1> USE DEF BrowserInv
<1>0. SessionLockInv' /\ brLock' \in SUBSET BrowserCalls
      /\ brPc' \in [BrowserCalls -> Waiting \cup Using \cup {"ready", "shutting"}]
  BY MovesKeepLock
<1>1. CASE ~yes
  <2>1. /\ brStage \in Nat /\ brClosed \in BOOLEAN /\ brEnded \in BOOLEAN /\ brOp \in [BrowserCalls -> Br!Ops \cup {Br!Ending}]
    BY DEF BrowserTypeInv
  <2>2. CallMoves(c, "idle")
    BY <1>1, <2>1 DEF Br!Answer, Br!Leave, CallMoves, Kept, Br!Goes, Br!lifecycle, Br!handles,
       Br!tabbing, Using, Making
  <2> QED BY <2>2, CallMovesKeeps DEF Waiting
<1>2. CASE yes
  <2>1. /\ UNCHANGED <<brAttached, brCutShort, brOp, brCalls, brClosed, brEnded, brSession, brSessions, brCloseTask,
                       brStage, brLaunches, brHeld, brLive, brTunnels, brReached, brTabs, brOpened, brPopups>>
        /\ brPc[c] = "asking"
        /\ brApproved' = brApproved \cup {brOp[c].host}
        /\ brConsents' = brConsents \cup {<<brSession, brOp[c].host>>}
    BY <1>2 DEF Br!Answer, Br!lifecycle, Br!handles, Br!tabbing
  <2>2. brPc'[c] = "starting" /\ \A d \in BrowserCalls : d # c => brPc'[d] = brPc[d]
    <3>1. brPc \in [BrowserCalls -> Waiting \cup Using \cup {"ready", "shutting"}]
      BY DEF BrowserTypeInv
    <3> QED BY <1>2, <3>1 DEF Br!Answer, Br!Goes
  <2>3. BrowserTypeInv'
    BY <1>0, <2>1 DEF BrowserTypeInv
  <2>4. SessionInv'
    BY <2>1, <2>2 DEF SessionInv, NoneHeld, Using
  <2>5. ConsentInv'
    BY <2>1 DEF ConsentInv, Br!ReachedWasAllowed, Br!Free
  <2>6. HandleInv'
    <3>1. \A d \in BrowserCalls : d = c \/ brPc[d] \in Waiting
      BY <2>1, Alone DEF Waiting
    <3> QED BY <2>1, <2>2, <3>1 DEF HandleInv, NoneHeld, Making, Waiting
  <2>7. TabInv'
    BY <2>1 DEF TabInv
  <2> QED BY <1>0, <2>3, <2>4, <2>5, <2>6, <2>7
<1> QED BY <1>1, <1>2

\* A launch begins with nothing in hand.
LEMMA StartKeeps ==
  ASSUME BrowserInv, NEW c \in BrowserCalls, Br!Start(c), Moves
  PROVE  BrowserInv'
<1> USE DEF BrowserInv
<1>0. SessionLockInv' /\ brLock' \in SUBSET BrowserCalls
      /\ brPc' \in [BrowserCalls -> Waiting \cup Using \cup {"ready", "shutting"}]
  BY MovesKeepLock
<1>1. /\ UNCHANGED <<brAttached, brCutShort, brOp, brLock, brCalls, brClosed, brEnded, brSession, brSessions, brCloseTask,
                     brHeld, brLive, brApproved, brTunnels, brConsents, brReached, brTabs, brOpened, brPopups>>
      /\ brPc[c] = "starting"
  BY DEF Br!Start, Br!lifecycle, Br!network, Br!tabbing
<1>2. /\ brStage \in Nat /\ brClosed \in BOOLEAN /\ brEnded \in BOOLEAN /\ brOp \in [BrowserCalls -> Br!Ops \cup {Br!Ending}]
      /\ brLaunches \in Nat /\ brPc \in [BrowserCalls -> Waiting \cup Using \cup {"ready", "shutting"}]
  BY DEF BrowserTypeInv
<1>3. CASE brHeld["context"] # 0
  <2>1. CallMoves(c, "opening")
    BY <1>1, <1>2, <1>3 DEF Br!Start, CallMoves, Kept, Br!Goes, Using, Making
  <2> QED BY <2>1, CallMovesKeeps DEF Using
<1>4. CASE brHeld["context"] = 0
  <2>1. /\ brLaunches' = brLaunches + 1 /\ brStage' = 0
        /\ brPc'[c] = "launching" /\ \A d \in BrowserCalls : d # c => brPc'[d] = brPc[d]
    BY <1>2, <1>4 DEF Br!Start, Br!Goes
  <2>2. \A d \in BrowserCalls : d = c \/ brPc[d] \in Waiting
    BY <1>1, Alone DEF Waiting
  <2>3. BrowserTypeInv'
    BY <1>0, <1>1, <1>2, <2>1 DEF BrowserTypeInv
  <2>4. SessionInv'
    BY <1>1, <2>1 DEF SessionInv, NoneHeld, Using
  <2>5. ConsentInv' /\ TabInv'
    BY <1>1 DEF ConsentInv, Br!ReachedWasAllowed, Br!Free, TabInv
  <2>6. HandleInv'
    <3> SUFFICES ASSUME ~brCutShort PROVE HandleInv'
      BY <1>1 DEF HandleInv
    <3>1. NoneHeld
      BY <1>1, <1>4, <2>2 DEF HandleInv, SessionInv, Making, Waiting, Using
    <3>2. Staged'
      BY <1>1, <2>1, <3>1 DEF Staged, NoneHeld
    <3>3. brStage' <= Len(Br!LaunchOrder')
      BY <1>1, <2>1, LaunchOrderIs DEF Br!LaunchOrder
    <3> QED BY <1>1, <1>2, <2>1, <2>2, <3>2, <3>3 DEF HandleInv, Making, Waiting
  <2> QED BY <1>0, <2>3, <2>4, <2>5, <2>6
<1> QED BY <1>3, <1>4

\* The next handle is stored as soon as it exists.
LEMMA LaunchKeeps ==
  ASSUME BrowserInv, NEW c \in BrowserCalls, Br!Launch(c), Moves
  PROVE  BrowserInv'
<1> USE DEF BrowserInv
<1>0. SessionLockInv'
  BY MovesKeepLock
<1> PICK k : k = Br!LaunchOrder[brStage + 1]
  OBVIOUS
<1>1. /\ UNCHANGED <<brAttached, brCutShort, brPc, brOp, brLock, brCalls, brClosed, brEnded, brSession, brSessions,
                     brCloseTask, brLaunches, brApproved, brTunnels, brConsents, brReached, brTabs, brOpened, brPopups>>
      /\ brPc[c] = "launching" /\ brStage < Len(Br!LaunchOrder) /\ brStage' = brStage + 1
      /\ brHeld' = [brHeld EXCEPT ![k] = brLaunches] /\ brLive' = brLive \cup {<<k, brLaunches>>}
  BY DEF Br!Launch, Br!lifecycle, Br!network
<1>2. /\ brStage \in Nat /\ brLaunches \in Nat /\ brHeld \in [Br!Kinds -> Nat] /\ brLive \in SUBSET (Br!Kinds \X Nat)
  BY DEF BrowserTypeInv
<1>3. brStage + 1 \in 1 .. Len(Br!LaunchOrder) /\ k \in Br!Kinds /\ Br!LaunchOrder' = Br!LaunchOrder
      /\ Len(Br!LaunchOrder) \in Nat
  BY <1>1, <1>2, LaunchOrderIs DEF Br!LaunchOrder
<1>4. \A j \in Br!Kinds : brHeld'[j] = IF j = k THEN brLaunches ELSE brHeld[j]
  BY <1>1, <1>2, <1>3
<1>5. \A d \in BrowserCalls : d = c \/ brPc[d] \in Waiting
  BY <1>1, Alone DEF Waiting
<1>6. BrowserTypeInv'
  BY <1>1, <1>2, <1>3 DEF BrowserTypeInv
<1>7. SessionInv'
  BY <1>1 DEF SessionInv, Using
<1>8. ConsentInv'
  BY <1>1 DEF ConsentInv, Br!ReachedWasAllowed, Br!Free
<1>9. ~brCutShort => brHeld[k] = 0 /\ brLaunches # 0
  <2> SUFFICES ASSUME ~brCutShort, brHeld[k] # 0 PROVE FALSE
    BY <1>1 DEF HandleInv
  <2>1. PICK i \in 1 .. brStage : Br!LaunchOrder[i] = k
    BY <1>1, <1>3 DEF HandleInv, Staged
  <2>2. i \in 1 .. Len(Br!LaunchOrder) /\ i # brStage + 1
    BY <1>1, <1>2, <1>3
  <2> QED BY <1>3, <2>1, <2>2, LaunchOrderIs
<1>10. HandleInv'
  <2> SUFFICES ASSUME ~brCutShort PROVE HandleInv'
    BY <1>1 DEF HandleInv
  <2>1. ASSUME NEW h \in brLive' PROVE h[2] # 0 /\ brHeld'[h[1]] = h[2]
    <3>1. CASE h = <<k, brLaunches>>
      BY <1>3, <1>4, <1>9, <3>1
    <3>2. CASE h \in brLive
      <4>1. h[1] \in Br!Kinds /\ h[2] # 0 /\ brHeld[h[1]] = h[2]
        BY <1>2, <3>2 DEF HandleInv
      <4> QED BY <1>4, <1>9, <4>1
    <3> QED BY <1>1, <3>1, <3>2
  <2>2. \A t \in brTunnels : t.launch = brHeld'["proxy"] /\ brHeld'["proxy"] # 0
    <3>1. "proxy" \in Br!Kinds
      BY DEF Br!Kinds
    <3> QED BY <1>4, <1>9, <3>1 DEF HandleInv
  <2>3. Staged'
    <3> SUFFICES ASSUME NEW j \in Br!Kinds
                 PROVE  brHeld'[j] = IF \E i \in 1 .. brStage + 1 : Br!LaunchOrder[i] = j
                                     THEN brLaunches ELSE 0
      BY <1>1, <1>3 DEF Staged
    <3>1. brHeld[j] = IF \E i \in 1 .. brStage : Br!LaunchOrder[i] = j THEN brLaunches ELSE 0
      BY <1>1 DEF HandleInv, Staged
    <3>2. (\E i \in 1 .. brStage + 1 : Br!LaunchOrder[i] = j)
          <=> (\E i \in 1 .. brStage : Br!LaunchOrder[i] = j) \/ j = k
      BY <1>2, <1>3
    <3> QED BY <1>4, <3>1, <3>2
  <2>4. brStage' <= Len(Br!LaunchOrder')
    BY <1>1, <1>2, <1>3
  <2> QED BY <1>1, <1>5, <1>9, <2>1, <2>2, <2>3, <2>4 DEF HandleInv, Making, Waiting
<1>11. TabInv'
  <2>1. ~brCutShort /\ brHeld'["context"] = 0 => brHeld["context"] = 0
    <3>1. "context" \in Br!Kinds
      BY DEF Br!Kinds
    <3> QED BY <1>4, <1>9, <3>1
  <2> QED BY <1>1, <2>1 DEF TabInv
<1> QED BY <1>0, <1>6, <1>7, <1>8, <1>10, <1>11

\* A session without a tab of its own opens one.
LEMMA OpenKeeps ==
  ASSUME BrowserInv, NEW c \in BrowserCalls, Br!Open(c) \/ Br!CancelOpen(c), Moves
  PROVE  BrowserInv'
<1> USE DEF BrowserInv
<1>0. SessionLockInv' /\ brLock' \in SUBSET BrowserCalls
      /\ brPc' \in [BrowserCalls -> Waiting \cup Using \cup {"ready", "shutting"}]
  BY MovesKeepLock
<1>1. /\ UNCHANGED <<brAttached, brCalls, brClosed, brEnded, brSession, brSessions, brCloseTask, brLaunches, brStage,
                     brHeld, brLive, brApproved, brTunnels, brConsents, brReached>>
      /\ brPc[c] = "opening"
  BY DEF Br!Open, Br!CancelOpen, Br!lifecycle, Br!handles, Br!network
<1>2. /\ brStage \in Nat /\ brClosed \in BOOLEAN /\ brEnded \in BOOLEAN /\ brOp \in [BrowserCalls -> Br!Ops \cup {Br!Ending}]
      /\ brPc \in [BrowserCalls -> Waiting \cup Using \cup {"ready", "shutting"}]
  BY DEF BrowserTypeInv
<1>3. \A d \in BrowserCalls : d = c \/ brPc[d] \in Waiting
  BY <1>1, Alone DEF Waiting
<1>4. CASE UNCHANGED <<brTabs, brOpened, brPopups>> /\ Br!Open(c)
  <2>1. brCutShort \/ brHeld["context"] # 0
    BY <1>1 DEF HandleInv
  <2>2. CallMoves(c, "acting")
    BY <1>1, <1>2, <1>4, <2>1 DEF Br!Open, CallMoves, Kept, Br!Goes, Br!lifecycle, Using, Making
  <2> QED BY <2>2, CallMovesKeeps DEF Using
<1>5. ASSUME Br!Open(c), brAttached, NEW tab, Br!NewTab("ours", tab), brOpened' = brOpened \cup {tab}
      PROVE  BrowserInv'
  <2>1. /\ brOp' = brOp /\ brCutShort' = brCutShort /\ brPopups' = brPopups
        /\ brPc'[c] = "acting" /\ \A d \in BrowserCalls : d # c => brPc'[d] = brPc[d]
    BY <1>2, <1>5 DEF Br!Open, Br!Goes
  <2>2. BrowserTypeInv'
    BY <1>0, <1>1, <2>1 DEF BrowserTypeInv
  <2>3. SessionInv'
    BY <1>1, <2>1 DEF SessionInv, NoneHeld, Using
  <2>4. ConsentInv'
    BY <1>1 DEF ConsentInv, Br!ReachedWasAllowed, Br!Free
  <2>5. HandleInv'
    BY <1>1, <1>3, <2>1 DEF HandleInv, NoneHeld, Making, Waiting
  <2>6. TabInv'
    <3> SUFFICES ASSUME ~brCutShort PROVE TabInv'
      BY <2>1 DEF TabInv
    <3>1. brHeld["context"] # 0 /\ brHeld' = brHeld /\ brAttached'
      BY <1>1, <1>5 DEF HandleInv
    <3>2. /\ tab \notin DOMAIN brTabs /\ DOMAIN brTabs' = DOMAIN brTabs \cup {tab} /\ brTabs'[tab] = "ours"
          /\ \A t \in DOMAIN brTabs : brTabs'[t] = brTabs[t]
      BY <1>5 DEF Br!NewTab
    <3> QED BY <1>5, <2>1, <3>1, <3>2 DEF TabInv
  <2> QED BY <1>0, <2>2, <2>3, <2>4, <2>5, <2>6
<1>6. CASE Br!CancelOpen(c)
  <2>1. /\ brCutShort' = TRUE /\ brOp' \in [BrowserCalls -> Br!Ops \cup {Br!Ending}]
        /\ \A d \in BrowserCalls : d # c => brOp'[d] = brOp[d] /\ brPc'[d] = brPc[d]
        /\ brPc'[c] = "idle"
    BY <1>2, <1>6 DEF Br!CancelOpen, Br!Leave, Br!Goes
  <2>2. BrowserTypeInv'
    BY <1>0, <1>1, <2>1 DEF BrowserTypeInv
  <2>3. SessionInv'
    BY <1>1, <2>1 DEF SessionInv, NoneHeld, Using
  <2>4. ConsentInv' /\ HandleInv' /\ TabInv'
    BY <1>1, <2>1 DEF ConsentInv, Br!ReachedWasAllowed, Br!Free, HandleInv, TabInv
  <2> QED BY <1>0, <2>2, <2>3, <2>4
<1> QED BY <1>4, <1>5, <1>6 DEF Br!Open

-----------------------------------------------------------------------------
(* The page, the network, the owner *)

\* The calls and the session stay as they are.
Outside ==
  UNCHANGED <<brAttached, brCutShort, brPc, brOp, brLock, brClosed, brEnded, brSession, brSessions, brCloseTask,
              brLaunches, brStage, brHeld, brLive, brApproved, brConsents>>

LEMMA OutsideKeeps ==
  ASSUME BrowserInv, Outside
  PROVE  BrowserTypeInv' /\ SessionLockInv' /\ SessionInv'
         /\ (brTunnels' = brTunnels => HandleInv')
         /\ (brTunnels' = brTunnels /\ brReached' = brReached => ConsentInv')
         /\ (UNCHANGED <<brTabs, brOpened, brPopups>> => TabInv')
<1> USE DEF BrowserInv, Outside
<1>1. BrowserTypeInv' /\ SessionLockInv'
  BY DEF BrowserTypeInv, SessionLockInv
<1>2. SessionInv'
  BY DEF SessionInv, NoneHeld
<1>3. brTunnels' = brTunnels => HandleInv'
  BY DEF HandleInv, NoneHeld, Staged, Br!LaunchOrder
<1>4. brTunnels' = brTunnels /\ brReached' = brReached => ConsentInv'
  BY DEF ConsentInv, Br!ReachedWasAllowed, Br!Free
<1>5. UNCHANGED <<brTabs, brOpened, brPopups>> => TabInv'
  BY DEF TabInv
<1> QED BY <1>1, <1>2, <1>3, <1>4, <1>5

\* A connection is of the session that holds the proxy.
LEMMA ConnectKeeps ==
  ASSUME BrowserInv, NEW h \in Hosts, Br!Connect(h)
  PROVE  BrowserInv'
<1> USE DEF BrowserInv
<1> PICK t : t = [host |-> h, session |-> brSession, launch |-> brHeld["proxy"], vetted |-> FALSE]
  OBVIOUS
<1>1. /\ Outside /\ UNCHANGED <<brReached, brTabs, brOpened, brPopups>>
      /\ brTunnels' = brTunnels \cup {t} /\ brHeld["context"] # 0 /\ brHeld["proxy"] # 0
  BY DEF Br!Connect, Outside, Br!lifecycle, Br!handles, Br!tabbing
<1>2. t.session = brSession /\ t.launch = brHeld["proxy"]
  OBVIOUS
<1>3. brSession # 0
  BY <1>1 DEF SessionInv, NoneHeld, Br!Kinds
<1>4. ConsentInv'
  <2> DEFINE no == FALSE
  <2>1. no \in BOOLEAN /\ t = [host |-> h, session |-> brSession, launch |-> brHeld["proxy"],
                               vetted |-> no]
    OBVIOUS
  <2> HIDE DEF no
  <2>2. brSession \in Nat /\ brHeld["proxy"] \in Nat
    BY DEF BrowserTypeInv, Br!Kinds
  <2>3. t \in Tunnels
    BY <2>1, <2>2 DEF Tunnels
  <2> QED BY <1>1, <1>2, <1>3, <2>3 DEF ConsentInv, Br!ReachedWasAllowed, Br!Free, Outside
<1>5. HandleInv'
  <2>1. \A u \in brTunnels' : ~brCutShort => u.launch = brHeld["proxy"] /\ brHeld["proxy"] # 0
    BY <1>1, <1>2 DEF HandleInv
  <2> QED BY <1>1, <2>1 DEF HandleInv, NoneHeld, Staged, Br!LaunchOrder, Outside
<1> QED BY <1>1, <1>4, <1>5, OutsideKeeps

\* It gets through by what its own session was allowed.
LEMMA VetKeeps ==
  ASSUME BrowserInv, NEW t \in brTunnels, Br!Vet(t)
  PROVE  BrowserInv'
<1> USE DEF BrowserInv
<1> PICK u : u = [t EXCEPT !.vetted = TRUE]
  OBVIOUS
<1>1. /\ Outside /\ UNCHANGED <<brTabs, brOpened, brPopups>>
      /\ \/ /\ Br!Allowed(t.session, t.host)
            /\ brTunnels' = (brTunnels \ {t}) \cup {u} /\ brReached' = {<<t.session, t.host>>}
         \/ brTunnels' = brTunnels \ {t} /\ brReached' = brReached
  BY DEF Br!Vet, Outside, Br!lifecycle, Br!handles, Br!tabbing
<1>2. t.session # 0
  BY DEF ConsentInv
<1>3. u \in Tunnels /\ u.session = t.session /\ u.launch = t.launch
  <2> DEFINE yes == TRUE
  <2>1. yes \in BOOLEAN /\ u = [t EXCEPT !.vetted = yes] /\ t \in Tunnels
    BY DEF ConsentInv
  <2> HIDE DEF yes
  <2> QED BY <2>1 DEF Tunnels
<1>4. \A v \in brTunnels' : v \in brTunnels \/ v = u
  BY <1>1
<1>5. \A r \in brReached' : Br!Free(r[2]) \/ r \in brConsents
  <2>1. CASE Br!Allowed(t.session, t.host) /\ brReached' = {<<t.session, t.host>>}
    <3>1. Br!Free(t.host) \/ <<t.session, t.host>> \in brConsents
      BY <1>2, <2>1 DEF Br!Allowed, ConsentInv
    <3> QED BY <2>1, <3>1
  <2>2. CASE brReached' = brReached
    BY <2>2 DEF ConsentInv, Br!ReachedWasAllowed
  <2> QED BY <1>1, <2>1, <2>2
<1>6. ConsentInv'
  BY <1>1, <1>2, <1>3, <1>4, <1>5 DEF ConsentInv, Br!ReachedWasAllowed, Br!Free, Outside
<1>7. HandleInv'
  <2>1. \A v \in brTunnels' : ~brCutShort => v.launch = brHeld["proxy"] /\ brHeld["proxy"] # 0
    BY <1>3, <1>4 DEF HandleInv
  <2> QED BY <1>1, <2>1 DEF HandleInv, NoneHeld, Staged, Br!LaunchOrder, Outside
<1> QED BY <1>1, <1>6, <1>7, OutsideKeeps

\* The guard of an attached browser goes by the session's approvals.
LEMMA RequestKeeps ==
  ASSUME BrowserInv, NEW h \in Hosts, Br!Request(h)
  PROVE  BrowserInv'
<1> USE DEF BrowserInv
<1>1. /\ Outside /\ UNCHANGED <<brTunnels, brTabs, brOpened, brPopups>>
      /\ brHeld["context"] # 0 /\ Br!Allowed(brSession, h) /\ brReached' = {<<brSession, h>>}
  BY DEF Br!Request, Outside, Br!lifecycle, Br!handles, Br!tabbing
<1>2. brSession # 0
  BY <1>1 DEF SessionInv, NoneHeld, Br!Kinds
<1>3. Br!Free(h) \/ <<brSession, h>> \in brConsents
  BY <1>1, <1>2 DEF Br!Allowed, ConsentInv
<1>4. \A r \in brReached' : Br!Free(r[2]) \/ r \in brConsents
  BY <1>1, <1>3
<1>5. ConsentInv'
  BY <1>1, <1>4 DEF ConsentInv, Br!ReachedWasAllowed, Br!Free, Outside
<1> QED BY <1>1, <1>5, OutsideKeeps

\* Tabs come and go.
LEMMA TabsKeep ==
  ASSUME BrowserInv, Br!Popup \/ Br!OwnerOpens \/ Br!OwnerCloses
  PROVE  BrowserInv'
<1> USE DEF BrowserInv
<1>1. /\ Outside /\ UNCHANGED <<brTunnels, brReached>> /\ brAttached
  BY DEF Br!Popup, Br!OwnerOpens, Br!OwnerCloses, Outside, Br!lifecycle, Br!handles, Br!network
<1>2. brAttached' = brAttached /\ brCutShort' = brCutShort /\ brHeld' = brHeld
  BY <1>1 DEF Outside
<1> SUFFICES ASSUME ~brCutShort PROVE TabInv'
  BY <1>1, <1>2, OutsideKeeps DEF TabInv
<1>3. CASE Br!Popup
  <2>1. PICK tab : Br!NewTab("ours", tab) /\ brPopups' = brPopups \cup {tab} /\ brOpened' = brOpened
    BY <1>3 DEF Br!Popup
  <2>2. /\ tab \notin DOMAIN brTabs /\ DOMAIN brTabs' = DOMAIN brTabs \cup {tab} /\ brTabs'[tab] = "ours"
        /\ \A t \in DOMAIN brTabs : brTabs'[t] = brTabs[t]
    BY <2>1 DEF Br!NewTab
  <2>3. brHeld["context"] # 0
    BY <1>3 DEF Br!Popup, Br!Acting, HandleInv
  <2> QED BY <1>1, <1>2, <2>1, <2>2, <2>3 DEF TabInv
<1>4. CASE Br!OwnerOpens
  <2>1. PICK tab : Br!NewTab("owner", tab)
    BY <1>4 DEF Br!OwnerOpens
  <2>2. /\ tab \notin DOMAIN brTabs /\ DOMAIN brTabs' = DOMAIN brTabs \cup {tab} /\ brTabs'[tab] = "owner"
        /\ \A t \in DOMAIN brTabs : brTabs'[t] = brTabs[t]
    BY <2>1 DEF Br!NewTab
  <2>3. brOpened' = brOpened /\ brPopups' = brPopups
    BY <1>4 DEF Br!OwnerOpens
  <2> QED BY <1>2, <2>2, <2>3 DEF TabInv
<1>5. CASE Br!OwnerCloses
  <2>1. PICK t : /\ brTabs' = [u \in DOMAIN brTabs \ {t} |-> brTabs[u]]
                 /\ brOpened' = brOpened \ {t} /\ brPopups' = brPopups \ {t}
    BY <1>5 DEF Br!OwnerCloses, Br!Drop
  <2>2. DOMAIN brTabs' = DOMAIN brTabs \ {t} /\ \A u \in DOMAIN brTabs' : brTabs'[u] = brTabs[u]
    BY <2>1
  <2> QED BY <1>2, <2>1, <2>2 DEF TabInv
<1> QED BY <1>3, <1>4, <1>5

-----------------------------------------------------------------------------
(* Every step *)

LEMMA BrowserInvStep == BrowserInv /\ [Br!Next]_(Br!vars) => BrowserInv'
<1> SUFFICES ASSUME BrowserInv, [Br!Next]_(Br!vars) PROVE BrowserInv'
  OBVIOUS
<1>1. Moves
  BY StepFrame DEF BrowserInv
<1>2. CASE UNCHANGED Br!vars
  <2>1. Outside /\ UNCHANGED <<brTunnels, brReached, brTabs, brOpened, brPopups>>
    BY <1>2 DEF Br!vars, Br!lifecycle, Br!handles, Br!network, Br!tabbing, Outside
  <2> QED BY <2>1, OutsideKeeps DEF BrowserInv
<1>3. CASE Br!World
  BY <1>1, <1>3, CloseTaskKeeps, ConnectKeeps, RequestKeeps, VetKeeps, TabsKeep DEF Br!World
<1>4. ASSUME NEW c \in BrowserCalls, Br!Step(c) PROVE BrowserInv'
  BY <1>1, <1>4, LeavingKeeps, ShutKeeps, UseKeeps, AnswerKeeps, StartKeeps, LaunchKeeps,
     OpenKeeps, ReleaseKeeps DEF Br!Step
<1> QED BY <1>2, <1>3, <1>4 DEF Br!Next

LEMMA BrowserInvSound == BrowserInv => Br!SessionsAreSound
<1> SUFFICES ASSUME BrowserInv PROVE Br!SessionsAreSound
  OBVIOUS
<1> USE DEF BrowserInv
<1>1. ~brCutShort /\ brSession = 0 => brLive = {} /\ brTunnels = {} /\ brOpened \cup brPopups = {}
  <2> SUFFICES ASSUME ~brCutShort, brSession = 0
               PROVE  brLive = {} /\ brTunnels = {} /\ brOpened \cup brPopups = {}
    OBVIOUS
  <2>1. NoneHeld /\ "proxy" \in Br!Kinds /\ "context" \in Br!Kinds
    BY DEF SessionInv, Br!Kinds
  <2>2. \A h \in brLive : h[1] \in Br!Kinds
    BY DEF BrowserTypeInv
  <2>3. brLive = {}
    BY <2>1, <2>2 DEF HandleInv, NoneHeld
  <2> QED BY <2>1, <2>3 DEF HandleInv, NoneHeld, TabInv
<1>2. Br!HandlesAreReleased
  BY <1>1 DEF Br!HandlesAreReleased, Br!NothingIsLost, Br!HandlesStayStored, HandleInv, TabInv
<1>3. Br!ReachedWasAllowed
  BY DEF ConsentInv
<1>4. Br!ClosedForGood
  BY <1>1 DEF Br!ClosedForGood, SessionInv
<1> QED BY <1>2, <1>3, <1>4 DEF Br!SessionsAreSound

\* Whatever is stopped at whatever await: nothing the browser made is lost
\* unless a Stop hits a failed launch's release or a tab being opened, a page
\* gets through only to hosts the user agreed to in that very session, and
\* nothing is left after aclose (BrowserSession, BrowserHooks, _VettingProxy).
THEOREM BrowserStaysSound == MCSpec => []SessionsAreSound
<1>1. MCInit => BrowserInv
  BY BrowserInvInit DEF MCInit
<1>2. BrowserInv /\ [MCNext]_allVars => BrowserInv'
  <2>1. [MCNext]_allVars => [Br!Next]_(Br!vars)
    BY DEF MCNext, allVars, brVars, Br!vars, Br!lifecycle, Br!handles, Br!network, Br!tabbing
  <2> QED BY <2>1, BrowserInvStep
<1>3. BrowserInv => SessionsAreSound
  BY BrowserInvSound DEF SessionsAreSound
<1> QED BY <1>1, <1>2, <1>3, PTL DEF MCSpec

=============================================================================
