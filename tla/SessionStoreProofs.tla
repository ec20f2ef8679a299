-------------------------- MODULE SessionStoreProofs --------------------------
(***************************************************************************)
(* What the session store promises of every branch, for every set of ids,  *)
(* skills and lists and every bound: its lineage, the skills and todos     *)
(* read back from it, and the transcript it is resumed with.               *)
(***************************************************************************)
EXTENDS SessionStore, TLAPS, FiniteSetTheorems, FunctionTheorems, WellFoundedInduction

\* Ids are handed out once; only a fork names another root, and that root was
\* handed out before it.
Lineage ==
  /\ born \in Seq(Ids)
  /\ live \subseteq Range(born)
  /\ origin \in [Ids -> Ids]
  /\ \A s \in Ids \ Range(born) : origin[s] = s
  /\ \A s \in Range(born) : origin[s] \in Range(born)
  /\ LineageHasOneRoot

-----------------------------------------------------------------------------

\* Handing out one more id.
LEMMA RangeOfAppend ==
  ASSUME NEW q \in Seq(Ids), NEW s \in Ids
  PROVE  /\ Append(q, s) \in Seq(Ids)
         /\ Range(Append(q, s)) = Range(q) \cup {s}
<1>1. Append(q, s) \in Seq(Ids)
  OBVIOUS
<1>2. DOMAIN Append(q, s) = DOMAIN q \cup {Len(q) + 1}
  OBVIOUS
<1>3. \A i \in DOMAIN q : Append(q, s)[i] = q[i]
  OBVIOUS
<1>4. Append(q, s)[Len(q) + 1] = s
  OBVIOUS
<1> QED
  BY <1>1, <1>2, <1>3, <1>4 DEF Range

\* Ids handed out are ids.
LEMMA RangeOfBorn ==
  ASSUME NEW q \in Seq(Ids)
  PROVE  Range(q) \subseteq Ids
BY DEF Range

-----------------------------------------------------------------------------

\* No session, no root but its own.
LEMMA LineageInit == Init => Lineage
<1> SUFFICES ASSUME Init PROVE Lineage
  OBVIOUS
<1>1. born = << >>
  BY Zenon DEF Init
<1>2. live = {} /\ origin = [s \in Ids |-> s]
  BY Zenon DEF Init
<1>3. born \in Seq(Ids) /\ DOMAIN born = {}
  BY <1>1
<1>4. Range(born) = {}
  BY <1>3 DEF Range
<1> QED
  BY <1>2, <1>3, <1>4 DEF Lineage, LineageHasOneRoot

\* A step that leaves the roots alone may hand out one id, and drop sessions.
LEMMA LineageKept ==
  ASSUME Lineage, UNCHANGED origin,
         \/ live' \subseteq live /\ UNCHANGED born
         \/ \E s \in Ids \ live : /\ live' = live \cup {s}
                                  /\ born' = Append(born, s)
  PROVE  Lineage'
<1>1. CASE live' \subseteq live /\ UNCHANGED born
  BY <1>1 DEF Lineage, LineageHasOneRoot
<1>2. CASE \E s \in Ids \ live : live' = live \cup {s} /\ born' = Append(born, s)
  <2>1. PICK s \in Ids : live' = live \cup {s} /\ born' = Append(born, s)
    BY <1>2
  <2>2. born' \in Seq(Ids) /\ Range(born') = Range(born) \cup {s}
    BY <2>1, RangeOfAppend DEF Lineage
  <2>3. origin[s] \in Range(born')
    BY <2>2 DEF Lineage
  <2> QED
    BY <2>1, <2>2, <2>3 DEF Lineage, LineageHasOneRoot
<1> QED
  BY <1>1, <1>2

\* A fork takes its source's root, which is a root already and older.
LEMMA LineageFork ==
  ASSUME Lineage, NEW s \in Ids, NEW d \in Ids, NEW n \in 1 .. MaxRows,
         Fork(s, d, n)
  PROVE  Lineage'
<1>1. /\ s \in live /\ d \notin Range(born)
      /\ live' = live \cup {d} /\ born' = Append(born, d)
      /\ origin' = [origin EXCEPT ![d] = origin[s]]
  BY DEF Fork, Root
<1>2. /\ born' \in Seq(Ids)
      /\ Range(born') = Range(born) \cup {d}
  BY <1>1, RangeOfAppend DEF Lineage
<1>3. /\ s \in Range(born) /\ origin[s] \in Range(born)
      /\ origin[origin[s]] = origin[s] /\ origin[s] # d
  BY <1>1 DEF Lineage, LineageHasOneRoot
<1>4. /\ origin'[d] = origin[s]
      /\ \A x \in Ids \ {d} : origin'[x] = origin[x]
      /\ origin' \in [Ids -> Ids]
  BY <1>1, <1>3 DEF Lineage
<1>5. \A x \in Ids \ {d} : origin[x] # d
  <2>1. \A x \in Range(born) : origin[x] # d
    BY <1>1 DEF Lineage
  <2>2. \A x \in Ids \ Range(born) : origin[x] = x
    BY DEF Lineage
  <2> QED
    BY <2>1, <2>2
<1>6. LineageHasOneRoot'
  BY <1>3, <1>4, <1>5 DEF LineageHasOneRoot, Lineage
<1>7. \A x \in Range(born') : origin'[x] \in Range(born')
  BY <1>2, <1>3, <1>4, RangeOfBorn DEF Lineage
<1> QED
  BY <1>1, <1>2, <1>4, <1>6, <1>7 DEF Lineage

\* Every operation keeps the lineage.
LEMMA LineageNext == Lineage /\ [Next]_vars => Lineage'
<1> SUFFICES ASSUME Lineage, [Next]_vars PROVE Lineage'
  OBVIOUS
<1>1. ASSUME UNCHANGED vars PROVE Lineage'
  BY <1>1 DEF vars, sessions, Lineage, LineageHasOneRoot
<1>2. ASSUME Next PROVE Lineage'
  <2>1. PICK s \in Ids :
          \/ \E m \in Messages : AddMessage(s, m)
          \/ \E active \in SUBSET Skills : SaveSkills(s, active)
          \/ \E list \in Lists : SaveTodos(s, list)
          \/ \E count \in 1 .. MaxTail : SaveCompaction(s, count)
          \/ \E n \in 1 .. MaxRows : Truncate(s, n) \/ Rewind(s, n)
          \/ \E d \in Ids, n \in 1 .. MaxRows : Fork(s, d, n)
          \/ Rename(s) \/ Delete(s) \/ Damage
    BY <1>2 DEF Next
  <2>2. CASE \E m \in Messages : AddMessage(s, m)
    <3>1. Present(s)
      BY <2>2 DEF AddMessage
    <3>2. CASE s \in live
      <4>1. live' = live /\ born' = born /\ origin' = origin
        BY <3>1, <3>2 DEF Present
      <4> QED
        BY <4>1, LineageKept
    <3>3. CASE s \notin live
      <4>1. live' = live \cup {s} /\ born' = Append(born, s) /\ origin' = origin
        BY <3>1, <3>3 DEF Present
      <4> QED
        BY <3>3, <4>1, LineageKept
    <3> QED
      BY <3>2, <3>3
  <2>3. CASE \E active \in SUBSET Skills : SaveSkills(s, active)
    BY <2>3, LineageKept DEF SaveSkills, sessions
  <2>4. CASE \E list \in Lists : SaveTodos(s, list)
    BY <2>4, LineageKept DEF SaveTodos, sessions
  <2>5. CASE \E count \in 1 .. MaxTail : SaveCompaction(s, count)
    BY <2>5, LineageKept DEF SaveCompaction, sessions
  <2>6. CASE \E n \in 1 .. MaxRows : Truncate(s, n) \/ Rewind(s, n)
    BY <2>6, LineageKept DEF Truncate, Rewind, sessions
  <2>7. CASE \E d \in Ids, n \in 1 .. MaxRows : Fork(s, d, n)
    BY <2>7, LineageFork
  <2>8. CASE Rename(s) \/ Delete(s) \/ Damage
    BY <2>8, LineageKept DEF Rename, Delete, Damage, sessions
  <2> QED
    BY <2>1, <2>2, <2>3, <2>4, <2>5, <2>6, <2>7, <2>8
<1> QED
  BY <1>1, <1>2

\* All forks of a lineage name the same root, and it is no fork: the root a
\* fork of a fork records is the one its source recorded (fork_session), and
\* deletions of ancestors do not change it.
THEOREM LineageHasOneRootTheorem == Spec => []LineageHasOneRoot
<1>1. Lineage => LineageHasOneRoot
  BY DEF Lineage
<1> QED
  BY <1>1, LineageInit, LineageNext, PTL DEF Spec


-----------------------------------------------------------------------------
(* The state of one branch: E are the events of a session, q its rows, t what *)
(* the agent had saved at each of them, h whether an event was damaged.       *)

Kinds == {"compaction", "skill", "todo"}
States == [skills : SUBSET Skills, todos : Lists]
EventSet ==
  [seq : Nat, session : Ids, anchor : Nat, kind : Kinds, body : {"none", "full", "superseded"},
   tail : Seq(Messages), turn : Nat, skills : SUBSET Skills, todos : Lists, sound : BOOLEAN]

EventsOf(s) == {e \in events : e.session = s}

\* Events lie on rows of the branch - what a batch saved on the last of its
\* results - in the order in which they were saved.
Placed(E, q, h) ==
  /\ \A e \in E : /\ e.anchor \in DOMAIN q
                  /\ e.kind # "compaction" => q[e.anchor].role = "tool"
                  /\ ~h => e.sound
  /\ \A e, f \in E : /\ e.seq = f.seq => e = f
                     /\ e.seq < f.seq => e.anchor <= f.anchor

\* e is the newest event of its kind at row i.
Rules(E, e, i) ==
  /\ e.anchor <= i
  /\ \A f \in E : f.kind = e.kind /\ f.anchor <= i => f.seq <= e.seq

None(E, kind, i) == \A e \in E : e.kind = kind => e.anchor > i

\* At every row, and not only at the last one, the event that would be read
\* says no more than the agent had: so a branch cut there revives nothing.
SkillsTrue(E, t, h) ==
  \A i \in DOMAIN t :
    /\ \A e \in E : e.kind = "skill" /\ Rules(E, e, i) /\ e.sound =>
         /\ e.skills \subseteq t[i].skills
         /\ ~h => e.skills = t[i].skills
    /\ ~h /\ None(E, "skill", i) => t[i].skills = {}

TodosTrue(E, t, h) ==
  ~h => \A i \in DOMAIN t :
    /\ \A e \in E : e.kind = "todo" /\ Rules(E, e, i) => e.todos = t[i].todos
    /\ None(E, "todo", i) => t[i].todos = NoTodos

Branch(E, q, t, h) ==
  /\ q \in Seq(Messages) /\ t \in Seq(States) /\ Len(t) = Len(q)
  /\ E \subseteq EventSet
  /\ Placed(E, q, h) /\ SkillsTrue(E, t, h) /\ TodosTrue(E, t, h)

-----------------------------------------------------------------------------
(* What the operations do to a branch *)

\* A branch without rows.
LEMMA EmptyBranch ==
  ASSUME NEW h \in BOOLEAN
  PROVE  Branch({}, << >>, << >>, h)
BY DEF Branch, Placed, SkillsTrue, TodosTrue

\* One more row: the agent's state is that of the row before.
LEMMA LongerBranch ==
  ASSUME NEW E, NEW q, NEW t, NEW h \in BOOLEAN, Branch(E, q, t, h),
         NEW m \in Messages, NEW u \in States,
         IF t = << >> THEN u = [skills |-> {}, todos |-> NoTodos] ELSE u = t[Len(t)]
  PROVE  Branch(E, Append(q, m), Append(t, u), h)
<1> DEFINE r == Append(q, m)
           v == Append(t, u)
<1>1. /\ r \in Seq(Messages) /\ Len(r) = Len(q) + 1 /\ DOMAIN r = 1 .. Len(q) + 1
      /\ \A i \in 1 .. Len(q) : r[i] = q[i]
  BY DEF Branch
<1>2. /\ v \in Seq(States) /\ Len(v) = Len(q) + 1 /\ DOMAIN v = 1 .. Len(q) + 1
      /\ \A i \in 1 .. Len(q) : v[i] = t[i]
      /\ v[Len(q) + 1] = u
      /\ DOMAIN t = 1 .. Len(q) /\ DOMAIN q = 1 .. Len(q) /\ Len(q) \in Nat
  BY DEF Branch
<1>3. Placed(E, r, h)
  BY <1>1, <1>2 DEF Branch, Placed
<1>4. \A e \in E : e \in EventSet /\ e.anchor \in Nat /\ e.anchor <= Len(q)
  BY <1>2 DEF Branch, Placed, EventSet
<1>5. CASE t = << >>
  <2>1. Len(q) = 0 /\ E = {}
    BY <1>2, <1>4, <1>5 DEF Branch, Placed
  <2>2. v[1] = [skills |-> {}, todos |-> NoTodos] /\ DOMAIN v = {1}
    BY <1>2, <1>5, <2>1
  <2>3. SkillsTrue(E, v, h) /\ TodosTrue(E, v, h)
    BY <2>1, <2>2 DEF SkillsTrue, TodosTrue
  <2> QED
    BY <1>1, <1>2, <1>3, <2>3 DEF Branch
<1>6. CASE t # << >>
  <2>1. Len(q) \in DOMAIN t /\ v[Len(q) + 1] = t[Len(q)]
    BY <1>2, <1>6 DEF Branch
  <2>2. /\ \A e \in E : Rules(E, e, Len(q) + 1) <=> Rules(E, e, Len(q))
        /\ \A kind \in Kinds : None(E, kind, Len(q) + 1) <=> None(E, kind, Len(q))
    BY <1>2, <1>4 DEF Rules, None
  <2>3. SkillsTrue(E, v, h)
    BY <1>2, <2>1, <2>2 DEF Branch, SkillsTrue, Kinds
  <2>4. TodosTrue(E, v, h)
    BY <1>2, <2>1, <2>2 DEF Branch, TodosTrue, Kinds
  <2> QED
    BY <1>1, <1>2, <1>3, <2>3, <2>4 DEF Branch
<1> QED
  BY <1>5, <1>6

\* A cut keeps what lies before it.
LEMMA ShorterBranch ==
  ASSUME NEW E, NEW q, NEW t, NEW h \in BOOLEAN, Branch(E, q, t, h),
         NEW n \in 0 .. Len(q)
  PROVE  Branch({e \in E : e.anchor <= n}, SubSeq(q, 1, n), SubSeq(t, 1, n), h)
<1> DEFINE F == {e \in E : e.anchor <= n}
           r == SubSeq(q, 1, n)
           v == SubSeq(t, 1, n)
<1>1. /\ r \in Seq(Messages) /\ v \in Seq(States)
      /\ Len(r) = n /\ DOMAIN r = 1 .. n /\ Len(v) = n /\ DOMAIN v = 1 .. n
      /\ \A i \in 1 .. n : r[i] = q[i] /\ v[i] = t[i]
      /\ 1 .. n \subseteq DOMAIN t /\ 1 .. n \subseteq DOMAIN q
  BY DEF Branch
<1>2. \A e \in E : e.anchor \in Nat /\ e.anchor \in DOMAIN q
  BY DEF Branch, Placed, EventSet
<1>3. Placed(F, r, h)
  BY <1>1, <1>2 DEF Branch, Placed
<1>4. \A i \in 1 .. n :
        /\ \A e \in F : Rules(F, e, i) => Rules(E, e, i)
        /\ \A kind \in Kinds : None(F, kind, i) => None(E, kind, i)
  BY <1>2 DEF Rules, None
<1>5. SkillsTrue(F, v, h)
  <2>1. ASSUME NEW i \in 1 .. n
        PROVE  /\ \A e \in F : e.kind = "skill" /\ Rules(F, e, i) /\ e.sound =>
                    /\ e.skills \subseteq v[i].skills
                    /\ ~h => e.skills = v[i].skills
               /\ ~h /\ None(F, "skill", i) => v[i].skills = {}
    <3>1. v[i] = t[i] /\ i \in DOMAIN t
      BY <1>1
    <3>2. None(F, "skill", i) => None(E, "skill", i)
      BY <1>4 DEF Kinds
    <3> QED
      BY <1>4, <3>1, <3>2 DEF Branch, SkillsTrue
  <2> QED
    BY <1>1, <2>1 DEF SkillsTrue
<1>6. TodosTrue(F, v, h)
  BY <1>1, <1>4 DEF Branch, TodosTrue, Kinds
<1> QED
  BY <1>1, <1>3, <1>5, <1>6 DEF Branch

\* f stands where e stood: it may have been damaged, or carried as a tombstone
\* of a damaged one.
Mirrors(e, f) ==
  /\ f.anchor = e.anchor /\ f.kind = e.kind /\ f.todos = e.todos
  /\ f.sound => f.skills = IF e.sound THEN e.skills ELSE {}

\* Rewriting the events of a branch - c names the event a new one stands for -
\* keeps it, when their order stays and no skill row goes, and on a branch
\* without damage no todo row either.
LEMMA RewrittenBranch ==
  ASSUME NEW E, NEW q, NEW t, NEW h \in BOOLEAN, Branch(E, q, t, h),
         NEW F \in SUBSET EventSet, NEW k \in BOOLEAN, NEW c \in [F -> E],
         ~k => ~h /\ \A f \in F : f.sound,
         \A f \in F : Mirrors(c[f], f),
         \A e \in E : e.kind = "skill" \/ (~k /\ e.kind = "todo") => \E f \in F : c[f] = e,
         \A f, g \in F : f.seq = g.seq => f = g,
         \A f, g \in F : c[f].seq <= c[g].seq <=> f.seq <= g.seq
  PROVE  Branch(F, q, t, k)
<1>1. /\ \A e \in E : e \in EventSet
      /\ \A e \in E : e.seq \in Nat /\ e.anchor \in Nat
      /\ \A f \in F : f.seq \in Nat /\ f.anchor \in Nat
  BY DEF Branch, EventSet
<1>2. \A f \in F : /\ c[f] \in E /\ f.anchor = c[f].anchor /\ f.kind = c[f].kind
                   /\ f.todos = c[f].todos
                   /\ f.sound => f.skills = IF c[f].sound THEN c[f].skills ELSE {}
  BY DEF Mirrors
<1>3. Placed(F, q, k)
  <2>1. \A f, g \in F : f.seq < g.seq => c[f].seq <= c[g].seq /\ c[f].anchor <= c[g].anchor
    BY <1>1, <1>2 DEF Branch, Placed
  <2> QED
    BY <1>1, <1>2, <2>1 DEF Branch, Placed
<1>4. \A i \in DOMAIN t : \A f \in F :
        f.kind = "skill" \/ (~k /\ f.kind = "todo") => (Rules(F, f, i) => Rules(E, c[f], i))
  <2> SUFFICES ASSUME NEW i \in DOMAIN t, NEW f \in F, Rules(F, f, i),
                      f.kind = "skill" \/ (~k /\ f.kind = "todo"),
                      NEW e \in E, e.kind = c[f].kind, e.anchor <= i
               PROVE  e.seq <= c[f].seq
    BY <1>2 DEF Rules
  <2>1. PICK g \in F : c[g] = e
    BY <1>2
  <2>2. g.kind = f.kind /\ g.anchor <= i
    BY <1>2, <2>1
  <2>3. g.seq <= f.seq
    BY <2>2 DEF Rules
  <2> QED
    BY <2>1, <2>3
<1>5. \A i \in DOMAIN t :
        /\ None(F, "skill", i) => None(E, "skill", i)
        /\ ~k /\ None(F, "todo", i) => None(E, "todo", i)
  BY <1>2 DEF None
<1>6. ~k => \A e \in E : e.sound
  BY DEF Branch, Placed
<1>7. SkillsTrue(F, t, k)
  <2>1. ASSUME NEW i \in DOMAIN t, NEW f \in F, f.kind = "skill", Rules(F, f, i), f.sound
        PROVE  f.skills \subseteq t[i].skills /\ (~k => f.skills = t[i].skills)
    <3>1. c[f] \in E /\ c[f].kind = "skill" /\ Rules(E, c[f], i)
      BY <1>2, <1>4, <2>1
    <3>2. CASE c[f].sound
      BY <1>2, <2>1, <3>1, <3>2 DEF Branch, SkillsTrue
    <3>3. CASE ~c[f].sound
      BY <1>2, <1>6, <2>1, <3>1, <3>3
    <3> QED
      BY <3>2, <3>3
  <2>2. ASSUME NEW i \in DOMAIN t, ~k, None(F, "skill", i)
        PROVE  t[i].skills = {}
    BY <1>5, <2>2 DEF Branch, SkillsTrue
  <2> QED
    BY <2>1, <2>2 DEF SkillsTrue
<1>8. TodosTrue(F, t, k)
  <2>1. ASSUME ~k, NEW i \in DOMAIN t, NEW f \in F, f.kind = "todo", Rules(F, f, i)
        PROVE  f.todos = t[i].todos
    <3>1. c[f] \in E /\ c[f].kind = "todo" /\ Rules(E, c[f], i)
      BY <1>2, <1>4, <2>1
    <3> QED
      BY <1>2, <2>1, <3>1 DEF Branch, TodosTrue
  <2>2. ASSUME ~k, NEW i \in DOMAIN t, None(F, "todo", i)
        PROVE  t[i].todos = NoTodos
    BY <1>5, <2>2 DEF Branch, TodosTrue
  <2> QED
    BY <2>1, <2>2 DEF TodosTrue
<1> QED
  BY <1>3, <1>7, <1>8 DEF Branch

\* F is E with an event saved behind all others at row n: it is the one that
\* is read there, and before it nothing changes.
NewestAt(E, F, e, n) ==
  /\ \A i \in 1 .. n : i # n =>
       /\ \A f \in F : Rules(F, f, i) => f \in E /\ Rules(E, f, i)
       /\ \A kind \in Kinds : None(F, kind, i) => None(E, kind, i)
  /\ \A f \in F : f.kind = e.kind /\ Rules(F, f, n) => f = e
  /\ \A f \in F : f.kind # e.kind /\ Rules(F, f, n) => f \in E /\ Rules(E, f, n)
  /\ ~None(F, e.kind, n)
  /\ \A kind \in Kinds \ {e.kind} : None(F, kind, n) => None(E, kind, n)

\* A batch is over: e is saved behind all others at the last row, a result.
Saved(E, q, e) ==
  /\ e \in EventSet /\ q # << >> /\ e.anchor = Len(q) /\ e.sound
  /\ q[Len(q)].role = "tool"
  /\ \A f \in E : f.seq < e.seq

\* Saving behind all others is saving the newest event.
LEMMA NewestEvent ==
  ASSUME NEW E, NEW q, NEW t, NEW h \in BOOLEAN, Branch(E, q, t, h),
         NEW e, Saved(E, q, e)
  PROVE  /\ E \cup {e} \subseteq EventSet /\ Placed(E \cup {e}, q, h)
         /\ NewestAt(E, E \cup {e}, e, Len(q))
<1> DEFINE F == E \cup {e}
           n == Len(q)
<1>1. /\ n \in Nat \ {0} /\ n = Len(t) /\ DOMAIN q = 1 .. n /\ DOMAIN t = 1 .. n
      /\ e \in EventSet /\ e.anchor = n /\ e.sound /\ q[n].role = "tool"
      /\ \A f \in E : f.seq < e.seq
  BY DEF Branch, Saved
<1>2. /\ \A f \in F : f.seq \in Nat /\ f.anchor \in 1 .. n
      /\ F \subseteq EventSet /\ e \notin E
  BY <1>1 DEF Branch, Placed, EventSet
<1>3. Placed(F, q, h)
  BY <1>1, <1>2 DEF Branch, Placed
<1>4. \A i \in 1 .. n : i # n =>
        /\ \A f \in F : Rules(F, f, i) => f \in E /\ Rules(E, f, i)
        /\ \A kind \in Kinds : None(F, kind, i) => None(E, kind, i)
  <2>1. SUFFICES ASSUME NEW i \in 1 .. n, i # n
                 PROVE  /\ \A f \in F : Rules(F, f, i) => f \in E /\ Rules(E, f, i)
                        /\ \A kind \in Kinds : None(F, kind, i) => None(E, kind, i)
    OBVIOUS
  <2>2. ~(e.anchor <= i) /\ \A f \in F : f # e => f \in E
    <3>1. e.anchor = n /\ n \in Nat
      BY <1>1
    <3> QED
      BY <2>1, <3>1
  <2>3. \A f \in F : Rules(F, f, i) => f \in E /\ Rules(E, f, i)
    BY <2>2 DEF Rules
  <2>4. \A kind \in Kinds : None(F, kind, i) => None(E, kind, i)
    BY DEF None
  <2> QED
    BY <2>3, <2>4
<1>5. e \in F /\ \A f \in E : f \in F /\ f.seq < e.seq
  BY <1>1
<1>6. \A f \in F : f.kind = e.kind /\ Rules(F, f, n) => f = e
  BY <1>1, <1>2, <1>5 DEF Rules
<1>7. \A f \in F : f.kind # e.kind /\ Rules(F, f, n) => f \in E /\ Rules(E, f, n)
  BY <1>5 DEF Rules
<1>8. /\ ~None(F, e.kind, n)
      /\ \A kind \in Kinds \ {e.kind} : None(F, kind, n) => None(E, kind, n)
  BY <1>1, <1>2, <1>5 DEF None
<1> QED
  BY <1>2, <1>3, <1>4, <1>6, <1>7, <1>8 DEF NewestAt

\* The state v after e is t but for what e says, from w to u, of the last row.
SavedAs(e, t, v, u, w) ==
  /\ v \in Seq(States) /\ Len(v) = Len(t)
  /\ \A i \in 1 .. Len(t) : i # Len(t) => v[i] = t[i]
  /\ u = v[Len(t)] /\ w = t[Len(t)]
  /\ \/ e.kind = "skill" /\ u.skills = e.skills /\ u.todos = w.todos
     \/ e.kind = "todo" /\ u.todos = e.todos /\ u.skills = w.skills

\* A batch saves an event behind all others, at the last row, which holds a result.
LEMMA SavedBranch ==
  ASSUME NEW E, NEW q, NEW t, NEW h \in BOOLEAN, Branch(E, q, t, h),
         NEW e, Saved(E, q, e),
         NEW v, NEW u, NEW w, SavedAs(e, t, v, u, w)
  PROVE  Branch(E \cup {e}, q, v, h)
<1> DEFINE F == E \cup {e}
           n == Len(q)
<1>1. /\ n \in Nat \ {0} /\ n = Len(t) /\ DOMAIN q = 1 .. n /\ DOMAIN t = 1 .. n
      /\ Len(v) = n /\ DOMAIN v = 1 .. n
  BY DEF Branch, SavedAs, Saved
<1>2. F \subseteq EventSet /\ Placed(F, q, h) /\ NewestAt(E, F, e, n)
  BY NewestEvent
<1>3. /\ q \in Seq(Messages) /\ v \in Seq(States) /\ Len(v) = Len(q)
      /\ \A i \in 1 .. n : i # n => v[i] = t[i]
  BY <1>1 DEF Branch, SavedAs
<1> HIDE DEF F
<1>4. \A i \in 1 .. n : i # n =>
        /\ i \in DOMAIN t /\ v[i] = t[i]
        /\ \A f \in F : Rules(F, f, i) => f \in E /\ Rules(E, f, i)
        /\ None(F, "skill", i) => None(E, "skill", i)
        /\ None(F, "todo", i) => None(E, "todo", i)
  BY <1>1, <1>2, <1>3 DEF Kinds, NewestAt
<1>5. /\ \A f \in F : f.kind = e.kind /\ Rules(F, f, n) => f = e
      /\ \A f \in F : f.kind # e.kind /\ Rules(F, f, n) => f \in E /\ Rules(E, f, n)
      /\ ~None(F, e.kind, n)
      /\ \A kind \in Kinds \ {e.kind} : None(F, kind, n) => None(E, kind, n)
  BY <1>2 DEF NewestAt
<1>6. CASE e.kind = "skill"
  <2>1. v[n].skills = e.skills /\ v[n].todos = t[n].todos
    BY <1>1, <1>6 DEF SavedAs
  <2>2. SkillsTrue(F, v, h)
    <3>1. ASSUME NEW i \in 1 .. n
          PROVE  /\ \A f \in F : f.kind = "skill" /\ Rules(F, f, i) /\ f.sound =>
                      /\ f.skills \subseteq v[i].skills
                      /\ ~h => f.skills = v[i].skills
                 /\ ~h /\ None(F, "skill", i) => v[i].skills = {}
      <4>1. CASE i = n
        BY <1>5, <1>6, <2>1, <4>1
      <4>2. CASE i # n
        BY <1>4, <4>2 DEF Branch, SkillsTrue
      <4> QED
        BY <4>1, <4>2
    <3> QED
      BY <1>1, <3>1 DEF SkillsTrue
  <2>3. TodosTrue(F, v, h)
    <3>1. ASSUME ~h, NEW i \in 1 .. n
          PROVE  /\ \A f \in F : f.kind = "todo" /\ Rules(F, f, i) => f.todos = v[i].todos
                 /\ None(F, "todo", i) => v[i].todos = NoTodos
      <4>1. v[i].todos = t[i].todos
        BY <1>1, <1>3, <2>1
      <4>2. CASE i = n
        BY <1>1, <1>5, <1>6, <3>1, <4>1, <4>2 DEF Branch, TodosTrue, Kinds
      <4>3. CASE i # n
        BY <1>4, <3>1, <4>3 DEF Branch, TodosTrue
      <4> QED
        BY <4>2, <4>3
    <3> QED
      BY <1>1, <3>1 DEF TodosTrue
  <2> QED
    BY <1>2, <1>3, <2>2, <2>3 DEF Branch, F
<1>7. CASE e.kind = "todo"
  <2>1. v[n].todos = e.todos /\ v[n].skills = t[n].skills
    BY <1>1, <1>7 DEF SavedAs
  <2>2. TodosTrue(F, v, h)
    <3>1. ASSUME ~h, NEW i \in 1 .. n
          PROVE  /\ \A f \in F : f.kind = "todo" /\ Rules(F, f, i) => f.todos = v[i].todos
                 /\ None(F, "todo", i) => v[i].todos = NoTodos
      <4>1. CASE i = n
        BY <1>5, <1>7, <2>1, <4>1
      <4>2. CASE i # n
        BY <1>4, <3>1, <4>2 DEF Branch, TodosTrue
      <4> QED
        BY <4>1, <4>2
    <3> QED
      BY <1>1, <3>1 DEF TodosTrue
  <2>3. SkillsTrue(F, v, h)
    <3>1. ASSUME NEW i \in 1 .. n
          PROVE  /\ \A f \in F : f.kind = "skill" /\ Rules(F, f, i) /\ f.sound =>
                      /\ f.skills \subseteq v[i].skills
                      /\ ~h => f.skills = v[i].skills
                 /\ ~h /\ None(F, "skill", i) => v[i].skills = {}
      <4>1. v[i].skills = t[i].skills
        BY <1>1, <1>3, <2>1
      <4>2. CASE i = n
        BY <1>1, <1>5, <1>7, <4>1, <4>2 DEF Branch, SkillsTrue, Kinds
      <4>3. CASE i # n
        BY <1>4, <4>3 DEF Branch, SkillsTrue
      <4> QED
        BY <4>2, <4>3
    <3> QED
      BY <1>1, <3>1 DEF SkillsTrue
  <2> QED
    BY <1>2, <1>3, <2>2, <2>3 DEF Branch, F
<1> QED
  BY <1>6, <1>7 DEF SavedAs

\* Superseding an event empties its payload only.
LEMMA SupersededEvent ==
  ASSUME NEW e \in EventSet, NEW q \in Seq(Messages)
  PROVE  LET f == [e EXCEPT !.body = "superseded", !.tail = q, !.turn = 0]
         IN  /\ f \in EventSet /\ f.seq = e.seq /\ f.session = e.session /\ f.sound = e.sound
             /\ f.kind = e.kind /\ f.anchor = e.anchor /\ f.skills = e.skills
             /\ f.todos = e.todos
BY DEF EventSet

\* Pruning keeps the events, one by one, but for what superseded ones carried.
LEMMA PrunedEvents ==
  ASSUME NEW E \in SUBSET EventSet, NEW s
  PROVE  /\ Prune(E, s) \subseteq EventSet
         /\ \A f \in Prune(E, s) : \E e \in E :
              /\ f.seq = e.seq /\ f.session = e.session /\ f.sound = e.sound
              /\ Mirrors(e, f) /\ (e.session # s => f = e)
         /\ \A e \in E : \E f \in Prune(E, s) :
              f.seq = e.seq /\ f.session = e.session /\ (e.session # s => f = e)
         /\ (\A e, d \in E : e.session = s /\ d.session = s /\ e.seq = d.seq => e = d) =>
              \A f, g \in Prune(E, s) :
                f.session = s /\ g.session = s /\ f.seq = g.seq => f = g
         /\ IsFiniteSet(E) => IsFiniteSet(Prune(E, s))
<1> DEFINE B == {e \in E : e.session = s /\ e.kind = "compaction" /\ e.body # "superseded"}
           Old == {e \in B : ~Keeps(e, B)}
           Sup(e) == [e EXCEPT !.body = "superseded", !.tail = << >>, !.turn = 0]
           New == {Sup(e) : e \in Old}
<1>1. Prune(E, s) = (E \ Old) \cup New
  BY DEF Prune
<1>2. Old \subseteq E /\ \A e \in Old : e.session = s
  OBVIOUS
<1>3. \A e \in Old :
        /\ Sup(e) \in EventSet /\ Sup(e).seq = e.seq /\ Sup(e).session = e.session
        /\ Sup(e).sound = e.sound /\ Mirrors(e, Sup(e))
  <2> TAKE e \in Old
  <2>1. e \in EventSet /\ << >> \in Seq(Messages)
    BY <1>2
  <2>2. /\ Sup(e) \in EventSet /\ Sup(e).seq = e.seq /\ Sup(e).session = e.session
        /\ Sup(e).sound = e.sound /\ Sup(e).kind = e.kind /\ Sup(e).anchor = e.anchor
        /\ Sup(e).skills = e.skills /\ Sup(e).todos = e.todos
    BY <2>1, SupersededEvent
  <2> HIDE DEF Sup
  <2> QED
    BY <2>2 DEF Mirrors
<1>4. \A e \in E : Mirrors(e, e) \/ ~e.sound
  BY DEF Mirrors
<1> HIDE DEF Sup, Old
<1>5. \A f \in New : \E e \in Old : f = Sup(e)
  OBVIOUS
<1>6. IsFiniteSet(E) => IsFiniteSet(Prune(E, s))
  <2> SUFFICES ASSUME IsFiniteSet(E) PROVE IsFiniteSet((E \ Old) \cup New)
    BY <1>1
  <2>1. IsFiniteSet(Old) /\ IsFiniteSet(E \ Old)
    BY <1>2, FS_Subset
  <2>2. [e \in Old |-> Sup(e)] \in Surjection(Old, New)
    BY DEF Surjection
  <2>3. IsFiniteSet(New)
    BY <2>1, <2>2, FS_Surjection
  <2> QED
    BY <2>1, <2>3, FS_Union
<1>7. \A f \in Prune(E, s) : \E e \in E :
        /\ f.seq = e.seq /\ f.session = e.session /\ f.sound = e.sound
        /\ Mirrors(e, f) /\ (e.session # s => f = e)
  <2> TAKE f \in Prune(E, s)
  <2>1. CASE f \in E \ Old
    <3>1. Mirrors(f, f)
      BY DEF Mirrors
    <3> QED
      BY <2>1, <3>1
  <2>2. CASE f \in New
    BY <1>2, <1>3, <1>5, <2>2
  <2> QED
    BY <1>1, <2>1, <2>2
<1>8. \A e \in E : \E f \in Prune(E, s) :
        f.seq = e.seq /\ f.session = e.session /\ (e.session # s => f = e)
  <2> TAKE e \in E
  <2>1. CASE e \notin Old
    BY <1>1, <2>1
  <2>2. CASE e \in Old
    <3>1. Sup(e) \in Prune(E, s)
      BY <1>1, <2>2
    <3> QED
      BY <1>2, <1>3, <2>2, <3>1
  <2> QED
    BY <2>1, <2>2
<1>9. ASSUME \A e, d \in E : e.session = s /\ d.session = s /\ e.seq = d.seq => e = d,
             NEW f \in Prune(E, s), NEW g \in Prune(E, s),
             f.session = s, g.session = s, f.seq = g.seq
      PROVE  f = g
  <2>1. /\ f \in E \ Old \/ \E e \in Old : f = Sup(e)
        /\ g \in E \ Old \/ \E e \in Old : g = Sup(e)
    BY <1>1, <1>5
  <2>2. CASE f \in E \ Old /\ g \in E \ Old
    BY <1>9, <2>2
  <2>3. ASSUME NEW a \in E \ Old, NEW e \in Old, a.session = s, a.seq = Sup(e).seq
        PROVE  FALSE
    BY <1>2, <1>3, <1>9, <2>3
  <2>4. ASSUME NEW e \in Old, NEW d \in Old, f = Sup(e), g = Sup(d)
        PROVE  f = g
    BY <1>2, <1>3, <1>9, <2>4
  <2> QED
    BY <1>9, <2>1, <2>2, <2>3, <2>4
<1> QED
  BY <1>1, <1>3, <1>5, <1>6, <1>7, <1>8, <1>9

\* Pruning does not show in the state of the branch.
LEMMA PrunedBranch ==
  ASSUME NEW E \in SUBSET EventSet, NEW s, NEW q, NEW t, NEW h \in BOOLEAN,
         Branch({e \in E : e.session = s}, q, t, h)
  PROVE  Branch({e \in Prune(E, s) : e.session = s}, q, t, h)
<1> DEFINE D == {e \in E : e.session = s}
           F == {e \in Prune(E, s) : e.session = s}
           c == [f \in F |-> CHOOSE e \in D : e.seq = f.seq]
<1>1. \A e, f \in D : e.seq = f.seq => e = f
  BY DEF Branch, Placed
<1>2. \A f \in F : \E e \in D : f.seq = e.seq /\ f.sound = e.sound /\ Mirrors(e, f)
  <2> TAKE f \in F
  <2>1. f \in Prune(E, s) /\ f.session = s
    OBVIOUS
  <2>2. PICK e \in E : /\ f.seq = e.seq /\ f.session = e.session /\ f.sound = e.sound
                       /\ Mirrors(e, f)
    BY <2>1, PrunedEvents
  <2>3. e \in D
    BY <2>1, <2>2
  <2> QED
    BY <2>2, <2>3
<1>3. \A f \in F : c[f] \in D /\ c[f].seq = f.seq
  <2> TAKE f \in F
  <2>1. \E e \in D : e.seq = f.seq
    BY <1>2
  <2>2. c[f] = CHOOSE e \in D : e.seq = f.seq
    OBVIOUS
  <2> HIDE DEF c, D
  <2> QED
    BY <2>1, <2>2
<1>4. c \in [F -> D]
  BY <1>3
<1> HIDE DEF c
<1>5. \A f \in F : f.sound = c[f].sound /\ Mirrors(c[f], f)
  BY <1>1, <1>2, <1>3
<1>6. \A e \in D : \E f \in F : c[f] = e
  <2> TAKE e \in D
  <2>1. e \in E /\ e.session = s
    OBVIOUS
  <2>2. PICK f \in Prune(E, s) : f.seq = e.seq /\ f.session = e.session
    <3> HIDE DEF D, F
    <3>1. \A x \in E : \E f \in Prune(E, s) : f.seq = x.seq /\ f.session = x.session
      BY PrunedEvents
    <3> QED
      BY <2>1, <3>1
  <2>3. f \in F
    BY <2>1, <2>2
  <2> QED
    BY <1>1, <1>3, <2>2, <2>3
<1>7. F \in SUBSET EventSet
  BY PrunedEvents
<1>8. ~h => \A f \in F : f.sound
  BY <1>3, <1>5 DEF Branch, Placed
<1> HIDE DEF D, F
<1>9. \A f, g \in F : f.seq = g.seq => f = g
  <2>1. \A e, d \in E : e.session = s /\ d.session = s /\ e.seq = d.seq => e = d
    BY <1>1 DEF D
  <2> QED
    BY <2>1, PrunedEvents DEF F
<1>10. \A f, g \in F : c[f].seq <= c[g].seq <=> f.seq <= g.seq
  BY <1>3
<1>11. Branch(D, q, t, h)
  BY DEF D
<1>12. Branch(F, q, t, h)
  BY <1>4, <1>5, <1>6, <1>7, <1>8, <1>9, <1>10, <1>11, RewrittenBranch
<1> QED
  BY <1>12 DEF F

\* The rank of an event among those copied with it.
Rank(C, e) == Cardinality({f \in C : f.seq <= e.seq})

\* Ranks number the copied events from 1, in the order of the originals.
LEMMA RanksOrder ==
  ASSUME NEW C \in SUBSET EventSet, IsFiniteSet(C)
  PROVE  /\ Cardinality(C) \in Nat
         /\ \A e \in C : Rank(C, e) \in 1 .. Cardinality(C)
         /\ \A e, f \in C : e.seq <= f.seq <=> Rank(C, e) <= Rank(C, f)
<1> DEFINE Upto(e) == {f \in C : f.seq <= e.seq}
<1>1. \A e \in C : e.seq \in Nat
  BY DEF EventSet
<1>2. /\ Cardinality(C) \in Nat
      /\ \A e \in C : /\ IsFiniteSet(Upto(e)) /\ Rank(C, e) = Cardinality(Upto(e))
                      /\ Rank(C, e) \in Nat /\ Rank(C, e) <= Cardinality(C)
                      /\ Rank(C, e) # 0
  <2>1. Cardinality(C) \in Nat
    BY FS_CardinalityType
  <2>2. ASSUME NEW e \in C
        PROVE  /\ IsFiniteSet(Upto(e)) /\ Cardinality(Upto(e)) \in Nat
               /\ Cardinality(Upto(e)) <= Cardinality(C) /\ Cardinality(Upto(e)) # 0
    <3>1. Upto(e) \in SUBSET C /\ e \in Upto(e)
      BY <1>1
    <3> HIDE DEF Upto
    <3>2. IsFiniteSet(Upto(e)) /\ Cardinality(Upto(e)) <= Cardinality(C)
      BY <3>1, FS_Subset
    <3>3. Cardinality(Upto(e)) \in Nat
      BY <3>2, FS_CardinalityType
    <3>4. Cardinality(Upto(e)) # 0
      BY <3>1, <3>2, FS_EmptySet
    <3> QED
      BY <3>2, <3>3, <3>4
  <2> QED
    BY <2>1, <2>2 DEF Rank
<1>3. ASSUME NEW e \in C, NEW f \in C, e.seq <= f.seq
      PROVE  Rank(C, e) <= Rank(C, f)
  <2>1. Upto(e) \in SUBSET Upto(f)
    BY <1>1, <1>3
  <2> HIDE DEF Upto
  <2> QED
    BY <1>2, <2>1, FS_Subset
<1>4. ASSUME NEW e \in C, NEW f \in C, f.seq < e.seq
      PROVE  Rank(C, f) < Rank(C, e)
  <2>1. Upto(f) \in SUBSET Upto(e) /\ e \in Upto(e) /\ e \notin Upto(f)
    BY <1>1, <1>4
  <2> HIDE DEF Upto
  <2>2. Cardinality(Upto(f)) <= Cardinality(Upto(e))
    BY <1>2, <2>1, FS_Subset
  <2>3. Cardinality(Upto(f)) # Cardinality(Upto(e))
    BY <1>2, <2>1, FS_Subset
  <2> QED
    BY <1>2, <2>2, <2>3
<1>5. \A e, f \in C : e.seq <= f.seq <=> Rank(C, e) <= Rank(C, f)
  <2> TAKE e, f \in C
  <2>1. Rank(C, e) \in Nat /\ Rank(C, f) \in Nat /\ e.seq \in Nat /\ f.seq \in Nat
    BY <1>1, <1>2
  <2>2. e.seq <= f.seq => Rank(C, e) <= Rank(C, f)
    BY <1>3
  <2>3. f.seq < e.seq => Rank(C, f) < Rank(C, e)
    BY <1>4
  <2> QED
    BY <2>1, <2>2, <2>3
<1>6. \A e \in C : Rank(C, e) \in 1 .. Cardinality(C)
  <2> HIDE DEF Upto
  <2> QED
    BY <1>2
<1> QED
  BY <1>2, <1>5, <1>6

\* What a copy has of its original, on a branch whose anchors are its rows.
LEMMA CopyFields ==
  ASSUME NEW e \in EventSet, NEW d \in Ids, NEW n, NEW C, Anchored(e),
         cursor \in Nat, Rank(C, e) \in Nat
  PROVE  /\ Copy(e, d, n, C) \in EventSet
         /\ Copy(e, d, n, C).seq = cursor + Rank(C, e)
         /\ Copy(e, d, n, C).session = d
         /\ Copy(e, d, n, C).anchor = e.anchor
         /\ Copy(e, d, n, C).kind = e.kind
         /\ Copy(e, d, n, C).todos = e.todos
         /\ Copy(e, d, n, C).sound
         /\ Copy(e, d, n, C).skills = IF Tombstone(e, n) THEN {} ELSE e.skills
<1> DEFINE sq == NextSeq - 1 + Cardinality({f \in C : f.seq <= e.seq})
           sk == IF Tombstone(e, n) THEN {} ELSE e.skills
           an == IF Anchored(e) THEN e.anchor ELSE n
<1>1. sq \in Nat /\ sq = cursor + Rank(C, e)
  BY DEF NextSeq, Rank
<1>2. sk \in SUBSET Skills /\ an = e.anchor
  BY DEF EventSet
<1>3. Copy(e, d, n, C) = [e EXCEPT !.seq = sq, !.session = d, !.anchor = an,
                                   !.skills = sk, !.sound = TRUE]
  BY DEF Copy
<1> HIDE DEF sq, sk, an
<1> QED
  BY <1>1, <1>2, <1>3 DEF EventSet, sk

Copies(s, d, n) == {Copy(e, d, n, Copied(s, n)) : e \in Copied(s, n)}

\* A fork at row n: its copies say what the source said up to there, and damaged
\* skill rows nothing.
LEMMA CopiedBranch ==
  ASSUME NEW s \in Ids, NEW d \in Ids, NEW n \in DOMAIN rows[s],
         cursor \in Nat, IsFiniteSet(events), hurt[s] \in BOOLEAN,
         Branch(EventsOf(s), rows[s], truth[s], hurt[s])
  PROVE  /\ Branch(Copies(s, d, n), Prefix(s, n), SubSeq(truth[s], 1, n), hurt[s])
         /\ Copies(s, d, n) \subseteq EventSet /\ IsFiniteSet(Copies(s, d, n))
         /\ Cardinality(Copied(s, n)) \in Nat
         /\ \A f \in Copies(s, d, n) :
              /\ f.session = d /\ cursor < f.seq
              /\ f.seq <= cursor + Cardinality(Copied(s, n))
<1> DEFINE C == Copied(s, n)
           D == {Copy(e, d, n, C) : e \in C}
           E == {e \in EventsOf(s) : e.anchor <= n}
           q == Prefix(s, n)
           t == SubSeq(truth[s], 1, n)
           h == hurt[s]
           c == [f \in D |-> CHOOSE e \in C : Copy(e, d, n, C) = f]
<1>1. Branch(E, q, t, h)
  <2>1. n \in 0 .. Len(rows[s])
    BY DEF Branch
  <2> QED
    BY <2>1, ShorterBranch DEF Prefix
<1>2. \A e \in EventsOf(s) : e \in EventSet /\ Anchored(e)
  BY DEF Branch, Placed, Anchored, EventsOf
<1>3. C \subseteq E /\ \A e \in C : e \in EventSet /\ Anchored(e)
  BY <1>2 DEF Copied, Tombstone, Carried, EventsOf
<1>4. IsFiniteSet(C)
  <2>1. C \in SUBSET events
    BY DEF Copied
  <2> QED
    BY <2>1, FS_Subset
<1>5. /\ Cardinality(C) \in Nat
      /\ \A e \in C : Rank(C, e) \in 1 .. Cardinality(C)
      /\ \A e, f \in C : e.seq <= f.seq <=> Rank(C, e) <= Rank(C, f)
  BY <1>3, <1>4, RanksOrder
<1> HIDE DEF C
<1>6. \A e \in C :
        LET f == Copy(e, d, n, C)
        IN  /\ f \in EventSet /\ f.seq = cursor + Rank(C, e) /\ f.session = d
            /\ f.anchor = e.anchor /\ f.kind = e.kind /\ f.todos = e.todos
            /\ f.sound /\ f.skills = IF Tombstone(e, n) THEN {} ELSE e.skills
  <2> TAKE e \in C
  <2>1. e \in EventSet /\ Anchored(e) /\ Rank(C, e) \in Nat
    BY <1>3, <1>5
  <2> QED
    BY <2>1, CopyFields
<1>7. \A f \in D : c[f] \in C /\ Copy(c[f], d, n, C) = f
  <2> TAKE f \in D
  <2>1. \E e \in C : Copy(e, d, n, C) = f
    OBVIOUS
  <2>2. c[f] = CHOOSE e \in C : Copy(e, d, n, C) = f
    OBVIOUS
  <2> HIDE DEF c, D
  <2> QED
    BY <2>1, <2>2
<1>8. c \in [D -> E]
  BY <1>3, <1>7
<1>9. \A e \in C : Copy(e, d, n, C) \in D
  OBVIOUS
<1> HIDE DEF c, D
<1>10. \A f \in D :
         /\ f \in EventSet /\ f.seq = cursor + Rank(C, c[f]) /\ f.session = d
         /\ f.anchor = c[f].anchor /\ f.kind = c[f].kind /\ f.todos = c[f].todos
         /\ f.sound
         /\ f.skills = IF Tombstone(c[f], n) THEN {} ELSE c[f].skills
  BY <1>6, <1>7
<1>11. \A e \in C : /\ e.anchor <= n /\ e \in E
                    /\ Tombstone(e, n) => e.kind = "skill" /\ ~e.sound
                    /\ ~Tombstone(e, n) => e.sound
  BY <1>3 DEF C, Copied, Tombstone, Carried
<1>12. \A f \in D : Mirrors(c[f], f)
  BY <1>7, <1>10, <1>11 DEF Mirrors
<1>13. \A e \in E : e.kind = "skill" \/ (~h /\ e.kind = "todo") => e \in C
  BY <1>1, <1>2 DEF C, Copied, Tombstone, Carried, Branch, Placed, EventsOf
<1>14. \A e, f \in C : e.seq = f.seq => e = f
  BY <1>1, <1>3 DEF Branch, Placed
<1>15. \A e \in C : c[Copy(e, d, n, C)] = e
  <2> TAKE e \in C
  <2> DEFINE f == Copy(e, d, n, C)
  <2>1. c[f] \in C /\ cursor + Rank(C, c[f]) = cursor + Rank(C, e)
    BY <1>6, <1>7, <1>9, <1>10
  <2>2. e.seq <= c[f].seq /\ c[f].seq <= e.seq /\ e.seq \in Nat /\ c[f].seq \in Nat
    BY <1>3, <1>5, <2>1 DEF EventSet
  <2> QED
    BY <1>14, <2>1, <2>2
<1>16. \A f, g \in D : f.seq = g.seq => f = g
  <2> TAKE f, g \in D
  <2> HAVE f.seq = g.seq
  <2>1. c[f] \in C /\ c[g] \in C /\ Rank(C, c[f]) = Rank(C, c[g])
    BY <1>5, <1>7, <1>10
  <2>2. c[f].seq <= c[g].seq /\ c[g].seq <= c[f].seq /\ c[f].seq \in Nat /\ c[g].seq \in Nat
    BY <1>3, <1>5, <2>1 DEF EventSet
  <2> QED
    BY <1>7, <1>14, <2>1, <2>2
<1>17. \A f, g \in D : c[f].seq <= c[g].seq <=> f.seq <= g.seq
  BY <1>5, <1>7, <1>10
<1>18. D \in SUBSET EventSet
  BY <1>10
<1>19. Branch(D, q, t, h)
  <2> HIDE DEF E, q, t
  <2>1. \A e \in E : e.kind = "skill" \/ (~h /\ e.kind = "todo") => \E f \in D : c[f] = e
    BY <1>9, <1>13, <1>15
  <2>2. ~h => ~h /\ \A f \in D : f.sound
    BY <1>10
  <2> QED
    BY <1>1, <1>8, <1>12, <1>16, <1>17, <1>18, <2>1, <2>2, RewrittenBranch
<1>20. IsFiniteSet(D)
  <2>1. [e \in C |-> Copy(e, d, n, C)] \in Surjection(C, D)
    BY <1>7, <1>9 DEF Surjection
  <2> QED
    BY <1>4, <2>1, FS_Surjection
<1>21. \A f \in D : f.session = d /\ cursor < f.seq /\ f.seq <= cursor + Cardinality(C)
  BY <1>5, <1>7, <1>10
<1> QED
  BY <1>5, <1>18, <1>19, <1>20, <1>21 DEF C, D, Copies

-----------------------------------------------------------------------------
(* Whole messages: what trim_dangling leaves of a transcript *)

\* Counting up to an element numbers a finite set of numbers from 1, in order.
LEMMA PlacesNumber ==
  ASSUME NEW K \in SUBSET Nat, IsFiniteSet(K)
  PROVE  /\ Cardinality(K) \in Nat
         /\ \A i \in K : Place(K, i) \in 1 .. Cardinality(K)
         /\ \A i, j \in K : i <= j <=> Place(K, i) <= Place(K, j)
         /\ \A n \in 1 .. Cardinality(K) : \E i \in K : Place(K, i) = n
<1> DEFINE Upto(i) == {j \in K : j <= i}
           N == Cardinality(K)
<1>0. \A i \in K : i \in Nat
  OBVIOUS
<1>1. N \in Nat
  BY FS_CardinalityType
<1>2. ASSUME NEW i \in K
      PROVE  /\ IsFiniteSet(Upto(i)) /\ Place(K, i) = Cardinality(Upto(i))
             /\ Place(K, i) \in 1 .. N
  <2>1. Upto(i) \in SUBSET K /\ i \in Upto(i)
    OBVIOUS
  <2>2. Place(K, i) = Cardinality(Upto(i))
    BY DEF Place
  <2> HIDE DEF Upto
  <2>3. IsFiniteSet(Upto(i)) /\ Cardinality(Upto(i)) <= N
    BY <2>1, FS_Subset
  <2>4. Cardinality(Upto(i)) \in Nat /\ Cardinality(Upto(i)) # 0
    BY <2>1, <2>3, FS_CardinalityType, FS_EmptySet
  <2> QED
    BY <1>1, <2>2, <2>3, <2>4
<1>3. ASSUME NEW i \in K, NEW j \in K, i <= j
      PROVE  Place(K, i) <= Place(K, j)
  <2>0. \A k \in K : k <= i => k <= j
    BY <1>0, <1>3
  <2>1. Upto(i) \in SUBSET Upto(j)
    BY <2>0
  <2> HIDE DEF Upto
  <2> QED
    BY <1>2, <2>1, FS_Subset
<1>4. ASSUME NEW i \in K, NEW j \in K, i < j
      PROVE  Place(K, i) < Place(K, j)
  <2>0. (\A k \in K : k <= i => k <= j) /\ j <= j /\ ~(j <= i)
    BY <1>0, <1>4
  <2>1. Upto(i) \in SUBSET Upto(j) /\ j \in Upto(j) /\ j \notin Upto(i)
    BY <2>0
  <2> HIDE DEF Upto
  <2>2. /\ Cardinality(Upto(i)) <= Cardinality(Upto(j))
        /\ Cardinality(Upto(i)) # Cardinality(Upto(j))
    BY <1>2, <2>1, FS_Subset
  <2>3. Place(K, i) = Cardinality(Upto(i)) /\ Place(K, j) = Cardinality(Upto(j))
    BY <1>2
  <2>4. Place(K, i) \in Nat /\ Place(K, j) \in Nat
    <3> HIDE DEF N
    <3> QED BY <1>1, <1>2
  <2> QED
    BY <2>2, <2>3, <2>4
<1> HIDE DEF N, Upto
<1>5. \A i, j \in K : i <= j <=> Place(K, i) <= Place(K, j)
  <2> TAKE i, j \in K
  <2>1. i \in Nat /\ j \in Nat /\ Place(K, i) \in Nat /\ Place(K, j) \in Nat
    BY <1>1, <1>2
  <2> QED
    BY <1>3, <1>4, <2>1
<1>6. \A n \in 1 .. N : \E i \in K : Place(K, i) = n
  <2> DEFINE p == [i \in K |-> Place(K, i)]
  <2>1. p \in Injection(K, 1 .. N)
    <3>1. p \in [K -> 1 .. N]
      BY <1>2
    <3>2. \A i, j \in K : p[i] = p[j] => i = j
      <4> TAKE i, j \in K
      <4>1. i \in Nat /\ j \in Nat /\ Place(K, i) \in Nat /\ Place(K, j) \in Nat
        BY <1>1, <1>2
      <4> QED
        BY <1>5, <4>1
    <3> QED
      BY <3>1, <3>2 DEF Injection, IsInjective
  <2>2. IsFiniteSet(1 .. N) /\ Cardinality(1 .. N) = N
    BY <1>1, FS_Interval
  <2>3. p \in Surjection(K, 1 .. N)
    BY <2>1, <2>2, FS_Injection DEF N
  <2> QED
    BY <2>3 DEF Surjection
<1> QED
  BY <1>1, <1>2, <1>5, <1>6 DEF N

\* Trimming keeps the whole messages, in their order.
LEMMA TrimmedMessages ==
  ASSUME NEW q \in Seq(Messages)
  PROVE  /\ Whole(q) \in SUBSET (1 .. Len(q)) /\ IsFiniteSet(Whole(q))
         /\ Cardinality(Whole(q)) \in Nat
         /\ Trim(q) \in Seq(Messages) /\ Len(Trim(q)) = Cardinality(Whole(q))
         /\ \A i \in Whole(q) : Trim(q)[Place(Whole(q), i)] = q[i]
<1> DEFINE K == Whole(q)
           N == Cardinality(K)
           At(n) == CHOOSE i \in K : Place(K, i) = n
<1>1. K \in SUBSET (1 .. Len(q)) /\ K \in SUBSET Nat
  BY DEF Whole
<1>2. IsFiniteSet(K)
  <2>1. IsFiniteSet(1 .. Len(q))
    BY FS_Interval
  <2> HIDE DEF K
  <2> QED
    BY <1>1, <2>1, FS_Subset
<1>3. Trim(q) = [n \in 1 .. N |-> q[At(n)]]
  BY DEF Trim, Subsequence
<1> HIDE DEF K
<1>4. /\ N \in Nat
      /\ \A i \in K : Place(K, i) \in 1 .. N
      /\ \A i, j \in K : i <= j <=> Place(K, i) <= Place(K, j)
      /\ \A n \in 1 .. N : \E i \in K : Place(K, i) = n
  BY <1>1, <1>2, PlacesNumber
<1>5. \A n \in 1 .. N : At(n) \in K /\ Place(K, At(n)) = n
  BY <1>4
<1>6. \A i \in K : At(Place(K, i)) = i
  <2> TAKE i \in K
  <2> DEFINE j == At(Place(K, i))
  <2>1. Place(K, i) \in 1 .. N
    BY <1>4
  <2>2. j \in K /\ Place(K, j) = Place(K, i)
    BY <1>5, <2>1
  <2> HIDE DEF j, N, At
  <2>3. Place(K, i) <= Place(K, j) /\ Place(K, j) <= Place(K, i)
    BY <1>4, <2>1, <2>2
  <2>4. i <= j /\ j <= i
    BY <1>4, <2>2, <2>3
  <2>5. j \in Nat /\ i \in Nat
    BY <1>1, <2>2
  <2> QED
    BY <2>4, <2>5 DEF j
<1> HIDE DEF N, At
<1>7. \A n \in 1 .. N : q[At(n)] \in Messages
  <2> TAKE n \in 1 .. N
  <2>1. At(n) \in 1 .. Len(q)
    BY <1>1, <1>5
  <2> QED
    BY <2>1
<1>8. Trim(q) \in Seq(Messages) /\ Len(Trim(q)) = N
  BY <1>3, <1>4, <1>7
<1>9. \A i \in K : Trim(q)[Place(K, i)] = q[i]
  BY <1>3, <1>4, <1>6
<1> QED
  BY <1>1, <1>2, <1>4, <1>8, <1>9 DEF K, N

\* Moving a set of numbers up keeps its size.
LEMMA ShiftedSet ==
  ASSUME NEW K \in SUBSET Nat, IsFiniteSet(K), NEW k \in Nat
  PROVE  /\ IsFiniteSet({k + i : i \in K})
         /\ Cardinality({k + i : i \in K}) = Cardinality(K)
<1> DEFINE S == {k + i : i \in K}
           f == [i \in K |-> k + i]
<1>1. f \in [K -> S]
  OBVIOUS
<1>2. \A i, j \in K : f[i] = f[j] => i = j
  OBVIOUS
<1>3. \A x \in S : \E i \in K : f[i] = x
  OBVIOUS
<1> HIDE DEF f, S
<1>4. f \in Surjection(K, S) /\ f \in Injection(K, S)
  BY <1>1, <1>2, <1>3 DEF Surjection, Injection, IsInjective
<1> QED
  BY <1>4, FS_Surjection DEF S

\* A cut behind a prompt or a result parts no call from its result: trimming
\* both parts trims the whole.
LEMMA TrimmedParts ==
  ASSUME NEW q \in Seq(Messages), NEW k \in 1 .. Len(q), q[k].role \in {"user", "tool"}
  PROVE  Trim(q) = Trim(SubSeq(q, 1, k)) \o Trim(SubSeq(q, k + 1, Len(q)))
<1> DEFINE a == SubSeq(q, 1, k)
           b == SubSeq(q, k + 1, Len(q))
           W == Whole(q)
           A == Whole(a)
           B == Whole(b)
           Up(S) == {k + i : i \in S}
<1>1. /\ a \in Seq(Messages) /\ Len(a) = k /\ DOMAIN a = 1 .. k
      /\ \A i \in 1 .. k : a[i] = q[i]
  OBVIOUS
<1>2. /\ b \in Seq(Messages) /\ Len(b) = Len(q) - k /\ DOMAIN b = 1 .. Len(q) - k
      /\ \A i \in 1 .. Len(q) - k : b[i] = q[k + i]
  OBVIOUS
<1>3. \A i \in 1 .. k : i \in W <=> i \in A
  BY <1>1 DEF Whole
<1>4. \A i \in 1 .. Len(q) - k : k + i \in W <=> i \in B
  <2> TAKE i \in 1 .. Len(q) - k
  <2> HIDE DEF a, b
  <2>1. k + i \in DOMAIN q /\ i \in DOMAIN b /\ b[i] = q[k + i]
    BY <1>2
  <2>2. b[i].role = "call" =>
          ((k + i < Len(q) /\ q[k + i + 1].role = "tool")
             <=> (i < Len(b) /\ b[i + 1].role = "tool"))
    <3>1. CASE i < Len(b)
      <4>1. i + 1 \in 1 .. Len(q) - k /\ k + (i + 1) = k + i + 1 /\ k + i < Len(q)
        BY <1>2, <3>1
      <4>2. b[i + 1] = q[k + i + 1]
        BY <1>2, <4>1
      <4> QED
        BY <3>1, <4>1, <4>2
    <3>2. CASE ~(i < Len(b))
      BY <1>2, <3>2
    <3> QED
      BY <3>1, <3>2
  <2>3. b[i].role = "tool" =>
          ((k + i > 1 /\ q[k + i - 1].role = "call") <=> (i > 1 /\ b[i - 1].role = "call"))
    <3>1. CASE i = 1
      BY <3>1
    <3>2. CASE i # 1
      <4>1. b[i - 1] = q[k + i - 1]
        BY <1>2, <3>2
      <4> QED
        BY <3>2, <4>1
    <3> QED
      BY <3>1, <3>2
  <2> QED
    BY <2>1, <2>2, <2>3 DEF Whole
<1>5. /\ A \in SUBSET (1 .. k) /\ IsFiniteSet(A) /\ Cardinality(A) \in Nat
      /\ Trim(a) \in Seq(Messages) /\ Len(Trim(a)) = Cardinality(A)
      /\ \A i \in A : Trim(a)[Place(A, i)] = a[i]
  BY <1>1, TrimmedMessages
<1>6. /\ B \in SUBSET (1 .. Len(q) - k) /\ IsFiniteSet(B) /\ Cardinality(B) \in Nat
      /\ Trim(b) \in Seq(Messages) /\ Len(Trim(b)) = Cardinality(B)
      /\ \A i \in B : Trim(b)[Place(B, i)] = b[i]
  BY <1>2, TrimmedMessages
<1>7. /\ W \in SUBSET (1 .. Len(q)) /\ IsFiniteSet(W)
      /\ Trim(q) \in Seq(Messages) /\ Len(Trim(q)) = Cardinality(W)
      /\ \A i \in W : Trim(q)[Place(W, i)] = q[i]
  BY TrimmedMessages
<1> HIDE DEF a, b, W, A, B
<1>8. W = A \cup Up(B)
  <2>1. ASSUME NEW j \in W PROVE j \in A \cup Up(B)
    <3>1. CASE j <= k
      BY <1>3, <1>7, <2>1, <3>1
    <3>2. CASE j > k
      <4>1. j - k \in 1 .. Len(q) - k /\ j = k + (j - k)
        BY <1>7, <3>2
      <4> QED
        BY <1>4, <4>1
    <3> QED
      BY <1>7, <3>1, <3>2
  <2>2. A \subseteq W
    BY <1>3, <1>5
  <2>3. Up(B) \subseteq W
    BY <1>4, <1>6
  <2> QED
    BY <2>1, <2>2, <2>3
<1>9. \A S \in SUBSET B :
        /\ IsFiniteSet(A \cup Up(S))
        /\ Cardinality(A \cup Up(S)) = Cardinality(A) + Cardinality(S)
  <2> TAKE S \in SUBSET B
  <2>0. S \in SUBSET Nat /\ k \in Nat
    BY <1>6
  <2>1. IsFiniteSet(S)
    BY <1>6, FS_Subset
  <2>2. IsFiniteSet(Up(S)) /\ Cardinality(Up(S)) = Cardinality(S)
    BY <2>0, <2>1, ShiftedSet
  <2>3. A \cap Up(S) = {}
    BY <1>5, <1>6
  <2>4. Cardinality(A \cap Up(S)) = 0 /\ Cardinality(S) \in Nat
    BY <2>1, <2>3, FS_EmptySet, FS_CardinalityType
  <2> HIDE DEF Up
  <2>5. /\ IsFiniteSet(A \cup Up(S))
        /\ Cardinality(A \cup Up(S)) =
             Cardinality(A) + Cardinality(Up(S)) - Cardinality(A \cap Up(S))
    BY <1>5, <2>2, FS_Union
  <2> QED
    BY <1>5, <2>2, <2>4, <2>5
<1>10. Cardinality(W) = Cardinality(A) + Cardinality(B)
  BY <1>8, <1>9
<1>11. \A i \in A : Place(W, i) = Place(A, i)
  <2> TAKE i \in A
  <2>1. {j \in W : j <= i} = {j \in A : j <= i}
    BY <1>5, <1>6, <1>8
  <2> QED
    BY <2>1 DEF Place
<1>12. \A i \in B : Place(W, k + i) = Cardinality(A) + Place(B, i)
  <2> TAKE i \in B
  <2> DEFINE S == {j \in B : j <= i}
  <2>0. /\ \A j \in A : j <= k + i
        /\ \A j \in B : k + j <= k + i <=> j <= i
    BY <1>5, <1>6
  <2>1. {j \in W : j <= k + i} = A \cup Up(S)
    BY <1>8, <2>0
  <2>2. S \in SUBSET B
    OBVIOUS
  <2>3. Cardinality(A \cup Up(S)) = Cardinality(A) + Cardinality(S)
    BY <1>9, <2>2
  <2> QED
    BY <2>1, <2>3 DEF Place
<1>13. /\ \A n \in 1 .. Cardinality(A) : \E i \in A : Place(A, i) = n
       /\ \A n \in 1 .. Cardinality(B) : \E i \in B : Place(B, i) = n
  <2>1. A \in SUBSET Nat /\ B \in SUBSET Nat
    BY <1>5, <1>6
  <2> QED
    BY <1>5, <1>6, <2>1, PlacesNumber
<1> DEFINE r == Trim(a) \o Trim(b)
<1>14. /\ r \in Seq(Messages) /\ Len(r) = Cardinality(W)
       /\ \A n \in 1 .. Cardinality(A) : r[n] = Trim(a)[n]
       /\ \A n \in 1 .. Cardinality(B) : r[Cardinality(A) + n] = Trim(b)[n]
  <2>1. /\ r \in Seq(Messages) /\ Len(r) = Len(Trim(a)) + Len(Trim(b))
        /\ \A n \in 1 .. Len(Trim(a)) : r[n] = Trim(a)[n]
        /\ \A n \in 1 .. Len(Trim(b)) : r[Len(Trim(a)) + n] = Trim(b)[n]
    <3> DEFINE x == Trim(a)
               y == Trim(b)
    <3>1. x \in Seq(Messages) /\ y \in Seq(Messages)
      BY <1>5, <1>6
    <3> HIDE DEF x, y
    <3>2. /\ x \o y \in Seq(Messages) /\ Len(x \o y) = Len(x) + Len(y)
          /\ \A n \in 1 .. Len(x) : (x \o y)[n] = x[n]
          /\ \A n \in 1 .. Len(y) : (x \o y)[Len(x) + n] = y[n]
      BY <3>1
    <3> QED
      BY <3>2 DEF x, y
  <2> HIDE DEF r
  <2> QED
    BY <1>5, <1>6, <1>10, <2>1
<1>15. \A n \in 1 .. Cardinality(W) : Trim(q)[n] = r[n]
  <2> TAKE n \in 1 .. Cardinality(W)
  <2>1. CASE n <= Cardinality(A)
    <3>1. n \in 1 .. Cardinality(A)
      BY <1>5, <2>1
    <3>2. PICK i \in A : Place(A, i) = n
      BY <1>13, <3>1
    <3>3. i \in W /\ Place(W, i) = n /\ a[i] = q[i]
      BY <1>1, <1>5, <1>8, <1>11, <3>2
    <3>4. Trim(q)[n] = q[i] /\ r[n] = a[i]
      BY <1>5, <1>7, <1>14, <3>1, <3>2, <3>3
    <3> QED
      BY <3>3, <3>4
  <2>2. CASE n > Cardinality(A)
    <3> DEFINE m == n - Cardinality(A)
    <3>1. m \in 1 .. Cardinality(B) /\ n = Cardinality(A) + m
      BY <1>5, <1>6, <1>10, <2>2
    <3> HIDE DEF m
    <3>2. PICK i \in B : Place(B, i) = m
      BY <1>13, <3>1
    <3>3. k + i \in W /\ Place(W, k + i) = n /\ b[i] = q[k + i]
      BY <1>2, <1>6, <1>8, <1>12, <3>1, <3>2
    <3>4. Trim(q)[n] = q[k + i]
      BY <1>7, <3>3
    <3>5. r[n] = b[i]
      BY <1>6, <1>14, <3>1, <3>2
    <3> QED
      BY <3>3, <3>4, <3>5
  <2> QED
    BY <1>5, <1>6, <1>10, <2>1, <2>2
<1>16. Trim(q) = r
  <2> HIDE DEF r
  <2> QED
    BY <1>7, <1>14, <1>15
<1> QED
  BY <1>16 DEF a, b

\* The turn index of joined transcripts is the sum of theirs.
LEMMA AssistantsAdd ==
  ASSUME NEW x \in Seq(Messages), NEW y \in Seq(Messages)
  PROVE  /\ Assistants(x) \in Nat /\ Assistants(y) \in Nat
         /\ Assistants(x \o y) = Assistants(x) + Assistants(y)
<1> DEFINE C(z) == {i \in DOMAIN z : z[i].role = "call"}
           k == Len(x)
<1>1. \A z \in Seq(Messages) : /\ C(z) \in SUBSET (1 .. Len(z)) /\ C(z) \in SUBSET Nat
                               /\ IsFiniteSet(C(z)) /\ Cardinality(C(z)) \in Nat
                               /\ Assistants(z) = Cardinality(C(z))
  <2> TAKE z \in Seq(Messages)
  <2>1. C(z) \in SUBSET (1 .. Len(z)) /\ C(z) \in SUBSET Nat
    OBVIOUS
  <2>2. Assistants(z) = Cardinality(C(z))
    BY DEF Assistants
  <2> HIDE DEF C
  <2>3. IsFiniteSet(1 .. Len(z))
    BY FS_Interval
  <2> QED
    BY <2>1, <2>2, <2>3, FS_Subset, FS_CardinalityType
<1>2. C(x \o y) = C(x) \cup {k + i : i \in C(y)}
  <2> DEFINE z == x \o y
  <2>1. /\ z \in Seq(Messages) /\ DOMAIN z = 1 .. k + Len(y) /\ k \in Nat /\ Len(y) \in Nat
        /\ \A i \in 1 .. k : z[i] = x[i]
        /\ \A i \in 1 .. Len(y) : z[k + i] = y[i]
        /\ DOMAIN x = 1 .. k /\ DOMAIN y = 1 .. Len(y)
    OBVIOUS
  <2> HIDE DEF z, k
  <2>2. ASSUME NEW j \in C(z) PROVE j \in C(x) \cup {k + i : i \in C(y)}
    <3>1. CASE j <= k
      BY <2>1, <3>1
    <3>2. CASE j > k
      <4>1. j - k \in 1 .. Len(y) /\ j = k + (j - k)
        BY <2>1, <3>2
      <4> QED
        BY <2>1, <4>1
    <3> QED
      BY <2>1, <3>1, <3>2
  <2>3. C(x) \cup {k + i : i \in C(y)} \subseteq C(z)
    BY <2>1
  <2> QED
    BY <2>2, <2>3 DEF z
<1>3. C(x) \cap {k + i : i \in C(y)} = {}
  BY <1>1
<1>4. /\ IsFiniteSet({k + i : i \in C(y)})
      /\ Cardinality({k + i : i \in C(y)}) = Cardinality(C(y))
  <2> HIDE DEF C
  <2>1. k \in Nat
    OBVIOUS
  <2> QED
    BY <1>1, <2>1, ShiftedSet
<1> HIDE DEF C
<1>5. Cardinality(C(x \o y)) = Cardinality(C(x)) + Cardinality(C(y))
  <2>1. Cardinality(C(x) \cap {k + i : i \in C(y)}) = 0
    BY <1>3, FS_EmptySet
  <2> DEFINE S == {k + i : i \in C(y)}
  <2>2. /\ IsFiniteSet(C(x)) /\ Cardinality(C(x)) \in Nat
        /\ Cardinality(C(y)) \in Nat
    BY <1>1
  <2> HIDE DEF S
  <2>3. Cardinality(C(x) \cup S) = Cardinality(C(x)) + Cardinality(S) - Cardinality(C(x) \cap S)
    BY <1>4, <2>2, FS_Union DEF S
  <2> QED
    BY <1>2, <1>4, <2>1, <2>2, <2>3 DEF S
<1>6. x \o y \in Seq(Messages)
  OBVIOUS
<1> QED
  BY <1>1, <1>5, <1>6

-----------------------------------------------------------------------------
(* The invariant *)

\* A snapshot with a body was taken between whole messages and counted the
\* replies up to its row.
Snapshots(E, q) ==
  \A e \in E : e.kind = "compaction" /\ e.body = "full" =>
    /\ q[e.anchor].role \in {"user", "tool"}
    /\ e.turn = Assistants(Trim(SubSeq(q, 1, e.anchor)))

\* A transcript starts with a prompt, which an automatic title repeats.
Titled(q, name) ==
  /\ q # << >> => q[1].role = "user"
  /\ \A i \in DOMAIN q : q[i].role = "user" => q[i].text # ""
  /\ name # Named => name = IF q = << >> THEN "" ELSE q[1].text

SessionInv(s) ==
  /\ Branch(EventsOf(s), rows[s], truth[s], hurt[s])
  /\ Snapshots(EventsOf(s), rows[s])
  /\ Titled(rows[s], title[s])
  /\ s \notin live => rows[s] = << >>

TypeInv ==
  /\ rows \in [Ids -> Seq(Messages)] /\ truth \in [Ids -> Seq(States)]
  /\ hurt \in [Ids -> BOOLEAN] /\ title \in [Ids -> Titles]
  /\ cursor \in Nat /\ events \in SUBSET EventSet /\ IsFiniteSet(events)
  /\ \A e \in events : e.seq <= cursor

StoreInv == TypeInv /\ \A s \in Ids : SessionInv(s)

\* The empty profile.
LEMMA StoreInit == Init => StoreInv
<1> SUFFICES ASSUME Init PROVE StoreInv
  OBVIOUS
<1>1. TypeInv
  <2> DEFINE nil == << >>
  <2>1. nil \in Seq(Messages) /\ nil \in Seq(States)
    OBVIOUS
  <2>2. rows = [s \in Ids |-> nil] /\ truth = [s \in Ids |-> nil]
    BY DEF Init
  <2> HIDE DEF nil
  <2>3. rows \in [Ids -> Seq(Messages)] /\ truth \in [Ids -> Seq(States)]
    BY <2>1, <2>2
  <2>4. /\ hurt \in [Ids -> BOOLEAN] /\ title \in [Ids -> Titles] /\ cursor \in Nat
        /\ events = {}
    BY DEF Init, Titles
  <2> QED
    BY <2>3, <2>4, FS_EmptySet DEF TypeInv
<1>2. ASSUME NEW s \in Ids PROVE SessionInv(s)
  <2>1. /\ EventsOf(s) = {} /\ rows[s] = << >> /\ truth[s] = << >> /\ hurt[s] = FALSE
        /\ title[s] = ""
    BY DEF Init, EventsOf
  <2>2. Branch({}, << >>, << >>, FALSE)
    BY EmptyBranch
  <2>3. Snapshots({}, << >>)
    BY DEF Snapshots
  <2>4. Titled(<< >>, "")
    BY DEF Titled
  <2> QED
    BY <2>1, <2>2, <2>3, <2>4 DEF SessionInv
<1> QED
  BY <1>1, <1>2 DEF StoreInv

\* A step touches one session: the others are as they were.
LEMMA OneSessionChanges ==
  ASSUME StoreInv, NEW s \in Ids, TypeInv', SessionInv(s)',
         \A x \in Ids \ {s} :
           /\ rows'[x] = rows[x] /\ truth'[x] = truth[x] /\ hurt'[x] = hurt[x]
           /\ title'[x] = title[x] /\ EventsOf(x)' = EventsOf(x)
           /\ x \in live => x \in live'
  PROVE  StoreInv'
BY DEF StoreInv, SessionInv

\* A message goes behind the last row, with the agent's state of that row.
LEMMA AddKeeps ==
  ASSUME Lineage, StoreInv, NEW s \in Ids, NEW m \in Messages, AddMessage(s, m)
  PROVE  StoreInv'
<1> DEFINE q == rows[s]
           t == truth[s]
           u == IF t = << >> THEN [skills |-> {}, todos |-> NoTodos] ELSE t[Len(t)]
           name == IF m.role = "user" /\ title[s] = "" THEN m.text ELSE title[s]
<1>1. /\ rows' = [rows EXCEPT ![s] = Append(q, m)]
      /\ truth' = [truth EXCEPT ![s] = Append(t, u)]
      /\ title' = [title EXCEPT ![s] = name]
      /\ events' = events /\ cursor' = cursor /\ hurt' = hurt /\ live' = live \cup {s}
  BY DEF AddMessage, Present, derived
<1>2. /\ (m.text = "") = (m.role # "user")
      /\ q = << >> => m.role = "user"
  BY DEF AddMessage, Follows, Messages, Roles
<1>3. /\ TypeInv /\ Branch(EventsOf(s), q, t, hurt[s]) /\ Snapshots(EventsOf(s), q)
      /\ Titled(q, title[s])
  BY DEF StoreInv, SessionInv
<1>4. /\ q \in Seq(Messages) /\ t \in Seq(States) /\ title[s] \in Titles
      /\ hurt[s] \in BOOLEAN /\ Len(t) = Len(q)
  BY <1>3 DEF TypeInv, Branch
<1>5. u \in States
  <2>1. CASE t = << >>
    BY <2>1, StoreAssumption DEF States
  <2>2. CASE t # << >>
    BY <1>4, <2>2
  <2> QED
    BY <2>1, <2>2
<1> HIDE DEF u, name
<1>6. name \in Titles
  BY <1>4 DEF name, Titles, Messages
<1>7. Append(q, m) \in Seq(Messages) /\ Append(t, u) \in Seq(States)
  BY <1>4, <1>5
<1>8. TypeInv'
  BY <1>1, <1>3, <1>6, <1>7 DEF TypeInv
<1>9. /\ EventsOf(s)' = EventsOf(s) /\ rows'[s] = Append(q, m) /\ truth'[s] = Append(t, u)
      /\ hurt'[s] = hurt[s] /\ title'[s] = name /\ s \in live'
  BY <1>1, <1>3 DEF TypeInv, EventsOf
<1>10. Branch(EventsOf(s), Append(q, m), Append(t, u), hurt[s])
  <2>1. IF t = << >> THEN u = [skills |-> {}, todos |-> NoTodos] ELSE u = t[Len(t)]
    BY DEF u
  <2> QED
    BY <1>3, <1>4, <1>5, <2>1, LongerBranch
<1>11. Snapshots(EventsOf(s), Append(q, m))
  <2> SUFFICES ASSUME NEW e \in EventsOf(s), e.kind = "compaction", e.body = "full"
               PROVE  /\ Append(q, m)[e.anchor] = q[e.anchor]
                      /\ SubSeq(Append(q, m), 1, e.anchor) = SubSeq(q, 1, e.anchor)
    BY <1>3 DEF Snapshots
  <2>1. e.anchor \in 1 .. Len(q)
    BY <1>3, <1>4 DEF Branch, Placed
  <2> DEFINE k == e.anchor
  <2> HIDE DEF k, q
  <2>2. Append(q, m)[k] = q[k] /\ SubSeq(Append(q, m), 1, k) = SubSeq(q, 1, k)
    BY <1>4, <2>1 DEF k
  <2> QED
    BY <2>2 DEF k
<1>12. Titled(Append(q, m), name)
  <2>1. /\ Append(q, m) # << >> /\ DOMAIN Append(q, m) = 1 .. Len(q) + 1
        /\ Append(q, m)[Len(q) + 1] = m
        /\ \A i \in 1 .. Len(q) : Append(q, m)[i] = q[i]
        /\ DOMAIN q = 1 .. Len(q) /\ Len(q) \in Nat
        /\ q # << >> => Len(q) # 0
        /\ q = << >> => Len(q) = 0
    BY <1>4
  <2> HIDE DEF q
  <2>5. /\ Append(q, m)[1] = IF q = << >> THEN m ELSE q[1]
        /\ q # << >> => 1 \in DOMAIN q
    BY <2>1
  <2>2. \A i \in DOMAIN Append(q, m) : Append(q, m)[i].role = "user" => Append(q, m)[i].text # ""
    <3> TAKE i \in DOMAIN Append(q, m)
    <3>1. CASE i = Len(q) + 1
      BY <1>2, <2>1, <3>1
    <3>2. CASE i # Len(q) + 1
      <4>1. i \in DOMAIN q /\ Append(q, m)[i] = q[i]
        BY <2>1, <3>2
      <4> QED
        BY <1>3, <4>1 DEF Titled
    <3> QED
      BY <3>1, <3>2
  <2>3. Append(q, m)[1].role = "user"
    BY <1>2, <1>3, <2>1, <2>5 DEF Titled
  <2>4. name # Named => name = Append(q, m)[1].text
    BY <1>2, <1>3, <2>1, <2>5, StoreAssumption DEF Titled, name
  <2> QED
    BY <2>1, <2>2, <2>3, <2>4 DEF Titled
<1>13. SessionInv(s)'
  BY <1>9, <1>10, <1>11, <1>12 DEF SessionInv
<1>14. \A x \in Ids \ {s} :
         /\ rows'[x] = rows[x] /\ truth'[x] = truth[x] /\ hurt'[x] = hurt[x]
         /\ title'[x] = title[x] /\ EventsOf(x)' = EventsOf(x)
         /\ x \in live => x \in live'
  BY <1>1, <1>3 DEF TypeInv, EventsOf
<1> QED
  BY <1>8, <1>13, <1>14, OneSessionChanges

\* A batch that saves its skills or todos writes one event and the truth of its row.
LEMMA SaveKeeps ==
  ASSUME StoreInv, NEW s \in Ids, Saves(s), NEW e \in EventSet, NEW u \in States,
         e.seq = NextSeq, e.session = s, e.anchor = Len(rows[s]), e.sound,
         NEW w \in States, w = truth[s][Len(rows[s])],
         \/ e.kind = "skill" /\ u.skills = e.skills /\ u.todos = w.todos
         \/ e.kind = "todo" /\ u.todos = e.todos /\ u.skills = w.skills,
         events' = events \cup {e}, cursor' = NextSeq,
         truth' = [truth EXCEPT ![s] = [truth[s] EXCEPT ![Len(rows[s])] = u]],
         UNCHANGED <<live, rows, title, hurt>>
  PROVE  StoreInv'
<1> DEFINE q == rows[s]
           t == truth[s]
           E == EventsOf(s)
           F == EventsOf(s) \cup {e}
           v == [t EXCEPT ![Len(q)] = u]
<1>1. /\ TypeInv /\ Branch(E, q, t, hurt[s]) /\ Snapshots(E, q) /\ Titled(q, title[s])
      /\ s \in live
  BY DEF StoreInv, SessionInv, Saves, Continued
<1>2. /\ q \in Seq(Messages) /\ t \in Seq(States) /\ Len(t) = Len(q) /\ hurt[s] \in BOOLEAN
      /\ cursor \in Nat
  BY <1>1 DEF TypeInv, Branch
<1>3. q # << >> /\ q[Len(q)].role = "tool"
  BY DEF Saves
<1>4. \A f \in E : f.seq < e.seq
  BY <1>1 DEF TypeInv, NextSeq, EventsOf, EventSet
<1>5. /\ v \in Seq(States) /\ Len(v) = Len(t) /\ v[Len(t)] = u
      /\ \A i \in 1 .. Len(t) : i # Len(t) => v[i] = t[i]
  BY <1>2, <1>3
<1>6. Branch(F, q, v, hurt[s])
  <2>1. SavedAs(e, t, v, u, w)
    BY <1>2, <1>5 DEF SavedAs
  <2>2. hurt[s] \in BOOLEAN /\ Branch(E, q, t, hurt[s]) /\ Saved(E, q, e)
    BY <1>1, <1>2, <1>3, <1>4 DEF Saved
  <2>3. F = E \cup {e}
    OBVIOUS
  <2> HIDE DEF v, E, F, q, t
  <2> QED
    BY <2>1, <2>2, <2>3, SavedBranch
<1>7. /\ EventsOf(s)' = F /\ rows'[s] = q /\ truth'[s] = v /\ hurt'[s] = hurt[s]
      /\ title'[s] = title[s] /\ live' = live
  BY <1>1 DEF TypeInv, EventsOf
<1>8. TypeInv'
  <2>1. IsFiniteSet(events \cup {e})
    BY <1>1, FS_AddElement DEF TypeInv
  <2>2. truth' \in [Ids -> Seq(States)]
    BY <1>1, <1>5 DEF TypeInv
  <2>3. NextSeq \in Nat /\ \A f \in events \cup {e} : f.seq <= NextSeq
    BY <1>1, <1>2 DEF TypeInv, NextSeq, EventSet
  <2> QED
    BY <1>1, <2>1, <2>2, <2>3 DEF TypeInv
<1>9. Snapshots(F, q)
  BY <1>1 DEF Snapshots
<1>10. SessionInv(s)'
  BY <1>1, <1>6, <1>7, <1>9 DEF SessionInv
<1>11. \A x \in Ids \ {s} :
         /\ rows'[x] = rows[x] /\ truth'[x] = truth[x] /\ hurt'[x] = hurt[x]
         /\ title'[x] = title[x] /\ EventsOf(x)' = EventsOf(x)
         /\ x \in live => x \in live'
  BY <1>1 DEF TypeInv, EventsOf
<1> QED
  BY <1>8, <1>10, <1>11, OneSessionChanges

\* The skills of a finished batch.
LEMMA SaveSkillsKeeps ==
  ASSUME StoreInv, NEW s \in Ids, NEW active \in SUBSET Skills, SaveSkills(s, active)
  PROVE  StoreInv'
<1> DEFINE nil == << >>
           e == [seq |-> NextSeq, session |-> s, anchor |-> Len(rows[s]), kind |-> "skill",
                 body |-> "none", tail |-> nil, turn |-> 0, skills |-> active,
                 todos |-> NoTodos, sound |-> TRUE]
           w == truth[s][Len(rows[s])]
           u == [w EXCEPT !.skills = active]
<1>1. /\ TypeInv /\ Branch(EventsOf(s), rows[s], truth[s], hurt[s])
  BY DEF StoreInv, SessionInv
<1>2. cursor \in Nat /\ rows[s] \in Seq(Messages) /\ nil \in Seq(Messages)
  BY <1>1 DEF TypeInv
<1>3. /\ e \in EventSet /\ e.seq = NextSeq /\ e.session = s /\ e.anchor = Len(rows[s])
      /\ e.sound /\ e.kind = "skill" /\ e.skills = active
  <2> HIDE DEF nil
  <2>1. NoTodos \in Lists
    BY StoreAssumption
  <2>2. Len(rows[s]) \in Nat /\ NextSeq \in Nat
    BY <1>2 DEF NextSeq
  <2> QED
    BY <1>2, <2>1, <2>2 DEF EventSet, Kinds
<1>4. [Event(s, "skill") EXCEPT !.skills = active] = e
  <2> DEFINE yes == TRUE
  <2> HIDE DEF nil, yes
  <2>1. Event(s, "skill") =
          [seq |-> NextSeq, session |-> s, anchor |-> Len(rows[s]), kind |-> "skill",
           body |-> "none", tail |-> nil, turn |-> 0, skills |-> {},
           todos |-> NoTodos, sound |-> yes]
    BY Zenon DEF Event, nil, yes
  <2>2. e = [seq |-> NextSeq, session |-> s, anchor |-> Len(rows[s]), kind |-> "skill",
             body |-> "none", tail |-> nil, turn |-> 0, skills |-> active, todos |-> NoTodos, sound |-> yes]
    BY Zenon DEF yes
  <2> QED
    BY <2>1, <2>2
<1>5. Saves(s) /\ events' = events \cup {e} /\ cursor' = NextSeq
  BY <1>4 DEF SaveSkills
<1>6. Len(rows[s]) \in DOMAIN truth[s] /\ w \in States
  <2>1. truth[s] \in Seq(States) /\ Len(truth[s]) = Len(rows[s]) /\ rows[s] # << >>
    BY <1>1, <1>5 DEF Branch, Saves
  <2> QED
    BY <1>2, <2>1
<1>7. u \in States
  BY <1>6 DEF States
<1>8. truth' = [truth EXCEPT ![s] = [truth[s] EXCEPT ![Len(rows[s])] = u]]
  BY DEF SaveSkills
<1>9. UNCHANGED <<live, rows, title, hurt>>
  BY DEF SaveSkills, sessions
<1>10. u.skills = e.skills /\ u.todos = w.todos /\ w = truth[s][Len(rows[s])]
  BY <1>3, <1>6 DEF States
<1> HIDE DEF e, u, w
<1> QED
  BY <1>3, <1>5, <1>6, <1>7, <1>8, <1>9, <1>10, SaveKeeps

\* The todo list of a finished batch.
LEMMA SaveTodosKeeps ==
  ASSUME StoreInv, NEW s \in Ids, NEW list \in Lists, SaveTodos(s, list)
  PROVE  StoreInv'
<1> DEFINE nil == << >>
           no == {}
           e == [seq |-> NextSeq, session |-> s, anchor |-> Len(rows[s]), kind |-> "todo",
                 body |-> "none", tail |-> nil, turn |-> 0, skills |-> no,
                 todos |-> list, sound |-> TRUE]
           w == truth[s][Len(rows[s])]
           u == [w EXCEPT !.todos = list]
<1>1. /\ TypeInv /\ Branch(EventsOf(s), rows[s], truth[s], hurt[s])
  BY DEF StoreInv, SessionInv
<1>2. cursor \in Nat /\ rows[s] \in Seq(Messages) /\ nil \in Seq(Messages)
  BY <1>1 DEF TypeInv
<1>3. /\ e \in EventSet /\ e.seq = NextSeq /\ e.session = s /\ e.anchor = Len(rows[s])
      /\ e.sound /\ e.kind = "todo" /\ e.todos = list
  <2> HIDE DEF nil
  <2>1. Len(rows[s]) \in Nat /\ NextSeq \in Nat
    BY <1>2 DEF NextSeq
  <2> QED
    BY <1>2, <2>1 DEF EventSet, Kinds
<1>4. [Event(s, "todo") EXCEPT !.todos = list] = e
  <2> DEFINE yes == TRUE
  <2> HIDE DEF nil, no, yes
  <2>1. Event(s, "todo") =
          [seq |-> NextSeq, session |-> s, anchor |-> Len(rows[s]), kind |-> "todo",
           body |-> "none", tail |-> nil, turn |-> 0, skills |-> no,
           todos |-> NoTodos, sound |-> yes]
    BY Zenon DEF Event, nil, no, yes
  <2>2. e = [seq |-> NextSeq, session |-> s, anchor |-> Len(rows[s]), kind |-> "todo",
             body |-> "none", tail |-> nil, turn |-> 0, skills |-> no, todos |-> list, sound |-> yes]
    BY Zenon DEF yes
  <2> QED
    BY <2>1, <2>2
<1>5. Saves(s) /\ events' = events \cup {e} /\ cursor' = NextSeq
  BY <1>4 DEF SaveTodos
<1>6. Len(rows[s]) \in DOMAIN truth[s] /\ w \in States
  <2>1. truth[s] \in Seq(States) /\ Len(truth[s]) = Len(rows[s]) /\ rows[s] # << >>
    BY <1>1, <1>5 DEF Branch, Saves
  <2> QED
    BY <1>2, <2>1
<1>7. u \in States
  BY <1>6 DEF States
<1>8. truth' = [truth EXCEPT ![s] = [truth[s] EXCEPT ![Len(rows[s])] = u]]
  BY DEF SaveTodos
<1>9. UNCHANGED <<live, rows, title, hurt>>
  BY DEF SaveTodos, sessions
<1>10. u.todos = e.todos /\ u.skills = w.skills /\ w = truth[s][Len(rows[s])]
  BY <1>3, <1>6 DEF States
<1> HIDE DEF e, u, w
<1> QED
  BY <1>3, <1>5, <1>6, <1>7, <1>8, <1>9, <1>10, SaveKeeps

\* A snapshot says nothing of skills and todos.
LEMMA SnapshotBranch ==
  ASSUME NEW E, NEW q, NEW t, NEW h \in BOOLEAN, Branch(E, q, t, h),
         NEW e \in EventSet, q # << >>, e.anchor = Len(q), e.sound, e.kind = "compaction",
         \A f \in E : f.seq < e.seq
  PROVE  Branch(E \cup {e}, q, t, h)
<1> DEFINE F == E \cup {e}
<1>1. /\ Len(q) \in DOMAIN q /\ e.seq \in Nat
      /\ \A f \in E : f \in EventSet /\ f.seq \in Nat /\ f.anchor \in 1 .. Len(q)
  BY DEF Branch, Placed, EventSet
<1>2. Placed(F, q, h)
  BY <1>1 DEF Branch, Placed
<1>3. \A f \in F, i \in DOMAIN t : f.kind # "compaction" /\ Rules(F, f, i) =>
        f \in E /\ Rules(E, f, i)
  BY DEF Rules
<1>4. \A i \in DOMAIN t : /\ None(F, "skill", i) => None(E, "skill", i)
                          /\ None(F, "todo", i) => None(E, "todo", i)
  BY DEF None
<1>5. SkillsTrue(F, t, h)
  BY <1>3, <1>4 DEF Branch, SkillsTrue
<1>6. TodosTrue(F, t, h)
  BY <1>3, <1>4 DEF Branch, TodosTrue
<1> QED
  BY <1>2, <1>5, <1>6 DEF Branch

Within(E, s) == {e \in E : e.session = s}

\* What pruning does to a session, and that it leaves the others alone.
LEMMA PrunedSession ==
  ASSUME NEW G \in SUBSET EventSet, IsFiniteSet(G), NEW s, NEW c, \A e \in G : e.seq <= c,
         NEW q, NEW t, NEW h \in BOOLEAN,
         Branch(Within(G, s), q, t, h),
         Snapshots(Within(G, s), q)
  PROVE  /\ Prune(G, s) \in SUBSET EventSet /\ IsFiniteSet(Prune(G, s))
         /\ \A f \in Prune(G, s) : f.seq <= c
         /\ Branch(Within(Prune(G, s), s), q, t, h)
         /\ Snapshots(Within(Prune(G, s), s), q)
         /\ \A x : x # s => Within(Prune(G, s), x) = Within(G, x)
<1> DEFINE P == Prune(G, s)
<1>1. /\ P \subseteq EventSet /\ IsFiniteSet(P)
      /\ \A f \in P : \E e \in G : /\ f.seq = e.seq /\ f.session = e.session
                                   /\ (e.session # s => f = e)
      /\ \A e \in G : \E f \in P : f.seq = e.seq /\ f.session = e.session /\ (e.session # s => f = e)
  BY PrunedEvents
<1>2. Branch({f \in P : f.session = s}, q, t, h)
  BY PrunedBranch DEF Within
<1>3. \A f \in P : f.body = "full" => f \in G
  <2> DEFINE nil == << >>
             B == {e \in G : e.session = s /\ e.kind = "compaction" /\ e.body # "superseded"}
             Old == {e \in B : ~Keeps(e, B)}
             Sup(e) == [e EXCEPT !.body = "superseded", !.tail = nil, !.turn = 0]
  <2>1. P = (G \ Old) \cup {Sup(e) : e \in Old}
    BY DEF Prune
  <2>2. \A e \in Old : e \in EventSet
    OBVIOUS
  <2> HIDE DEF nil, Old
  <2>3. \A e \in Old : Sup(e).body = "superseded"
    BY <2>2 DEF EventSet
  <2> HIDE DEF Sup, P
  <2> QED
    BY <2>1, <2>3
<1> HIDE DEF P
<1>4. Snapshots({f \in P : f.session = s}, q)
  BY <1>3 DEF Snapshots, Within
<1>5. \A f \in P : f.seq <= c
  BY <1>1
<1>6. ASSUME NEW x, x # s
      PROVE  {f \in P : f.session = x} = {e \in G : e.session = x}
  <2>1. \A f \in P : f.session = x => f \in G
    BY <1>1, <1>6
  <2>2. \A e \in G : e.session = x => e \in P
    BY <1>1, <1>6
  <2> QED
    BY <2>1, <2>2
<1> QED
  BY <1>1, <1>2, <1>4, <1>5, <1>6 DEF P, Within

\* A snapshot, with the older bodies superseded.
LEMMA SaveCompactionKeeps ==
  ASSUME StoreInv, NEW s \in Ids, NEW count \in 1 .. MaxTail, SaveCompaction(s, count)
  PROVE  StoreInv'
<1> DEFINE q == rows[s]
           t == truth[s]
           E == EventsOf(s)
           tl == Canonical(s, Len(q), count)
           e == [seq |-> NextSeq, session |-> s, anchor |-> Len(q), kind |-> "compaction",
                 body |-> "full", tail |-> tl, turn |-> TurnIndex(s), skills |-> {},
                 todos |-> NoTodos, sound |-> TRUE]
           G == events \cup {e}
<1>1. /\ TypeInv /\ Branch(E, q, t, hurt[s]) /\ Snapshots(E, q) /\ Titled(q, title[s])
      /\ s \in live
  BY DEF StoreInv, SessionInv, SaveCompaction, Continued
<1>2. /\ q \in Seq(Messages) /\ cursor \in Nat /\ hurt[s] \in BOOLEAN /\ Len(q) \in Nat
      /\ q # << >> /\ q[Len(q)].role \in {"user", "tool"} /\ Len(q) \in DOMAIN q
  BY <1>1 DEF TypeInv, SaveCompaction
<1>3. tl \in Seq(Messages)
  <2>1. Prefix(s, Len(q)) \in Seq(Messages)
    BY <1>2 DEF Prefix
  <2>2. Trim(Prefix(s, Len(q))) \in Seq(Messages)
    BY <2>1, TrimmedMessages
  <2> DEFINE p == Trim(Prefix(s, Len(q)))
  <2>3. tl = IF Len(q) \in DOMAIN q /\ count <= Len(p) THEN Last(p, count) ELSE << >>
    BY DEF Canonical
  <2> HIDE DEF p, tl, q
  <2>4. count \in Nat /\ Len(p) \in Nat
    <3>1. MaxTail \in Nat
      BY StoreAssumption
    <3>2. \A x \in Seq(Messages) : Len(x) \in Nat
      OBVIOUS
    <3> QED
      BY <2>2, <3>1, <3>2 DEF p
  <2>5. count <= Len(p) => Last(p, count) \in Seq(Messages)
    BY <2>2, <2>4 DEF Last, p
  <2> QED
    BY <2>3, <2>5
<1>4. TurnIndex(s) \in Nat /\ TurnIndex(s) = Assistants(Trim(SubSeq(q, 1, Len(q))))
  <2>1. SubSeq(q, 1, Len(q)) = q
    BY <1>2
  <2>2. Trim(q) \in Seq(Messages)
    BY <1>2, TrimmedMessages
  <2> QED
    BY <2>1, <2>2, AssistantsAdd DEF TurnIndex
<1> HIDE DEF tl
<1>5. /\ e \in EventSet /\ e.seq = NextSeq /\ e.session = s /\ e.anchor = Len(q)
      /\ e.sound /\ e.kind = "compaction" /\ e.turn = TurnIndex(s)
  <2>1. NoTodos \in Lists
    BY StoreAssumption
  <2>2. NextSeq \in Nat
    BY <1>2 DEF NextSeq
  <2> HIDE DEF q
  <2> QED
    BY <1>2, <1>3, <1>4, <2>1, <2>2 DEF EventSet, Kinds
<1>6. [Event(s, "compaction") EXCEPT !.body = "full", !.tail = tl, !.turn = TurnIndex(s)] = e
  <2> DEFINE nil == << >>
             no == {}
             yes == TRUE
             n == Len(q)
             k == TurnIndex(s)
             r(body, tail, turn) ==
               [seq |-> NextSeq, session |-> s, anchor |-> n, kind |-> "compaction",
                body |-> body, tail |-> tail, turn |-> turn, skills |-> no,
                todos |-> NoTodos, sound |-> yes]
  <2> HIDE DEF nil, no, yes, n, k
  <2>1. Event(s, "compaction") = r("none", nil, 0)
    BY Zenon DEF Event, nil, no, yes, n
  <2>2. e = r("full", tl, k)
    BY Zenon DEF no, yes, n, k
  <2>3. [r("none", nil, 0) EXCEPT !.body = "full"] = r("full", nil, 0)
    OBVIOUS
  <2>4. [r("full", nil, 0) EXCEPT !.tail = tl] = r("full", tl, 0)
    OBVIOUS
  <2>5. [r("full", tl, 0) EXCEPT !.turn = k] = r("full", tl, k)
    OBVIOUS
  <2> HIDE DEF r, e
  <2>6. [r("none", nil, 0) EXCEPT !.body = "full", !.tail = tl, !.turn = k] = r("full", tl, k)
    BY <2>3, <2>4, <2>5
  <2> QED
    BY <2>1, <2>2, <2>6 DEF k
<1>7. /\ events' = Prune(G, s) /\ cursor' = NextSeq
      /\ UNCHANGED <<live, rows, title, truth, hurt>>
  BY <1>6 DEF SaveCompaction, tl, sessions
<1> HIDE DEF e
<1>8. /\ G \in SUBSET EventSet /\ IsFiniteSet(G)
      /\ NextSeq \in Nat /\ \A f \in G : f.seq <= NextSeq
      /\ \A f \in E : f.seq < e.seq
  BY <1>1, <1>2, <1>5, FS_AddElement DEF TypeInv, NextSeq, EventsOf, EventSet
<1>9. Within(G, s) = E \cup {e}
  BY <1>5 DEF EventsOf, Within
<1>10. Branch(E \cup {e}, q, t, hurt[s])
  <2> HIDE DEF E, q, t
  <2> QED
    BY <1>1, <1>2, <1>5, <1>8, SnapshotBranch
<1>11. Snapshots(E \cup {e}, q)
  BY <1>1, <1>2, <1>4, <1>5 DEF Snapshots
<1> HIDE DEF G
<1>12. /\ events' \in SUBSET EventSet /\ IsFiniteSet(events')
       /\ \A f \in events' : f.seq <= NextSeq
       /\ Branch(Within(events', s), q, t, hurt[s])
       /\ Snapshots(Within(events', s), q)
       /\ \A x : x # s => Within(events', x) = Within(G, x)
  <2> DEFINE h == hurt[s]
             c == NextSeq
  <2>1. h \in BOOLEAN /\ G \in SUBSET EventSet /\ IsFiniteSet(G) /\ \A f \in G : f.seq <= c
    BY <1>2, <1>8
  <2>2. /\ Branch(Within(G, s), q, t, h)
        /\ Snapshots(Within(G, s), q)
    BY <1>9, <1>10, <1>11
  <2> HIDE DEF E, q, t, c, h
  <2>3. /\ Prune(G, s) \in SUBSET EventSet /\ IsFiniteSet(Prune(G, s))
        /\ \A f \in Prune(G, s) : f.seq <= c
        /\ Branch(Within(Prune(G, s), s), q, t, h)
        /\ Snapshots(Within(Prune(G, s), s), q)
        /\ \A x : x # s => Within(Prune(G, s), x) = Within(G, x)
    BY <2>1, <2>2, PrunedSession
  <2> QED
    BY <1>7, <2>3 DEF c, h
<1>13. TypeInv'
  BY <1>1, <1>7, <1>8, <1>12 DEF TypeInv
<1>14. SessionInv(s)'
  BY <1>1, <1>7, <1>12 DEF SessionInv, EventsOf, Within
<1>15. \A x \in Ids \ {s} :
         /\ rows'[x] = rows[x] /\ truth'[x] = truth[x] /\ hurt'[x] = hurt[x]
         /\ title'[x] = title[x] /\ EventsOf(x)' = EventsOf(x)
         /\ x \in live => x \in live'
  <2> TAKE x \in Ids \ {s}
  <2>1. Within(G, x) = EventsOf(x)
    BY <1>5 DEF EventsOf, G, Within
  <2> QED
    BY <1>7, <1>12, <2>1 DEF EventsOf, Within
<1> QED
  BY <1>13, <1>14, <1>15, OneSessionChanges

-----------------------------------------------------------------------------
(* Stops and edits *)

\* A cut may also drop the snapshots of the row it ends with.
LEMMA CutBranch ==
  ASSUME NEW E, NEW q, NEW t, NEW h \in BOOLEAN, Branch(E, q, t, h),
         NEW m \in 0 .. Len(q), NEW F \in SUBSET E, \A e \in F : e.anchor <= m,
         \A e \in E : e.anchor <= m /\ e.kind # "compaction" => e \in F
  PROVE  Branch(F, SubSeq(q, 1, m), SubSeq(t, 1, m), h)
<1> DEFINE D == {e \in E : e.anchor <= m}
           c == [f \in F |-> f]
<1>1. Branch(D, SubSeq(q, 1, m), SubSeq(t, 1, m), h)
  BY ShorterBranch
<1>2. F \subseteq D /\ F \in SUBSET EventSet
  BY DEF Branch
<1>3. c \in [F -> D] /\ \A f \in F : c[f] = f
  BY <1>2
<1>4. \A f \in F : Mirrors(c[f], f)
  BY <1>3 DEF Mirrors
<1>5. \A e \in D : e.kind = "skill" \/ (~h /\ e.kind = "todo") => \E f \in F : c[f] = e
  BY <1>3
<1>6. \A f, g \in F : f.seq = g.seq => f = g
  BY DEF Branch, Placed
<1>7. \A f, g \in F : c[f].seq <= c[g].seq <=> f.seq <= g.seq
  BY <1>3
<1>8. ~h => ~h /\ \A f \in F : f.sound
  BY DEF Branch, Placed
<1> HIDE DEF D, c
<1> QED
  BY <1>1, <1>2, <1>3, <1>4, <1>5, <1>6, <1>7, <1>8, RewrittenBranch

\* A snapshot of a kept row counts kept rows only.
LEMMA CutSnapshots ==
  ASSUME NEW E, NEW q \in Seq(Messages), Snapshots(E, q), NEW m \in 0 .. Len(q),
         NEW F \in SUBSET E, \A e \in F : e.anchor \in 1 .. m
  PROVE  Snapshots(F, SubSeq(q, 1, m))
<1> DEFINE r == SubSeq(q, 1, m)
<1>1. ASSUME NEW a \in 1 .. m
      PROVE  r[a] = q[a] /\ SubSeq(r, 1, a) = SubSeq(q, 1, a)
  OBVIOUS
<1> HIDE DEF r
<1>2. Snapshots(F, r)
  BY <1>1 DEF Snapshots
<1> QED
  BY <1>2 DEF r

\* The branch s keeps its first m rows and the events F of them.
LEMMA CutKeeps ==
  ASSUME StoreInv, NEW s \in Ids, s \in live, NEW m \in 0 .. Len(rows[s]), NEW n \in Nat,
         n = m + 1 \/ (n = m /\ m # 0 /\ rows[s][m].role = "user"),
         rows' = [rows EXCEPT ![s] = SubSeq(rows[s], 1, m)],
         truth' = [truth EXCEPT ![s] = SubSeq(truth[s], 1, m)],
         events' = Uncut(s, n), NEW name \in Titles, title' = [title EXCEPT ![s] = name],
         Titled(SubSeq(rows[s], 1, m), name),
         UNCHANGED <<live, cursor, hurt>>
  PROVE  StoreInv'
<1> DEFINE q == rows[s]
           t == truth[s]
           E == EventsOf(s)
           F == {e \in E : e.anchor < n}
<1>1. /\ TypeInv /\ Branch(E, q, t, hurt[s]) /\ Snapshots(E, q)
  BY DEF StoreInv, SessionInv
<1>2. /\ q \in Seq(Messages) /\ t \in Seq(States) /\ Len(t) = Len(q) /\ hurt[s] \in BOOLEAN
      /\ Len(q) \in Nat
  BY <1>1 DEF TypeInv, Branch
<1>3. \A e \in E : /\ e.anchor \in 1 .. Len(q)
                   /\ e.kind # "compaction" => q[e.anchor].role = "tool"
  BY <1>1, <1>2 DEF Branch, Placed
<1>4. /\ F \subseteq E /\ \A e \in F : e.anchor \in 1 .. m
      /\ \A e \in E : e.anchor <= m /\ e.kind # "compaction" => e \in F
  BY <1>2, <1>3
<1>5. Branch(F, SubSeq(q, 1, m), SubSeq(t, 1, m), hurt[s])
  <2>1. F \in SUBSET E /\ \A e \in F : e.anchor <= m
    BY <1>4
  <2> HIDE DEF F, E, q, t
  <2>2. m \in 0 .. Len(q)
    BY DEF q
  <2> QED
    BY <1>1, <1>2, <1>4, <2>1, <2>2, CutBranch
<1>6. Snapshots(F, SubSeq(q, 1, m))
  BY <1>1, <1>2, <1>4, CutSnapshots
<1>7. /\ EventsOf(s)' = F /\ rows'[s] = SubSeq(q, 1, m) /\ truth'[s] = SubSeq(t, 1, m)
      /\ hurt'[s] = hurt[s] /\ title'[s] = name /\ live' = live
  BY <1>1 DEF TypeInv, EventsOf, Uncut
<1>8. TypeInv'
  <2>1. events' \in SUBSET events
    BY DEF Uncut
  <2>2. IsFiniteSet(events')
    BY <1>1, <2>1, FS_Subset DEF TypeInv
  <2>3. SubSeq(q, 1, m) \in Seq(Messages) /\ SubSeq(t, 1, m) \in Seq(States)
    BY <1>2
  <2> QED
    BY <1>1, <2>1, <2>2, <2>3 DEF TypeInv
<1>9. SessionInv(s)'
  BY <1>5, <1>6, <1>7 DEF SessionInv
<1>10. \A x \in Ids \ {s} :
         /\ rows'[x] = rows[x] /\ truth'[x] = truth[x] /\ hurt'[x] = hurt[x]
         /\ title'[x] = title[x] /\ EventsOf(x)' = EventsOf(x)
         /\ x \in live => x \in live'
  BY <1>1 DEF TypeInv, EventsOf, Uncut
<1> QED
  BY <1>8, <1>9, <1>10, OneSessionChanges

\* Stop: the prompt of the running turn stays.
LEMMA TruncateKeeps ==
  ASSUME StoreInv, NEW s \in Ids, NEW n \in 1 .. MaxRows, Truncate(s, n)
  PROVE  StoreInv'
<1> DEFINE q == rows[s]
<1>1. TypeInv /\ Titled(q, title[s])
  BY DEF StoreInv, SessionInv
<1>2. /\ q \in Seq(Messages) /\ n \in 1 .. Len(q) /\ n \in 0 .. Len(q) /\ n \in Nat /\ n # 0
      /\ q[n].role = "user" /\ s \in live /\ title[s] \in Titles
  BY <1>1 DEF TypeInv, Truncate
<1>3. /\ rows' = [rows EXCEPT ![s] = SubSeq(q, 1, n)]
      /\ truth' = [truth EXCEPT ![s] = SubSeq(truth[s], 1, n)]
      /\ events' = Uncut(s, n) /\ UNCHANGED <<live, cursor, hurt>>
      /\ title' = [title EXCEPT ![s] = title[s]]
  BY <1>1 DEF Truncate, Prefix, sessions, TypeInv
<1>4. Titled(SubSeq(q, 1, n), title[s])
  <2> DEFINE r == SubSeq(q, 1, n)
  <2>1. /\ r # << >> /\ q # << >> /\ r[1] = q[1] /\ DOMAIN r = 1 .. n
        /\ \A i \in 1 .. n : r[i] = q[i] /\ i \in DOMAIN q
    BY <1>2
  <2> HIDE DEF r
  <2> QED
    BY <1>1, <2>1 DEF Titled, r
<1> QED
  BY <1>2, <1>3, <1>4, CutKeeps

\* Edit: the prompt goes as well, and a title taken from it.
LEMMA RewindKeeps ==
  ASSUME StoreInv, NEW s \in Ids, NEW n \in 1 .. MaxRows, Rewind(s, n)
  PROVE  StoreInv'
<1> DEFINE q == rows[s]
           m == n - 1
           name == TitleAfter(s, n)
<1>1. TypeInv /\ Titled(q, title[s])
  BY DEF StoreInv, SessionInv
<1>2. /\ q \in Seq(Messages) /\ n \in 1 .. Len(q) /\ m \in 0 .. Len(q) /\ n \in Nat /\ n = m + 1
      /\ m \in Nat /\ q[n].role = "user" /\ s \in live /\ title[s] \in Titles
  BY <1>1 DEF TypeInv, Rewind
<1>3. /\ rows' = [rows EXCEPT ![s] = SubSeq(q, 1, m)]
      /\ truth' = [truth EXCEPT ![s] = SubSeq(truth[s], 1, m)]
      /\ events' = Uncut(s, n) /\ UNCHANGED <<live, cursor, hurt>>
      /\ title' = [title EXCEPT ![s] = name]
  BY DEF Rewind, Prefix, BeforePrompt
<1>4. name \in Titles
  BY <1>2 DEF TitleAfter, Titles
<1> HIDE DEF m
<1>5. Titled(SubSeq(q, 1, m), name)
  <2> DEFINE r == SubSeq(q, 1, m)
  <2>1. /\ q # << >> /\ 1 \in DOMAIN q /\ DOMAIN r = 1 .. m
        /\ m = 0 => r = << >>
        /\ m # 0 => r # << >> /\ r[1] = q[1] /\ 1 \in 1 .. m
        /\ \A i \in 1 .. m : r[i] = q[i] /\ i \in DOMAIN q
    BY <1>2
  <2>2. q[1].role = "user" /\ q[n].text # Named
    <3>1. q[n].text \in Texts \cup {""}
      <4>1. q[n] \in Messages
        BY <1>2
      <4> QED
        BY <4>1 DEF Messages
    <3> QED
      BY <1>1, <2>1, <3>1, StoreAssumption DEF Titled
  <2>3. CASE m = 0
    <3>1. n = 1 /\ \A i \in 1 .. n - 1 : FALSE
      BY <1>2, <2>3
    <3>2. name = IF title[s] = q[1].text THEN "" ELSE title[s]
      BY <3>1 DEF TitleAfter
    <3>3. name # Named => name = ""
      BY <1>1, <2>1, <3>2 DEF Titled
    <3>4. r = << >> /\ DOMAIN r = {}
      BY <2>1, <2>3
    <3> HIDE DEF name, r
    <3>5. Titled(r, name)
      BY <3>3, <3>4 DEF Titled
    <3> QED
      BY <3>5 DEF r
  <2>4. CASE m # 0
    <3>1. 1 \in 1 .. n - 1
      BY <1>2, <2>4
    <3>2. name = title[s]
      BY <2>2, <3>1 DEF TitleAfter
    <3> HIDE DEF name, r
    <3>3. Titled(r, name)
      BY <1>1, <2>1, <2>4, <3>2 DEF Titled
    <3> QED
      BY <3>3 DEF r
  <2> QED
    BY <2>3, <2>4
<1> HIDE DEF name
<1> QED
  BY <1>2, <1>3, <1>4, <1>5, CutKeeps

-----------------------------------------------------------------------------
(* Forks *)

\* A copy of a snapshot still counts the replies up to its row.
LEMMA CopiedSnapshots ==
  ASSUME NEW s \in Ids, NEW d \in Ids, NEW n \in DOMAIN rows[s], cursor \in Nat,
         IsFiniteSet(events), rows[s] \in Seq(Messages), NEW t, NEW h \in BOOLEAN,
         Branch(EventsOf(s), rows[s], t, h), Snapshots(EventsOf(s), rows[s])
  PROVE  Snapshots(Copies(s, d, n), Prefix(s, n))
<1> DEFINE C == Copied(s, n)
           r == Prefix(s, n)
           q == rows[s]
<1>1. \A e \in EventsOf(s) : e \in EventSet /\ Anchored(e) /\ e.anchor \in 1 .. Len(q)
  BY DEF Branch, Placed, Anchored, EventsOf
<1>2. C \subseteq EventsOf(s) /\ \A e \in C : e.anchor \in 1 .. n
  BY <1>1 DEF Copied, Tombstone, Carried, EventsOf
<1>3. ASSUME NEW e \in C
      PROVE  LET f == Copy(e, d, n, C)
             IN  f.anchor = e.anchor /\ f.kind = e.kind /\ f.body = e.body /\ f.turn = e.turn
  <2> DEFINE sq == NextSeq - 1 + Cardinality({f \in C : f.seq <= e.seq})
             sk == IF Tombstone(e, n) THEN {} ELSE e.skills
             yes == TRUE
  <2>1. e \in EventSet /\ Anchored(e)
    BY <1>1, <1>2
  <2>2. Copy(e, d, n, C) = [e EXCEPT !.seq = sq, !.session = d, !.anchor = e.anchor,
                                     !.skills = sk, !.sound = yes]
    BY <2>1 DEF Copy
  <2> HIDE DEF sq, sk, yes, C
  <2> QED
    BY <2>1, <2>2 DEF EventSet
<1>4. ASSUME NEW a \in 1 .. n
      PROVE  r[a] = q[a] /\ SubSeq(r, 1, a) = SubSeq(q, 1, a)
  BY DEF Prefix
<1> HIDE DEF C, r
<1>5. ASSUME NEW e \in C, e.kind = "compaction", e.body = "full"
      PROVE  r[e.anchor].role \in {"user", "tool"} /\ e.turn = Assistants(Trim(SubSeq(r, 1, e.anchor)))
  BY <1>2, <1>4, <1>5 DEF Snapshots
<1>6. Snapshots({Copy(e, d, n, C) : e \in C}, r)
  BY <1>3, <1>5 DEF Snapshots
<1> QED
  BY <1>6 DEF C, r, Copies

\* A fork is a branch of its own; no other session changes.
LEMMA ForkKeeps ==
  ASSUME Lineage, StoreInv, NEW s \in Ids, NEW d \in Ids, NEW n \in 1 .. MaxRows, Fork(s, d, n)
  PROVE  StoreInv'
<1> DEFINE q == rows[s]
           r == Prefix(s, n)
           t == SubSeq(truth[s], 1, n)
           h == hurt[s]
           C == Copied(s, n)
           D == Copies(s, d, n)
           G == events \cup D
           c == cursor + Cardinality(C)
<1>1. /\ TypeInv /\ Branch(EventsOf(s), q, truth[s], h) /\ Snapshots(EventsOf(s), q)
      /\ Titled(q, title[s])
  BY DEF StoreInv, SessionInv
<1>2. /\ q \in Seq(Messages) /\ truth[s] \in Seq(States) /\ Len(truth[s]) = Len(q) /\ h \in BOOLEAN
      /\ n \in DOMAIN q /\ n \in 1 .. Len(q) /\ cursor \in Nat /\ IsFiniteSet(events)
      /\ s \in live /\ d \notin Range(born)
  BY <1>1 DEF TypeInv, Branch, Fork
<1>3. d \notin live /\ d # s /\ EventsOf(d) = {}
  <2>1. d \notin live /\ d # s
    BY <1>2 DEF Lineage
  <2>2. Branch(EventsOf(d), << >>, truth[d], hurt[d])
    BY <2>1 DEF StoreInv, SessionInv
  <2> QED
    BY <2>1, <2>2 DEF Branch, Placed
<1>4. /\ rows' = [rows EXCEPT ![d] = r] /\ truth' = [truth EXCEPT ![d] = t]
      /\ hurt' = [hurt EXCEPT ![d] = h] /\ title' = [title EXCEPT ![d] = Named]
      /\ events' = Prune(G, d) /\ cursor' = NextSeq - 1 + Cardinality(C)
      /\ live' = live \cup {d}
  BY DEF Fork, Copies
<1>5. /\ Branch(D, r, t, h) /\ D \subseteq EventSet /\ IsFiniteSet(D) /\ Cardinality(C) \in Nat
      /\ \A f \in D : f.session = d /\ cursor < f.seq /\ f.seq <= c
  BY <1>1, <1>2, CopiedBranch
<1>6. Snapshots(D, r)
  BY <1>1, <1>2, CopiedSnapshots
<1> HIDE DEF C, D, c
<1>7. c \in Nat /\ cursor' = c /\ cursor <= c
  BY <1>2, <1>4, <1>5 DEF c, NextSeq
<1>8. G \in SUBSET EventSet /\ IsFiniteSet(G) /\ \A e \in G : e.seq <= c
  <2>1. IsFiniteSet(events \cup D)
    BY <1>2, <1>5, FS_Union
  <2>2. \A e \in events : e.seq <= c
    BY <1>1, <1>2, <1>7 DEF TypeInv, EventSet
  <2> QED
    BY <1>1, <1>5, <2>1, <2>2 DEF TypeInv
<1>9. /\ Within(G, d) = D
      /\ \A x \in Ids \ {d} : Within(G, x) = EventsOf(x)
  BY <1>3, <1>5 DEF Within, EventsOf
<1> HIDE DEF G, r, t, h
<1>10. /\ Prune(G, d) \in SUBSET EventSet /\ IsFiniteSet(Prune(G, d))
       /\ \A f \in Prune(G, d) : f.seq <= c
       /\ Branch(Within(Prune(G, d), d), r, t, h)
       /\ Snapshots(Within(Prune(G, d), d), r)
       /\ \A x : x # d => Within(Prune(G, d), x) = Within(G, x)
  <2>1. Branch(Within(G, d), r, t, h) /\ Snapshots(Within(G, d), r)
    BY <1>5, <1>6, <1>9
  <2>2. h \in BOOLEAN
    BY <1>2 DEF h
  <2> QED
    BY <1>8, <2>1, <2>2, PrunedSession
<1>11. /\ r \in Seq(Messages) /\ t \in Seq(States) /\ DOMAIN r = 1 .. n
       /\ \A i \in 1 .. n : r[i] = q[i] /\ i \in DOMAIN q
       /\ q # << >> /\ 1 \in 1 .. n /\ r # << >>
  BY <1>2 DEF r, t, Prefix
<1>12. Titled(r, Named)
  BY <1>1, <1>11 DEF Titled
<1>13. TypeInv'
  BY <1>1, <1>2, <1>4, <1>7, <1>10, <1>11 DEF TypeInv, Titles
<1>14. /\ EventsOf(d)' = Within(Prune(G, d), d) /\ rows'[d] = r /\ truth'[d] = t /\ hurt'[d] = h
       /\ title'[d] = Named /\ d \in live'
  BY <1>1, <1>4 DEF TypeInv, EventsOf, Within
<1>15. SessionInv(d)'
  BY <1>10, <1>12, <1>14 DEF SessionInv
<1>16. \A x \in Ids \ {d} :
         /\ rows'[x] = rows[x] /\ truth'[x] = truth[x] /\ hurt'[x] = hurt[x]
         /\ title'[x] = title[x] /\ EventsOf(x)' = EventsOf(x)
         /\ x \in live => x \in live'
  <2> TAKE x \in Ids \ {d}
  <2>1. EventsOf(x)' = Within(Prune(G, d), x)
    BY <1>4 DEF EventsOf, Within
  <2> QED
    BY <1>1, <1>4, <1>9, <1>10, <2>1 DEF TypeInv
<1> QED
  BY <1>13, <1>15, <1>16, OneSessionChanges

-----------------------------------------------------------------------------
(* The other operations, and damage *)

\* Renaming touches the title only.
LEMMA RenameKeeps ==
  ASSUME StoreInv, NEW s \in Ids, Rename(s)
  PROVE  StoreInv'
<1>1. TypeInv /\ SessionInv(s)
  BY DEF StoreInv
<1>2. /\ title' = [title EXCEPT ![s] = Named] /\ UNCHANGED <<live, rows, truth, hurt, events, cursor>>
  BY DEF Rename, derived
<1>3. TypeInv'
  BY <1>1, <1>2 DEF TypeInv, Titles
<1>4. \A x \in Ids : EventsOf(x)' = EventsOf(x)
  BY <1>2 DEF EventsOf
<1>5. title'[s] = Named /\ \A x \in Ids \ {s} : title'[x] = title[x]
  BY <1>1, <1>2 DEF TypeInv
<1>6. SessionInv(s)'
  BY <1>1, <1>2, <1>4, <1>5 DEF SessionInv, Titled
<1> QED
  BY <1>2, <1>3, <1>4, <1>5, <1>6, OneSessionChanges

\* Nothing of a deleted session is left.
LEMMA DeleteKeeps ==
  ASSUME StoreInv, NEW s \in Ids, Delete(s)
  PROVE  StoreInv'
<1> DEFINE nil == << >>
<1>1. TypeInv /\ hurt[s] \in BOOLEAN
  BY DEF StoreInv, TypeInv
<1>2. /\ rows' = [rows EXCEPT ![s] = nil] /\ truth' = [truth EXCEPT ![s] = nil]
      /\ title' = [title EXCEPT ![s] = ""] /\ events' = Cascade(s)
      /\ live' = live \ {s} /\ hurt' = hurt /\ cursor' = cursor
  BY DEF Delete
<1>3. nil \in Seq(Messages) /\ nil \in Seq(States)
  OBVIOUS
<1>4. Branch({}, nil, nil, hurt[s]) /\ Snapshots({}, nil) /\ Titled(nil, "")
  BY <1>1, EmptyBranch DEF Snapshots, Titled
<1> HIDE DEF nil
<1>5. TypeInv'
  <2>1. events' \in SUBSET events
    BY <1>2 DEF Cascade
  <2>2. IsFiniteSet(events')
    BY <1>1, <2>1, FS_Subset DEF TypeInv
  <2> QED
    BY <1>1, <1>2, <1>3, <2>1, <2>2 DEF TypeInv, Titles
<1>6. /\ EventsOf(s)' = {} /\ rows'[s] = nil /\ truth'[s] = nil /\ title'[s] = ""
      /\ hurt'[s] = hurt[s]
  BY <1>1, <1>2 DEF TypeInv, EventsOf, Cascade
<1>7. SessionInv(s)'
  BY <1>4, <1>6 DEF SessionInv, nil
<1>8. \A x \in Ids \ {s} :
         /\ rows'[x] = rows[x] /\ truth'[x] = truth[x] /\ hurt'[x] = hurt[x]
         /\ title'[x] = title[x] /\ EventsOf(x)' = EventsOf(x)
         /\ x \in live => x \in live'
  BY <1>1, <1>2 DEF TypeInv, EventsOf, Cascade
<1> QED
  BY <1>5, <1>7, <1>8, OneSessionChanges

Hurt(e) == [e EXCEPT !.sound = FALSE]

\* A damaged payload says nothing any more, and no row of the branch moves.
LEMMA DamagedBranch ==
  ASSUME NEW E, NEW q, NEW t, NEW h \in BOOLEAN, Branch(E, q, t, h), Snapshots(E, q),
         NEW e \in E
  PROVE  /\ Hurt(e) \in EventSet /\ Hurt(e).session = e.session /\ Hurt(e).seq = e.seq
         /\ Branch((E \ {e}) \cup {Hurt(e)}, q, t, TRUE)
         /\ Snapshots((E \ {e}) \cup {Hurt(e)}, q)
<1> DEFINE no == FALSE
           f == [e EXCEPT !.sound = no]
           F == (E \ {e}) \cup {f}
           c == [x \in F |-> IF x = f THEN e ELSE x]
<1>1. e \in EventSet /\ E \subseteq EventSet
  BY DEF Branch
<1>2. /\ f \in EventSet /\ f.sound = no /\ f.seq = e.seq /\ f.session = e.session
      /\ f.anchor = e.anchor /\ f.kind = e.kind /\ f.body = e.body /\ f.turn = e.turn
      /\ f.todos = e.todos
  BY <1>1 DEF EventSet
<1>3. ~f.sound
  BY <1>2
<1> HIDE DEF f, no
<1>4. c \in [F -> E] /\ c[f] = e /\ \A x \in F : x # f => c[x] = x
  OBVIOUS
<1>5. \A x \in F : Mirrors(c[x], x)
  BY <1>2, <1>3, <1>4 DEF Mirrors
<1>6. \A x \in E : \E y \in F : c[y] = x
  <2> TAKE x \in E
  <2>1. CASE x = e
    BY <1>4, <2>1
  <2>2. CASE x # e /\ x # f
    BY <1>4, <2>2
  <2>3. CASE x # e /\ x = f
    BY <1>2, <2>3 DEF Branch, Placed
  <2> QED
    BY <2>1, <2>2, <2>3
<1>7. \A x \in F : c[x].seq = x.seq
  BY <1>2, <1>4
<1>8. \A x, y \in F : x.seq = y.seq => x = y
  BY <1>2 DEF Branch, Placed
<1>9. F \in SUBSET EventSet
  BY <1>1, <1>2
<1>10. \A x, y \in F : c[x].seq <= c[y].seq <=> x.seq <= y.seq
  BY <1>7
<1>11. Snapshots(F, q)
  BY <1>2 DEF Snapshots
<1> DEFINE yes == TRUE
<1>12. yes \in BOOLEAN /\ yes
  OBVIOUS
<1> HIDE DEF F, c, yes
<1>13. Branch(F, q, t, yes)
  <2>1. ~yes => ~h /\ \A x \in F : x.sound
    BY <1>12
  <2>2. \A x \in E : x.kind = "skill" \/ (~yes /\ x.kind = "todo") => \E y \in F : c[y] = x
    BY <1>6
  <2>3. yes \in BOOLEAN /\ c \in [F -> E]
    BY <1>4, <1>12
  <2> QED
    BY <1>5, <1>8, <1>9, <1>10, <2>1, <2>2, <2>3, RewrittenBranch
<1> QED
  BY <1>2, <1>11, <1>13 DEF F, f, no, yes, Hurt

\* A damaged payload, with its row where it was.
LEMMA DamageKeeps ==
  ASSUME StoreInv, LostAnchors = {}, Damage
  PROVE  StoreInv'
<1>1. TypeInv
  BY DEF StoreInv
<1>2. PICK e \in events : \E f \in Damaged(e) :
        events' = (events \ {e}) \cup {f} /\ hurt' = [hurt EXCEPT ![e.session] = TRUE]
  BY DEF Damage
<1> DEFINE f == Hurt(e)
           s == e.session
           E == EventsOf(s)
           F == (E \ {e}) \cup {f}
<1>3. /\ events' = (events \ {e}) \cup {f} /\ hurt' = [hurt EXCEPT ![s] = TRUE]
      /\ UNCHANGED <<live, title, rows, cursor, truth>>
  BY <1>2 DEF Damage, Damaged, Hurt, sessions
<1>4. e \in EventSet /\ s \in Ids /\ e \in E
  BY <1>1 DEF TypeInv, EventSet, EventsOf
<1>5. /\ SessionInv(s) /\ Branch(E, rows[s], truth[s], hurt[s]) /\ Snapshots(E, rows[s])
      /\ hurt[s] \in BOOLEAN
  BY <1>1, <1>4 DEF StoreInv, SessionInv, TypeInv
<1>6. /\ f \in EventSet /\ f.session = s /\ f.seq = e.seq
      /\ Branch(F, rows[s], truth[s], TRUE) /\ Snapshots(F, rows[s])
  <2> DEFINE h == hurt[s]
             q == rows[s]
             t == truth[s]
  <2>1. h \in BOOLEAN /\ Branch(E, q, t, h) /\ Snapshots(E, q) /\ e \in E
    BY <1>4, <1>5
  <2> HIDE DEF E, q, t, h
  <2>2. /\ Hurt(e) \in EventSet /\ Hurt(e).session = e.session /\ Hurt(e).seq = e.seq
        /\ Branch((E \ {e}) \cup {Hurt(e)}, q, t, TRUE)
        /\ Snapshots((E \ {e}) \cup {Hurt(e)}, q)
    BY <2>1, DamagedBranch
  <2> QED
    BY <2>2 DEF q, t
<1> HIDE DEF f
<1>7. EventsOf(s)' = F /\ hurt'[s] = TRUE
  BY <1>1, <1>3, <1>4, <1>6 DEF EventsOf, TypeInv
<1>8. SessionInv(s)'
  BY <1>3, <1>5, <1>6, <1>7 DEF SessionInv
<1>9. TypeInv'
  <2>1. IsFiniteSet(events \ {e})
    <3>1. events \ {e} \in SUBSET events
      OBVIOUS
    <3> QED
      BY <1>1, <3>1, FS_Subset DEF TypeInv
  <2>2. IsFiniteSet((events \ {e}) \cup {f})
    BY <2>1, FS_AddElement
  <2> QED
    BY <1>1, <1>3, <1>6, <2>2 DEF TypeInv
<1>10. \A x \in Ids \ {s} :
         /\ rows'[x] = rows[x] /\ truth'[x] = truth[x] /\ hurt'[x] = hurt[x]
         /\ title'[x] = title[x] /\ EventsOf(x)' = EventsOf(x)
         /\ x \in live => x \in live'
  BY <1>1, <1>3, <1>6 DEF TypeInv, EventsOf
<1> QED
  BY <1>4, <1>8, <1>9, <1>10, OneSessionChanges

\* Every operation, and damage, keeps every branch.
LEMMA StoreNext ==
  ASSUME Lineage, StoreInv, LostAnchors = {}, [Next]_vars
  PROVE  StoreInv'
<1>1. CASE Next
  <2>1. PICK s \in Ids :
          \/ \E m \in Messages : AddMessage(s, m)
          \/ \E active \in SUBSET Skills : SaveSkills(s, active)
          \/ \E list \in Lists : SaveTodos(s, list)
          \/ \E count \in 1 .. MaxTail : SaveCompaction(s, count)
          \/ \E n \in 1 .. MaxRows : Truncate(s, n) \/ Rewind(s, n)
          \/ \E d \in Ids, n \in 1 .. MaxRows : Fork(s, d, n)
          \/ Rename(s) \/ Delete(s) \/ Damage
    BY <1>1 DEF Next
  <2>2. CASE \E m \in Messages : AddMessage(s, m)
    BY <2>2, AddKeeps
  <2>3. CASE \E active \in SUBSET Skills : SaveSkills(s, active)
    BY <2>3, SaveSkillsKeeps
  <2>4. CASE \E list \in Lists : SaveTodos(s, list)
    BY <2>4, SaveTodosKeeps
  <2>5. CASE \E count \in 1 .. MaxTail : SaveCompaction(s, count)
    BY <2>5, SaveCompactionKeeps
  <2>6. CASE \E n \in 1 .. MaxRows : Truncate(s, n) \/ Rewind(s, n)
    BY <2>6, TruncateKeeps, RewindKeeps
  <2>7. CASE \E d \in Ids, n \in 1 .. MaxRows : Fork(s, d, n)
    BY <2>7, ForkKeeps
  <2>8. CASE Rename(s) \/ Delete(s) \/ Damage
    BY <2>8, RenameKeeps, DeleteKeeps, DamageKeeps
  <2> QED
    BY <2>1, <2>2, <2>3, <2>4, <2>5, <2>6, <2>7, <2>8
<1>2. CASE UNCHANGED vars
  BY <1>2 DEF vars, sessions, derived, StoreInv, TypeInv, SessionInv, EventsOf
<1> QED
  BY <1>1, <1>2

\* The invariant, when damage leaves every event at its row.
LEMMA StoreInvariant ==
  ASSUME LostAnchors = {}
  PROVE  Spec => [](Lineage /\ StoreInv)
<1>1. Init => Lineage /\ StoreInv
  BY LineageInit, StoreInit
<1>2. Lineage /\ StoreInv /\ [Next]_vars => (Lineage /\ StoreInv)'
  BY LineageNext, StoreNext
<1> QED
  BY <1>1, <1>2, PTL DEF Spec

-----------------------------------------------------------------------------
(* What is read back *)

\* The least-number principle.
LEMMA LeastNumber ==
  ASSUME NEW S \in SUBSET Nat, S # {}
  PROVE  \E x \in S : \A y \in S : x <= y
<1>1. \E x \in S : \A y \in S : ~(<<y, x>> \in OpToRel(<, Nat))
  BY NatLessThanWellFounded, WFMin
<1>2. PICK x \in S : \A y \in S : ~(<<y, x>> \in OpToRel(<, Nat))
  BY <1>1
<1>3. \A y \in S : ~(y < x)
  BY <1>2 DEF OpToRel
<1> QED
  BY <1>3

\* Among events numbered up to a bound one is the newest.
LEMMA NewestExists ==
  ASSUME NEW E \in SUBSET EventSet, E # {}, NEW c \in Nat, \A e \in E : e.seq <= c
  PROVE  Newest(E) # {}
<1> DEFINE S == {c - e.seq : e \in E}
<1>1. \A e \in E : e.seq \in Nat /\ c - e.seq \in Nat
  BY DEF EventSet
<1>2. S \in SUBSET Nat /\ S # {}
  BY <1>1
<1>3. PICK x \in S : \A y \in S : x <= y
  <2> HIDE DEF S
  <2> QED
    BY <1>2, LeastNumber
<1>4. PICK e \in E : x = c - e.seq
  OBVIOUS
<1>5. \A f \in E : c - e.seq <= c - f.seq
  BY <1>3, <1>4
<1>6. \A f \in E : f.seq <= e.seq
  BY <1>1, <1>5
<1> QED
  BY <1>6 DEF Newest

\* The newest event of a kind is the one that rules at the last row.
LEMMA NewestRules ==
  ASSUME StoreInv, NEW s \in Ids, NEW kind
  PROVE  /\ \A e \in Newest(Of(s, kind)) :
              /\ e \in EventsOf(s) /\ e.kind = kind /\ Anchored(e)
              /\ Rules(EventsOf(s), e, Len(rows[s]))
              /\ ~hurt[s] => e.sound
         /\ \A e, f \in Newest(Of(s, kind)) : e = f
         /\ Newest(Of(s, kind)) = {} => None(EventsOf(s), kind, Len(rows[s]))
         /\ {e \in Of(s, kind) : Anchored(e)} = Of(s, kind)
<1> DEFINE E == EventsOf(s)
           q == rows[s]
<1>1. TypeInv /\ Branch(E, q, truth[s], hurt[s])
  BY DEF StoreInv, SessionInv
<1>2. /\ \A e \in E : /\ e \in EventSet /\ e.seq \in Nat /\ e.anchor \in DOMAIN q /\ e.session = s
                      /\ ~hurt[s] => e.sound
      /\ \A e, f \in E : e.seq = f.seq => e = f
  BY <1>1 DEF Branch, Placed, EventSet, EventsOf
<1>3. q \in Seq(Messages) /\ cursor \in Nat /\ \A e \in E : e.seq <= cursor
  BY <1>1 DEF TypeInv, EventsOf
<1>4. \A e \in Of(s, kind) : e \in E /\ e.kind = kind /\ Anchored(e)
  BY <1>2 DEF Of, EventsOf, Anchored
<1>5. \A e \in E : e.kind = kind => e \in Of(s, kind)
  BY DEF Of, EventsOf
<1>6. \A e \in Newest(Of(s, kind)) :
        e \in Of(s, kind) /\ \A f \in Of(s, kind) : f.seq <= e.seq
  BY DEF Newest
<1>7. Newest(Of(s, kind)) = {} => Of(s, kind) = {}
  <2>1. /\ Of(s, kind) \in SUBSET EventSet
        /\ \A e \in Of(s, kind) : e.seq <= cursor
    BY <1>2, <1>3, <1>4
  <2> QED
    BY <1>3, <2>1, NewestExists
<1> HIDE DEF E
<1>8. \A e \in Newest(Of(s, kind)) : Rules(E, e, Len(q))
  BY <1>2, <1>3, <1>4, <1>5, <1>6 DEF Rules
<1>9. \A e, f \in Newest(Of(s, kind)) : e = f
  <2> TAKE e, f \in Newest(Of(s, kind))
  <2>1. e \in E /\ f \in E /\ e.seq <= f.seq /\ f.seq <= e.seq
    BY <1>4, <1>6
  <2> QED
    BY <1>2, <2>1
<1>10. Newest(Of(s, kind)) = {} => None(E, kind, Len(q))
  BY <1>5, <1>7 DEF None
<1>11. {e \in Of(s, kind) : Anchored(e)} = Of(s, kind)
  BY <1>4
<1> QED
  BY <1>2, <1>4, <1>6, <1>8, <1>9, <1>10, <1>11 DEF E

\* The last row has a state, and the branch's rules hold there.
LEMMA LastRow ==
  ASSUME StoreInv, NEW s \in Ids, rows[s] # << >>
  PROVE  LET E == EventsOf(s)
             n == Len(rows[s])
             w == truth[s][n]
         IN  /\ \A e \in E : e.kind = "skill" /\ Rules(E, e, n) /\ e.sound =>
                  e.skills \subseteq w.skills /\ (~hurt[s] => e.skills = w.skills)
             /\ ~hurt[s] /\ None(E, "skill", n) => w.skills = {}
             /\ ~hurt[s] => \A e \in E : e.kind = "todo" /\ Rules(E, e, n) => e.todos = w.todos
             /\ ~hurt[s] /\ None(E, "todo", n) => w.todos = NoTodos
<1>1. /\ Branch(EventsOf(s), rows[s], truth[s], hurt[s]) /\ rows[s] \in Seq(Messages)
      /\ truth[s] \in Seq(States) /\ Len(truth[s]) = Len(rows[s])
  BY DEF StoreInv, SessionInv, Branch
<1>2. Len(rows[s]) \in DOMAIN truth[s]
  BY <1>1
<1> QED
  BY <1>1, <1>2 DEF Branch, SkillsTrue, TodosTrue

\* The skills read back are those of the last row.
LEMMA SkillsRead ==
  ASSUME StoreInv, NEW s \in Ids, rows[s] # << >>
  PROVE  /\ ActiveSkills(s) \subseteq truth[s][Len(rows[s])].skills
         /\ ~hurt[s] => ActiveSkills(s) = truth[s][Len(rows[s])].skills
<1> DEFINE N == Newest(Of(s, "skill"))
           S == {e \in N : Anchored(e) /\ e.sound}
           w == truth[s][Len(rows[s])]
<1>1. /\ \A e \in N : /\ e \in EventsOf(s) /\ e.kind = "skill" /\ Anchored(e)
                      /\ Rules(EventsOf(s), e, Len(rows[s]))
                      /\ ~hurt[s] => e.sound
      /\ \A e, f \in N : e = f
      /\ N = {} => None(EventsOf(s), "skill", Len(rows[s]))
  BY NewestRules
<1>2. /\ \A e \in EventsOf(s) : e.kind = "skill" /\ Rules(EventsOf(s), e, Len(rows[s])) /\ e.sound =>
           e.skills \subseteq w.skills /\ (~hurt[s] => e.skills = w.skills)
      /\ ~hurt[s] /\ None(EventsOf(s), "skill", Len(rows[s])) => w.skills = {}
  BY LastRow
<1>3. ActiveSkills(s) = UNION {e.skills : e \in S}
  BY DEF ActiveSkills
<1> HIDE DEF N, w
<1>4. \A e \in S : e.skills \subseteq w.skills /\ (~hurt[s] => e.skills = w.skills)
  BY <1>1, <1>2
<1>5. ~hurt[s] => S = N
  BY <1>1
<1>6. ~hurt[s] /\ S = {} => w.skills = {}
  BY <1>1, <1>2, <1>5
<1> HIDE DEF S
<1>7. UNION {e.skills : e \in S} \subseteq w.skills
  BY <1>4
<1>8. ~hurt[s] => w.skills \subseteq UNION {e.skills : e \in S}
  <2>1. CASE S = {}
    BY <1>6, <2>1
  <2>2. CASE S # {}
    BY <1>4, <2>2
  <2> QED
    BY <2>1, <2>2
<1> QED
  BY <1>3, <1>7, <1>8 DEF w

\* The todo list read back is that of the last row.
LEMMA TodosRead ==
  ASSUME StoreInv, NEW s \in Ids, rows[s] # << >>, ~hurt[s]
  PROVE  LatestTodos(s) = truth[s][Len(rows[s])].todos
<1> DEFINE N == Newest(Of(s, "todo"))
           S == {e \in N : e.sound}
           w == truth[s][Len(rows[s])]
<1>1. /\ \A e \in N : /\ e \in EventsOf(s) /\ e.kind = "todo" /\ Rules(EventsOf(s), e, Len(rows[s]))
                      /\ e.sound
      /\ N = {} => None(EventsOf(s), "todo", Len(rows[s]))
      /\ {e \in Of(s, "todo") : Anchored(e)} = Of(s, "todo")
  BY NewestRules
<1>2. /\ \A e \in EventsOf(s) : e.kind = "todo" /\ Rules(EventsOf(s), e, Len(rows[s])) =>
           e.todos = w.todos
      /\ None(EventsOf(s), "todo", Len(rows[s])) => w.todos = NoTodos
  BY LastRow
<1>3. LatestTodos(s) = IF S = {} THEN NoTodos ELSE (CHOOSE e \in S : TRUE).todos
  <2> DEFINE D == {f \in Of(s, "todo") : Anchored(f)}
             T == {e \in Newest(D) : e.sound}
  <2>1. LatestTodos(s) = IF T = {} THEN NoTodos ELSE (CHOOSE e \in T : TRUE).todos
    BY Zenon DEF LatestTodos
  <2>2. D = Of(s, "todo")
    BY <1>1
  <2>3. T = S
    BY <2>2
  <2> QED
    BY <2>1, <2>3
<1>4. S = N
  BY <1>1
<1> HIDE DEF N, w, S
<1>5. CASE N = {}
  BY <1>1, <1>2, <1>3, <1>4, <1>5 DEF w
<1>6. CASE N # {}
  <2>1. (CHOOSE e \in S : TRUE) \in N
    BY <1>4, <1>6
  <2> QED
    BY <1>1, <1>2, <1>3, <1>4, <1>6, <2>1 DEF w
<1> QED
  BY <1>5, <1>6

-----------------------------------------------------------------------------

\* Joining two transcripts.
LEMMA JoinedRows ==
  ASSUME NEW x \in Seq(Messages), NEW y \in Seq(Messages)
  PROVE  /\ x \o y \in Seq(Messages) /\ Len(x \o y) = Len(x) + Len(y)
         /\ \A i \in 1 .. Len(x) : (x \o y)[i] = x[i]
         /\ \A i \in 1 .. Len(y) : (x \o y)[Len(x) + i] = y[i]
OBVIOUS

\* Transcripts are the same when their rows are.
LEMMA SameRows ==
  ASSUME NEW x \in Seq(Messages), NEW y \in Seq(Messages), Len(x) = Len(y),
         \A i \in 1 .. Len(x) : x[i] = y[i]
  PROVE  x = y
OBVIOUS

\* Joining the newest messages of one transcript with all of the next gives the
\* newest of the joined one.
LEMMA LastOfJoined ==
  ASSUME NEW p \in Seq(Messages), NEW b \in Seq(Messages), NEW n \in 0 .. Len(p)
  PROVE  /\ Last(p, n) \in Seq(Messages) /\ Len(Last(p, n)) = n
         /\ Len(Last(p, n) \o b) = n + Len(b)
         /\ Last(p, n) \o b = Last(p \o b, n + Len(b))
         /\ n + Len(b) <= Len(p \o b)
<1> DEFINE l == Last(p, n)
           r == p \o b
           k == Len(p) - n
<1>1. /\ l \in Seq(Messages) /\ Len(l) = n /\ \A i \in 1 .. n : l[i] = p[k + i]
      /\ k \in Nat /\ Len(p) = k + n /\ Len(b) \in Nat /\ n \in Nat
  BY DEF Last
<1>2. /\ r \in Seq(Messages) /\ Len(r) = k + (n + Len(b))
      /\ \A i \in 1 .. Len(p) : r[i] = p[i]
      /\ \A i \in 1 .. Len(b) : r[Len(p) + i] = b[i]
  BY <1>1
<1> HIDE DEF l, r, k
<1>3. /\ l \o b \in Seq(Messages) /\ Len(l \o b) = n + Len(b)
      /\ \A i \in 1 .. n : (l \o b)[i] = l[i]
      /\ \A i \in 1 .. Len(b) : (l \o b)[n + i] = b[i]
  BY <1>1, JoinedRows
<1>4. /\ Last(r, n + Len(b)) \in Seq(Messages) /\ Len(Last(r, n + Len(b))) = n + Len(b)
      /\ \A i \in 1 .. n + Len(b) : Last(r, n + Len(b))[i] = r[k + i]
  BY <1>1, <1>2 DEF Last
<1>5. \A i \in 1 .. n + Len(b) : (l \o b)[i] = r[k + i]
  <2> TAKE i \in 1 .. n + Len(b)
  <2>1. CASE i <= n
    <3>1. i \in 1 .. n /\ k + i \in 1 .. Len(p)
      BY <1>1, <2>1
    <3> QED
      BY <1>1, <1>2, <1>3, <3>1
  <2>2. CASE i > n
    <3>1. i - n \in 1 .. Len(b) /\ i = n + (i - n) /\ k + i = Len(p) + (i - n)
      BY <1>1, <2>2
    <3> QED
      BY <1>2, <1>3, <3>1
  <2> QED
    BY <1>1, <2>1, <2>2
<1>6. l \o b = Last(r, n + Len(b))
  <2>1. \A i \in 1 .. Len(l \o b) : (l \o b)[i] = Last(r, n + Len(b))[i]
    BY <1>3, <1>4, <1>5
  <2> QED
    BY <1>3, <1>4, <2>1, SameRows
<1> QED
  BY <1>1, <1>2, <1>3, <1>6 DEF l, r

\* The tail of a snapshot that fits is the newest of the whole messages up to
\* its row.
LEMMA FittingTail ==
  ASSUME NEW e \in EventSet, Fits(e), Anchored(e), rows[e.session] \in Seq(Messages)
  PROVE  /\ Len(e.tail) \in 0 .. Len(Trim(Prefix(e.session, e.anchor)))
         /\ e.tail = Last(Trim(Prefix(e.session, e.anchor)), Len(e.tail))
<1> DEFINE q == rows[e.session]
           p == Trim(Prefix(e.session, e.anchor))
           n == Len(e.tail)
           nil == << >>
<1>1. e.tail \in Seq(Messages) /\ n \in Nat /\ e.anchor \in 1 .. Len(q)
  BY DEF EventSet, Anchored
<1>2. e.tail = IF e.anchor \in DOMAIN q /\ n <= Len(p) THEN Last(p, n) ELSE nil
  BY DEF Fits, Canonical
<1>3. p \in Seq(Messages) /\ Len(p) \in Nat
  <2>1. Prefix(e.session, e.anchor) \in Seq(Messages)
    BY <1>1 DEF Prefix
  <2> HIDE DEF nil
  <2> QED
    BY <2>1, TrimmedMessages
<1>4. Len(nil) = 0
  OBVIOUS
<1> HIDE DEF p, q, nil
<1>5. CASE n <= Len(p)
  <2>1. e.tail = Last(p, n)
    BY <1>1, <1>2, <1>5 DEF Anchored, q
  <2> QED
    BY <1>1, <1>3, <1>5, <2>1 DEF p
<1>6. CASE ~(n <= Len(p))
  <2>1. e.tail = nil
    BY <1>2, <1>6
  <2> QED
    BY <1>1, <1>3, <1>4, <1>6, <2>1
<1> QED
  BY <1>5, <1>6

\* Resuming from the snapshot e.
Resumed(s, e) ==
  [messages |-> e.tail \o Behind(s, e), turn |-> e.turn + Assistants(Behind(s, e))]

\* Resuming from a snapshot that fits gives the newest of the whole messages.
LEMMA SnapshotAgrees ==
  ASSUME StoreInv, NEW s \in Ids, NEW e \in Bodies(s), Fits(e)
  PROVE  LET whole == Trim(rows[s])
             m == e.tail \o Behind(s, e)
         IN  /\ Len(m) <= Len(whole) /\ m = Last(whole, Len(m))
             /\ e.turn + Assistants(Behind(s, e)) = Assistants(whole)
<1> DEFINE q == rows[s]
           a == e.anchor
           p == Trim(SubSeq(q, 1, a))
           b == Trim(SubSeq(q, a + 1, Len(q)))
           n == Len(e.tail)
<1>1. /\ Branch(EventsOf(s), q, truth[s], hurt[s]) /\ Snapshots(EventsOf(s), q)
      /\ q \in Seq(Messages)
  BY DEF StoreInv, SessionInv, Branch
<1>2. /\ e \in EventsOf(s) /\ e.session = s /\ e.kind = "compaction" /\ e.body = "full"
  BY DEF Bodies, Of, EventsOf, Fits
<1>3. e \in EventSet /\ a \in 1 .. Len(q) /\ Anchored(e)
  BY <1>1, <1>2 DEF Branch, Placed, Anchored
<1>4. q[a].role \in {"user", "tool"} /\ e.turn = Assistants(p)
  BY <1>1, <1>2 DEF Snapshots
<1>5. Trim(q) = p \o b
  BY <1>1, <1>3, <1>4, TrimmedParts
<1>6. p \in Seq(Messages) /\ b \in Seq(Messages)
  <2>1. SubSeq(q, 1, a) \in Seq(Messages) /\ SubSeq(q, a + 1, Len(q)) \in Seq(Messages)
    BY <1>1, <1>3
  <2> QED
    BY <2>1, TrimmedMessages
<1>7. n \in 0 .. Len(p) /\ e.tail = Last(p, n)
  BY <1>1, <1>2, <1>3, FittingTail DEF Prefix
<1>8. Behind(s, e) = b
  BY DEF Behind
<1> HIDE DEF p, b, q
<1>9. /\ Len(Last(p, n) \o b) = n + Len(b)
      /\ Last(p, n) \o b = Last(p \o b, n + Len(b))
      /\ n + Len(b) <= Len(p \o b)
  BY <1>6, <1>7, LastOfJoined
<1>10. Assistants(p \o b) = Assistants(p) + Assistants(b)
  BY <1>6, AssistantsAdd
<1> QED
  BY <1>4, <1>5, <1>7, <1>8, <1>9, <1>10 DEF q

\* Resuming, from a snapshot or from all rows.
LEMMA ResumeReads ==
  ASSUME StoreInv, NEW s \in Ids
  PROVE  /\ Len(Resume(s).messages) <= Len(Trim(rows[s]))
         /\ Resume(s).messages = Last(Trim(rows[s]), Len(Resume(s).messages))
         /\ Resume(s).turn = Assistants(Trim(rows[s]))
<1> DEFINE S == Snapshot(s)
           w == Trim(rows[s])
<1>1. w \in Seq(Messages)
  <2>1. rows[s] \in Seq(Messages)
    BY DEF StoreInv, TypeInv
  <2> QED
    BY <2>1, TrimmedMessages
<1>2. CASE S = {}
  <2>1. Resume(s) = [messages |-> w, turn |-> Assistants(w)]
    BY <1>2 DEF Resume
  <2> HIDE DEF w
  <2>2. Len(w) <= Len(w) /\ w = Last(w, Len(w))
    BY <1>1 DEF Last
  <2> QED
    BY <2>1, <2>2 DEF w
<1>3. CASE S # {}
  <2> DEFINE e == CHOOSE e \in S : TRUE
  <2>1. e \in S
    BY <1>3
  <2>2. Resume(s) = [messages |-> e.tail \o Behind(s, e), turn |-> e.turn + Assistants(Behind(s, e))]
    BY <1>3 DEF Resume
  <2> HIDE DEF e, w
  <2>3. e \in Bodies(s) /\ Fits(e)
    BY <2>1 DEF Snapshot, Newest
  <2> DEFINE m == e.tail \o Behind(s, e)
  <2>4. /\ Len(m) <= Len(w) /\ m = Last(w, Len(m))
        /\ e.turn + Assistants(Behind(s, e)) = Assistants(w)
    BY <2>3, SnapshotAgrees DEF w
  <2> HIDE DEF m
  <2>5. Resume(s).messages = m /\ Resume(s).turn = e.turn + Assistants(Behind(s, e))
    BY <2>2 DEF m
  <2> QED
    BY <2>4, <2>5 DEF w
<1> QED
  BY <1>2, <1>3

\* sessions.py, active_skill_state: whatever was damaged, edited or forked, the
\* skills read back are among those the agent had at the newest row.
THEOREM NoSkillRevived ==
  ASSUME LostAnchors = {}
  PROVE  Spec => []SkillsNeverRevived
<1>1. Lineage /\ StoreInv => SkillsNeverRevived
  <2> SUFFICES ASSUME Lineage, StoreInv, NEW s \in live, rows[s] # << >>
               PROVE  ActiveSkills(s) \subseteq truth[s][Len(rows[s])].skills
    BY DEF SkillsNeverRevived
  <2>1. s \in Ids
    BY RangeOfBorn DEF Lineage
  <2> QED
    BY <2>1, SkillsRead
<1> QED
  BY <1>1, StoreInvariant, PTL

\* sessions.py, latest_todos and the automatic title: what is derived from a
\* branch is what belongs to it, exactly when nothing was damaged.
THEOREM BranchRestored ==
  ASSUME LostAnchors = {}
  PROVE  Spec => []BranchStateIsRestored
<1>1. Lineage /\ StoreInv => BranchStateIsRestored
  <2> SUFFICES ASSUME Lineage, StoreInv, NEW s \in live
               PROVE  /\ title[s] # Named =>
                           title[s] = IF rows[s] = << >> THEN "" ELSE rows[s][1].text
                      /\ rows[s] # << >> /\ ~hurt[s] =>
                           /\ ActiveSkills(s) = truth[s][Len(rows[s])].skills
                           /\ LatestTodos(s) = truth[s][Len(rows[s])].todos
    BY DEF BranchStateIsRestored
  <2>1. s \in Ids
    BY RangeOfBorn DEF Lineage
  <2>2. Titled(rows[s], title[s])
    BY <2>1 DEF StoreInv, SessionInv
  <2> QED
    BY <2>1, <2>2, SkillsRead, TodosRead DEF Titled
<1> QED
  BY <1>1, StoreInvariant, PTL

\* session_wiring.py, attach_session: resuming from a snapshot gives the newest
\* messages of the transcript, and the turn index of the whole of it.
THEOREM ResumeIsTheTranscript ==
  ASSUME LostAnchors = {}
  PROVE  Spec => []ResumeAgrees
<1>1. Lineage /\ StoreInv => ResumeAgrees
  <2> SUFFICES ASSUME Lineage, StoreInv, NEW s \in live
               PROVE  /\ Len(Resume(s).messages) <= Len(Trim(rows[s]))
                      /\ Resume(s).messages = Last(Trim(rows[s]), Len(Resume(s).messages))
                      /\ Resume(s).turn = Assistants(Trim(rows[s]))
    BY DEF ResumeAgrees
  <2>1. s \in Ids
    BY RangeOfBorn DEF Lineage
  <2> QED
    BY <2>1, ResumeReads
<1> QED
  BY <1>1, StoreInvariant, PTL
=============================================================================
