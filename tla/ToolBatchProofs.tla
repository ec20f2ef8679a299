---------------------------- MODULE ToolBatchProofs ----------------------------
(***************************************************************************)
(* For every set of skills, tools and profiles: consent for high-risk      *)
(* tools, what a call of a batch may use, and one skill at a time. What is *)
(* proved of a turn holds beside the other parts of MCTools. Of the        *)
(* knowledge index, for any number of processes, files and providers: its  *)
(* answers are true and its updates stay. Of the memory file, for any      *)
(* calls, contents and summaries: it takes one update at a time. And of    *)
(* the calendar: an edit changes what it names and nothing else.           *)
(***************************************************************************)
EXTENDS MCTools, TLAPS, FiniteSetTheorems, NaturalsInduction, WellFoundedInduction

OverSkills(f) == f = [s \in Skills |-> f[s]]

\* The approvals in x were all given by the user.
Given(x) ==
  /\ OverSkills(x.approved)
  /\ \A s \in Skills : x.approved[s] \subseteq accepted[s]

\* Approvals in force, and those a rollback or a restart would bring back.
ConsentInv ==
  /\ OverSkills(accepted)
  /\ Given(State) /\ Given(ckpt) /\ Given(saved) /\ Given(base)

USE DEF OverSkills, Given, ConsentInv, State

\* No approval is in force before anybody was asked.
LEMMA ConsentInit == Init => ConsentInv
  BY DEF Init, Nothing

\* The tail of activate_skill records what was accepted in this very step, or
\* nothing when the skill asks for nothing risky.
LEMMA EngageKeeps ==
  ASSUME NEW s, Engage(s), ConsentInv,
         OverSkills(accepted'),
         \A n \in Skills : accepted[n] \subseteq accepted'[n],
         s \in Skills => Risky(prof, s) \subseteq accepted'[s],
         UNCHANGED <<ckpt, saved, base>>
  PROVE  ConsentInv'
<1>1. CASE prof.concurrent
  <2>1. approved' = [approved EXCEPT ![s] = Risky(prof, s)]
    BY <1>1 DEF Engage
  <2>2. OverSkills(approved')
    BY <2>1
  <2>3. \A n \in Skills : approved'[n] \subseteq accepted'[n]
    BY <2>1
  <2> QED BY <2>2, <2>3
<1>2. CASE ~prof.concurrent
  <2>1. approved' = [n \in Skills |-> IF n = s THEN Risky(prof, s) ELSE {}]
    BY <1>2 DEF Engage
  <2> QED BY <2>1
<1> QED BY <1>1, <1>2

\* Every step of a call keeps approvals within what was accepted.
LEMMA CallKeeps ==
  ASSUME NEW i, CallStep(i), ConsentInv
  PROVE  ConsentInv'
<1>1. CASE Begin(i) \/ RaiseOut(i) \/ Deny(i) \/ UseTool(i) \/ Decline(i)
           \/ StopCall(i) \/ Swallow(i)
  BY <1>1 DEF Begin, RaiseOut, Deny, UseTool, Decline, StopCall, Swallow, Reach,
              skillVars, durableVars
<1>2. CASE Deactivate(i)
  BY <1>2 DEF Deactivate, Reach, skillVars, durableVars
<1>3. CASE Activate(i)
  <2>1. accepted' = accepted /\ UNCHANGED <<ckpt, saved, base>>
    BY <1>3 DEF Activate, Reach, durableVars
  <2>2. CASE UNCHANGED skillVars
    BY <2>1, <2>2 DEF skillVars
  <2>3. CASE Engage(calls[i].arg) /\ Risky(prof, calls[i].arg) = {}
    BY <2>1, <2>3, EngageKeeps
  <2> QED BY <1>3, <2>2, <2>3 DEF Activate
<1>4. CASE Accept(i)
  <2> DEFINE s == calls[i].arg
  <2>1. /\ accepted' = [accepted EXCEPT ![s] = @ \cup Risky(prof, s)]
        /\ Engage(s) /\ UNCHANGED <<ckpt, saved, base>>
    BY <1>4 DEF Accept, Reach, durableVars
  <2>2. OverSkills(accepted')
    BY <2>1
  <2>3. /\ \A n \in Skills : accepted[n] \subseteq accepted'[n]
        /\ s \in Skills => Risky(prof, s) \subseteq accepted'[s]
    BY <2>1
  <2> HIDE DEF s, OverSkills
  <2> QED BY <2>1, <2>2, <2>3, EngageKeeps
<1> QED BY <1>1, <1>2, <1>3, <1>4 DEF CallStep

\* Saving keeps approvals of active skills, restoring cuts them down, and a
\* rollback brings back what was given before the turn.
LEMMA ConsentStep == ConsentInv /\ [Next]_vars => ConsentInv'
<1> SUFFICES ASSUME ConsentInv, [Next]_vars PROVE ConsentInv'
  OBVIOUS
<1>1. CASE UNCHANGED vars
  BY <1>1 DEF vars, skillVars, durableVars
<1>2. CASE StartTurn
  BY <1>2 DEF StartTurn, skillVars
<1>3. CASE EndTurn \/ Dispatch \/ StopBatch \/ Reap
  BY <1>3 DEF EndTurn, Dispatch, StopBatch, Reap, skillVars, durableVars
<1>4. CASE VoidTurn \/ VoidBatch
  BY <1>4 DEF VoidTurn, VoidBatch, Rollback
<1>5. CASE EndBatch
  <2>1. Given(Payload)
    BY DEF Payload
  <2> QED BY <1>5, <2>1 DEF EndBatch, skillVars
<1>6. CASE \E i \in DOMAIN st : CallStep(i)
  BY <1>6, CallKeeps
<1>7. CASE Restart
  <2>1. /\ approved' = Restored(prof', saved).approved
        /\ UNCHANGED <<ckpt, saved, base, accepted>>
    BY <1>7 DEF Restart, durableVars
  <2>2. /\ OverSkills(approved')
        /\ \A s \in Skills : approved'[s] \subseteq saved.approved[s]
    BY <2>1 DEF Restored
  <2> QED BY <2>1, <2>2
<1> QED BY <1>1, <1>2, <1>3, <1>4, <1>5, <1>6, <1>7 DEF Next

\* What is approved now, before the turn or on disk was accepted by the user.
THEOREM ConsentIsKept == Spec => []ConsentInv
  BY ConsentInit, ConsentStep, PTL DEF Spec

\* A skill grants a high-risk tool only with the user's consent for that tool
\* (SkillState.active_effective_tools with the restore of from_profile).
THEOREM GrantsAreConsented == Spec => []RiskyGrantsConsented
<1>1. ConsentInv => RiskyGrantsConsented
  BY DEF RiskyGrantsConsented, Grants, Risky
<1> QED BY <1>1, ConsentIsKept, PTL

-----------------------------------------------------------------------------
(* What a call may use *)

\* The snapshot of the request stays what the skills of that moment granted,
\* and whoever passed _resolve_tool is in it.
OfferInv ==
  /\ authorized \subseteq (prof.initial \cup Grants(prof, before))
  /\ \A i \in DOMAIN st : st[i] = "hook" /\ calls[i].op = "use" => calls[i].arg \in authorized

LEMMA OfferInit == Init => OfferInv
  BY DEF Init, OfferInv

LEMMA OfferStep == OfferInv /\ [Next]_vars => OfferInv'
<1> SUFFICES ASSUME OfferInv, [Next]_vars PROVE OfferInv'
  OBVIOUS
<1> DEFINE offered == <<prof, before, authorized, calls>>
<1>1. CASE UNCHANGED vars
  BY <1>1 DEF vars, batchVars, OfferInv, Grants
<1>2. CASE StartTurn \/ EndTurn \/ VoidTurn \/ EndBatch \/ StopBatch \/ Reap \/ VoidBatch
  <2>1. UNCHANGED offered /\ st' = st
    BY <1>2 DEF StartTurn, EndTurn, VoidTurn, VoidBatch, Rollback, EndBatch, StopBatch, Reap,
                batchVars
  <2> QED BY <2>1 DEF OfferInv, Grants
<1>3. CASE Dispatch
  <2>1. /\ prof' = prof /\ before' = [active |-> active, approved |-> approved]
        /\ authorized' = Authorized
        /\ \A i \in DOMAIN st' : st'[i] = "new"
    BY <1>3 DEF Dispatch
  <2> QED BY <2>1 DEF OfferInv, Authorized, Grants
<1>4. ASSUME NEW i \in DOMAIN st, CallStep(i) PROVE OfferInv'
  <2>1. UNCHANGED offered
    BY <1>4 DEF CallStep, Begin, RaiseOut, Deny, UseTool, Deactivate, Activate, Accept,
                Decline, StopCall, Swallow, Reach
  <2>2. /\ DOMAIN st' = DOMAIN st
        /\ \A j \in DOMAIN st : j # i => st'[j] = st[j]
        /\ st'[i] = "hook" => st[i] = "hook" \/ Resolves(calls[i])
    BY <1>4 DEF CallStep, Begin, RaiseOut, Deny, UseTool, Deactivate, Activate, Accept,
                Decline, StopCall, Swallow, Reach
  <2> QED BY <2>1, <2>2 DEF OfferInv, Grants, Resolves
<1>5. CASE Restart
  <2>1. authorized' = {} /\ st' = << >>
    BY <1>5 DEF Restart
  <2>2. DOMAIN st' = {}
    BY <2>1
  <2> QED BY <2>1, <2>2 DEF OfferInv
<1> QED BY <1>1, <1>2, <1>3, <1>4, <1>5 DEF Next

\* Only a tool that was offered with its own request is ever run, whatever its
\* siblings activate before it (_dispatch, _resolve_tool).
THEOREM OnlyOfferedIsUsed == Spec => UsedWasAuthorized
<1>1. OfferInv /\ [Next]_vars =>
        (\A t \in used' \ used : t \in (prof.initial \cup Grants(prof, before)))
  <2> SUFFICES ASSUME OfferInv, [Next]_vars, NEW t \in used' \ used
               PROVE  t \in (prof.initial \cup Grants(prof, before))
    OBVIOUS
  <2>1. \E i \in DOMAIN st : UseTool(i)
    BY DEF Next, CallStep, StartTurn, EndTurn, VoidTurn, VoidBatch, Rollback, Dispatch,
           EndBatch, StopBatch, Reap, Restart, Begin, RaiseOut, Deny, Deactivate, Activate,
           Accept, Decline, StopCall, Swallow, vars, batchVars
  <2>2. PICK i \in DOMAIN st : UseTool(i)
    BY <2>1
  <2>3. t = calls[i].arg /\ t \in authorized
    BY <2>2 DEF UseTool, Runnable, OfferInv
  <2> QED BY <2>3 DEF OfferInv
<1> QED BY OfferInit, OfferStep, <1>1, PTL DEF Spec, UsedWasAuthorized

-----------------------------------------------------------------------------
(* One skill at a time *)

AtMostOne(q) == q = << >> \/ \E s : q = <<s>>

\* In a profile that allows one skill, at most one is active, now and after a
\* rollback of the running turn.
SingleInv ==
  ~prof.concurrent =>
    /\ AtMostOne(active)
    /\ phase # "idle" \/ cancelled # {} => AtMostOne(ckpt.active)

\* list.remove empties a list of one.
LEMMA RemoveFromOne ==
  ASSUME NEW q, AtMostOne(q), NEW x, Contains(q, x)
  PROVE  RemoveFirst(q, x) = << >>
<1>1. PICK s : q = <<s>>
  BY DEF Contains, AtMostOne
<1>2. Len(q) = 1 /\ q[1] = x
  BY <1>1 DEF Contains
<1>3. {i \in 1 .. Len(q) : q[i] = x} = {1}
  BY <1>2
<1>4. Min({1}) = 1
  BY DEF Min
<1>5. SelectInSeq(q, LAMBDA v : v = x) = 1
  BY <1>3, <1>4 DEF SelectInSeq
<1>6. RemoveFirst(q, x) = RemoveAt(q, 1)
  BY <1>2, <1>5 DEF RemoveFirst
<1>7. SubSeq(q, 1, 0) = << >> /\ SubSeq(q, 2, 1) = << >>
  BY <1>1
<1> QED BY <1>2, <1>6, <1>7 DEF RemoveAt

LEMMA SingleInit == Init => SingleInv
  BY DEF Init, SingleInv, AtMostOne

\* from_profile keeps the newest of the skills another profile had saved.
LEMMA RestoredIsSingle ==
  ASSUME NEW p, NEW x, ~p.concurrent
  PROVE  AtMostOne(Restored(p, x).active)
  BY DEF Restored, AtMostOne

LEMMA SingleCall ==
  ASSUME SingleInv, NEW i \in DOMAIN st, CallStep(i)
  PROVE  SingleInv'
<1> SUFFICES ASSUME ~prof.concurrent PROVE SingleInv'
  <2>1. prof' = prof
    BY DEF CallStep, Begin, RaiseOut, Deny, UseTool, Deactivate, Activate, Accept, Decline,
           StopCall, Swallow, Reach
  <2> QED BY <2>1 DEF SingleInv
<1>1. AtMostOne(active) /\ (phase # "idle" \/ cancelled # {} => AtMostOne(ckpt.active))
  BY DEF SingleInv
<1>2. CASE Begin(i) \/ RaiseOut(i) \/ Deny(i) \/ UseTool(i) \/ Decline(i)
  BY <1>1, <1>2 DEF Begin, RaiseOut, Deny, UseTool, Decline, Reach, skillVars, SingleInv
<1>3. CASE StopCall(i) \/ Swallow(i)
  <2>1. cancelled # {} /\ active' = active /\ ckpt' = ckpt
    BY <1>3 DEF StopCall, Swallow, skillVars
  <2> QED BY <1>1, <2>1 DEF SingleInv
<1>4. UNCHANGED <<phase, cancelled, ckpt>> /\ AtMostOne(active') => SingleInv'
  BY <1>1 DEF SingleInv
<1>5. \A s : Engage(s) => AtMostOne(active')
  BY DEF Engage, AtMostOne
<1>6. CASE Deactivate(i)
  <2>1. \/ Contains(active, calls[i].arg) /\ active' = RemoveFirst(active, calls[i].arg)
        \/ active' = active
    BY <1>6 DEF Deactivate, skillVars
  <2>2. AtMostOne(active')
    BY <1>1, <2>1, RemoveFromOne DEF AtMostOne
  <2> QED BY <1>4, <1>6, <2>2 DEF Deactivate, Reach
<1>7. CASE Activate(i) \/ Accept(i)
  <2>1. AtMostOne(active')
    BY <1>1, <1>5, <1>7 DEF Activate, Accept, skillVars
  <2> QED BY <1>4, <1>7, <2>1 DEF Activate, Accept, Reach
<1> QED BY <1>2, <1>3, <1>6, <1>7 DEF CallStep

LEMMA SingleStep == SingleInv /\ [Next]_vars => SingleInv'
<1> SUFFICES ASSUME SingleInv, [Next]_vars PROVE SingleInv'
  OBVIOUS
<1>1. CASE UNCHANGED vars
  BY <1>1 DEF vars, skillVars, batchVars, SingleInv
<1>2. CASE StartTurn
  BY <1>2 DEF StartTurn, skillVars, batchVars, SingleInv
<1>3. CASE EndTurn \/ EndBatch \/ Dispatch \/ StopBatch \/ Reap
  <2>1. phase # "idle" /\ UNCHANGED <<prof, active, ckpt>>
    BY <1>3 DEF EndTurn, EndBatch, Dispatch, StopBatch, Reap, skillVars
  <2> QED BY <2>1 DEF SingleInv
<1>4. CASE VoidTurn \/ VoidBatch
  <2>1. phase # "idle" /\ UNCHANGED <<prof, ckpt>> /\ active' = ckpt.active
    BY <1>4 DEF VoidTurn, VoidBatch, Rollback
  <2> QED BY <2>1 DEF SingleInv
<1>5. CASE \E i \in DOMAIN st : CallStep(i)
  BY <1>5, SingleCall
<1>6. CASE Restart
  BY <1>6, RestoredIsSingle DEF Restart, SingleInv
<1> QED BY <1>1, <1>2, <1>3, <1>4, <1>5, <1>6 DEF Next

\* Racing confirmations, rollbacks and restarts never add up to two skills where
\* the profile allows one (activate_skill, from_profile).
THEOREM OneSkill == Spec => []OneSkillAtATime
<1>1. \A q : AtMostOne(q) => Len(q) <= 1
  <2> SUFFICES ASSUME NEW q, AtMostOne(q) PROVE Len(q) <= 1
    OBVIOUS
  <2>1. CASE q = << >>
    BY <2>1
  <2>2. CASE \E s : q = <<s>>
    <3>1. PICK s : q = <<s>>
      BY <2>2
    <3>2. Len(q) = 1
      BY <3>1
    <3> QED BY <3>2
  <2> QED BY <2>1, <2>2 DEF AtMostOne
<1>2. SingleInv => OneSkillAtATime
  BY <1>1 DEF SingleInv, OneSkillAtATime
<1> QED BY SingleInit, SingleStep, <1>2, PTL DEF Spec

-----------------------------------------------------------------------------
(* Filtered lists *)

HIDE DEF OverSkills, Given, ConsentInv, State

\* Counting up to an element numbers a finite set of numbers from 1, in order.
LEMMA PlacesNumber ==
  ASSUME NEW K \in SUBSET Nat, IsFiniteSet(K)
  PROVE  /\ Cardinality(K) \in Nat
         /\ \A i \in K : Place(K, i) \in 1 .. Cardinality(K)
         /\ \A i, j \in K : i <= j <=> Place(K, i) <= Place(K, j)
         /\ \A n \in 1 .. Cardinality(K) : \E i \in K : Place(K, i) = n
<1> DEFINE Upto(i) == {j \in K : j <= i}
           N == Cardinality(K)
<1>0. \A i \in K : i \in Nat
  OBVIOUS
<1>1. N \in Nat
  BY FS_CardinalityType
<1>2. ASSUME NEW i \in K
      PROVE  /\ IsFiniteSet(Upto(i)) /\ Place(K, i) = Cardinality(Upto(i))
             /\ Place(K, i) \in 1 .. N
  <2>1. Upto(i) \in SUBSET K /\ i \in Upto(i)
    OBVIOUS
  <2>2. Place(K, i) = Cardinality(Upto(i))
    BY DEF Place
  <2> HIDE DEF Upto
  <2>3. IsFiniteSet(Upto(i)) /\ Cardinality(Upto(i)) <= N
    BY <2>1, FS_Subset
  <2>4. Cardinality(Upto(i)) \in Nat /\ Cardinality(Upto(i)) # 0
    BY <2>1, <2>3, FS_CardinalityType, FS_EmptySet
  <2> QED
    BY <1>1, <2>2, <2>3, <2>4
<1>3. ASSUME NEW i \in K, NEW j \in K, i <= j
      PROVE  Place(K, i) <= Place(K, j)
  <2>0. \A k \in K : k <= i => k <= j
    BY <1>0, <1>3
  <2>1. Upto(i) \in SUBSET Upto(j)
    BY <2>0
  <2> HIDE DEF Upto
  <2> QED
    BY <1>2, <2>1, FS_Subset
<1>4. ASSUME NEW i \in K, NEW j \in K, i < j
      PROVE  Place(K, i) < Place(K, j)
  <2>0. (\A k \in K : k <= i => k <= j) /\ j <= j /\ ~(j <= i)
    BY <1>0, <1>4
  <2>1. Upto(i) \in SUBSET Upto(j) /\ j \in Upto(j) /\ j \notin Upto(i)
    BY <2>0
  <2> HIDE DEF Upto
  <2>2. /\ Cardinality(Upto(i)) <= Cardinality(Upto(j))
        /\ Cardinality(Upto(i)) # Cardinality(Upto(j))
    BY <1>2, <2>1, FS_Subset
  <2>3. Place(K, i) = Cardinality(Upto(i)) /\ Place(K, j) = Cardinality(Upto(j))
    BY <1>2
  <2>4. Place(K, i) \in Nat /\ Place(K, j) \in Nat
    <3> HIDE DEF N
    <3> QED BY <1>1, <1>2
  <2> QED
    BY <2>2, <2>3, <2>4
<1> HIDE DEF N, Upto
<1>5. \A i, j \in K : i <= j <=> Place(K, i) <= Place(K, j)
  <2> TAKE i, j \in K
  <2>1. i \in Nat /\ j \in Nat /\ Place(K, i) \in Nat /\ Place(K, j) \in Nat
    BY <1>1, <1>2
  <2> QED
    BY <1>3, <1>4, <2>1
<1>6. \A n \in 1 .. N : \E i \in K : Place(K, i) = n
  <2> DEFINE p == [i \in K |-> Place(K, i)]
  <2>1. p \in Injection(K, 1 .. N)
    <3>1. p \in [K -> 1 .. N]
      BY <1>2
    <3>2. \A i, j \in K : p[i] = p[j] => i = j
      <4> TAKE i, j \in K
      <4>1. i \in Nat /\ j \in Nat /\ Place(K, i) \in Nat /\ Place(K, j) \in Nat
        BY <1>1, <1>2
      <4> QED
        BY <1>5, <4>1
    <3> QED
      BY <3>1, <3>2 DEF Injection, IsInjective
  <2>2. IsFiniteSet(1 .. N) /\ Cardinality(1 .. N) = N
    BY <1>1, FS_Interval
  <2>3. p \in Surjection(K, 1 .. N)
    BY <2>1, <2>2, FS_Injection DEF N
  <2> QED
    BY <2>3 DEF Surjection
<1> QED
  BY <1>1, <1>2, <1>5, <1>6 DEF N

\* A filtered list holds what stands at the kept places, in their order.
LEMMA Filtered ==
  ASSUME NEW S, NEW q \in Seq(S), NEW K \in SUBSET DOMAIN q
  PROVE  /\ Subsequence(q, K) \in Seq(S)
         /\ \A n \in DOMAIN Subsequence(q, K) :
              \E i \in K : Subsequence(q, K)[n] = q[i]
         /\ \A i \in K : \E n \in DOMAIN Subsequence(q, K) : Subsequence(q, K)[n] = q[i]
         /\ \A m, n \in DOMAIN Subsequence(q, K) : m < n =>
              \E i, j \in K : i < j /\ Subsequence(q, K)[m] = q[i] /\ Subsequence(q, K)[n] = q[j]
<1> DEFINE N == Cardinality(K)
           Nth(n) == CHOOSE i \in K : Place(K, i) = n
           f == Subsequence(q, K)
<1>1. DOMAIN q = 1 .. Len(q) /\ Len(q) \in Nat
  OBVIOUS
<1>2. K \in SUBSET Nat /\ IsFiniteSet(K)
  <2>1. IsFiniteSet(DOMAIN q)
    BY <1>1, FS_Interval
  <2> QED BY <1>1, <2>1, FS_Subset
<1>3. f = [n \in 1 .. N |-> q[Nth(n)]]
  BY DEF Subsequence
<1>4. /\ N \in Nat
      /\ \A i \in K : Place(K, i) \in 1 .. N
      /\ \A i, j \in K : i <= j <=> Place(K, i) <= Place(K, j)
      /\ \A n \in 1 .. N : \E i \in K : Place(K, i) = n
  BY <1>2, PlacesNumber
<1>5. \A n \in 1 .. N : Nth(n) \in K /\ Place(K, Nth(n)) = n
  BY <1>4
<1> HIDE DEF N, f
<1>6. DOMAIN f = 1 .. N /\ \A n \in 1 .. N : f[n] = q[Nth(n)]
  BY <1>3
<1>7. f \in Seq(S)
  <2>1. \A n \in 1 .. N : q[Nth(n)] \in S
    BY <1>1, <1>5
  <2> HIDE DEF Nth
  <2> QED BY <1>3, <1>4, <2>1
<1> HIDE DEF Nth
<1>8. \A i \in K : f[Place(K, i)] = q[i]
  <2> TAKE i \in K
  <2> DEFINE j == Nth(Place(K, i))
  <2>1. j \in K /\ Place(K, j) = Place(K, i) /\ f[Place(K, i)] = q[j]
    BY <1>4, <1>5, <1>6
  <2> HIDE DEF j
  <2>2. i \in Nat /\ j \in Nat /\ Place(K, i) \in Nat
    BY <1>2, <1>4, <2>1
  <2>3. i <= j /\ j <= i
    BY <1>4, <2>1, <2>2
  <2>4. i = j
    BY <2>2, <2>3
  <2> QED BY <2>1, <2>4
<1>9. ASSUME NEW m \in DOMAIN f, NEW n \in DOMAIN f, m < n
      PROVE  \E i, j \in K : i < j /\ f[m] = q[i] /\ f[n] = q[j]
  <2>1. m \in 1 .. N /\ n \in 1 .. N
    BY <1>6
  <2>2. Nth(m) \in K /\ Nth(n) \in K /\ Place(K, Nth(m)) = m /\ Place(K, Nth(n)) = n
    BY <2>1, <1>5
  <2>3. Nth(m) \in Nat /\ Nth(n) \in Nat /\ m \in Nat /\ n \in Nat
    BY <2>1, <2>2, <1>2, <1>4
  <2>4. ~(Nth(n) <= Nth(m))
    BY <1>4, <1>9, <2>2, <2>3
  <2>5. Nth(m) < Nth(n)
    BY <2>3, <2>4
  <2> QED BY <1>6, <2>1, <2>2, <2>5
<1>10. \A n \in DOMAIN f : \E i \in K : f[n] = q[i]
  BY <1>5, <1>6
<1>11. \A i \in K : \E n \in DOMAIN f : f[n] = q[i]
  BY <1>4, <1>6, <1>8
<1> QED BY <1>7, <1>9, <1>10, <1>11 DEF f

\* The least-number principle.
LEMMA LeastNumber ==
  ASSUME NEW S \in SUBSET Nat, S # {}
  PROVE  \E x \in S : \A y \in S : x <= y
<1>1. \E x \in S : \A y \in S : ~(<<y, x>> \in OpToRel(<, Nat))
  BY NatLessThanWellFounded, WFMin
<1>2. PICK x \in S : \A y \in S : ~(<<y, x>> \in OpToRel(<, Nat))
  BY <1>1
<1>3. \A y \in S : ~(y < x)
  BY <1>2 DEF OpToRel
<1> QED
  BY <1>3

-----------------------------------------------------------------------------
(* Nobody acts after the batch *)

Places == {"new", "hook", "ask", "done", "gone"}

BatchTypeInv ==
  /\ prof \in Profiles
  /\ phase \in {"idle", "turn", "batch", "unwinding"}
  /\ calls \in Seq(Call) /\ st \in [1 .. Len(calls) -> Places]
  /\ cancelled \in SUBSET DOMAIN st

\* A call of a sequential batch starts when all before it are done.
InTurn(i) == Parallel \/ \A j \in 1 .. i - 1 : st[j] = "done"

\* No call can take a step any more.
Quiet(i) == Finished(i) \/ ~InTurn(i)

\* Cancelled tasks have not ended; once the batch is over, none goes on.
BatchInv ==
  /\ BatchTypeInv
  /\ \A i \in cancelled : ~Finished(i) /\ InTurn(i)
  /\ \A i \in DOMAIN st : st[i] # "new" => InTurn(i)
  /\ phase # "unwinding" => cancelled = {}
  /\ phase \in {"idle", "turn"} => \A i \in DOMAIN st : Quiet(i)
  /\ \A i \in DOMAIN st : st[i] = "ask" => calls[i].op = "on" /\ Offerable(prof, calls[i].arg)

LEMMA BatchInit == Init => BatchInv
<1> SUFFICES ASSUME Init PROVE BatchInv
  OBVIOUS
<1> DEFINE e == << >>
<1>1. /\ calls = e /\ st = e /\ e \in Seq(Call) /\ Len(e) = 0 /\ e \in [1 .. 0 -> Places]
      /\ DOMAIN e = {}
  BY DEF Init
<1> HIDE DEF e
<1>2. prof \in Profiles /\ phase = "idle" /\ cancelled = {}
  BY DEF Init
<1> QED BY <1>1, <1>2 DEF BatchInv, BatchTypeInv

\* Between batches no call takes a step.
LEMMA QuietBetween ==
  ASSUME BatchInv, phase \in {"idle", "turn"}, NEW i \in DOMAIN st
  PROVE  ~CallStep(i)
<1>1. cancelled = {} /\ Quiet(i)
  BY DEF BatchInv
<1>2. \A w \in {"new", "hook", "ask"} : ~Runnable(i, w)
  BY <1>1 DEF Quiet, InTurn, Finished, Runnable
<1> QED BY <1>1, <1>2 DEF CallStep, Begin, RaiseOut, Deny, UseTool, Deactivate, Activate, Accept,
                          Decline, StopCall, Swallow

\* What a step of a call does to the batch.
LEMMA CallMoves ==
  ASSUME BatchInv, NEW i \in DOMAIN st, CallStep(i)
  PROVE  /\ UNCHANGED <<prof, calls>>
         /\ st[i] \notin {"done", "gone"} /\ InTurn(i)
         /\ \/ /\ \E w \in {"hook", "ask", "done", "gone"} : st' = [st EXCEPT ![i] = w]
               /\ i \notin cancelled /\ UNCHANGED <<cancelled, phase>>
               /\ st'[i] = "ask" => calls[i].op = "on" /\ Offerable(prof, calls[i].arg)
            \/ /\ i \in cancelled /\ cancelled' = cancelled \ {i} /\ phase' = phase
               /\ st' = [st EXCEPT ![i] = "gone"]
            \/ /\ i \in cancelled /\ cancelled' = cancelled \ {i} /\ st' = st
               /\ phase' = IF Parallel THEN phase ELSE "batch"
<1>1. ASSUME NEW w \in {"hook", "ask", "done", "gone"}, NEW v \in {"new", "hook", "ask"},
             Runnable(i, v), Reach(i, w),
             w = "ask" => calls[i].op = "on" /\ Offerable(prof, calls[i].arg)
      PROVE  /\ UNCHANGED <<prof, calls, cancelled, phase>> /\ st[i] \notin {"done", "gone"}
             /\ InTurn(i) /\ st' = [st EXCEPT ![i] = w] /\ i \notin cancelled
             /\ st'[i] = "ask" => calls[i].op = "on" /\ Offerable(prof, calls[i].arg)
  BY <1>1 DEF Runnable, Reach, InTurn
<1>2. CASE Begin(i) \/ RaiseOut(i) \/ Deny(i) \/ UseTool(i) \/ Deactivate(i) \/ Accept(i) \/ Decline(i)
  <2>1. PICK w \in {"hook", "done", "gone"}, v \in {"new", "hook", "ask"} : Runnable(i, v) /\ Reach(i, w)
    BY <1>2 DEF Begin, RaiseOut, Deny, UseTool, Deactivate, Accept, Decline
  <2> QED BY <1>1, <2>1
<1>3. CASE Activate(i)
  <2>1. PICK w \in {"ask", "done"} : Reach(i, w) /\ (w = "ask" => Offerable(prof, calls[i].arg))
    BY <1>3 DEF Activate
  <2>2. Runnable(i, "hook") /\ calls[i].op = "on"
    BY <1>3 DEF Activate
  <2> QED BY <1>1, <2>1, <2>2
<1>4. CASE StopCall(i) \/ Swallow(i)
  BY <1>4 DEF StopCall, Swallow, BatchInv, Finished
<1> QED BY <1>2, <1>3, <1>4 DEF CallStep

LEMMA BatchCall ==
  ASSUME BatchInv, NEW i \in DOMAIN st, CallStep(i)
  PROVE  BatchInv'
<1>1. phase \in {"batch", "unwinding"}
  BY QuietBetween DEF BatchInv, BatchTypeInv
<1>2. /\ UNCHANGED <<prof, calls>> /\ st[i] \notin {"done", "gone"} /\ InTurn(i)
      /\ Parallel' = Parallel
  BY CallMoves DEF Parallel
<1>3. /\ calls \in Seq(Call) /\ st \in [1 .. Len(calls) -> Places] /\ DOMAIN st = 1 .. Len(calls)
      /\ cancelled \in SUBSET DOMAIN st /\ Len(calls) \in Nat
  BY DEF BatchInv, BatchTypeInv
<1>4. /\ st' \in [1 .. Len(calls) -> Places] /\ DOMAIN st' = DOMAIN st
      /\ \A j \in DOMAIN st : j # i => st'[j] = st[j]
      /\ st'[i] # "new" \/ st' = st
      /\ cancelled' \in SUBSET cancelled /\ phase' \in {"batch", "unwinding"}
      /\ st'[i] = "ask" => calls[i].op = "on" /\ Offerable(prof, calls[i].arg)
      /\ i \in cancelled => i \notin cancelled'
      /\ phase' = "batch" /\ phase # "batch" => ~Parallel /\ i \in cancelled /\ cancelled' = cancelled \ {i}
      /\ phase' # "batch" => phase = "unwinding"
  BY <1>1, <1>2, <1>3, CallMoves DEF Places, BatchInv
<1>5. \A j \in DOMAIN st : InTurn(j) => InTurn(j)'
  <2> SUFFICES ASSUME NEW j \in DOMAIN st, InTurn(j), ~Parallel, NEW k \in 1 .. j - 1
               PROVE  st'[k] = "done"
    BY <1>2 DEF InTurn
  <2>1. st[k] = "done" /\ k \in DOMAIN st
    BY <1>3 DEF InTurn
  <2> QED BY <1>2, <1>4, <2>1
<1>6. BatchTypeInv'
  BY <1>2, <1>3, <1>4 DEF BatchInv, BatchTypeInv
<1>7. \A j \in cancelled' : (~Finished(j))' /\ InTurn(j)'
  BY <1>3, <1>4, <1>5 DEF BatchInv, Finished
<1>8. \A j \in DOMAIN st' : st'[j] # "new" => InTurn(j)'
  BY <1>2, <1>4, <1>5 DEF BatchInv
<1>9. phase' # "unwinding" => cancelled' = {}
  <2> SUFFICES ASSUME phase' # "unwinding" PROVE cancelled' = {}
    OBVIOUS
  <2>1. phase' = "batch"
    BY <1>4
  <2>2. CASE phase = "batch"
    BY <1>4, <2>2 DEF BatchInv
  <2>3. CASE phase # "batch"
    <3>1. ~Parallel /\ i \in cancelled /\ cancelled' = cancelled \ {i}
      BY <1>4, <2>1, <2>3
    <3>2. ASSUME NEW j \in cancelled, j # i PROVE FALSE
      <4>1. ~Finished(j) /\ InTurn(j) /\ ~Finished(i) /\ InTurn(i)
        BY <3>1 DEF BatchInv
      <4>2. j \in 1 .. Len(calls) /\ i \in 1 .. Len(calls)
        BY <1>3
      <4>3. j \in 1 .. i - 1 \/ i \in 1 .. j - 1
        BY <1>3, <3>2, <4>2
      <4> QED BY <3>1, <4>1, <4>3 DEF InTurn, Finished
    <3> QED BY <3>1, <3>2
  <2> QED BY <2>2, <2>3
<1>10. \A j \in DOMAIN st' : st'[j] = "ask" => calls'[j].op = "on" /\ Offerable(prof', calls'[j].arg)
  BY <1>2, <1>4 DEF BatchInv
<1>11. phase' \notin {"idle", "turn"}
  BY <1>4
<1>12. (\A j \in DOMAIN st : st[j] = "ask" => calls[j].op = "on" /\ Offerable(prof, calls[j].arg))'
  BY <1>10 DEF Offerable, Effective
<1>13. (\A j \in cancelled : ~Finished(j) /\ InTurn(j))' /\ (\A j \in DOMAIN st : st[j] # "new" => InTurn(j))'
  BY <1>7, <1>8
<1> QED BY <1>6, <1>9, <1>11, <1>12, <1>13 DEF BatchInv

LEMMA BatchStep == BatchInv /\ [Next]_vars => BatchInv'
<1> SUFFICES ASSUME BatchInv, [Next]_vars PROVE BatchInv'
  OBVIOUS
<1>0. /\ calls \in Seq(Call) /\ st \in [1 .. Len(calls) -> Places] /\ DOMAIN st = 1 .. Len(calls)
      /\ cancelled \in SUBSET DOMAIN st /\ Len(calls) \in Nat /\ prof \in Profiles
  BY DEF BatchInv, BatchTypeInv
<1>1. ASSUME UNCHANGED <<prof, calls, st>>
      PROVE  /\ Parallel' = Parallel
             /\ \A i : InTurn(i)' = InTurn(i)
             /\ \A i : Finished(i)' = Finished(i)
             /\ \A i : Quiet(i)' = Quiet(i)
             /\ \A s : Offerable(prof, s)' = Offerable(prof, s)
  BY <1>1 DEF Parallel, InTurn, Finished, Quiet, Offerable, Effective
<1>2. CASE UNCHANGED vars
  <2>1. UNCHANGED <<prof, calls, st, cancelled, phase>>
    BY <1>2 DEF vars, batchVars
  <2> QED BY <1>1, <2>1 DEF BatchInv, BatchTypeInv
<1>3. CASE StartTurn \/ EndTurn \/ VoidTurn
  <2>1. UNCHANGED <<prof, calls, st, cancelled>> /\ phase \in {"idle", "turn"} /\ phase' \in {"idle", "turn"}
    BY <1>3 DEF StartTurn, EndTurn, VoidTurn, Rollback, batchVars
  <2> QED BY <1>1, <2>1 DEF BatchInv, BatchTypeInv
<1>4. CASE Dispatch
  <2>1. PICK n \in 1 .. MaxCalls : calls' \in [1 .. n -> Call]
    BY <1>4 DEF Dispatch
  <2>2. /\ st' = [i \in DOMAIN calls' |-> "new"] /\ cancelled' = {} /\ prof' = prof /\ phase' = "batch"
        /\ DOMAIN calls' = 1 .. n /\ n \in Nat
    BY <1>4, <2>1 DEF Dispatch
  <2>3. calls' \in Seq(Call) /\ Len(calls') = n
    BY <2>1, <2>2
  <2>4. BatchTypeInv'
    BY <1>0, <2>2, <2>3 DEF BatchTypeInv, Places
  <2>5. \A i \in DOMAIN st' : st'[i] = "new"
    BY <2>2
  <2> QED BY <2>2, <2>4, <2>5 DEF BatchInv
<1>5. CASE EndBatch
  <2>1. UNCHANGED <<prof, calls, st, cancelled>> /\ phase = "batch" /\ phase' = "turn"
    BY <1>5 DEF EndBatch, batchVars
  <2>2. \A i \in DOMAIN st : Quiet(i)
    BY <1>5 DEF EndBatch, Quiet, Finished
  <2> QED BY <1>1, <2>1, <2>2 DEF BatchInv, BatchTypeInv
<1>6. CASE StopBatch \/ Reap
  <2>1. UNCHANGED <<prof, calls, st>> /\ phase' = "unwinding"
    BY <1>6 DEF StopBatch, Reap
  <2>2. \A i \in cancelled' : i \in DOMAIN st /\ ~Finished(i) /\ InTurn(i)
    BY <1>6 DEF StopBatch, Reap, InTurn
  <2> QED BY <1>1, <2>1, <2>2 DEF BatchInv, BatchTypeInv
<1>7. CASE VoidBatch
  <2>1. UNCHANGED <<prof, calls, st, cancelled>> /\ phase = "unwinding" /\ phase' = "idle" /\ Unwound
    BY <1>7 DEF VoidBatch, Rollback, batchVars
  <2>2. CASE Parallel
    <3>1. \A i \in DOMAIN st : Finished(i)
      BY <2>1, <2>2 DEF Unwound
    <3>2. cancelled = {}
      BY <1>0, <3>1 DEF BatchInv
    <3> QED BY <1>1, <2>1, <3>1, <3>2 DEF BatchInv, BatchTypeInv, Quiet
  <2>3. CASE ~Parallel
    <3>1. PICK g \in DOMAIN st : st[g] = "gone"
      BY <2>1, <2>3 DEF Unwound
    <3>2. \A j \in 1 .. g - 1 : st[j] = "done"
      BY <2>3, <3>1 DEF BatchInv, InTurn
    <3>3. ASSUME NEW i \in DOMAIN st PROVE Quiet(i)
      <4>1. CASE i <= g
        <5>1. i = g \/ i \in 1 .. g - 1
          BY <1>0, <4>1
        <5> QED BY <3>1, <3>2, <5>1 DEF Quiet, Finished
      <4>2. CASE ~(i <= g)
        <5>1. g \in 1 .. i - 1
          BY <1>0, <4>2
        <5> QED BY <2>3, <3>1, <5>1 DEF Quiet, InTurn
      <4> QED BY <4>1, <4>2
    <3>4. cancelled = {}
      BY <1>0, <3>3 DEF BatchInv, Quiet
    <3> QED BY <1>1, <2>1, <3>3, <3>4 DEF BatchInv, BatchTypeInv
  <2> QED BY <2>2, <2>3
<1>8. CASE Restart
  <2> DEFINE e == << >>
  <2>1. /\ prof' \in Profiles /\ phase' = "idle" /\ cancelled' = {}
        /\ calls' = e /\ st' = e /\ e \in Seq(Call) /\ Len(e) = 0 /\ e \in [1 .. 0 -> Places]
        /\ DOMAIN e = {}
    BY <1>8 DEF Restart
  <2> HIDE DEF e
  <2> QED BY <2>1 DEF BatchInv, BatchTypeInv
<1> QED BY <1>2, <1>3, <1>4, <1>5, <1>6, <1>7, <1>8, BatchCall DEF Next

-----------------------------------------------------------------------------
(* What a restart would restore *)

IsState(x) == x.active \in Seq(Skills) /\ x.approved \in [Skills -> SUBSET Tools]

Holds(x, s) == \E i \in DOMAIN x.active : x.active[i] = s

\* What the record sv would bring back is in force in x.
Carries(p, x, sv) ==
  \A s \in Skills : Holds(sv, s) /\ Covered(p, sv, s) =>
    Holds(x, s) /\ Risky(p, s) \cap sv.approved[s] \subseteq x.approved[s]

\* In a profile that allows one skill: none, or one with its own approvals.
Single(p, x) ==
  \/ x.active = << >> /\ \A s \in Skills : x.approved[s] = {}
  \/ \E n \in Skills :
       /\ x.active = <<n>> /\ Offerable(p, n)
       /\ Risky(p, n) \subseteq x.approved[n] /\ x.approved[n] \subseteq p.risky
       /\ \A s \in Skills : s # n => x.approved[s] = {}

\* sv is a record of x.
Records(p, x, sv) ==
  IF p.concurrent THEN Carries(p, x, sv) ELSE Single(p, x) /\ Restored(p, sv) = x

SkillInv ==
  /\ IsState(State) /\ IsState(before) /\ IsState(ckpt) /\ IsState(saved) /\ IsState(base)
  /\ ~prof.concurrent => Single(prof, State)
  /\ phase \in {"idle", "turn"} => Records(prof, State, saved)
  /\ phase \in {"batch", "unwinding"} => Records(prof, before, saved)
  /\ phase # "idle" => Records(prof, ckpt, base)

\* What a filtered list holds.
LEMMA FilteredHolds ==
  ASSUME NEW q \in Seq(Skills), NEW K \in SUBSET DOMAIN q
  PROVE  /\ Subsequence(q, K) \in Seq(Skills)
         /\ \A s : (\E n \in DOMAIN Subsequence(q, K) : Subsequence(q, K)[n] = s)
                     <=> \E i \in K : q[i] = s
<1> DEFINE f == Subsequence(q, K)
<1>1. f \in Seq(Skills)
  BY Filtered
<1>2. \A n \in DOMAIN f : \E i \in K : f[n] = q[i]
  BY Filtered
<1>3. \A i \in K : \E n \in DOMAIN f : f[n] = q[i]
  BY Filtered
<1> HIDE DEF f
<1>4. \A s : (\E n \in DOMAIN f : f[n] = s) <=> \E i \in K : q[i] = s
  BY <1>2, <1>3
<1> QED BY <1>1, <1>4 DEF f

\* The only place of a list of one is kept, or nothing is.
LEMMA FilteredOne ==
  ASSUME NEW n \in Skills
  PROVE  /\ Subsequence(<<n>>, {1}) = <<n>>
         /\ Subsequence(<<n>>, {}) = << >>
<1>1. Cardinality({1}) = 1 /\ Cardinality({}) = 0
  BY FS_Singleton, FS_EmptySet
<1>2. {j \in {1} : j <= 1} = {1}
  OBVIOUS
<1>3. Place({1}, 1) = 1
  BY <1>1, <1>2 DEF Place
<1>4. (CHOOSE i \in {1} : Place({1}, i) = 1) = 1
  BY <1>3
<1>5. Subsequence(<<n>>, {1}) = [k \in 1 .. 1 |-> <<n>>[CHOOSE i \in {1} : Place({1}, i) = k]]
  BY <1>1 DEF Subsequence
<1>6. Subsequence(<<n>>, {1}) = [k \in 1 .. 1 |-> n]
  <2>1. \A k \in 1 .. 1 : <<n>>[CHOOSE i \in {1} : Place({1}, i) = k] = n
    <3> TAKE k \in 1 .. 1
    <3>1. k = 1
      OBVIOUS
    <3>2. (CHOOSE i \in {1} : Place({1}, i) = k) = 1
      BY <1>4, <3>1
    <3>3. <<n>>[1] = n
      OBVIOUS
    <3> QED BY <3>2, <3>3
  <2> QED BY <1>5, <2>1
<1>7. Subsequence(<<n>>, {}) = << >>
  BY <1>1 DEF Subsequence
<1> QED BY <1>6, <1>7

\* list.remove leaves a list of skills.
LEMMA RemovedIsList ==
  ASSUME NEW q \in Seq(Skills), NEW s
  PROVE  RemoveFirst(q, s) \in Seq(Skills)
<1> DEFINE Found == {i \in 1 .. Len(q) : q[i] = s}
<1>1. CASE Found = {}
  BY <1>1 DEF RemoveFirst
<1>2. CASE Found # {}
  <2>1. PICK m \in Found : \A j \in Found : m <= j
    <3>1. Found \in SUBSET Nat
      OBVIOUS
    <3> HIDE DEF Found
    <3> QED BY <1>2, <3>1, LeastNumber
  <2>2. Min(Found) \in Found
    BY <2>1 DEF Min
  <2>3. SelectInSeq(q, LAMBDA v : v = s) = Min(Found)
    BY <1>2 DEF SelectInSeq
  <2>4. RemoveFirst(q, s) = RemoveAt(q, Min(Found))
    BY <1>2, <2>3 DEF RemoveFirst
  <2>5. \A k \in 1 .. Len(q) : RemoveAt(q, k) \in Seq(Skills)
    BY DEF RemoveAt
  <2> QED BY <2>2, <2>4, <2>5
<1> QED BY <1>1, <1>2

LEMMA ProfileIs ==
  ASSUME NEW p \in Profiles
  PROVE  /\ p.risky \in SUBSET Tools /\ p.concurrent \in BOOLEAN
         /\ \A s : Risky(p, s) \subseteq p.risky /\ Risky(p, s) \in SUBSET Tools
BY ProfileAssumption DEF Profile, Risky

\* What from_profile makes of a record.
LEMMA RestoredIs ==
  ASSUME NEW p \in Profiles, NEW sv, IsState(sv)
  PROVE  /\ IsState(Restored(p, sv))
         /\ Restored(p, sv) = [active |-> Restored(p, sv).active, approved |-> Restored(p, sv).approved]
         /\ p.concurrent => \A s \in Skills :
              Holds(Restored(p, sv), s) <=> Holds(sv, s) /\ Covered(p, sv, s)
         /\ \A s \in Skills :
              Restored(p, sv).approved[s]
                = IF Holds(Restored(p, sv), s) THEN sv.approved[s] \cap p.risky ELSE {}
         /\ ~p.concurrent =>
              \/ /\ Restored(p, sv).active = << >>
                 /\ \A s \in Skills : ~(Holds(sv, s) /\ Covered(p, sv, s))
              \/ \E n \in Skills :
                   Restored(p, sv).active = <<n>> /\ Holds(sv, n) /\ Covered(p, sv, n)
<1> DEFINE K == {i \in DOMAIN sv.active : Covered(p, sv, sv.active[i])}
           names == StillCovered(p, sv)
           kept == IF p.concurrent \/ names = << >> THEN names ELSE <<Last(names)>>
           r == Restored(p, sv)
<1>1. /\ r.active = kept
      /\ r.approved = [s \in Skills |-> IF Contains(kept, s) THEN sv.approved[s] \cap p.risky ELSE {}]
      /\ r = [active |-> r.active, approved |-> r.approved]
  BY DEF Restored
<1>2. K \in SUBSET DOMAIN sv.active /\ sv.active \in Seq(Skills)
      /\ sv.approved \in [Skills -> SUBSET Tools]
  BY DEF IsState
<1>3. names = Subsequence(sv.active, K)
  BY DEF StillCovered
<1>4. \A i \in DOMAIN sv.active : i \in K <=> Covered(p, sv, sv.active[i])
  OBVIOUS
<1> HIDE DEF K
<1>5. /\ names \in Seq(Skills)
      /\ \A s : (\E n \in DOMAIN names : names[n] = s) <=> \E i \in K : sv.active[i] = s
  <2> DEFINE q == sv.active
  <2>1. q \in Seq(Skills) /\ K \in SUBSET DOMAIN q
    BY <1>2
  <2> HIDE DEF q
  <2>2. /\ Subsequence(q, K) \in Seq(Skills)
        /\ \A s : (\E n \in DOMAIN Subsequence(q, K) : Subsequence(q, K)[n] = s)
                     <=> \E i \in K : q[i] = s
    BY <2>1, FilteredHolds
  <2> QED BY <1>3, <2>2 DEF q
<1> HIDE DEF names
<1>6. \A s : (\E n \in DOMAIN names : names[n] = s) <=> Holds(sv, s) /\ Covered(p, sv, s)
  BY <1>2, <1>4, <1>5 DEF Holds
<1>7. names # << >> => Last(names) \in Skills /\ Holds(sv, Last(names)) /\ Covered(p, sv, Last(names))
  <2> SUFFICES ASSUME names # << >> PROVE Last(names) \in Skills /\ Holds(sv, Last(names)) /\ Covered(p, sv, Last(names))
    OBVIOUS
  <2>1. Len(names) \in DOMAIN names /\ Last(names) = names[Len(names)]
    BY <1>5 DEF Last
  <2> QED BY <1>5, <1>6, <2>1
<1>8. kept \in Seq(Skills)
  BY <1>5, <1>7
<1>9. \A s : Contains(kept, s) <=> Holds(r, s)
  BY <1>1, <1>8 DEF Contains, Holds
<1>10. p.concurrent \in BOOLEAN /\ p.risky \in SUBSET Tools
  BY ProfileIs
<1>11. r.approved \in [Skills -> SUBSET Tools]
  <2>1. \A s \in Skills : sv.approved[s] \cap p.risky \in SUBSET Tools
    BY <1>2, <1>10
  <2> HIDE DEF kept
  <2> QED BY <1>1, <2>1
<1>12. IsState(r)
  BY <1>1, <1>8, <1>11 DEF IsState
<1>13. ASSUME p.concurrent, NEW s \in Skills
       PROVE  Holds(r, s) <=> Holds(sv, s) /\ Covered(p, sv, s)
  <2>1. r.active = names
    BY <1>1, <1>13
  <2> QED BY <1>6, <2>1 DEF Holds
<1>14. \A s \in Skills : r.approved[s] = IF Holds(r, s) THEN sv.approved[s] \cap p.risky ELSE {}
  <2> HIDE DEF kept, r
  <2> QED BY <1>1, <1>9
<1>15. ~p.concurrent =>
         \/ r.active = << >> /\ \A s \in Skills : ~(Holds(sv, s) /\ Covered(p, sv, s))
         \/ \E n \in Skills : r.active = <<n>> /\ Holds(sv, n) /\ Covered(p, sv, n)
  <2>1. CASE names = << >>
    <3>1. \A s : ~\E n \in DOMAIN names : names[n] = s
      BY <2>1
    <3> QED BY <1>1, <1>6, <2>1, <3>1
  <2>2. CASE names # << >>
    BY <1>1, <1>7, <2>2
  <2> QED BY <2>1, <2>2
<1> HIDE DEF r, kept
<1> QED BY <1>1, <1>12, <1>13, <1>14, <1>15 DEF r

\* What is restored from a record is recorded by it.
LEMMA RestoredIsRecorded ==
  ASSUME NEW p \in Profiles, NEW sv, IsState(sv)
  PROVE  Records(p, Restored(p, sv), sv)
<1> DEFINE r == Restored(p, sv)
<1>1. /\ IsState(r)
      /\ p.concurrent => \A s \in Skills : Holds(r, s) <=> Holds(sv, s) /\ Covered(p, sv, s)
      /\ \A s \in Skills : r.approved[s] = IF Holds(r, s) THEN sv.approved[s] \cap p.risky ELSE {}
      /\ ~p.concurrent =>
           \/ r.active = << >>
           \/ \E n \in Skills : r.active = <<n>> /\ Covered(p, sv, n)
  BY RestoredIs
<1>2. sv.approved \in [Skills -> SUBSET Tools] /\ \A s : Risky(p, s) \subseteq p.risky
  BY ProfileIs DEF IsState
<1>3. CASE p.concurrent
  <2> HIDE DEF r
  <2>1. Carries(p, r, sv)
    BY <1>1, <1>2, <1>3 DEF Carries
  <2> QED BY <1>3, <2>1 DEF Records, r
<1>4. CASE ~p.concurrent
  <2> HIDE DEF r
  <2>1. CASE r.active = << >>
    <3>1. \A s : ~Holds(r, s)
      BY <2>1 DEF Holds
    <3> QED BY <1>1, <1>4, <2>1, <3>1 DEF Records, Single, r
  <2>2. ASSUME NEW n \in Skills, r.active = <<n>>, Covered(p, sv, n) PROVE Records(p, r, sv)
    <3>1. \A s : Holds(r, s) <=> s = n
      BY <2>2 DEF Holds
    <3>2. r.approved[n] = sv.approved[n] \cap p.risky /\ \A s \in Skills : s # n => r.approved[s] = {}
      BY <1>1, <3>1
    <3>3. Offerable(p, n) /\ Risky(p, n) \subseteq r.approved[n] /\ r.approved[n] \subseteq p.risky
      BY <2>2, <3>2 DEF Covered
    <3>4. Single(p, r)
      BY <2>2, <3>2, <3>3 DEF Single
    <3> QED BY <1>4, <3>4 DEF Records, r
  <2> QED BY <1>1, <1>4, <2>1, <2>2 DEF r
<1> QED BY <1>3, <1>4

\* dict.fromkeys keeps what is there.
LEMMA DistinctHolds ==
  ASSUME NEW q \in Seq(Skills)
  PROVE  /\ Distinct(q) \in Seq(Skills)
         /\ \A s : (\E i \in DOMAIN Distinct(q) : Distinct(q)[i] = s) => Contains(q, s)
<1> DEFINE K == {i \in DOMAIN q : \A j \in 1 .. i - 1 : q[j] # q[i]}
<1>1. K \in SUBSET DOMAIN q /\ Distinct(q) = Subsequence(q, K)
  BY DEF Distinct
<1> HIDE DEF K
<1>2. /\ Subsequence(q, K) \in Seq(Skills)
      /\ \A s : (\E n \in DOMAIN Subsequence(q, K) : Subsequence(q, K)[n] = s) <=> \E i \in K : q[i] = s
  BY <1>1, FilteredHolds
<1>3. \A s : (\E i \in K : q[i] = s) => Contains(q, s)
  BY <1>1 DEF Contains
<1> QED BY <1>1, <1>2, <1>3

\* What is saved after a batch records what is in force.
LEMMA PayloadRecords ==
  ASSUME prof \in Profiles, IsState(State), ~prof.concurrent => Single(prof, State)
  PROVE  IsState(Payload) /\ Records(prof, State, Payload)
<1> DEFINE p == Payload
<1>1. /\ p.active = Distinct(active)
      /\ p.approved = [s \in Skills |-> IF Contains(active, s) THEN approved[s] ELSE {}]
  BY DEF Payload
<1>2. /\ active \in Seq(Skills) /\ approved \in [Skills -> SUBSET Tools]
      /\ State.active = active /\ State.approved = approved
  BY DEF IsState, State
<1> HIDE DEF p
<1>3. IsState(p)
  <2>1. p.approved \in [Skills -> SUBSET Tools]
    BY <1>1, <1>2
  <2>2. p.active \in Seq(Skills)
    BY <1>1, <1>2, DistinctHolds
  <2> QED BY <2>1, <2>2 DEF IsState
<1>4. \A s : Holds(p, s) => Contains(active, s)
  BY <1>1, <1>2, DistinctHolds DEF Holds
<1>5. \A s : Contains(active, s) => Holds(State, s)
  BY <1>2 DEF Contains, Holds
<1>6. \A s \in Skills : p.approved[s] = IF Contains(active, s) THEN approved[s] ELSE {}
  BY <1>1
<1>7. CASE prof.concurrent
  <2>1. Carries(prof, State, p)
    BY <1>2, <1>4, <1>5, <1>6 DEF Carries
  <2> QED BY <1>3, <1>7, <2>1 DEF Records, p
<1>8. CASE ~prof.concurrent
  <2> DEFINE r == Restored(prof, p)
  <2>1. /\ IsState(r) /\ r = [active |-> r.active, approved |-> r.approved]
        /\ \A s \in Skills : r.approved[s] = IF Holds(r, s) THEN p.approved[s] \cap prof.risky ELSE {}
        /\ \/ r.active = << >> /\ \A s \in Skills : ~(Holds(p, s) /\ Covered(prof, p, s))
           \/ \E n \in Skills : r.active = <<n>> /\ Holds(p, n) /\ Covered(prof, p, n)
    BY <1>3, <1>8, RestoredIs
  <2> HIDE DEF r
  <2>2. Single(prof, State)
    BY <1>8
  <2>3. r.active = active /\ (\A s \in Skills : r.approved[s] = approved[s]) => r = State
    <3> SUFFICES ASSUME r.active = active, \A s \in Skills : r.approved[s] = approved[s]
                 PROVE  r = State
      OBVIOUS
    <3>1. r.approved = approved
      BY <1>2, <2>1 DEF IsState
    <3> QED BY <2>1, <3>1 DEF State
  <2>4. CASE active = << >> /\ \A s \in Skills : approved[s] = {}
    <3>1. \A s : ~Contains(active, s)
      BY <2>4 DEF Contains
    <3>2. r.active = << >>
      BY <1>4, <2>1, <3>1
    <3>3. \A s : ~Holds(r, s)
      BY <3>2 DEF Holds
    <3> QED BY <1>3, <1>8, <2>1, <2>2, <2>3, <2>4, <3>2, <3>3 DEF Records, r, p
  <2>5. ASSUME NEW n \in Skills, active = <<n>>, Offerable(prof, n), Risky(prof, n) \subseteq approved[n],
               approved[n] \subseteq prof.risky, \A s \in Skills : s # n => approved[s] = {}
        PROVE  Records(prof, State, p)
    <3>1. \A s : Contains(active, s) <=> s = n
      BY <2>5 DEF Contains
    <3>2. p.approved[n] = approved[n]
      BY <1>6, <3>1
    <3>3. Covered(prof, p, n)
      BY <2>5, <3>2 DEF Covered
    <3>4. p.active = <<n>>
      <4>1. DOMAIN active = {1}
        BY <2>5
      <4>2. {i \in DOMAIN active : \A j \in 1 .. i - 1 : active[j] # active[i]} = {1}
        BY <4>1
      <4>3. Distinct(active) = Subsequence(active, {1})
        BY <4>2 DEF Distinct
      <4> QED BY <1>1, <2>5, <4>3, FilteredOne
    <3>5. Holds(p, n)
      BY <3>4 DEF Holds
    <3>6. r.active = <<n>>
      BY <1>4, <2>1, <3>1, <3>3, <3>5
    <3>7. \A s : Holds(r, s) <=> s = n
      BY <3>6 DEF Holds
    <3>8. \A s \in Skills : r.approved[s] = approved[s]
      BY <2>1, <2>5, <3>2, <3>7
    <3> QED BY <1>8, <2>2, <2>3, <2>5, <3>6, <3>8 DEF Records, r
  <2>6. \/ active = << >> /\ \A s \in Skills : approved[s] = {}
        \/ \E n \in Skills :
             /\ active = <<n>> /\ Offerable(prof, n) /\ Risky(prof, n) \subseteq approved[n]
             /\ approved[n] \subseteq prof.risky /\ \A s \in Skills : s # n => approved[s] = {}
    BY <1>2, <2>2 DEF Single
  <2> QED BY <1>3, <2>4, <2>5, <2>6 DEF p
<1> QED BY <1>7, <1>8

LEMMA SkillInit == Init => SkillInv
<1> SUFFICES ASSUME Init PROVE SkillInv
  OBVIOUS
<1> DEFINE e == << >>
           x == Nothing
<1>1. /\ x.active = e /\ x.approved = [s \in Skills |-> {}] /\ e \in Seq(Skills) /\ DOMAIN e = {}
      /\ x = [active |-> x.active, approved |-> x.approved]
  BY DEF Nothing
<1>2. /\ prof \in Profiles /\ phase = "idle" /\ active = e /\ approved = [s \in Skills |-> {}]
      /\ before = x /\ ckpt = x /\ saved = x /\ base = x
  BY DEF Init
<1> HIDE DEF x
<1>3. State = x
  BY <1>1, <1>2 DEF State
<1>4. Single(prof, x)
  BY <1>1 DEF Single
<1> HIDE DEF e
<1>5. IsState(x)
  <2>1. x.approved \in [Skills -> SUBSET Tools]
    BY <1>1
  <2> QED BY <1>1, <2>1 DEF IsState
<1>6. \A s : ~Holds(x, s)
  BY <1>1 DEF Holds
<1>7. Records(prof, x, x)
  <2>1. CASE prof.concurrent
    BY <1>6, <2>1 DEF Records, Carries
  <2>2. CASE ~prof.concurrent
    <3> DEFINE r == Restored(prof, x)
    <3>1. /\ IsState(r) /\ r = [active |-> r.active, approved |-> r.approved]
          /\ \A s \in Skills : r.approved[s] = IF Holds(r, s) THEN x.approved[s] \cap prof.risky ELSE {}
          /\ \/ r.active = << >>
             \/ \E n \in Skills : r.active = <<n>> /\ Holds(x, n)
      BY <1>2, <1>5, <2>2, RestoredIs
    <3> HIDE DEF r
    <3>2. r.active = x.active
      BY <1>1, <1>6, <3>1 DEF e
    <3>3. r.approved = x.approved
      <4>1. \A s \in Skills : r.approved[s] = {} /\ x.approved[s] = {}
        BY <1>1, <3>1
      <4> QED BY <1>1, <3>1, <4>1 DEF IsState
    <3> QED BY <1>1, <1>4, <2>2, <3>1, <3>2, <3>3 DEF Records, r
  <2> QED BY <2>1, <2>2
<1> QED BY <1>2, <1>3, <1>4, <1>5, <1>7 DEF SkillInv

\* Skills change, the records do not: a call of a batch.
Switches ==
  /\ IsState(State)' /\ (~prof.concurrent => Single(prof, State)')
  /\ UNCHANGED <<prof, before, ckpt, saved, base>>

LEMMA EngageSwitches ==
  ASSUME SkillInv, prof \in Profiles, NEW s \in Skills, Offerable(prof, s), Engage(s),
         UNCHANGED <<prof, before, ckpt, saved, base>>
  PROVE  Switches
<1>1. /\ active \in Seq(Skills) /\ approved \in [Skills -> SUBSET Tools]
      /\ Risky(prof, s) \in SUBSET Tools /\ Risky(prof, s) \subseteq prof.risky
  BY ProfileIs DEF SkillInv, IsState, State
<1>2. CASE prof.concurrent
  <2>1. /\ active' = Append(active, s)
        /\ approved' = [approved EXCEPT ![s] = Risky(prof, s)]
    BY <1>2 DEF Engage
  <2>2. active' \in Seq(Skills) /\ approved' \in [Skills -> SUBSET Tools]
    BY <1>1, <2>1
  <2> QED BY <1>2, <2>2 DEF Switches, IsState, State
<1>3. CASE ~prof.concurrent
  <2> DEFINE none == {}
  <2>1. /\ active' = <<s>>
        /\ approved' = [n \in Skills |-> IF n = s THEN Risky(prof, s) ELSE none]
    BY <1>3 DEF Engage
  <2>2. active' \in Seq(Skills) /\ approved' \in [Skills -> SUBSET Tools]
    BY <1>1, <2>1
  <2>3. approved'[s] = Risky(prof, s) /\ \A n \in Skills : n # s => approved'[n] = {}
    BY <2>1
  <2>4. Offerable(prof', s) /\ Risky(prof', s) = Risky(prof, s) /\ prof'.risky = prof.risky
    BY DEF Offerable, Effective, Risky
  <2>5. State' = [active |-> active', approved |-> approved']
    BY DEF State
  <2>6. Single(prof, State)'
    BY <1>1, <2>1, <2>3, <2>4, <2>5 DEF Single, Offerable, Effective, Risky
  <2> QED BY <2>2, <2>6 DEF Switches, IsState, State
<1> QED BY <1>2, <1>3

LEMMA CallSwitches ==
  ASSUME SkillInv, BatchInv, NEW i \in DOMAIN st, CallStep(i)
  PROVE  Switches
<1>1. UNCHANGED <<prof, before, ckpt, saved, base>> /\ prof \in Profiles
  BY DEF CallStep, Begin, RaiseOut, Deny, UseTool, Deactivate, Activate, Accept, Decline,
         StopCall, Swallow, Reach, durableVars, BatchInv, BatchTypeInv
<1>2. ASSUME UNCHANGED <<active, approved>> PROVE Switches
  BY <1>1, <1>2 DEF Switches, SkillInv, IsState, State, Single, Offerable, Effective, Risky
<1>3. CASE Begin(i) \/ RaiseOut(i) \/ Deny(i) \/ UseTool(i) \/ Decline(i) \/ StopCall(i) \/ Swallow(i)
  BY <1>2, <1>3 DEF Begin, RaiseOut, Deny, UseTool, Decline, StopCall, Swallow, skillVars
<1>4. i \in 1 .. Len(calls) /\ calls[i] \in Call
  BY DEF BatchInv, BatchTypeInv
<1>5. calls[i].op \in {"on", "off"} => calls[i].arg \in Skills
  BY <1>4 DEF Call
<1>6. CASE Activate(i)
  <2>1. calls[i].op = "on"
    BY <1>6 DEF Activate
  <2>2. \/ UNCHANGED <<active, approved>>
        \/ Offerable(prof, calls[i].arg) /\ Engage(calls[i].arg)
    BY <1>6 DEF Activate, skillVars
  <2> QED BY <1>1, <1>2, <1>5, <2>1, <2>2, EngageSwitches
<1>7. CASE Accept(i)
  <2>1. Engage(calls[i].arg) /\ st[i] = "ask"
    BY <1>7 DEF Accept, Runnable
  <2>2. calls[i].op = "on" /\ Offerable(prof, calls[i].arg)
    BY <2>1 DEF BatchInv
  <2> QED BY <1>1, <1>5, <2>1, <2>2, EngageSwitches
<1>8. CASE Deactivate(i)
  <2> DEFINE s == calls[i].arg
             none == {}
  <2>1. s \in Skills
    BY <1>5, <1>8 DEF Deactivate
  <2> HIDE DEF s
  <2>2. \/ UNCHANGED <<active, approved>>
        \/ /\ Contains(active, s) /\ active' = RemoveFirst(active, s)
           /\ approved' = [approved EXCEPT ![s] = none]
    BY <1>8 DEF Deactivate, skillVars, s
  <2>3. ASSUME Contains(active, s), active' = RemoveFirst(active, s),
               approved' = [approved EXCEPT ![s] = none]
        PROVE  Switches
    <3>1. active \in Seq(Skills) /\ approved \in [Skills -> SUBSET Tools]
      BY DEF SkillInv, IsState, State
    <3>2. active' \in Seq(Skills) /\ approved' \in [Skills -> SUBSET Tools]
      BY <3>1, <2>1, <2>3, RemovedIsList
    <3>3. approved'[s] = {} /\ \A n \in Skills : n # s => approved'[n] = approved[n]
      BY <2>1, <2>3, <3>1
    <3>4. ASSUME ~prof.concurrent PROVE Single(prof, State)'
      <4>1. Single(prof, State) /\ State.active = active /\ State.approved = approved
        BY <3>4 DEF SkillInv, State
      <4>2. CASE active = << >>
        BY <2>3, <4>2 DEF Contains
      <4>3. ASSUME NEW n \in Skills, active = <<n>>, \A t \in Skills : t # n => approved[t] = {}
            PROVE  Single(prof, State)'
        <5>1. n = s
          BY <2>3, <4>3 DEF Contains
        <5>2. active' = << >>
          BY <2>3, <4>3, RemoveFromOne DEF AtMostOne
        <5>3. \A t \in Skills : approved'[t] = {}
          BY <3>3, <4>3, <5>1
        <5> QED BY <5>2, <5>3 DEF Single, State
      <4> QED BY <4>1, <4>2, <4>3 DEF Single
    <3> QED BY <1>1, <3>2, <3>4 DEF Switches, IsState, State
  <2> QED BY <1>2, <2>2, <2>3
<1> QED BY <1>3, <1>6, <1>7, <1>8 DEF CallStep

LEMMA SkillStep == SkillInv /\ BatchInv /\ [Next]_vars => SkillInv'
<1> SUFFICES ASSUME SkillInv, BatchInv, [Next]_vars PROVE SkillInv'
  OBVIOUS
<1>0. prof \in Profiles /\ phase \in {"idle", "turn", "batch", "unwinding"}
  BY DEF BatchInv, BatchTypeInv
<1>1. UNCHANGED <<active, approved>> => State' = State
  BY DEF State
<1>2. CASE UNCHANGED vars
  <2>1. UNCHANGED <<prof, phase, active, approved, before, ckpt, saved, base>>
    BY <1>2 DEF vars, batchVars, skillVars, durableVars
  <2> QED BY <1>1, <2>1 DEF SkillInv
<1>3. CASE StartTurn
  <2>1. /\ UNCHANGED <<prof, active, approved, before, saved>> /\ phase = "idle" /\ phase' = "turn"
        /\ ckpt' = State /\ base' = saved
    BY <1>3 DEF StartTurn, batchVars, skillVars
  <2> QED BY <1>1, <2>1 DEF SkillInv
<1>4. CASE EndTurn
  <2>1. /\ UNCHANGED <<prof, active, approved, before, saved, ckpt, base>>
        /\ phase = "turn" /\ phase' = "idle"
    BY <1>4 DEF EndTurn, batchVars, skillVars, durableVars
  <2> QED BY <1>1, <2>1 DEF SkillInv
<1>5. CASE VoidTurn \/ VoidBatch
  <2>1. /\ UNCHANGED <<prof, before, ckpt, base>> /\ phase # "idle" /\ phase' = "idle"
        /\ active' = ckpt.active /\ approved' = ckpt.approved /\ saved' = base
    BY <1>5 DEF VoidTurn, VoidBatch, Rollback, batchVars
  <2>2. State' = [active |-> ckpt.active, approved |-> ckpt.approved]
    BY <2>1 DEF State
  <2>3. IsState(ckpt) /\ IsState(base) /\ Records(prof, ckpt, base)
    BY <2>1 DEF SkillInv
  <2>4. IsState(State') /\ Records(prof, State', base) /\ (~prof.concurrent => Single(prof, State'))
    <3>1. CASE prof.concurrent
      BY <2>2, <2>3, <3>1 DEF IsState, Records, Carries, Holds
    <3>2. CASE ~prof.concurrent
      <4>1. Single(prof, ckpt) /\ Restored(prof, base) = ckpt
        BY <2>3, <3>2 DEF Records
      <4>2. ckpt = [active |-> ckpt.active, approved |-> ckpt.approved]
        BY <1>0, <2>3, <4>1, RestoredIs
      <4> QED BY <2>2, <2>3, <3>2, <4>1, <4>2
    <3> QED BY <3>1, <3>2
  <2> QED BY <2>1, <2>3, <2>4 DEF SkillInv
<1>6. CASE Dispatch
  <2>1. /\ UNCHANGED <<prof, active, approved, ckpt, saved, base>>
        /\ phase = "turn" /\ phase' = "batch" /\ before' = State
    BY <1>6 DEF Dispatch, skillVars, durableVars, State
  <2> QED BY <1>1, <2>1 DEF SkillInv
<1>7. CASE EndBatch
  <2>1. /\ UNCHANGED <<prof, active, approved, before, ckpt, base>>
        /\ phase = "batch" /\ phase' = "turn"
        /\ saved' = IF State = before THEN saved ELSE Payload
    BY <1>7 DEF EndBatch, batchVars, skillVars
  <2>2. IsState(Payload) /\ Records(prof, State, Payload)
    BY <1>0, PayloadRecords DEF SkillInv
  <2>3. IsState(saved') /\ Records(prof, State, saved')
    <3>1. CASE State = before
      BY <2>1, <3>1 DEF SkillInv
    <3>2. CASE State # before
      BY <2>1, <2>2, <3>2
    <3> QED BY <3>1, <3>2
  <2> QED BY <1>1, <2>1, <2>3 DEF SkillInv
<1>8. CASE StopBatch \/ Reap
  <2>1. /\ UNCHANGED <<prof, active, approved, before, ckpt, saved, base>>
        /\ phase = "batch" /\ phase' = "unwinding"
    BY <1>8 DEF StopBatch, Reap, skillVars, durableVars
  <2> QED BY <1>1, <2>1 DEF SkillInv
<1>9. ASSUME NEW i \in DOMAIN st, CallStep(i) PROVE SkillInv'
  <2>1. Switches
    BY <1>9, CallSwitches
  <2>2. phase \in {"batch", "unwinding"} /\ phase' \in {"batch", "unwinding"}
    BY <1>0, <1>9, QuietBetween, CallMoves
  <2> QED BY <2>1, <2>2 DEF Switches, SkillInv
<1>10. CASE Restart
  <2>1. /\ UNCHANGED <<before, ckpt, saved, base>> /\ phase' = "idle" /\ prof' \in Profiles
        /\ active' = Restored(prof', saved).active /\ approved' = Restored(prof', saved).approved
    BY <1>10 DEF Restart, durableVars
  <2>2. IsState(saved)
    BY DEF SkillInv
  <2>3. IsState(Restored(prof', saved)) /\ State' = Restored(prof', saved)
    <3>1. State' = [active |-> active', approved |-> approved']
      BY DEF State
    <3> QED BY <2>1, <2>2, <3>1, RestoredIs
  <2>4. Records(prof', State', saved)
    BY <2>1, <2>2, <2>3, RestoredIsRecorded
  <2>5. ~prof'.concurrent => Single(prof', State')
    BY <2>4 DEF Records
  <2> QED BY <2>1, <2>3, <2>4, <2>5 DEF SkillInv
<1> QED BY <1>2, <1>3, <1>4, <1>5, <1>6, <1>7, <1>8, <1>9, <1>10 DEF Next

\* What a record restores grants no more than the state it records.
LEMMA DurableIs == SkillInv /\ BatchInv => SkillsAreDurable
<1> SUFFICES ASSUME SkillInv, BatchInv, phase = "idle"
             PROVE  /\ Grants(prof, Restored(prof, saved)) \subseteq Grants(prof, State)
                    /\ ~prof.concurrent => Restored(prof, saved) = State
  BY DEF SkillsAreDurable
<1> DEFINE r == Restored(prof, saved)
<1>1. /\ prof \in Profiles /\ IsState(saved) /\ IsState(State) /\ Records(prof, State, saved)
  BY DEF SkillInv, BatchInv, BatchTypeInv
<1>2. CASE ~prof.concurrent
  BY <1>1, <1>2 DEF Records
<1>3. CASE prof.concurrent
  <2>1. /\ IsState(r)
        /\ \A s \in Skills : Holds(r, s) <=> Holds(saved, s) /\ Covered(prof, saved, s)
        /\ \A s \in Skills : r.approved[s] = IF Holds(r, s) THEN saved.approved[s] \cap prof.risky ELSE {}
    BY <1>1, <1>3, RestoredIs
  <2> HIDE DEF r
  <2>2. ASSUME NEW s \in Skills, Holds(r, s)
        PROVE  Holds(State, s) /\ Risky(prof, s) \cap r.approved[s] \subseteq Risky(prof, s) \cap State.approved[s]
    BY <1>1, <1>3, <2>1, <2>2 DEF Records, Carries
  <2>3. \A s : (s \in ToSet(r.active) <=> Holds(r, s)) /\ (s \in ToSet(State.active) <=> Holds(State, s))
    BY DEF ToSet, Holds
  <2>4. Grants(prof, r) \subseteq Grants(prof, State)
    BY <2>2, <2>3 DEF Grants
  <2> QED BY <1>3, <2>4 DEF r
<1> QED BY <1>2, <1>3

\* A restart between turns restores what is in force and no more, and no call
\* of a stopped batch acts later (_rollback_turn, save_skill_state,
\* from_profile).
THEOREM SkillsEndure == Spec => []SkillsAreDurable
  BY BatchInit, BatchStep, SkillInit, SkillStep, DurableIs, PTL DEF Spec

\* A call uses what was offered with its request, skills outlive a turn only if
\* it was kept, and racing activations do not add up (_dispatch, skill.py).
THEOREM SkillsStaySound == Spec => SkillsAreSound
  BY SkillsEndure, OneSkill, OnlyOfferedIsUsed, PTL DEF SkillsAreSound

-----------------------------------------------------------------------------
(* A turn beside the other parts *)

\* Whatever part moves, the variables of a turn behave as a turn does.
LEMMA TurnMoves == MCSpec => Turn!Spec
<1>1. MCInit => Turn!Init
  BY DEF MCInit
<1>2. [MCNext]_allVars => [Turn!Next]_(Turn!vars)
  <2> SUFFICES ASSUME [MCNext]_allVars, turnVars' # turnVars PROVE Turn!Next
    BY DEF turnVars, Turn!vars, Turn!genVars, Turn!turnVars, Turn!statVars, Turn!workVars
  <2> QED BY DEF MCNext, allVars, turnVars
<1> QED BY <1>1, <1>2, PTL DEF MCSpec, Turn!Spec

\* A restart between turns resumes what the process held: memory, turn index
\* and side state follow from the rows (attach_session, _rollback_turn).
THEOREM TurnsReplay == MCSpec => []ReplayAgreement
<1>1. Turn!Spec => []Turn!ReplayAgreement
  BY TurnAssumption, Turn!ReplayAgrees DEF TurnAssumption, Turn!ReplayAgrees
<1> QED BY <1>1, TurnMoves, PTL DEF ReplayAgreement

\* Between turns the working set is the canonical suffix of the transcript, so
\* that compaction never finds a snapshot it may not save.
THEOREM TurnsAreSavable == MCSpec => []CompactionSavable
<1>1. Turn!Spec => []Turn!CompactionSavable
  BY TurnAssumption, Turn!WorkingSetIsSavable DEF TurnAssumption, Turn!WorkingSetIsSavable
<1> QED BY <1>1, TurnMoves, PTL DEF CompactionSavable

\* The agent implements Conversation: a turn is kept or voided as a whole.
THEOREM TurnsImplementConversation == MCSpec => TurnsAreAtomic
<1>1. Turn!Spec => Turn!TurnsAreAtomic
  BY TurnAssumption, Turn!TurnsHappenAtomically
     DEF TurnAssumption, Turn!TurnsHappenAtomically
<1> QED BY <1>1, TurnMoves DEF TurnsAreAtomic

-----------------------------------------------------------------------------
(* The knowledge index *)

\* A vector for each chunk of the text, made from that chunk.
SoundDoc(d) ==
  /\ d.text \in Texts
  /\ DOMAIN d.vecs = Pieces[d.text]
  /\ \A x \in DOMAIN d.vecs : d.vecs[x].of = x
SoundIndex(ix) == \A p \in Kn!Docs(ix) : SoundDoc(ix[p])

\* A holder of the lock is alone, a run that has loaded the index holds it or
\* has lost it, and one that lost it after its check is known to.
HolderInv ==
  /\ \A s, t \in knLock : s = t
  /\ \A s \in Procs : s \in Kn!Loaded => s \in knLock \cup knAdrift
  /\ \A s \in Procs : knPc[s] = "publishing" /\ s \in knAdrift => s \in knExposed

\* Until it publishes, what a run copied is the index.
CopyInv ==
  /\ SoundIndex(knIndex)
  /\ \A s \in Procs : SoundIndex(knCopy[s])
  /\ \A s \in Kn!Loaded \ (knAdrift \cup knExposed) : knCopy[s] = knIndex

TrueCitation(c, s) ==
  /\ c.file \in Texts /\ c.piece \in Pieces[c.file]
  /\ c.hybrid \/ (c.vec.id = Identity[s] /\ c.vec.of = c.piece)

KnInv ==
  /\ DOMAIN knPc = Procs /\ DOMAIN knCopy = Procs /\ DOMAIN knCited = Procs
  /\ HolderInv /\ CopyInv
  /\ \A s \in Procs : \A c \in knCited[s] : TrueCitation(c, s)

LEMMA EmptyIsSound == SoundIndex(Kn!Empty)
BY DEF SoundIndex, Kn!Empty, Kn!Docs

LEMMA KnInit == Kn!Init => KnInv
<1> SUFFICES ASSUME Kn!Init PROVE KnInv
  OBVIOUS
<1> USE DEF Kn!Init
<1>1. HolderInv
  BY DEF HolderInv, Kn!Loaded
<1>2. CopyInv
  BY EmptyIsSound DEF CopyInv, Kn!Loaded
<1> QED BY <1>1, <1>2 DEF KnInv

\* What a chunk of a sound index is.
LEMMA ChunksAreSound ==
  ASSUME NEW ix, SoundIndex(ix), NEW c \in Kn!Chunks(ix)
  PROVE  /\ c.path \in Kn!Docs(ix) /\ ix[c.path].text \in Texts
         /\ c.piece \in Pieces[ix[c.path].text] /\ c.vec.of = c.piece
<1>1. PICK p \in Kn!Docs(ix) : \E x \in DOMAIN ix[p].vecs :
        c = [path |-> p, piece |-> x, vec |-> ix[p].vecs[x]]
  BY DEF Kn!Chunks
<1> QED BY <1>1 DEF SoundIndex, SoundDoc

LEMMA OwnedIsSound ==
  ASSUME NEW ix, SoundIndex(ix), NEW fs, NEW p \in Paths, NEW s,
         NEW x \in Pieces[fs[p].text], NEW v \in Kn!Owned(ix, fs, p, x, s)
  PROVE  v.of = x
<1>1. CASE Kn!Changed(ix, fs, p, s)
  <2>1. PICK c \in Kn!Chunks(ix) : c.piece = x /\ v = c.vec
    BY <1>1 DEF Kn!Owned, Kn!Reusable
  <2> QED BY <2>1, ChunksAreSound
<1>2. CASE ~Kn!Changed(ix, fs, p, s)
  <2>1. p \in Kn!Docs(ix) /\ ix[p].text = fs[p].text
    BY <1>2 DEF Kn!Changed, Kn!Docs
  <2>2. x \in DOMAIN ix[p].vecs /\ ix[p].vecs[x].of = x
    BY <2>1 DEF SoundIndex, SoundDoc
  <2> QED BY <1>2, <2>2 DEF Kn!Owned, Kn!Kept
<1> QED BY <1>1, <1>2

\* What is published is sound.
LEMMA RebuiltIsSound ==
  ASSUME NEW s \in Procs, SoundIndex(knCopy[s])
  PROVE  SoundIndex(Kn!Rebuilt(s))
<1> SUFFICES ASSUME NEW p \in Kn!Docs(Kn!Rebuilt(s)) PROVE SoundDoc(Kn!Rebuilt(s)[p])
  BY DEF SoundIndex
<1>1. p \in Paths /\ Kn!Rebuilt(s)[p] # Kn!NoDoc
  BY DEF Kn!Docs
<1>2. CASE p \in Kn!Selected(s)
  <2> DEFINE f == knSnaps[s][p]
             O(x) == Kn!Owned(knCopy[s], knSnaps[s], p, x, s)
             V == [x \in Pieces[f.text] |-> IF O(x) = {} THEN Kn!Encoded(x, s)
                                            ELSE CHOOSE v \in O(x) : TRUE]
  <2>1. Kn!Rebuilt(s)[p] = Kn!Document(s, p)
    BY <1>1, <1>2 DEF Kn!Rebuilt
  <2>2. Kn!Document(s, p).text = f.text /\ Kn!Document(s, p).vecs = V
    BY DEF Kn!Document
  <2>3. f.text \in Texts
    BY <1>2 DEF Kn!Selected, Kn!Readable
  <2>4. \A x \in Pieces[f.text] : V[x].of = x
    <3> SUFFICES ASSUME NEW x \in Pieces[f.text] PROVE V[x].of = x
      OBVIOUS
    <3>1. CASE O(x) = {}
      BY <3>1 DEF Kn!Encoded
    <3>2. CASE O(x) # {}
      <4>1. V[x] \in O(x)
        <5> HIDE DEF O
        <5> QED BY <3>2
      <4> QED BY <1>1, <4>1, OwnedIsSound
    <3> QED BY <3>1, <3>2
  <2>5. DOMAIN V = Pieces[f.text]
    OBVIOUS
  <2> HIDE DEF V
  <2> QED BY <2>1, <2>2, <2>3, <2>4, <2>5 DEF SoundDoc
<1>3. CASE p \notin Kn!Selected(s)
  <2>1. Kn!Rebuilt(s)[p] = knCopy[s][p]
    BY <1>1, <1>3 DEF Kn!Rebuilt
  <2> QED BY <1>1, <2>1 DEF SoundIndex, Kn!Docs
<1> QED BY <1>2, <1>3

\* A hit is in the file the query read.
LEMMA HitsAreTrue ==
  ASSUME NEW s \in Procs, SoundIndex(knCopy[s]), NEW hybrid, NEW c \in Kn!Hits(s, hybrid)
  PROVE  /\ knSnaps[s][c.path].text \in Texts /\ c.piece \in Pieces[knSnaps[s][c.path].text]
         /\ hybrid \/ (c.vec.id = Identity[s] /\ c.vec.of = c.piece)
<1>1. c \in Kn!Chunks(knCopy[s]) /\ c.path \notin Kn!Stale(knCopy[s], knSnaps[s], s)
      /\ (hybrid \/ c.vec.id = Identity[s])
  BY DEF Kn!Hits
<1>2. c.path \in Kn!Docs(knCopy[s]) /\ c.vec.of = c.piece
      /\ knCopy[s][c.path].text \in Texts /\ c.piece \in Pieces[knCopy[s][c.path].text]
  BY <1>1, ChunksAreSound
<1>3. knCopy[s][c.path].text = knSnaps[s][c.path].text
  BY <1>1, <1>2 DEF Kn!Stale
<1> QED BY <1>1, <1>2, <1>3

\* The end of a call, whatever it published.
LEMMA KnCloseKeeps ==
  ASSUME KnInv, NEW s \in Procs, Kn!Close(s), knCited' = knCited,
         \/ knIndex' = knIndex /\ knExposed' = knExposed \ {s}
         \/ /\ knPc[s] = "publishing" /\ SoundIndex(knIndex')
            /\ knExposed' = (IF s \in knExposed THEN Kn!Loaded ELSE knExposed) \ {s}
  PROVE  KnInv'
<1> USE DEF KnInv
<1>1. /\ DOMAIN knPc' = Procs /\ DOMAIN knCopy' = Procs
      /\ \A t \in Procs : knPc'[t] = (IF t = s THEN "idle" ELSE knPc[t])
                          /\ knCopy'[t] = IF t = s THEN Kn!Empty ELSE knCopy[t]
      /\ knLock' = knLock \ {s} /\ knAdrift' = knAdrift \ {s}
  BY DEF Kn!Close
<1>2. /\ Kn!Loaded' = Kn!Loaded \ {s} /\ Kn!Loaded \subseteq Procs
      /\ knExposed \ {s} \subseteq knExposed' \/ knExposed' = Kn!Loaded \ {s}
  BY <1>1 DEF Kn!Loaded
<1>3. HolderInv'
  <2>1. ASSUME NEW t \in Procs, knPc'[t] = "publishing", t \in knAdrift'
        PROVE  t \in knExposed'
    <3>1. t # s /\ knPc[t] = "publishing" /\ t \in knExposed /\ t \in Kn!Loaded
      BY <1>1, <2>1 DEF HolderInv, Kn!Loaded
    <3> QED BY <1>2, <3>1
  <2> QED BY <1>1, <1>2, <2>1 DEF HolderInv
<1>4. CopyInv'
  <2>1. SoundIndex(knIndex')
    BY DEF CopyInv
  <2>2. \A t \in Procs : SoundIndex(knCopy'[t])
    BY <1>1, EmptyIsSound DEF CopyInv
  <2>3. ASSUME NEW t \in Kn!Loaded', t \notin knAdrift', t \notin knExposed'
        PROVE  knCopy'[t] = knIndex'
    <3>1. t # s /\ t \in Kn!Loaded /\ t \notin knAdrift /\ t \notin knExposed
          /\ knCopy'[t] = knCopy[t]
      BY <1>1, <1>2, <2>3
    <3>2. CASE knPc[s] = "publishing" /\ s \notin knExposed
      <4>1. s \in knLock /\ t \in knLock
        BY <1>2, <3>1, <3>2 DEF HolderInv, Kn!Loaded
      <4> QED BY <3>1, <4>1 DEF HolderInv
    <3>3. CASE knPc[s] = "publishing" /\ s \in knExposed /\ knIndex' # knIndex
      BY <1>2, <2>3, <3>1, <3>3
    <3>4. CASE knIndex' = knIndex
      BY <3>1, <3>4 DEF CopyInv
    <3> QED BY <3>2, <3>3, <3>4
  <2> QED BY <2>1, <2>2, <2>3 DEF CopyInv
<1> QED BY <1>1, <1>3, <1>4

LEMMA KnWriteKeeps == ASSUME KnInv, NEW p \in Paths, Kn!Write(p) PROVE KnInv'
BY DEF KnInv, HolderInv, CopyInv, Kn!Write, Kn!Loaded

LEMMA LoseLockKeeps == ASSUME KnInv, Kn!LoseLock PROVE KnInv'
BY DEF KnInv, HolderInv, CopyInv, Kn!LoseLock, Kn!Loaded

LEMMA BeginKeeps == ASSUME KnInv, NEW s \in Procs, NEW paths, Kn!Begin(s, paths) PROVE KnInv'
<1> USE DEF KnInv
<1>1. /\ DOMAIN knPc' = Procs /\ Kn!Loaded' = Kn!Loaded
      /\ \A t \in Procs : knPc'[t] = "publishing" => knPc[t] = "publishing"
      /\ UNCHANGED <<knIndex, knLock, knAdrift, knExposed, knCopy, knCited>>
  BY DEF Kn!Begin, Kn!Loaded
<1> QED BY <1>1 DEF HolderInv, CopyInv

\* The lock file is there, so that the copy is still the index.
LEMMA CheckKeeps == ASSUME KnInv, NEW s \in Procs, Kn!Check(s) PROVE KnInv'
<1> USE DEF KnInv
<1>1. /\ DOMAIN knPc' = Procs /\ Kn!Loaded' = Kn!Loaded /\ s \notin knAdrift
      /\ \A t \in Procs : knPc'[t] = "publishing" => knPc[t] = "publishing" \/ t = s
      /\ UNCHANGED <<knIndex, knLock, knAdrift, knExposed, knCopy, knCited>>
  BY DEF Kn!Check, Kn!Loaded, Kn!Anchored
<1> QED BY <1>1 DEF HolderInv, CopyInv

\* The lock is free, so that nobody else is about to publish.
LEMMA LoadKeeps == ASSUME KnInv, NEW s \in Procs, Kn!Load(s) PROVE KnInv'
<1> USE DEF KnInv
<1>1. /\ DOMAIN knPc' = Procs /\ DOMAIN knCopy' = Procs
      /\ \A t \in Procs : knPc'[t] = (IF t = s THEN "embedding" ELSE knPc[t])
                          /\ knCopy'[t] = IF t = s THEN knIndex ELSE knCopy[t]
      /\ knLock = {} /\ knLock' = {s} /\ UNCHANGED <<knAdrift, knExposed, knIndex, knCited>>
      /\ Kn!Loaded' = Kn!Loaded \cup {s}
  BY DEF Kn!Load, Kn!Locks, Kn!Loaded
<1>2. HolderInv'
  BY <1>1 DEF HolderInv
<1>3. CopyInv'
  BY <1>1 DEF CopyInv, Kn!Loaded
<1> QED BY <1>1, <1>2, <1>3

LEMMA PublishKeeps == ASSUME KnInv, NEW s \in Procs, Kn!Publish(s) PROVE KnInv'
<1>1. SoundIndex(knIndex')
  BY RebuiltIsSound DEF Kn!Publish, KnInv, CopyInv
<1> QED BY <1>1, KnCloseKeeps DEF Kn!Publish

LEMMA AskKeeps == ASSUME KnInv, NEW s \in Procs, Kn!Ask(s) PROVE KnInv'
<1> USE DEF KnInv
<1>1. /\ DOMAIN knPc' = Procs /\ DOMAIN knCopy' = Procs /\ DOMAIN knCited' = Procs
      /\ \A t \in Procs : /\ knPc'[t] = (IF t = s THEN "asking" ELSE knPc[t])
                          /\ knCopy'[t] = (IF t = s THEN knIndex ELSE knCopy[t])
                          /\ knCited'[t] = IF t = s THEN {} ELSE knCited[t]
      /\ knPc[s] = "idle" /\ UNCHANGED <<knAdrift, knExposed, knIndex, knLock>>
  BY DEF Kn!Ask
<1>2. Kn!Loaded' = Kn!Loaded /\ s \notin Kn!Loaded
  BY <1>1 DEF Kn!Loaded
<1>3. HolderInv' /\ CopyInv'
  BY <1>1, <1>2 DEF HolderInv, CopyInv, Kn!Loaded
<1> QED BY <1>1, <1>3

\* Only what was read in the file is cited.
LEMMA AnswerKeeps == ASSUME KnInv, NEW s \in Procs, Kn!Answer(s) PROVE KnInv'
<1> USE DEF KnInv
<1>1. PICK hybrid \in BOOLEAN :
        knCited' = [knCited EXCEPT ![s] =
                   {[path |-> c.path, piece |-> c.piece, vec |-> c.vec, hybrid |-> hybrid,
                     file |-> knSnaps[s][c.path].text] : c \in Kn!Hits(s, hybrid)}]
  BY DEF Kn!Answer
<1>2. \A c \in knCited'[s] : TrueCitation(c, s)
  <2> SUFFICES ASSUME NEW d \in knCited'[s] PROVE TrueCitation(d, s)
    OBVIOUS
  <2>1. PICK c \in Kn!Hits(s, hybrid) :
          d = [path |-> c.path, piece |-> c.piece, vec |-> c.vec, hybrid |-> hybrid,
               file |-> knSnaps[s][c.path].text]
    BY <1>1
  <2> QED BY <2>1, HitsAreTrue DEF TrueCitation, CopyInv
<1>3. \A t \in Procs : t # s => knCited'[t] = knCited[t]
  BY <1>1
<1>4. DOMAIN knCited' = Procs
  BY <1>1
<1>5. (DOMAIN knPc = Procs /\ DOMAIN knCopy = Procs /\ HolderInv /\ CopyInv)'
  <2>1. Kn!Close(s) /\ knPc[s] = "asking" /\ UNCHANGED <<knIndex, knExposed>>
    BY DEF Kn!Answer
  <2>2. /\ DOMAIN knPc' = Procs /\ DOMAIN knCopy' = Procs
        /\ \A t \in Procs : knPc'[t] = (IF t = s THEN "idle" ELSE knPc[t])
                            /\ knCopy'[t] = IF t = s THEN Kn!Empty ELSE knCopy[t]
        /\ knLock' = knLock \ {s} /\ knAdrift' = knAdrift \ {s}
    BY <2>1 DEF Kn!Close
  <2>3. Kn!Loaded' = Kn!Loaded /\ s \notin Kn!Loaded /\ Kn!Loaded \subseteq Procs
    BY <2>1, <2>2 DEF Kn!Loaded
  <2>4. HolderInv'
    BY <2>1, <2>2, <2>3 DEF HolderInv
  <2>5. CopyInv'
    BY <2>1, <2>2, <2>3, EmptyIsSound DEF CopyInv
  <2> QED BY <2>2, <2>4, <2>5
<1> QED BY <1>2, <1>3, <1>4, <1>5

LEMMA KnStep == KnInv /\ [Kn!Next]_(Kn!vars) => KnInv'
<1> SUFFICES ASSUME KnInv, [Kn!Next]_(Kn!vars) PROVE KnInv'
  OBVIOUS
<1>1. CASE UNCHANGED Kn!vars
  BY <1>1 DEF Kn!vars, KnInv, HolderInv, CopyInv, Kn!Loaded
<1>2. ASSUME NEW s \in Procs, Kn!GiveUp(s) PROVE KnInv'
  BY <1>2, KnCloseKeeps DEF Kn!GiveUp
<1> QED BY <1>1, <1>2, KnWriteKeeps, LoseLockKeeps, BeginKeeps, LoadKeeps, CheckKeeps,
           PublishKeeps, AskKeeps, AnswerKeeps DEF Kn!Next

LEMMA KnSound == KnInv => Kn!AnswersAreTrue
<1> SUFFICES ASSUME KnInv PROVE Kn!AnswersAreTrue
  OBVIOUS
<1>1. Kn!CitationsWereTrue
  BY DEF KnInv, TrueCitation, Kn!CitationsWereTrue
<1>2. Kn!VectorsMatchTexts
  BY ChunksAreSound DEF KnInv, CopyInv, TrueCitation, Kn!VectorsMatchTexts
<1> QED BY <1>1, <1>2 DEF Kn!AnswersAreTrue

\* What was published while a run embedded is still there when it publishes.
KeepsTheRest(p) ==
  knIndex'[p] # knIndex[p] =>
    \E s \in Procs :
      /\ knPc[s] = "publishing" /\ knPc'[s] = "idle"
      /\ \/ p \in knWants[s] /\ \A q \in Paths \ knWants[s] : knIndex'[q] = knIndex[q]
         \/ s \in knExposed

LEMMA UpdateKeepsOthers == ASSUME KnInv, [Kn!Next]_(Kn!vars), NEW p \in Paths PROVE KeepsTheRest(p)
<1>1. CASE knIndex' = knIndex
  BY <1>1 DEF KeepsTheRest
<1>2. ASSUME NEW s \in Procs, Kn!Publish(s) PROVE KeepsTheRest(p)
  <2>1. knIndex' = Kn!Rebuilt(s) /\ knPc[s] = "publishing" /\ knPc'[s] = "idle"
    BY <1>2 DEF Kn!Publish, Kn!Close, KnInv
  <2>2. CASE s \in knExposed
    BY <2>1, <2>2 DEF KeepsTheRest
  <2>3. CASE s \notin knExposed
    <3>1. knCopy[s] = knIndex
      BY <2>1, <2>3 DEF KnInv, HolderInv, CopyInv, Kn!Loaded
    <3>2. \A q \in Paths \ knWants[s] : knIndex'[q] = knIndex[q]
      BY <2>1, <3>1 DEF Kn!Rebuilt, Kn!Selected
    <3> QED BY <2>1, <3>2 DEF KeepsTheRest
  <2> QED BY <2>2, <2>3
<1>3. CASE UNCHANGED Kn!vars
  BY <1>1, <1>3 DEF Kn!vars
<1> QED BY <1>1, <1>2, <1>3 DEF Kn!Next, Kn!LoseLock, Kn!Write, Kn!Begin, Kn!Load, Kn!Check, Kn!GiveUp,
                              Kn!Ask, Kn!Answer

LEMMA KnMoves == [MCNext]_allVars => [Kn!Next]_(Kn!vars)
  BY DEF MCNext, allVars, knVars, Kn!vars

\* An answer cites what the files said when the query read them, and was found
\* with vectors of that text and that provider, though the index is older, the
\* provider was awaited in between and anybody edits, indexes or deletes lock
\* files (_query_index, _stale_state, reusable_by_hash).
THEOREM AnswersStayTrue == MCSpec => []AnswersAreTrue
<1>1. MCInit => KnInv
  BY KnInit DEF MCInit
<1>2. KnInv /\ [MCNext]_allVars => KnInv'
  BY KnMoves, KnStep
<1>3. KnInv => AnswersAreTrue
  BY KnSound DEF AnswersAreTrue
<1> QED BY <1>1, <1>2, <1>3, PTL DEF MCSpec

\* A published index takes nothing back that another process published while
\* the provider was awaited, with the lock file deleted or not - except by a run
\* whose lock file was deleted between its check and its rename, or one that had
\* loaded the index when such a run published (ensure_anchored, _save_index).
THEOREM UpdatesStay == MCSpec => UpdatesAreKept
<1>1. MCInit => KnInv
  BY KnInit DEF MCInit
<1>2. KnInv /\ [MCNext]_allVars => KnInv'
  BY KnMoves, KnStep
<1>3. KnInv /\ [MCNext]_allVars =>
        [\A p \in Paths : knIndex'[p] # knIndex[p] =>
           \E s \in Procs :
             /\ knPc[s] = "publishing" /\ knPc'[s] = "idle"
             /\ \/ p \in knWants[s] /\ \A q \in Paths \ knWants[s] : knIndex'[q] = knIndex[q]
                \/ s \in knExposed]_(Kn!vars)
  BY KnMoves, UpdateKeepsOthers DEF KeepsTheRest
<1> QED BY <1>1, <1>2, <1>3, PTL DEF MCSpec, UpdatesAreKept, Kn!UpdatesAreKept

-----------------------------------------------------------------------------
(* Sequences of sequences *)

\* What holds of 0 and with a number of the next holds of all of them.
LEMMA AllNumbers ==
  ASSUME NEW S \in SUBSET Nat, 0 \in S, \A n \in S : n + 1 \in S
  PROVE  \A n \in Nat : n \in S
<1> SUFFICES ASSUME Nat \ S # {} PROVE FALSE
  OBVIOUS
<1>1. PICK x \in Nat \ S : \A y \in Nat \ S : x <= y
  <2>1. Nat \ S \in SUBSET Nat
    OBVIOUS
  <2> QED BY <2>1, LeastNumber
<1>2. x # 0 /\ x - 1 \in Nat
  BY <1>1
<1>3. x - 1 \in S
  BY <1>1, <1>2
<1>4. x - 1 + 1 = x
  BY <1>1
<1> QED BY <1>1, <1>3, <1>4

\* The parts follow each other.
LEMMA FlattenedIs ==
  ASSUME NEW S, NEW s \in Seq(Seq(S))
  PROVE  /\ FlattenSeq(s) \in Seq(S)
         /\ \E off \in [0 .. Len(s) -> Nat] :
              /\ off[0] = 0 /\ off[Len(s)] = Len(FlattenSeq(s))
              /\ \A i \in 1 .. Len(s) : off[i] = off[i - 1] + Len(s[i])
              /\ \A i \in 1 .. Len(s) : \A k \in 1 .. Len(s[i]) :
                   FlattenSeq(s)[off[i - 1] + k] = s[i][k]
<1> DEFINE N == Len(s)
           Rec(f, n) == /\ f = [i \in 1 .. n |-> f[i]]
                        /\ \A i \in 1 .. n : f[i] = IF i = 1 THEN s[i] ELSE f[i - 1] \o s[i]
<1>1. N \in Nat /\ \A i \in 1 .. N : s[i] \in Seq(S)
  OBVIOUS
<1>2. \A n \in Nat : n <= N => \E f : Rec(f, n)
  <2> DEFINE T == {n \in Nat : n <= N => \E f : Rec(f, n)}
  <2>1. 0 \in T
    <3> DEFINE f == [i \in 1 .. 0 |-> 0]
    <3>1. f = [i \in 1 .. 0 |-> f[i]] /\ 1 .. 0 = {}
      OBVIOUS
    <3> HIDE DEF f
    <3> QED BY <3>1
  <2>2. ASSUME NEW n \in T PROVE n + 1 \in T
    <3> SUFFICES ASSUME n + 1 <= N PROVE \E f : Rec(f, n + 1)
      BY <2>2
    <3>1. n \in Nat /\ n <= N
      BY <1>1
    <3>2. PICK f : Rec(f, n)
      BY <3>1
    <3> DEFINE next == IF n + 1 = 1 THEN s[n + 1] ELSE f[n] \o s[n + 1]
               g == [i \in 1 .. n + 1 |-> IF i = n + 1 THEN next ELSE f[i]]
    <3>3. g = [i \in 1 .. n + 1 |-> g[i]]
      OBVIOUS
    <3>4. \A i \in 1 .. n : g[i] = f[i]
      BY <3>1
    <3>5. g[n + 1] = next
      BY <3>1
    <3> HIDE DEF g
    <3>6. \A i \in 1 .. n + 1 : g[i] = IF i = 1 THEN s[i] ELSE g[i - 1] \o s[i]
      <4> TAKE i \in 1 .. n + 1
      <4>1. CASE i = n + 1
        <5>0. n # 0 => n \in 1 .. n
          BY <3>1
        <5>1. n # 0 => g[n] = f[n]
          BY <3>4, <5>0
        <5>2. i - 1 = n
          BY <3>1, <4>1
        <5> QED BY <3>1, <3>5, <4>1, <5>1, <5>2
      <4>2. CASE i # n + 1
        <5>1. i \in 1 .. n /\ (i # 1 => i - 1 \in 1 .. n)
          BY <3>1, <4>2
        <5> QED BY <3>2, <3>4, <5>1
      <4> QED BY <4>1, <4>2
    <3> QED BY <3>3, <3>6
  <2> HIDE DEF T
  <2>3. \A n \in Nat : n \in T
    <3>1. T \in SUBSET Nat
      BY DEF T
    <3> QED BY <2>1, <2>2, <3>1, AllNumbers
  <2> QED BY <2>3 DEF T
<1>3. CASE N = 0
  <2>1. FlattenSeq(s) = s /\ s = << >>
    BY <1>3 DEF FlattenSeq
  <2> DEFINE off == [i \in 0 .. N |-> 0]
  <2>2. off \in [0 .. N -> Nat] /\ off[0] = 0 /\ off[N] = 0
    BY <1>3
  <2>3. Len(FlattenSeq(s)) = 0 /\ FlattenSeq(s) \in Seq(S)
    BY <2>1
  <2>4. 1 .. N = {}
    BY <1>3
  <2> HIDE DEF off, N
  <2> QED BY <2>2, <2>3, <2>4 DEF N
<1>4. CASE N # 0
  <2> DEFINE G == CHOOSE f : f = [i \in 1 .. N |-> IF i = 1 THEN s[i] ELSE f[i - 1] \o s[i]]
  <2>1. FlattenSeq(s) = G[N]
    BY <1>4 DEF FlattenSeq
  <2>2. Rec(G, N)
    <3>1. N <= N
      BY <1>1
    <3>2. PICK f : Rec(f, N)
      BY <1>1, <1>2, <3>1
    <3>3. \A h : h = [i \in 1 .. N |-> IF i = 1 THEN s[i] ELSE h[i - 1] \o s[i]] => Rec(h, N)
      <4> TAKE h
      <4> DEFINE R(i) == IF i = 1 THEN s[i] ELSE h[i - 1] \o s[i]
      <4> SUFFICES ASSUME h = [i \in 1 .. N |-> R(i)] PROVE Rec(h, N)
        OBVIOUS
      <4> HIDE DEF R
      <4>1. h = [i \in 1 .. N |-> h[i]] /\ \A i \in 1 .. N : h[i] = R(i)
        OBVIOUS
      <4> QED BY <4>1 DEF R
    <3>4. f = [i \in 1 .. N |-> IF i = 1 THEN s[i] ELSE f[i - 1] \o s[i]]
      <4> DEFINE R(i) == IF i = 1 THEN s[i] ELSE f[i - 1] \o s[i]
      <4>1. \A i \in 1 .. N : f[i] = R(i)
        BY <3>2
      <4>2. f = [i \in 1 .. N |-> f[i]]
        BY <3>2
      <4> HIDE DEF R
      <4>4. f = [i \in 1 .. N |-> R(i)]
        BY <4>1, <4>2
      <4> QED BY <4>4 DEF R
    <3> QED BY <3>3, <3>4
  <2> HIDE DEF G
  <2>3. /\ DOMAIN G = 1 .. N
        /\ G[1] = s[1] /\ \A j \in 1 .. N : j + 1 <= N => G[j + 1] = G[j] \o s[j + 1]
    <3>1. \A j \in 1 .. N : j + 1 <= N => j + 1 \in 1 .. N /\ j + 1 # 1 /\ j + 1 - 1 = j
      BY <1>1
    <3>2. 1 \in 1 .. N
      BY <1>1, <1>4
    <3>3. DOMAIN G = 1 .. N
      BY <2>2
    <3>4. \A i \in 1 .. N : G[i] = IF i = 1 THEN s[i] ELSE G[i - 1] \o s[i]
      BY <2>2
    <3>5. G[1] = s[1]
      BY <3>2, <3>4
    <3>6. ASSUME NEW j \in 1 .. N, j + 1 <= N PROVE G[j + 1] = G[j] \o s[j + 1]
      <4> DEFINE n == j + 1
      <4>1. n \in 1 .. N /\ n # 1 /\ n - 1 = j
        BY <3>1, <3>6
      <4>2. \A i \in 1 .. N : i # 1 => G[i] = G[i - 1] \o s[i]
        BY <3>4
      <4> HIDE DEF n
      <4>3. G[n] = G[n - 1] \o s[n]
        BY <4>1, <4>2
      <4> QED BY <4>1, <4>3 DEF n
    <3> QED BY <3>3, <3>5, <3>6
  <2> DEFINE Good(j) == /\ G[j] \in Seq(S)
                        /\ \A i \in 1 .. j : /\ Len(G[i]) \in Nat /\ Len(G[i]) <= Len(G[j])
                                             /\ \A k \in 1 .. Len(G[i]) : G[j][k] = G[i][k]
             T == {m \in Nat : m + 1 <= N => Good(m + 1)}
  <2>4. 0 \in T
    <3>1. s[1] \in Seq(S) /\ Len(s[1]) \in Nat
      BY <1>1, <1>4
    <3>2. \A i \in 1 .. 1 : i = 1
      OBVIOUS
    <3>3. Good(1)
      BY <2>3, <3>1, <3>2
    <3> QED BY <3>3
  <2>5. ASSUME NEW m \in T PROVE m + 1 \in T
    <3> DEFINE j == m + 1
    <3>0. m \in Nat /\ (m + 1 <= N => Good(m + 1))
      BY <2>5
    <3> SUFFICES ASSUME j + 1 <= N PROVE Good(j + 1)
      <4> HIDE DEF Good, N
      <4> QED BY <3>0
    <3>1. j \in Nat /\ j \in 1 .. N /\ j <= N /\ Good(j) /\ j + 1 \in 1 .. N
      BY <1>1, <3>0
    <3>2. G[j + 1] = G[j] \o s[j + 1]
      BY <2>3, <3>1
    <3>3. G[j] \in Seq(S) /\ s[j + 1] \in Seq(S)
      BY <1>1, <3>1
    <3> HIDE DEF j
    <3>4. /\ G[j + 1] \in Seq(S) /\ Len(G[j + 1]) = Len(G[j]) + Len(s[j + 1])
          /\ Len(G[j]) \in Nat /\ Len(s[j + 1]) \in Nat
          /\ \A k \in 1 .. Len(G[j]) : G[j + 1][k] = G[j][k]
      <4> DEFINE a == G[j]
                 b == s[j + 1]
      <4>1. a \in Seq(S) /\ b \in Seq(S) /\ G[j + 1] = a \o b
        BY <3>2, <3>3
      <4> HIDE DEF a, b
      <4>2. /\ a \o b \in Seq(S) /\ Len(a \o b) = Len(a) + Len(b)
            /\ Len(a) \in Nat /\ Len(b) \in Nat
            /\ \A k \in 1 .. Len(a) : (a \o b)[k] = a[k]
        BY <4>1
      <4> QED BY <4>1, <4>2 DEF a, b
    <3>5. ASSUME NEW i \in 1 .. j + 1
          PROVE  /\ Len(G[i]) \in Nat /\ Len(G[i]) <= Len(G[j + 1])
                 /\ \A k \in 1 .. Len(G[i]) : G[j + 1][k] = G[i][k]
      <4>1. CASE i = j + 1
        <5>1. Len(G[j + 1]) \in Nat /\ Len(G[j + 1]) <= Len(G[j + 1])
          <6> DEFINE y == Len(G[j])
                     z == Len(s[j + 1])
          <6>1. y \in Nat /\ z \in Nat /\ Len(G[j + 1]) = y + z
            BY <3>4
          <6> HIDE DEF y, z
          <6>2. y + z \in Nat /\ y + z <= y + z
            BY <6>1
          <6> QED BY <6>1, <6>2
        <5> QED BY <4>1, <5>1
      <4>2. CASE i # j + 1
        <5>1. i \in 1 .. j
          BY <3>1, <4>2
        <5>2. Len(G[i]) \in Nat /\ Len(G[i]) <= Len(G[j]) /\ \A k \in 1 .. Len(G[i]) : G[j][k] = G[i][k]
          BY <3>1, <5>1
        <5> HIDE DEF Good
        <5>3. \A k \in 1 .. Len(G[i]) : k \in 1 .. Len(G[j])
          BY <3>4, <5>2
        <5>4. Len(G[i]) <= Len(G[j + 1])
          <6> DEFINE x == Len(G[i])
                     y == Len(G[j])
                     z == Len(s[j + 1])
          <6>1. x \in Nat /\ x <= y
            BY <5>2
          <6>2. y \in Nat /\ z \in Nat /\ Len(G[j + 1]) = y + z
            BY <3>4
          <6> HIDE DEF x, y, z
          <6>3. x <= y + z
            BY <6>1, <6>2
          <6> QED BY <6>2, <6>3 DEF x
        <5> QED BY <3>4, <5>2, <5>3, <5>4
      <4> QED BY <4>1, <4>2
    <3> QED BY <3>4, <3>5
  <2>6. \A j \in 1 .. N : Good(j)
    <3> HIDE DEF Good
    <3>1. \A m \in Nat : m \in T
      <4>1. T \in SUBSET Nat
        OBVIOUS
      <4> HIDE DEF T
      <4> QED BY <2>4, <2>5, <4>1, AllNumbers
    <3> TAKE j \in 1 .. N
    <3>2. j - 1 \in Nat /\ j - 1 + 1 = j /\ j <= N
      BY <1>1
    <3>3. j - 1 \in T
      BY <3>1, <3>2
    <3> QED BY <3>2, <3>3
  <2> DEFINE off == [i \in 0 .. N |-> IF i = 0 THEN 0 ELSE Len(G[i])]
  <2>7. \A j \in 1 .. N : Len(G[j]) \in Nat /\ Len(s[j]) \in Nat /\ G[j] \in Seq(S)
    <3> TAKE j \in 1 .. N
    <3>1. G[j] \in Seq(S) /\ s[j] \in Seq(S)
      BY <1>1, <2>6
    <3> QED BY <3>1
  <2>8. /\ off \in [0 .. N -> Nat] /\ off[0] = 0
        /\ \A i \in 1 .. N : off[i] = Len(G[i])
    <3>1. \A i \in 1 .. N : i \in 0 .. N /\ i # 0
      BY <1>1
    <3>2. \A i \in 0 .. N : i = 0 \/ i \in 1 .. N
      BY <1>1
    <3>3. 0 \in 0 .. N
      BY <1>1
    <3> HIDE DEF N
    <3> QED BY <2>7, <3>1, <3>2, <3>3
  <2> HIDE DEF off
  <2>9. N \in 1 .. N
    BY <1>1, <1>4
  <2>10. ASSUME NEW i \in 1 .. N
         PROVE  /\ off[i] = off[i - 1] + Len(s[i])
                /\ \A k \in 1 .. Len(s[i]) : G[i][off[i - 1] + k] = s[i][k]
    <3>1. CASE i = 1
      <4>1. G[i] = s[i] /\ off[i - 1] = 0 /\ off[i] = Len(s[i])
        BY <2>3, <2>8, <3>1
      <4>2. \A k \in 1 .. Len(s[i]) : 0 + k = k
        BY <2>7
      <4> QED BY <2>7, <4>1, <4>2
    <3>2. CASE i # 1
      <4>1. i - 1 \in 1 .. N /\ i - 1 + 1 = i /\ i <= N
        BY <1>1, <3>2
      <4>2. G[i] = G[i - 1] \o s[i] /\ off[i - 1] = Len(G[i - 1])
        BY <2>3, <2>8, <4>1
      <4>3. G[i - 1] \in Seq(S) /\ s[i] \in Seq(S)
        BY <1>1, <2>7, <4>1
      <4>4. /\ Len(G[i]) = Len(G[i - 1]) + Len(s[i])
            /\ \A k \in 1 .. Len(s[i]) : G[i][Len(G[i - 1]) + k] = s[i][k]
        <5> DEFINE a == G[i - 1]
                   b == s[i]
        <5>1. a \in Seq(S) /\ b \in Seq(S) /\ G[i] = a \o b
          BY <4>2, <4>3
        <5> HIDE DEF a, b
        <5>2. Len(a \o b) = Len(a) + Len(b) /\ \A k \in 1 .. Len(b) : (a \o b)[Len(a) + k] = b[k]
          BY <5>1
        <5> QED BY <5>1, <5>2 DEF a, b
      <4> QED BY <2>8, <4>2, <4>4
    <3> QED BY <3>1, <3>2
  <2>11. ASSUME NEW i \in 1 .. N, NEW k \in 1 .. Len(s[i])
         PROVE  G[N][off[i - 1] + k] = s[i][k]
    <3>1. i \in 1 .. N /\ N \in 1 .. N /\ i - 1 \in 0 .. N
      BY <1>1, <2>9
    <3>2. off[i] = Len(G[i]) /\ off[i] = off[i - 1] + Len(s[i]) /\ off[i - 1] \in Nat
      BY <2>8, <2>10, <3>1
    <3>3. off[i - 1] + k \in 1 .. Len(G[i])
      BY <2>7, <3>2
    <3>4. \A m \in 1 .. Len(G[i]) : G[N][m] = G[i][m]
      BY <2>6, <2>9
    <3> QED BY <2>10, <3>3, <3>4
  <2>12. G[N] \in Seq(S) /\ off[N] = Len(G[N])
    BY <2>7, <2>8, <2>9
  <2> HIDE DEF N
  <2>13. /\ off \in [0 .. N -> Nat] /\ off[0] = 0 /\ off[N] = Len(FlattenSeq(s))
         /\ \A i \in 1 .. N : off[i] = off[i - 1] + Len(s[i])
         /\ \A i \in 1 .. N : \A k \in 1 .. Len(s[i]) :
              FlattenSeq(s)[off[i - 1] + k] = s[i][k]
    BY <2>1, <2>8, <2>10, <2>11, <2>12
  <2> QED BY <2>1, <2>12, <2>13 DEF N
<1> QED BY <1>3, <1>4

\* Places that follow each other: what they list and what lies between them.
LEMMA Steps ==
  ASSUME NEW N \in Nat, NEW p \in [1 .. N + 1 -> Nat], p[1] = 1,
         \A n \in 1 .. N : p[n] < p[n + 1],
         NEW K, K = {p[n] : n \in 1 .. N}
  PROVE  /\ \A n, m \in 1 .. N + 1 : n < m => p[n] < p[m]
         /\ \A i \in Nat : 1 <= i /\ i < p[N + 1] => \E n \in 1 .. N : p[n] <= i /\ i < p[n + 1]
         /\ K \in SUBSET Nat /\ IsFiniteSet(K)
         /\ InOrder(K) = [n \in 1 .. N |-> p[n]]
<1>1. /\ \A n \in 1 .. N : n + 1 \in 1 .. N + 1 /\ n \in 1 .. N + 1
      /\ \A n \in 1 .. N + 1 : p[n] \in Nat /\ n \in Nat
  OBVIOUS
<1>2. \A n, m \in 1 .. N + 1 : n < m => p[n] < p[m]
  <2> DEFINE T == {m \in Nat : m <= N => \A n \in 1 .. m : p[n] < p[m + 1]}
  <2>1. 0 \in T
    OBVIOUS
  <2>2. ASSUME NEW m \in T PROVE m + 1 \in T
    <3> SUFFICES ASSUME m + 1 <= N, NEW n \in 1 .. m + 1 PROVE p[n] < p[m + 1 + 1]
      BY <2>2
    <3>1. m + 1 \in 1 .. N /\ m <= N /\ m \in Nat
      OBVIOUS
    <3>2. p[m + 1] < p[m + 1 + 1] /\ p[m + 1] \in Nat /\ p[m + 1 + 1] \in Nat /\ p[n] \in Nat
      BY <1>1, <3>1
    <3>3. CASE n = m + 1
      BY <3>2, <3>3
    <3>4. CASE n # m + 1
      <4>1. n \in 1 .. m
        BY <3>1, <3>4
      <4>2. p[n] < p[m + 1]
        BY <3>1, <4>1
      <4> QED BY <3>2, <4>2
    <3> QED BY <3>3, <3>4
  <2>3. T \in SUBSET Nat
    OBVIOUS
  <2>4. \A m \in Nat : m \in T
    <3> HIDE DEF T
    <3> QED BY <2>1, <2>2, <2>3, AllNumbers
  <2> TAKE n, m \in 1 .. N + 1
  <2> SUFFICES ASSUME n < m PROVE p[n] < p[m]
    OBVIOUS
  <2>5. m - 1 \in Nat /\ m - 1 <= N /\ m - 1 + 1 = m /\ n \in 1 .. m - 1
    OBVIOUS
  <2> QED BY <2>4, <2>5
<1>3. \A i \in Nat : 1 <= i /\ i < p[N + 1] => \E n \in 1 .. N : p[n] <= i /\ i < p[n + 1]
  <2> DEFINE In(i, n) == p[n] <= i /\ i < p[n + 1]
             T == {m \in Nat : m <= N => \A i \in Nat : 1 <= i /\ i < p[m + 1] =>
                                           \E n \in 1 .. m : In(i, n)}
  <2>1. 0 \in T
    <3>1. \A i \in Nat : ~(1 <= i /\ i < p[0 + 1])
      OBVIOUS
    <3> QED BY <3>1
  <2>2. ASSUME NEW m \in T PROVE m + 1 \in T
    <3> SUFFICES ASSUME m + 1 <= N, NEW i \in Nat, 1 <= i, i < p[m + 1 + 1]
                 PROVE  \E n \in 1 .. m + 1 : In(i, n)
      BY <2>2
    <3>1. m + 1 \in 1 .. N /\ m <= N /\ m \in Nat /\ m + 1 \in 1 .. m + 1
      OBVIOUS
    <3>2. p[m + 1] \in Nat
      BY <1>1, <3>1
    <3>3. CASE i < p[m + 1]
      <4>1. PICK n \in 1 .. m : In(i, n)
        BY <3>1, <3>3
      <4>2. n \in 1 .. m + 1
        BY <3>1
      <4> QED BY <4>1, <4>2
    <3>4. CASE ~(i < p[m + 1])
      <4>1. In(i, m + 1)
        BY <3>2, <3>4
      <4> QED BY <3>1, <4>1
    <3> QED BY <3>3, <3>4
  <2>3. T \in SUBSET Nat
    OBVIOUS
  <2>4. N \in T
    <3> HIDE DEF T
    <3> QED BY <2>1, <2>2, <2>3, AllNumbers
  <2>5. N <= N
    OBVIOUS
  <2> QED BY <2>4, <2>5
<1>4. K \in SUBSET Nat
  BY <1>1
<1> DEFINE Upto(n) == {p[m] : m \in 1 .. n}
<1>5. ASSUME NEW n \in 0 .. N PROVE IsFiniteSet(Upto(n)) /\ Cardinality(Upto(n)) = n
  <2> DEFINE f == [m \in 1 .. n |-> p[m]]
  <2>1. \A m \in 1 .. n : m \in 1 .. N + 1 /\ m \in Nat
    OBVIOUS
  <2>2. \A m, k \in 1 .. n : f[m] = f[k] => m = k
    <3> TAKE m, k \in 1 .. n
    <3> SUFFICES ASSUME m # k PROVE p[m] # p[k]
      OBVIOUS
    <3>1. m < k \/ k < m
      OBVIOUS
    <3>2. p[m] \in Nat /\ p[k] \in Nat
      BY <1>1, <2>1
    <3> QED BY <1>2, <2>1, <3>1, <3>2
  <2>3. f \in [1 .. n -> Upto(n)] /\ \A x \in Upto(n) : \E m \in 1 .. n : f[m] = x
    OBVIOUS
  <2>4. ExistsBijection(1 .. n, Upto(n))
    <3> HIDE DEF f, Upto
    <3>1. f \in Bijection(1 .. n, Upto(n))
      BY <2>2, <2>3 DEF Bijection, Injection, Surjection, IsInjective
    <3> QED BY <3>1 DEF ExistsBijection
  <2> HIDE DEF Upto
  <2>5. Cardinality(Upto(n)) = n
    BY <2>4, FS_CountingElements
  <2>6. IsFiniteSet(1 .. n)
    BY FS_Interval
  <2> QED BY <2>4, <2>5, <2>6, FS_Bijection
<1>6. N \in 0 .. N /\ K = Upto(N)
  OBVIOUS
<1>7. IsFiniteSet(K) /\ Cardinality(K) = N
  <2> HIDE DEF Upto
  <2> QED BY <1>5, <1>6
<1>8. ASSUME NEW n \in 1 .. N PROVE Place(K, p[n]) = n
  <2>1. {j \in K : j <= p[n]} = Upto(n)
    <3>1. ASSUME NEW m \in 1 .. N PROVE p[m] <= p[n] <=> m <= n
      <4>1. m \in 1 .. N + 1 /\ n \in 1 .. N + 1 /\ p[m] \in Nat /\ p[n] \in Nat
        BY <1>1
      <4>2. (m < n => p[m] < p[n]) /\ (n < m => p[n] < p[m])
        BY <1>2, <4>1
      <4>3. m < n \/ m = n \/ n < m
        OBVIOUS
      <4>4. CASE m < n
        BY <4>1, <4>2, <4>4
      <4>5. CASE n < m
        BY <4>1, <4>2, <4>5
      <4>6. CASE m = n
        BY <4>1, <4>6
      <4> QED BY <4>3, <4>4, <4>5, <4>6
    <3>2. \A m : m \in 1 .. n <=> m \in 1 .. N /\ m <= n
      OBVIOUS
    <3> QED BY <3>1, <3>2
  <2>2. n \in 0 .. N
    OBVIOUS
  <2> HIDE DEF Upto
  <2> QED BY <1>5, <2>1, <2>2 DEF Place
<1>9. InOrder(K) = [n \in 1 .. N |-> p[n]]
  <2> DEFINE Nth(n) == CHOOSE i \in K : Place(K, i) = n
  <2>1. InOrder(K) = [n \in 1 .. N |-> Nth(n)]
    BY <1>7 DEF InOrder
  <2>2. ASSUME NEW n \in 1 .. N PROVE Nth(n) = p[n]
    <3>1. p[n] \in K /\ Place(K, p[n]) = n
      BY <1>8
    <3>2. \A i \in K : Place(K, i) = n => i = p[n]
      <4>1. SUFFICES ASSUME NEW i \in K, Place(K, i) = n PROVE i = p[n]
        OBVIOUS
      <4>2. PICK m \in 1 .. N : i = p[m]
        BY <1>4
      <4>3. Place(K, p[m]) = m
        BY <1>8
      <4> QED BY <4>1, <4>2, <4>3
    <3> QED BY <3>1, <3>2
  <2> HIDE DEF Nth
  <2> QED BY <2>1, <2>2
<1> QED BY <1>2, <1>3, <1>4, <1>7, <1>9

-----------------------------------------------------------------------------
(* The memory file *)

Entry == [key : Headings, body : Seq(TextLines)]
NoHeading(b) == \A i \in DOMAIN b : b[i] \notin Headings

\* The entries a file may hold.
EntryLists ==
  {E \in Seq(Entry) : /\ \A n, m \in DOMAIN E : E[n].key = E[m].key => n = m
                      /\ \A n \in DOMAIN E : NoHeading(E[n].body)}

LEMMA SameInMemory ==
  /\ \A K : Me!InOrder(K) = InOrder(K)
  /\ \A q, K : Me!Subsequence(q, K) = [n \in DOMAIN InOrder(K) |-> q[InOrder(K)[n]]]
  /\ \A s : Me!FlattenSeq(s) = FlattenSeq(s)
<1>0. \A S : Me!Cardinality(S) = Cardinality(S)
  BY DEF Me!Cardinality, Cardinality
<1>1. \A K, i : Me!Place(K, i) = Place(K, i)
  BY <1>0 DEF Me!Place, Place
<1>2. \A K : Me!InOrder(K) = InOrder(K)
  BY <1>0, <1>1 DEF Me!InOrder, InOrder
<1>3. \A s : Me!FlattenSeq(s) = FlattenSeq(s)
  BY DEF Me!FlattenSeq, FlattenSeq
<1>4. ASSUME NEW q, NEW K
      PROVE  Me!Subsequence(q, K) = [n \in DOMAIN InOrder(K) |-> q[InOrder(K)[n]]]
  <2> DEFINE nth(n) == CHOOSE i \in K : Place(K, i) = n
  <2>1. InOrder(K) = [n \in 1 .. Cardinality(K) |-> nth(n)]
    BY DEF InOrder
  <2> DEFINE mth(n) == CHOOSE i \in K : Me!Place(K, i) = n
  <2>2. Me!Subsequence(q, K) = [n \in 1 .. Cardinality(K) |-> q[mth(n)]]
    BY <1>0 DEF Me!Subsequence
  <2>3. \A n : mth(n) = nth(n)
    BY <1>1
  <2> HIDE DEF mth
  <2> HIDE DEF nth
  <2> QED BY <2>1, <2>2, <2>3
<1> QED BY <1>2, <1>3, <1>4

\* The places m to n of a sequence.
LEMMA SubSeqIs ==
  ASSUME NEW S, NEW f \in Seq(S), NEW m \in Nat, NEW n \in Nat,
         1 <= m, m <= n + 1, n <= Len(f)
  PROVE  /\ SubSeq(f, m, n) \in Seq(S) /\ Len(SubSeq(f, m, n)) = n + 1 - m
         /\ \A k \in 1 .. n + 1 - m : SubSeq(f, m, n)[k] = f[m - 1 + k]
<1>1. CASE m <= n
  <2>1. m \in 1 .. n + 1 /\ n + 1 - m \in Nat /\ n - m + 1 = n + 1 - m
    BY <1>1
  <2> QED BY <1>1, <2>1
<1>2. CASE m = n + 1
  <2>1. n + 1 - m = 0 /\ 1 .. 0 = {}
    BY <1>2
  <2> QED BY <1>2, <2>1
<1> QED BY <1>1, <1>2

\* A set of places, listed: each once.
LEMMA ListedOnce ==
  ASSUME NEW K \in SUBSET Nat, IsFiniteSet(K)
  PROVE  /\ InOrder(K) \in Seq(K)
         /\ \A n, m \in DOMAIN InOrder(K) : InOrder(K)[n] = InOrder(K)[m] => n = m
<1> DEFINE N == Cardinality(K)
           nth(n) == CHOOSE i \in K : Place(K, i) = n
<1>1. N \in Nat /\ \A n \in 1 .. N : \E i \in K : Place(K, i) = n
  BY PlacesNumber
<1>2. \A n \in 1 .. N : nth(n) \in K /\ Place(K, nth(n)) = n
  BY <1>1
<1>3. InOrder(K) = [n \in 1 .. N |-> nth(n)]
  BY DEF InOrder
<1> HIDE DEF N, nth
<1>4. \A n \in 1 .. N : InOrder(K)[n] = nth(n)
  BY <1>3
<1>5. DOMAIN InOrder(K) = 1 .. N
  BY <1>3
<1>6. InOrder(K) \in Seq(K)
  BY <1>1, <1>2, <1>3
<1>7. ASSUME NEW n \in 1 .. N, NEW m \in 1 .. N, nth(n) = nth(m) PROVE n = m
  BY <1>2, <1>7
<1> QED BY <1>4, <1>5, <1>6, <1>7

\* A heading stands at a line of the file.
LEMMA HeadsAre ==
  ASSUME NEW f \in Seq(TextLines)
  PROVE  /\ Me!Heads(f) \in SUBSET Nat /\ IsFiniteSet(Me!Heads(f))
         /\ Me!Heads(f) = {i \in 1 .. Len(f) : f[i] \in Headings}
<1>1. Len(f) \in Nat /\ DOMAIN f = 1 .. Len(f)
  OBVIOUS
<1>2. Me!Heads(f) = {i \in 1 .. Len(f) : f[i] \in Headings}
  BY <1>1 DEF Me!Heads
<1>3. IsFiniteSet(1 .. Len(f)) /\ Me!Heads(f) \in SUBSET (1 .. Len(f))
  BY <1>1, <1>2, FS_Interval
<1>4. IsFiniteSet(Me!Heads(f))
  BY <1>3, FS_Subset
<1> QED BY <1>1, <1>2, <1>3, <1>4

\* The body of an entry runs to the next heading or the end of the file.
LEMMA BodyIs ==
  ASSUME NEW f \in Seq(TextLines), NEW i \in Me!Heads(f)
  PROVE  /\ \E stop \in i + 1 .. Len(f) + 1 :
              /\ stop \in Me!Heads(f) \cup {Len(f) + 1}
              /\ \A k \in i + 1 .. stop - 1 : k \notin Me!Heads(f)
         /\ Me!Body(f, i) \in Seq(TextLines) /\ NoHeading(Me!Body(f, i))
<1> DEFINE N == Len(f)
           H == Me!Heads(f)
           Stop(j) == j \in H \cup {N + 1} /\ \A k \in i + 1 .. j - 1 : k \notin H
           stop == CHOOSE j \in i + 1 .. N + 1 : Stop(j)
<1>1. N \in Nat /\ i \in 1 .. N /\ H \in SUBSET (1 .. N) /\ \A k \in 1 .. N : f[k] \in TextLines
  BY HeadsAre
<1>2. \A k \in 1 .. N : f[k] \in Headings => k \in H
  BY HeadsAre
<1> HIDE DEF N, H
<1>3. \E j \in i + 1 .. N + 1 : Stop(j)
  <2> DEFINE S == {j \in i + 1 .. N + 1 : j \in H \cup {N + 1}}
  <2>1. S \in SUBSET Nat /\ N + 1 \in S
    BY <1>1
  <2>2. PICK x \in S : \A y \in S : x <= y
    BY <2>1, LeastNumber
  <2>3. \A k \in i + 1 .. x - 1 : k \notin H
    <3> TAKE k \in i + 1 .. x - 1
    <3> SUFFICES ASSUME k \in H PROVE FALSE
      OBVIOUS
    <3>1. k \in Nat /\ x \in i + 1 .. N + 1
      BY <1>1
    <3>2. k \in S
      BY <1>1, <3>1
    <3>3. x <= k
      BY <2>2, <3>2
    <3> QED BY <1>1, <3>1, <3>3
  <2> QED BY <2>2, <2>3
<1>4. stop \in i + 1 .. N + 1 /\ Stop(stop)
  BY <1>3
<1>5. Me!Body(f, i) = SubSeq(f, i + 1, stop - 1)
  BY DEF Me!Body, N, H
<1> HIDE DEF stop
<1> DEFINE b == SubSeq(f, i + 1, stop - 1)
<1>6. \A k \in i + 1 .. stop - 1 : k \in 1 .. N /\ f[k] \in TextLines /\ f[k] \notin Headings
  BY <1>1, <1>2, <1>4
<1>7. /\ b \in Seq(TextLines) /\ DOMAIN b = 1 .. stop - 1 - i
      /\ \A k \in 1 .. stop - 1 - i : b[k] = f[i + k]
  <2>1. /\ i + 1 \in Nat /\ stop - 1 \in Nat /\ 1 <= i + 1 /\ i + 1 <= stop - 1 + 1
        /\ stop - 1 <= Len(f) /\ stop - 1 + 1 - (i + 1) = stop - 1 - i
        /\ \A k \in 1 .. stop - 1 - i : i + 1 - 1 + k = i + k
    BY <1>1, <1>4 DEF N
  <2> DEFINE m == i + 1
             n == stop - 1
  <2>2. b \in Seq(TextLines) /\ Len(b) = stop - 1 - i /\ \A k \in 1 .. stop - 1 - i : b[k] = f[m - 1 + k]
    <3>1. m \in Nat /\ n \in Nat /\ 1 <= m /\ m <= n + 1 /\ n <= Len(f)
      BY <2>1
    <3>2. b = SubSeq(f, m, n)
      OBVIOUS
    <3>3. n + 1 - m = stop - 1 - i
      BY <2>1
    <3> HIDE DEF m, n, b
    <3>4. /\ b \in Seq(TextLines) /\ Len(b) = n + 1 - m
          /\ \A k \in 1 .. n + 1 - m : b[k] = f[m - 1 + k]
      BY <3>1, <3>2, SubSeqIs
    <3> QED BY <3>3, <3>4
  <2> HIDE DEF b
  <2>3. DOMAIN b = 1 .. stop - 1 - i
    BY <2>2
  <2>4. ASSUME NEW k \in 1 .. stop - 1 - i PROVE b[k] = f[i + k]
    <3>1. m - 1 + k = i + k
      BY <1>1, <1>4
    <3> HIDE DEF m
    <3>2. b[k] = f[m - 1 + k]
      BY <2>2
    <3> QED BY <3>1, <3>2
  <2> QED BY <2>2, <2>3, <2>4
<1>8. \A k \in 1 .. stop - 1 - i : i + k \in i + 1 .. stop - 1
  BY <1>1, <1>4
<1> HIDE DEF b
<1>9. NoHeading(b)
  BY <1>6, <1>7, <1>8 DEF NoHeading
<1> QED BY <1>3, <1>5, <1>7, <1>9 DEF N, H, b

\* Of the lines that hold a heading, one is the last.
LEMMA LastHeading ==
  ASSUME NEW f \in Seq(TextLines), NEW i \in Me!Heads(f)
  PROVE  \E x \in Me!Heads(f) : f[x] = f[i] /\ \A j \in Me!Heads(f) : f[j] = f[i] => j <= x
<1> DEFINE N == Len(f)
           H == Me!Heads(f)
           S == {N - j : j \in {j \in H : f[j] = f[i]}}
<1>1. N \in Nat /\ H \in SUBSET (1 .. N) /\ i \in H
  BY HeadsAre
<1> HIDE DEF N, H
<1>2. S \in SUBSET Nat /\ S # {}
  BY <1>1
<1>3. PICK m \in S : \A y \in S : m <= y
  BY <1>2, LeastNumber
<1>4. PICK x \in H : f[x] = f[i] /\ m = N - x
  OBVIOUS
<1>5. ASSUME NEW j \in H, f[j] = f[i] PROVE j <= x
  <2>1. N - j \in S
    BY <1>5
  <2>2. N - x <= N - j
    BY <1>3, <1>4, <2>1
  <2> QED BY <1>1, <2>2
<1> QED BY <1>4, <1>5 DEF H

\* What a file is read as: entries of distinct headings, their bodies plain.
LEMMA ParseIsSound ==
  ASSUME NEW f \in Seq(TextLines)
  PROVE  Me!Parse(f) \in EntryLists
<1> DEFINE H == Me!Heads(f)
           firsts == {i \in H : \A j \in H : f[j] = f[i] => i <= j}
           order == InOrder(firsts)
           final(k) == CHOOSE i \in H : f[i] = k /\ \A j \in H : f[j] = k => j <= i
           E == [n \in DOMAIN order |-> [key |-> f[order[n]], body |-> Me!Body(f, final(f[order[n]]))]]
<1>1. Me!Parse(f) = E
  <2>1. Me!InOrder(firsts) = order
    BY SameInMemory
  <2> QED BY <2>1 DEF Me!Parse
<1>2. H \in SUBSET Nat /\ IsFiniteSet(H) /\ \A i \in H : f[i] \in Headings
  BY HeadsAre
<1>3. firsts \in SUBSET Nat /\ IsFiniteSet(firsts)
  <2>1. firsts \in SUBSET H
    OBVIOUS
  <2> HIDE DEF firsts
  <2> QED BY <1>2, <2>1, FS_Subset
<1>4. order \in Seq(firsts) /\ \A n, m \in DOMAIN order : order[n] = order[m] => n = m
  <2> HIDE DEF firsts
  <2> QED BY <1>3, ListedOnce
<1>5. ASSUME NEW i \in H
      PROVE  Me!Body(f, final(f[i])) \in Seq(TextLines) /\ NoHeading(Me!Body(f, final(f[i])))
  <2>1. \E x \in H : f[x] = f[i] /\ \A j \in H : f[j] = f[i] => j <= x
    BY LastHeading
  <2>2. final(f[i]) \in H
    BY <2>1
  <2> HIDE DEF final
  <2> QED BY <2>2, BodyIs
<1> HIDE DEF H, order, final
<1>6. DOMAIN order = 1 .. Len(order) /\ Len(order) \in Nat /\ \A n \in DOMAIN order : order[n] \in firsts
  <2> HIDE DEF firsts
  <2> QED BY <1>4
<1>7. ASSUME NEW n \in DOMAIN order
      PROVE  E[n] \in Entry /\ E[n].key = f[order[n]] /\ NoHeading(E[n].body)
  <2>1. order[n] \in H
    BY <1>6
  <2>2. f[order[n]] \in Headings
    BY <1>2, <2>1
  <2> DEFINE b == Me!Body(f, final(f[order[n]]))
  <2>3. b \in Seq(TextLines) /\ NoHeading(b)
    BY <1>5, <2>1
  <2>4. E[n] = [key |-> f[order[n]], body |-> b]
    OBVIOUS
  <2> HIDE DEF b, E
  <2> QED BY <2>2, <2>3, <2>4 DEF Entry
<1>8. ASSUME NEW n \in DOMAIN order, NEW m \in DOMAIN order, f[order[n]] = f[order[m]]
      PROVE  n = m
  <2>1. order[n] \in firsts /\ order[m] \in firsts
    BY <1>6
  <2>2. order[n] <= order[m] /\ order[m] <= order[n] /\ order[n] \in Nat /\ order[m] \in Nat
    BY <1>2, <1>8, <2>1
  <2> QED BY <1>4, <2>2
<1>9. DOMAIN E = DOMAIN order
  OBVIOUS
<1> HIDE DEF E
<1>10. E \in Seq(Entry)
  <2>1. E = [n \in 1 .. Len(order) |-> E[n]]
    BY <1>6 DEF E
  <2> QED BY <1>6, <1>7, <2>1
<1> QED BY <1>1, <1>7, <1>8, <1>9, <1>10 DEF EntryLists

\* Where the entries of a file stand that is written from them.
LEMMA SerialiseIs ==
  ASSUME NEW E \in Seq(Entry)
  PROVE  /\ Me!Serialise(E) \in Seq(TextLines)
         /\ \E p \in [1 .. Len(E) + 1 -> Nat] :
              /\ p[1] = 1 /\ p[Len(E) + 1] = Len(Me!Serialise(E)) + 1
              /\ \A n \in 1 .. Len(E) :
                   /\ p[n + 1] = p[n] + 1 + Len(E[n].body)
                   /\ Me!Serialise(E)[p[n]] = E[n].key
                   /\ \A k \in 1 .. Len(E[n].body) : Me!Serialise(E)[p[n] + k] = E[n].body[k]
<1> DEFINE N == Len(E)
           part_(n) == <<E[n].key>> \o E[n].body
           s == [n \in DOMAIN E |-> part_(n)]
           f == Me!Serialise(E)
<1>1. f = FlattenSeq(s)
  <2>1. Me!FlattenSeq(s) = FlattenSeq(s)
    BY SameInMemory
  <2> QED BY <2>1 DEF Me!Serialise
<1>2. N \in Nat /\ DOMAIN E = 1 .. N /\ \A n \in 1 .. N : E[n] \in Entry
  OBVIOUS
<1>3. Headings \in SUBSET TextLines
  BY MemoryAssumption
<1>4. ASSUME NEW n \in 1 .. N
      PROVE  /\ E[n].key \in TextLines /\ E[n].body \in Seq(TextLines) /\ Len(E[n].body) \in Nat
             /\ part_(n) \in Seq(TextLines) /\ Len(part_(n)) = Len(E[n].body) + 1
             /\ part_(n)[1] = E[n].key
             /\ \A k \in 1 .. Len(E[n].body) : part_(n)[k + 1] = E[n].body[k]
  <2> DEFINE h == E[n].key
             b == E[n].body
  <2>1. E[n].key \in TextLines /\ E[n].body \in Seq(TextLines)
    BY <1>2, <1>3 DEF Entry
  <2>2. part_(n) = <<h>> \o b
    OBVIOUS
  <2>3. h \in TextLines /\ b \in Seq(TextLines)
    BY <2>1
  <2> HIDE DEF h, b, part_
  <2>4. /\ <<h>> \o b \in Seq(TextLines) /\ Len(<<h>> \o b) = Len(b) + 1 /\ Len(b) \in Nat
        /\ (<<h>> \o b)[1] = h /\ \A k \in 1 .. Len(b) : (<<h>> \o b)[k + 1] = b[k]
    BY <2>3
  <2> QED BY <2>1, <2>2, <2>4 DEF h, b
<1> HIDE DEF part_
<1>5. s \in Seq(Seq(TextLines)) /\ Len(s) = N /\ \A n \in 1 .. N : s[n] = part_(n)
  BY <1>2, <1>4
<1> HIDE DEF s
<1>6. FlattenSeq(s) \in Seq(TextLines)
  BY <1>5, FlattenedIs
<1>7. PICK off \in [0 .. Len(s) -> Nat] :
        /\ off[0] = 0 /\ off[Len(s)] = Len(FlattenSeq(s))
        /\ \A i \in 1 .. Len(s) : off[i] = off[i - 1] + Len(s[i])
        /\ \A i \in 1 .. Len(s) : \A k \in 1 .. Len(s[i]) :
             FlattenSeq(s)[off[i - 1] + k] = s[i][k]
  BY <1>5, FlattenedIs
<1> DEFINE p == [n \in 1 .. N + 1 |-> off[n - 1] + 1]
<1> HIDE DEF f, N
<1>8. /\ \A n \in 1 .. N + 1 : n - 1 \in 0 .. N
      /\ 1 \in 1 .. N + 1 /\ N + 1 \in 1 .. N + 1 /\ N + 1 - 1 = N
      /\ \A n \in 1 .. N : n \in 1 .. N + 1 /\ n + 1 \in 1 .. N + 1 /\ n + 1 - 1 = n
  BY <1>2
<1>9. /\ off \in [0 .. N -> Nat] /\ off[0] = 0 /\ off[N] = Len(f)
      /\ \A i \in 1 .. N : off[i] = off[i - 1] + Len(s[i])
      /\ \A i \in 1 .. N : \A k \in 1 .. Len(s[i]) : f[off[i - 1] + k] = s[i][k]
  BY <1>1, <1>5, <1>7
<1>10. /\ p \in [1 .. N + 1 -> Nat] /\ \A n \in 1 .. N + 1 : p[n] = off[n - 1] + 1
       /\ p[1] = 1 /\ p[N + 1] = Len(f) + 1
  <2>1. \A n \in 1 .. N + 1 : off[n - 1] \in Nat
    BY <1>8, <1>9
  <2>2. p \in [1 .. N + 1 -> Nat]
    BY <2>1
  <2>3. p[1] = off[0] + 1 /\ p[N + 1] = off[N] + 1
    BY <1>8
  <2> QED BY <1>9, <2>2, <2>3
<1> HIDE DEF p
<1>11. ASSUME NEW n \in 1 .. N
       PROVE  /\ p[n + 1] = p[n] + 1 + Len(E[n].body)
              /\ f[p[n]] = E[n].key
              /\ \A k \in 1 .. Len(E[n].body) : f[p[n] + k] = E[n].body[k]
  <2> DEFINE x == off[n - 1]
             b == E[n].body
             m == Len(b)
  <2>1. p[n + 1] = off[n] + 1 /\ p[n] = x + 1 /\ off[n] = x + Len(s[n])
    BY <1>8, <1>9, <1>10
  <2>2. Len(s[n]) = m + 1 /\ s[n][1] = E[n].key /\ \A k \in 1 .. m : s[n][k + 1] = b[k]
    BY <1>4, <1>5
  <2>3. x \in Nat /\ m \in Nat
    BY <1>4, <1>8, <1>9
  <2>4. \A k \in 1 .. m + 1 : f[x + k] = s[n][k]
    BY <1>9, <2>2
  <2> HIDE DEF x, b, m
  <2>5. p[n + 1] = p[n] + 1 + m
    BY <2>1, <2>2, <2>3
  <2>6. f[p[n]] = E[n].key
    <3>1. 1 \in 1 .. m + 1
      BY <2>3
    <3> QED BY <2>1, <2>2, <2>4, <3>1
  <2>7. ASSUME NEW k \in 1 .. m PROVE f[p[n] + k] = b[k]
    <3>1. k + 1 \in 1 .. m + 1 /\ p[n] + k = x + (k + 1)
      BY <2>1, <2>3
    <3>2. f[x + (k + 1)] = s[n][k + 1]
      BY <2>4, <3>1
    <3> QED BY <2>2, <3>1, <3>2
  <2> QED BY <2>5, <2>6, <2>7 DEF m, b
<1>12. f \in Seq(TextLines)
  BY <1>1, <1>6
<1> QED BY <1>10, <1>11, <1>12 DEF f, N

\* What is written is read as what it was.
LEMMA RoundTrip ==
  ASSUME NEW E \in EntryLists
  PROVE  Me!Parse(Me!Serialise(E)) = E
<1> DEFINE N == Len(E)
           f == Me!Serialise(E)
           L == Len(f)
           H == Me!Heads(f)
           size(n) == Len(E[n].body)
<1>1. /\ E \in Seq(Entry) /\ N \in Nat /\ DOMAIN E = 1 .. N
      /\ \A n \in 1 .. N : E[n] \in Entry /\ NoHeading(E[n].body)
      /\ \A n, m \in 1 .. N : E[n].key = E[m].key => n = m
  <2>1. E \in Seq(Entry) /\ N \in Nat /\ DOMAIN E = 1 .. N
    BY DEF EntryLists
  <2> QED BY <2>1 DEF EntryLists
<1>2. f \in Seq(TextLines) /\ L \in Nat
  <2>1. f \in Seq(TextLines)
    BY <1>1, SerialiseIs
  <2> HIDE DEF f
  <2> QED BY <2>1
<1>3. PICK p \in [1 .. N + 1 -> Nat] :
        /\ p[1] = 1 /\ p[N + 1] = L + 1
        /\ \A n \in 1 .. N :
             /\ p[n + 1] = p[n] + 1 + size(n)
             /\ f[p[n]] = E[n].key
             /\ \A k \in 1 .. size(n) : f[p[n] + k] = E[n].body[k]
  BY <1>1, SerialiseIs
<1>4. \A n \in 1 .. N : E[n].key \in Headings /\ E[n].body \in Seq(TextLines)
  BY <1>1 DEF Entry
<1>5. \A n \in 1 .. N : size(n) \in Nat /\ DOMAIN E[n].body = 1 .. size(n)
  BY <1>4
<1> DEFINE K == {p[n] : n \in 1 .. N}
<1> HIDE DEF N, f, L, H, size
<1>6. \A n \in 1 .. N : n \in 1 .. N + 1 /\ n + 1 \in 1 .. N + 1 /\ p[n] \in Nat /\ p[n + 1] \in Nat
  BY <1>1, <1>3
<1>7. \A n \in 1 .. N : p[n] < p[n + 1]
  BY <1>3, <1>5, <1>6
<1>8. /\ \A n, m \in 1 .. N + 1 : n < m => p[n] < p[m]
      /\ \A i \in Nat : 1 <= i /\ i < p[N + 1] => \E n \in 1 .. N : p[n] <= i /\ i < p[n + 1]
      /\ K \in SUBSET Nat /\ IsFiniteSet(K)
      /\ InOrder(K) = [n \in 1 .. N |-> p[n]]
  <2> HIDE DEF K
  <2>1. K = {p[n] : n \in 1 .. N}
    BY DEF K
  <2>2. N \in Nat /\ p \in [1 .. N + 1 -> Nat] /\ p[1] = 1 /\ \A n \in 1 .. N : p[n] < p[n + 1]
    BY <1>1, <1>3, <1>7
  <2>3. \A n, m \in 1 .. N + 1 : n < m => p[n] < p[m]
    BY <2>1, <2>2, Steps
  <2>4. \A i \in Nat : 1 <= i /\ i < p[N + 1] => \E n \in 1 .. N : p[n] <= i /\ i < p[n + 1]
    BY <2>1, <2>2, Steps
  <2>5. K \in SUBSET Nat
    BY <1>6 DEF K
  <2>7. IsFiniteSet(K)
    BY <2>1, <2>2, Steps
  <2>6. InOrder(K) = [n \in 1 .. N |-> p[n]]
    BY <2>1, <2>2, Steps
  <2> QED BY <2>3, <2>4, <2>5, <2>6, <2>7
<1>9. \A n \in 1 .. N : p[n] \in 1 .. L
  <2> TAKE n \in 1 .. N
  <2>1. 1 \in 1 .. N + 1 /\ N + 1 \in 1 .. N + 1 /\ n < N + 1 /\ (n = 1 \/ 1 < n)
    BY <1>1
  <2>2. p[n] < L + 1 /\ 1 <= p[n]
    BY <1>3, <1>6, <1>8, <2>1
  <2> QED BY <1>2, <1>6, <2>2
<1>10. H = K
  <2>1. H = {i \in 1 .. L : f[i] \in Headings}
    BY <1>2, HeadsAre DEF H, L
  <2>2. ASSUME NEW i \in 1 .. L, f[i] \in Headings PROVE i \in K
    <3>1. i \in Nat /\ 1 <= i /\ i < p[N + 1]
      BY <1>2, <1>3
    <3>2. PICK n \in 1 .. N : p[n] <= i /\ i < p[n + 1]
      BY <1>8, <3>1
    <3>3. p[n] \in Nat /\ p[n + 1] = p[n] + 1 + size(n) /\ size(n) \in Nat
      BY <1>3, <1>5, <1>6
    <3>4. CASE i # p[n]
      <4>1. i - p[n] \in 1 .. size(n) /\ p[n] + (i - p[n]) = i
        BY <3>1, <3>2, <3>3, <3>4
      <4>2. f[p[n] + (i - p[n])] = E[n].body[i - p[n]]
        BY <1>3, <4>1
      <4>3. f[i] = E[n].body[i - p[n]]
        BY <4>1, <4>2
      <4>4. E[n].body[i - p[n]] \notin Headings
        BY <1>1, <1>5, <4>1 DEF NoHeading
      <4> QED BY <2>2, <4>3, <4>4
    <3> QED BY <3>4
  <2>3. ASSUME NEW n \in 1 .. N PROVE p[n] \in H
    <3>1. p[n] \in 1 .. L /\ f[p[n]] \in Headings
      BY <1>3, <1>4, <1>9
    <3> QED BY <2>1, <3>1
  <2> QED BY <2>1, <2>2, <2>3
<1>11. ASSUME NEW n \in 1 .. N, NEW i \in H, f[i] = E[n].key PROVE i = p[n]
  <2>1. PICK m \in 1 .. N : i = p[m]
    BY <1>10
  <2>2. E[m].key = E[n].key
    BY <1>3, <1>11, <2>1
  <2> QED BY <1>1, <2>1, <2>2
<1>12. ASSUME NEW n \in 1 .. N PROVE Me!Body(f, p[n]) = E[n].body
  <2> DEFINE Stop(j) == j \in H \cup {L + 1} /\ \A k \in p[n] + 1 .. j - 1 : k \notin H
             q == p[n + 1]
  <2>1. p[n] \in Nat /\ q = p[n] + 1 + size(n) /\ size(n) \in Nat /\ q \in Nat
    BY <1>3, <1>5, <1>6
  <2>2. \A m \in 1 .. N + 1 : p[m] <= p[n] \/ q <= p[m]
    <3> TAKE m \in 1 .. N + 1
    <3>1. n \in 1 .. N + 1 /\ n + 1 \in 1 .. N + 1 /\ p[m] \in Nat /\ (m < n \/ m = n \/ m = n + 1 \/ n + 1 < m)
      BY <1>1, <1>3
    <3>2. (m < n => p[m] < p[n]) /\ (n + 1 < m => p[n + 1] < p[m])
      BY <1>8, <3>1
    <3> QED BY <2>1, <3>1, <3>2
  <2>3. \A i \in H \cup {L + 1} : i \in Nat /\ (i <= p[n] \/ q <= i)
    <3>1. \A i \in H : \E m \in 1 .. N + 1 : i = p[m]
      BY <1>6, <1>10
    <3>2. L + 1 = p[N + 1] /\ N + 1 \in 1 .. N + 1
      BY <1>1, <1>3
    <3>3. \A i \in H \cup {L + 1} : \E m \in 1 .. N + 1 : i = p[m]
      BY <3>1, <3>2
    <3>4. \A m \in 1 .. N + 1 : p[m] \in Nat
      BY <1>3
    <3> QED BY <2>2, <3>3, <3>4
  <2>4. q \in H \cup {L + 1} /\ q <= L + 1
    <3>1. CASE n = N
      <4>1. q = L + 1
        BY <1>3, <3>1
      <4> QED BY <1>2, <4>1
    <3>2. CASE n # N
      <4>1. n + 1 \in 1 .. N
        BY <1>1, <3>2
      <4>2. q \in 1 .. L /\ q \in K
        BY <1>9, <4>1
      <4> QED BY <1>2, <1>10, <4>2
    <3> QED BY <3>1, <3>2
  <2>5. q \in p[n] + 1 .. L + 1 /\ Stop(q)
    <3>1. q \in p[n] + 1 .. L + 1
      BY <1>2, <2>1, <2>4
    <3>2. \A k \in p[n] + 1 .. q - 1 : k \notin H
      <4> TAKE k \in p[n] + 1 .. q - 1
      <4>1. k \in Nat /\ ~(k <= p[n]) /\ ~(q <= k)
        BY <2>1
      <4> QED BY <2>3, <4>1
    <3> QED BY <2>4, <3>1, <3>2
  <2>6. ASSUME NEW j \in p[n] + 1 .. L + 1, Stop(j) PROVE j = q
    <3>1. j \in Nat /\ ~(j <= p[n])
      BY <1>2, <2>1
    <3>2. q <= j
      BY <2>3, <2>6, <3>1
    <3>3. CASE q < j
      <4>1. q \in p[n] + 1 .. j - 1 /\ q # L + 1
        BY <1>2, <2>1, <3>1, <3>3
      <4>2. q \in H
        BY <2>4, <4>1
      <4> QED BY <2>6, <4>1, <4>2
    <3> QED BY <2>1, <3>1, <3>2, <3>3
  <2> DEFINE stop == CHOOSE j \in p[n] + 1 .. L + 1 : Stop(j)
  <2>7. stop = q
    <3> HIDE DEF Stop, q
    <3> QED BY <2>5, <2>6
  <2>8. Me!Body(f, p[n]) = SubSeq(f, p[n] + 1, stop - 1)
    BY DEF Me!Body, L, H
  <2> HIDE DEF stop, Stop
  <2> DEFINE x == p[n] + 1
             y == q - 1
             g == SubSeq(f, x, y)
             b == E[n].body
  <2>9. Me!Body(f, p[n]) = g
    BY <2>7, <2>8
  <2>10. x \in Nat /\ y \in Nat /\ 1 <= x /\ x <= y + 1 /\ y <= Len(f) /\ y + 1 - x = size(n)
    <3>1. q <= L + 1 /\ L \in Nat /\ L = Len(f)
      BY <1>2, <2>4 DEF L
    <3> DEFINE e == size(n)
               a == p[n]
    <3>2. a \in Nat /\ e \in Nat /\ q = a + 1 + e
      BY <2>1
    <3>3. x = a + 1 /\ y = q - 1
      OBVIOUS
    <3> HIDE DEF e, a, q, x, y
    <3>4. x \in Nat /\ y \in Nat /\ 1 <= x /\ x <= y + 1 /\ y <= L /\ y + 1 - x = e
      BY <3>1, <3>2, <3>3
    <3> QED BY <3>1, <3>4 DEF e
  <2>11. \A k \in 1 .. size(n) : x - 1 + k = p[n] + k
    BY <2>1
  <2>12. b \in Seq(TextLines) /\ Len(b) = size(n) /\ \A k \in 1 .. size(n) : f[p[n] + k] = b[k]
    BY <1>3, <1>4 DEF size
  <2> HIDE DEF x, y, b, q
  <2>13. g \in Seq(TextLines) /\ Len(g) = size(n) /\ \A k \in 1 .. size(n) : g[k] = f[x - 1 + k]
    BY <1>2, <2>10, SubSeqIs
  <2> HIDE DEF g
  <2>14. \A k \in 1 .. size(n) : g[k] = b[k]
    BY <2>11, <2>12, <2>13
  <2>15. g = b
    BY <2>12, <2>13, <2>14
  <2> QED BY <2>9, <2>15 DEF b
<1> DEFINE firsts == {i \in H : \A j \in H : f[j] = f[i] => i <= j}
           final(k) == CHOOSE i \in H : f[i] = k /\ \A j \in H : f[j] = k => j <= i
<1>13. firsts = H
  <2>1. ASSUME NEW i \in H, NEW j \in H, f[j] = f[i] PROVE i <= j
    <3>1. PICK n \in 1 .. N : i = p[n]
      BY <1>10
    <3>2. f[j] = E[n].key
      BY <1>3, <2>1, <3>1
    <3>3. j = p[n] /\ p[n] \in Nat
      BY <1>6, <1>11, <3>2
    <3> QED BY <3>1, <3>3
  <2> QED BY <2>1
<1>14. ASSUME NEW n \in 1 .. N PROVE final(E[n].key) = p[n]
  <2> DEFINE P(i) == f[i] = E[n].key /\ \A j \in H : f[j] = E[n].key => j <= i
  <2>1. p[n] \in H /\ f[p[n]] = E[n].key /\ p[n] \in Nat
    BY <1>3, <1>6, <1>10
  <2>2. P(p[n])
    BY <1>11, <2>1
  <2>3. \A i \in H : P(i) => i = p[n]
    BY <1>11
  <2> HIDE DEF P
  <2>4. (CHOOSE i \in H : P(i)) = p[n]
    BY <2>1, <2>2, <2>3
  <2> QED BY <2>4 DEF P
<1> DEFINE order == InOrder(firsts)
<1>15. order = [n \in 1 .. N |-> p[n]]
  BY <1>8, <1>10, <1>13
<1>16. Me!Parse(f) = [n \in DOMAIN order |->
                        [key |-> f[order[n]], body |-> Me!Body(f, final(f[order[n]]))]]
  <2>1. Me!InOrder(firsts) = order
    BY SameInMemory
  <2> QED BY <2>1 DEF Me!Parse, H
<1> HIDE DEF order, final
<1>17. DOMAIN order = 1 .. N /\ \A n \in 1 .. N : order[n] = p[n]
  BY <1>15
<1>18. ASSUME NEW n \in 1 .. N
       PROVE  [key |-> f[order[n]], body |-> Me!Body(f, final(f[order[n]]))] = E[n]
  <2>1. order[n] = p[n] /\ f[p[n]] = E[n].key
    BY <1>3, <1>17
  <2>2. final(E[n].key) = p[n]
    BY <1>14 DEF final
  <2>3. Me!Body(f, p[n]) = E[n].body
    BY <1>12
  <2>4. E[n] = [key |-> E[n].key, body |-> E[n].body]
    BY <1>1 DEF Entry
  <2> QED BY <2>1, <2>2, <2>3, <2>4
<1>19. Me!Parse(f) = [n \in 1 .. N |-> E[n]]
  BY <1>16, <1>17, <1>18
<1>20. E = [n \in 1 .. N |-> E[n]]
  BY <1>1
<1> QED BY <1>19, <1>20 DEF f

\* What a call asks for.
LEMMA ArgsAre ==
  ASSUME NEW a \in Me!Args
  PROVE  /\ a.key \in Headings /\ a.content \in Seq(TextLines)
         /\ a.action \in {"remember", "modify", "forget"}
<1>1. Contents \in SUBSET Seq(TextLines) /\ << >> \in Seq(TextLines)
  BY MemoryAssumption
<1>2. CASE a \in [action : {"remember", "modify"}, key : Headings, content : Contents]
  BY <1>1, <1>2
<1>3. CASE a \in [action : {"forget"}, key : Headings, content : {<< >>}]
  BY <1>1, <1>3
<1> QED BY <1>2, <1>3 DEF Me!Args

\* An update leaves entries, and plain content leaves entries a file may hold.
LEMMA UpdatedIsSound ==
  ASSUME NEW E \in EntryLists, NEW a \in Me!Args
  PROVE  /\ Me!Updated(E, a) \in Seq(Entry)
         /\ Me!Valid(E, a) /\ Me!Plain(a) => Me!Updated(E, a) \in EntryLists
<1> DEFINE N == Len(E)
<1>1. E \in Seq(Entry) /\ N \in Nat /\ DOMAIN E = 1 .. N
  BY DEF EntryLists
<1>2. /\ \A n \in 1 .. N : E[n] \in Entry /\ NoHeading(E[n].body)
      /\ \A n, m \in 1 .. N : E[n].key = E[m].key => n = m
  BY <1>1 DEF EntryLists
<1>3. a.key \in Headings /\ a.content \in Seq(TextLines)
  BY ArgsAre
<1>4. Me!Plain(a) => NoHeading(a.content)
  BY DEF Me!Plain, NoHeading
<1> HIDE DEF N
<1>5. CASE a.action = "remember"
  <2> DEFINE r == [key |-> a.key, body |-> a.content]
             U == Append(E, r)
  <2>1. Me!Updated(E, a) = U
    BY <1>5 DEF Me!Updated
  <2>2. r \in Entry /\ r.key = a.key /\ r.body = a.content
    BY <1>3 DEF Entry
  <2> HIDE DEF r
  <2>3. /\ U \in Seq(Entry) /\ DOMAIN U = 1 .. N + 1 /\ U[N + 1] = r
        /\ \A n \in 1 .. N : U[n] = E[n]
    BY <1>1, <2>2 DEF N
  <2> HIDE DEF U
  <2>4. ASSUME Me!Valid(E, a), Me!Plain(a) PROVE U \in EntryLists
    <3>1. \A n \in 1 .. N : E[n].key # a.key
      BY <1>1, <1>5, <2>4 DEF Me!Valid, Me!Named
    <3>2. \A n \in 1 .. N + 1 : n = N + 1 \/ n \in 1 .. N
      BY <1>1
    <3>3. \A n \in DOMAIN U : NoHeading(U[n].body)
      BY <1>2, <1>4, <2>2, <2>3, <2>4, <3>2
    <3>4. ASSUME NEW n \in DOMAIN U, NEW m \in DOMAIN U, U[n].key = U[m].key PROVE n = m
      <4>1. n \in 1 .. N + 1 /\ m \in 1 .. N + 1
        BY <2>3
      <4>2. CASE n \in 1 .. N /\ m \in 1 .. N
        BY <1>2, <2>3, <3>4, <4>2
      <4>3. CASE n = N + 1 /\ m \in 1 .. N
        BY <2>2, <2>3, <3>1, <3>4, <4>3
      <4>4. CASE n \in 1 .. N /\ m = N + 1
        BY <2>2, <2>3, <3>1, <3>4, <4>4
      <4> QED BY <3>2, <4>1, <4>2, <4>3, <4>4
    <3> QED BY <2>3, <3>3, <3>4 DEF EntryLists
  <2> QED BY <2>1, <2>3, <2>4
<1>6. CASE a.action = "modify"
  <2> DEFINE new(n) == IF E[n].key = a.key THEN [E[n] EXCEPT !.body = a.content] ELSE E[n]
             U == [n \in DOMAIN E |-> new(n)]
  <2>1. Me!Updated(E, a) = U
    BY <1>6 DEF Me!Updated
  <2>2. ASSUME NEW n \in 1 .. N
        PROVE  /\ new(n) \in Entry /\ new(n).key = E[n].key
               /\ new(n).body \in {a.content, E[n].body}
    BY <1>2, <1>3 DEF Entry
  <2> HIDE DEF new
  <2>3. DOMAIN U = 1 .. N /\ \A n \in 1 .. N : U[n] = new(n)
    BY <1>1
  <2>4. U \in Seq(Entry)
    BY <1>1, <2>2
  <2> HIDE DEF U
  <2>5. ASSUME Me!Plain(a) PROVE U \in EntryLists
    <3>1. \A n \in DOMAIN U : NoHeading(U[n].body)
      BY <1>2, <1>4, <2>2, <2>3, <2>5
    <3>2. \A n, m \in DOMAIN U : U[n].key = U[m].key => n = m
      BY <1>2, <2>2, <2>3
    <3> QED BY <2>4, <3>1, <3>2 DEF EntryLists
  <2> QED BY <2>1, <2>4, <2>5
<1>7. CASE a.action = "forget"
  <2> DEFINE K == {n \in DOMAIN E : E[n].key # a.key}
             order == InOrder(K)
             U == [n \in DOMAIN order |-> E[order[n]]]
  <2>1. Me!Updated(E, a) = U
    <3>1. Me!Subsequence(E, K) = U
      BY SameInMemory
    <3>2. Me!Updated(E, a) = Me!Subsequence(E, K)
      BY <1>7 DEF Me!Updated
    <3> QED BY <3>1, <3>2
  <2>2. K \in SUBSET (1 .. N)
    BY <1>1
  <2> HIDE DEF K
  <2>3. K \in SUBSET Nat
    BY <1>1, <2>2
  <2>4. IsFiniteSet(K)
    <3>1. IsFiniteSet(1 .. N)
      BY <1>1, FS_Interval
    <3> QED BY <2>2, <3>1, FS_Subset
  <2>5. order \in Seq(K) /\ \A n, m \in DOMAIN order : order[n] = order[m] => n = m
    BY <2>3, <2>4, ListedOnce
  <2> HIDE DEF order
  <2>6. /\ Len(order) \in Nat /\ DOMAIN order = 1 .. Len(order)
        /\ \A n \in DOMAIN order : order[n] \in 1 .. N
    <3>1. Len(order) \in Nat /\ DOMAIN order = 1 .. Len(order)
      BY <2>5
    <3>2. \A n \in DOMAIN order : order[n] \in K
      BY <2>5
    <3> QED BY <2>2, <3>1, <3>2
  <2>7. DOMAIN U = DOMAIN order /\ \A n \in DOMAIN order : U[n] = E[order[n]]
    OBVIOUS
  <2>8. U \in Seq(Entry)
    BY <1>2, <2>6
  <2> HIDE DEF U
  <2>9. \A n \in DOMAIN U : NoHeading(U[n].body)
    BY <1>2, <2>6, <2>7
  <2>10. \A n, m \in DOMAIN U : U[n].key = U[m].key => n = m
    BY <1>2, <2>5, <2>6, <2>7
  <2> QED BY <2>1, <2>8, <2>9, <2>10 DEF EntryLists
<1> QED BY <1>5, <1>6, <1>7, ArgsAre

MemoryRows ==
  [pc : {"none", "waiting", "refused", "written", "awaiting", "cancelled"},
   args : Me!Args \cup {<< >>}, asked : Seq(TextLines)]

MemoryTypeInv ==
  /\ meMemory \in Seq(TextLines) /\ meCall \in [MemoryCalls -> MemoryRows]
  /\ \A c \in MemoryCalls : meCall[c].pc \in {"waiting", "awaiting"} => meCall[c].args \in Me!Args

\* A call that awaits its answer holds the lock alone, and what it would write
\* unless the answer is of use is still its update of the file.
AwaitingInv ==
  \A c \in MemoryCalls : meCall[c].pc = "awaiting" =>
    /\ meLock = {c}
    /\ Me!Valid(Me!Parse(meMemory), meCall[c].args)
    /\ meCall[c].asked = Me!Wanted(c)

MemoryInv == MemoryTypeInv /\ AwaitingInv

LEMMA MemoryInit == Me!Init => MemoryInv
<1> SUFFICES ASSUME Me!Init PROVE MemoryInv
  OBVIOUS
<1>1. meMemory \in Seq(TextLines)
  BY MemoryAssumption DEF Me!Init
<1>2. Me!NoCall \in MemoryRows /\ Me!NoCall.pc = "none"
  BY DEF Me!NoCall, MemoryRows
<1>3. meCall = [c \in MemoryCalls |-> Me!NoCall]
  BY DEF Me!Init
<1> QED BY <1>1, <1>2, <1>3 DEF MemoryInv, MemoryTypeInv, AwaitingInv

\* What an update of the file would be written as.
LEMMA WantedIs ==
  ASSUME MemoryInv, NEW c \in MemoryCalls, meCall[c].pc \in {"waiting", "awaiting"}
  PROVE  /\ Me!Parse(meMemory) \in EntryLists /\ meCall[c].args \in Me!Args
         /\ Me!Wanted(c) \in Seq(TextLines)
         /\ Me!Wanted(c) = Me!Serialise(Me!Updated(Me!Parse(meMemory), meCall[c].args))
         /\ Me!Valid(Me!Parse(meMemory), meCall[c].args) /\ Me!Plain(meCall[c].args) =>
              Me!Parse(Me!Wanted(c)) = Me!Updated(Me!Parse(meMemory), meCall[c].args)
<1> DEFINE E == Me!Parse(meMemory)
           a == meCall[c].args
           U == Me!Updated(E, a)
<1>1. E \in EntryLists
  BY ParseIsSound DEF MemoryInv, MemoryTypeInv
<1>2. a \in Me!Args
  BY DEF MemoryInv, MemoryTypeInv
<1>3. Me!Wanted(c) = Me!Serialise(U)
  BY DEF Me!Wanted
<1> HIDE DEF E, a
<1>4. U \in Seq(Entry) /\ (Me!Valid(E, a) /\ Me!Plain(a) => U \in EntryLists)
  BY <1>1, <1>2, UpdatedIsSound
<1> HIDE DEF U
<1>5. Me!Serialise(U) \in Seq(TextLines)
  BY <1>4, SerialiseIs
<1>6. U \in EntryLists => Me!Parse(Me!Serialise(U)) = U
  BY RoundTrip
<1> QED BY <1>1, <1>2, <1>3, <1>4, <1>5, <1>6 DEF E, a, U

\* What the model answers is read and written back as lines.
LEMMA SummaryIs ==
  ASSUME NEW r \in Replies
  PROVE  Me!Serialise(Me!Parse(r)) \in Seq(TextLines)
<1>1. r \in Seq(TextLines)
  BY MemoryAssumption
<1>2. Me!Parse(r) \in Seq(Entry)
  BY <1>1, ParseIsSound DEF EntryLists
<1> QED BY <1>2, SerialiseIs

MemoryStep ==
  \A c \in MemoryCalls : meCall'[c].pc # meCall[c].pc =>
    IF meCall'[c].pc = "written"
    THEN Me!UpdateOf(c) /\ Len(meMemory') <= MaxLines
    ELSE meMemory' = meMemory

\* One call moves, and not by writing.
LEMMA QuietKeeps ==
  ASSUME MemoryInv, NEW c \in MemoryCalls, NEW r \in MemoryRows,
         meCall' = [meCall EXCEPT ![c] = r], UNCHANGED meMemory,
         r.pc \in {"waiting", "awaiting"} => r.args \in Me!Args,
         r.pc # "written",
         \A d \in MemoryCalls \ {c} : meCall[d].pc = "awaiting" => meLock' = meLock,
         r.pc = "awaiting" =>
           /\ meLock' = {c} /\ meLock = {}
           /\ Me!Valid(Me!Parse(meMemory), r.args)
           /\ r.asked = Me!Serialise(Me!Updated(Me!Parse(meMemory), r.args))
  PROVE  MemoryInv' /\ MemoryStep
<1>1. meCall'[c] = r /\ \A d \in MemoryCalls \ {c} : meCall'[d] = meCall[d]
  BY DEF MemoryInv, MemoryTypeInv
<1>2. MemoryTypeInv'
  BY <1>1 DEF MemoryInv, MemoryTypeInv
<1>3. AwaitingInv'
  <2> SUFFICES ASSUME NEW d \in MemoryCalls, meCall'[d].pc = "awaiting"
               PROVE  /\ meLock' = {d}
                      /\ Me!Valid(Me!Parse(meMemory'), meCall'[d].args)
                      /\ meCall'[d].asked = Me!Wanted(d)'
    BY DEF AwaitingInv
  <2>1. CASE d = c
    BY <1>1, <2>1 DEF Me!Wanted
  <2>2. CASE d # c
    <3>1. meCall'[d] = meCall[d] /\ meLock' = meLock
      BY <1>1, <2>2
    <3>2. Me!Wanted(d)' = Me!Wanted(d)
      BY <3>1 DEF Me!Wanted
    <3> QED BY <3>1, <3>2 DEF MemoryInv, AwaitingInv
  <2> QED BY <2>1, <2>2
<1>4. MemoryStep
  BY <1>1 DEF MemoryStep
<1> QED BY <1>2, <1>3, <1>4 DEF MemoryInv

\* A call writes, or finds that it may not.
LEMMA SettleKeeps ==
  ASSUME MemoryInv, NEW c \in MemoryCalls, NEW text \in Seq(TextLines),
         meCall[c].pc \in {"waiting", "awaiting"}, Me!Settle(c, text),
         \A d \in MemoryCalls \ {c} : meCall[d].pc # "awaiting",
         meMemory' = text => Me!UpdateOf(c)
  PROVE  MemoryInv' /\ MemoryStep
<1> DEFINE r == [meCall[c] EXCEPT !.pc = "refused"]
           w == [meCall[c] EXCEPT !.pc = "written"]
<1>1. meCall[c] \in MemoryRows
  BY DEF MemoryInv, MemoryTypeInv
<1>2. r \in MemoryRows /\ r.pc = "refused" /\ w \in MemoryRows /\ w.pc = "written"
  BY <1>1 DEF MemoryRows
<1>3. Len(text) \in Nat /\ MaxLines \in Nat
  BY MemoryAssumption
<1>4. CASE Len(text) > MaxLines
  <2>1. meCall' = [meCall EXCEPT ![c] = r] /\ UNCHANGED meMemory
    BY <1>4 DEF Me!Settle
  <2> HIDE DEF r
  <2> QED BY <1>2, <2>1, QuietKeeps
<1>5. CASE ~(Len(text) > MaxLines)
  <2>1. meCall' = [meCall EXCEPT ![c] = w] /\ meMemory' = text
    BY <1>5 DEF Me!Settle
  <2> HIDE DEF w, r
  <2>2. /\ meCall' \in [MemoryCalls -> MemoryRows]
        /\ meCall'[c] = w /\ \A d \in MemoryCalls \ {c} : meCall'[d] = meCall[d]
    BY <1>2, <2>1 DEF MemoryInv, MemoryTypeInv
  <2>3. MemoryTypeInv'
    BY <1>2, <2>1, <2>2 DEF MemoryInv, MemoryTypeInv
  <2>4. \A d \in MemoryCalls : meCall'[d].pc # "awaiting"
    BY <1>2, <2>2
  <2>5. AwaitingInv'
    BY <2>4 DEF AwaitingInv
  <2>6. Len(meMemory') <= MaxLines
    BY <1>3, <1>5, <2>1
  <2>7. MemoryStep
    <3>1. \A d \in MemoryCalls : d # c => meCall'[d].pc = meCall[d].pc
      BY <2>2
    <3>2. \A d \in MemoryCalls : d = c => Me!UpdateOf(d)
      <4>1. Me!UpdateOf(c)
        BY <2>1
      <4> QED BY <4>1 DEF Me!UpdateOf
    <3>3. \A d \in MemoryCalls : d = c => meCall'[d].pc = "written"
      BY <1>2, <2>2
    <3> QED BY <2>6, <3>1, <3>2, <3>3 DEF MemoryStep
  <2> QED BY <2>3, <2>5, <2>7 DEF MemoryInv
<1> QED BY <1>4, <1>5

LEMMA MeBeginKeeps ==
  ASSUME MemoryInv, NEW c \in MemoryCalls, Me!Begin(c) PROVE MemoryInv' /\ MemoryStep
<1>1. PICK a \in Me!Args : meCall' = [meCall EXCEPT ![c].pc = "waiting", ![c].args = a]
  BY DEF Me!Begin
<1> DEFINE r == [meCall[c] EXCEPT !.pc = "waiting", !.args = a]
<1>2. meCall[c] \in MemoryRows /\ meCall \in [MemoryCalls -> MemoryRows]
  BY DEF MemoryInv, MemoryTypeInv
<1>3. r \in MemoryRows /\ r.pc = "waiting" /\ r.args = a
  BY <1>2 DEF MemoryRows
<1>4. meCall' = [meCall EXCEPT ![c] = r] /\ UNCHANGED <<meMemory, meLock>>
  BY <1>1, <1>2 DEF Me!Begin
<1> HIDE DEF r
<1> QED BY <1>3, <1>4, QuietKeeps

LEMMA RefuseKeeps ==
  ASSUME MemoryInv, NEW c \in MemoryCalls, Me!Refuse(c) PROVE MemoryInv' /\ MemoryStep
<1> DEFINE r == [meCall[c] EXCEPT !.pc = "refused"]
<1>1. meCall[c] \in MemoryRows
  BY DEF MemoryInv, MemoryTypeInv
<1>2. r \in MemoryRows /\ r.pc = "refused"
  BY <1>1 DEF MemoryRows
<1>3. meCall' = [meCall EXCEPT ![c] = r] /\ UNCHANGED <<meMemory, meLock>>
  BY DEF Me!Refuse
<1> HIDE DEF r
<1> QED BY <1>2, <1>3, QuietKeeps

LEMMA CancelKeeps ==
  ASSUME MemoryInv, NEW c \in MemoryCalls, Me!Cancel(c) PROVE MemoryInv' /\ MemoryStep
<1> DEFINE r == [meCall[c] EXCEPT !.pc = "cancelled"]
<1>1. meCall[c] \in MemoryRows
  BY DEF MemoryInv, MemoryTypeInv
<1>2. r \in MemoryRows /\ r.pc = "cancelled"
  BY <1>1 DEF MemoryRows
<1>3. meCall' = [meCall EXCEPT ![c] = r] /\ UNCHANGED meMemory /\ meLock' = meLock \ {c}
  BY DEF Me!Cancel
<1>4. \A d \in MemoryCalls \ {c} : meCall[d].pc = "awaiting" => meLock' = meLock
  BY <1>3 DEF MemoryInv, AwaitingInv
<1> HIDE DEF r
<1> QED BY <1>2, <1>3, <1>4, QuietKeeps

\* A call whose turn it is finds nobody that awaits.
LEMMA NobodyAwaits ==
  ASSUME MemoryInv, meLock = {} PROVE \A d \in MemoryCalls : meCall[d].pc # "awaiting"
  BY DEF MemoryInv, AwaitingInv

LEMMA CompactKeeps ==
  ASSUME MemoryInv, NEW c \in MemoryCalls, Me!Compact(c) PROVE MemoryInv' /\ MemoryStep
<1> DEFINE t == Me!Wanted(c)
           r == [meCall[c] EXCEPT !.pc = "awaiting", !.asked = t]
<1>1. meCall[c] \in MemoryRows /\ meCall \in [MemoryCalls -> MemoryRows]
  BY DEF MemoryInv, MemoryTypeInv
<1>2. /\ meCall[c].pc = "waiting" /\ meLock = {}
      /\ Me!Valid(Me!Parse(meMemory), meCall[c].args) /\ meLock' = {c}
  BY DEF Me!Compact, Me!Turn, Me!Enters
<1>3. /\ t \in Seq(TextLines) /\ meCall[c].args \in Me!Args
      /\ t = Me!Serialise(Me!Updated(Me!Parse(meMemory), meCall[c].args))
  BY <1>2, WantedIs
<1>4. meCall' = [meCall EXCEPT ![c] = r] /\ UNCHANGED meMemory
  BY <1>1 DEF Me!Compact
<1> HIDE DEF t
<1>5. r \in MemoryRows /\ r.pc = "awaiting" /\ r.args = meCall[c].args /\ r.asked = t
  BY <1>1, <1>3 DEF MemoryRows
<1> HIDE DEF r
<1>6. \A d \in MemoryCalls \ {c} : meCall[d].pc = "awaiting" => meLock' = meLock
  BY <1>2, NobodyAwaits
<1> QED BY <1>2, <1>3, <1>4, <1>5, <1>6, QuietKeeps

LEMMA WriteKeeps ==
  ASSUME MemoryInv, NEW c \in MemoryCalls, Me!Write(c) PROVE MemoryInv' /\ MemoryStep
<1>1. /\ meCall[c].pc = "waiting" /\ meLock = {}
      /\ Me!Valid(Me!Parse(meMemory), meCall[c].args)
      /\ Me!Settle(c, Me!Wanted(c))
  BY DEF Me!Write, Me!Turn, Me!Enters
<1>2. /\ Me!Wanted(c) \in Seq(TextLines)
      /\ Me!Wanted(c) = Me!Serialise(Me!Updated(Me!Parse(meMemory), meCall[c].args))
      /\ Me!Plain(meCall[c].args) =>
           Me!Parse(Me!Wanted(c)) = Me!Updated(Me!Parse(meMemory), meCall[c].args)
  BY <1>1, WantedIs
<1>3. meMemory' = Me!Wanted(c) => Me!UpdateOf(c)
  BY <1>1, <1>2 DEF Me!UpdateOf
<1>4. \A d \in MemoryCalls \ {c} : meCall[d].pc # "awaiting"
  BY <1>1, NobodyAwaits
<1> QED BY <1>1, <1>2, <1>3, <1>4, SettleKeeps

LEMMA CondensedKeeps ==
  ASSUME MemoryInv, NEW c \in MemoryCalls, Me!Condensed(c) PROVE MemoryInv' /\ MemoryStep
<1> DEFINE text(r) == IF Me!Usable(r) THEN Me!Serialise(Me!Parse(r)) ELSE meCall[c].asked
<1>1. PICK r \in Replies : Me!Settle(c, text(r))
  BY DEF Me!Condensed
<1>2. meCall[c].pc = "awaiting" /\ meLock = {c}
  BY DEF Me!Condensed, MemoryInv, AwaitingInv
<1>3. /\ Me!Valid(Me!Parse(meMemory), meCall[c].args) /\ meCall[c].asked = Me!Wanted(c)
      /\ Me!Wanted(c) \in Seq(TextLines)
      /\ Me!Wanted(c) = Me!Serialise(Me!Updated(Me!Parse(meMemory), meCall[c].args))
  BY <1>2, WantedIs DEF MemoryInv, AwaitingInv
<1>4. /\ text(r) \in Seq(TextLines)
      /\ text(r) \in {meCall[c].asked} \cup {Me!Serialise(Me!Parse(s)) : s \in Replies}
  BY <1>3, SummaryIs
<1> HIDE DEF text
<1>5. meMemory' = text(r) => Me!UpdateOf(c)
  BY <1>2, <1>3, <1>4 DEF Me!UpdateOf
<1>6. \A d \in MemoryCalls \ {c} : meCall[d].pc # "awaiting"
  BY <1>2 DEF MemoryInv, AwaitingInv
<1> QED BY <1>1, <1>2, <1>4, <1>5, <1>6, SettleKeeps

LEMMA MemoryMoves == ASSUME MemoryInv, [Me!Next]_(Me!vars) PROVE MemoryInv' /\ [MemoryStep]_(Me!vars)
<1>1. CASE UNCHANGED Me!vars
  <2>1. UNCHANGED <<meMemory, meLock, meCall>>
    BY <1>1 DEF Me!vars
  <2>2. \A c \in MemoryCalls : Me!Wanted(c)' = Me!Wanted(c)
    BY <2>1 DEF Me!Wanted
  <2> QED BY <1>1, <2>1, <2>2 DEF MemoryInv, MemoryTypeInv, AwaitingInv
<1>2. CASE Me!Next
  BY <1>2, MeBeginKeeps, RefuseKeeps, WriteKeeps, CompactKeeps, CondensedKeeps, CancelKeeps DEF Me!Next
<1> QED BY <1>1, <1>2

\* The memory file takes one update at a time, and what is written is read as
\* the update meant (memory.py, _memory_locked, _memory_lock).
THEOREM MemoryStaysSerial == MCSpec => MemoryIsSerial
<1>1. MCInit => MemoryInv
  BY MemoryInit DEF MCInit
<1>2. [MCNext]_allVars => [Me!Next]_(Me!vars)
  BY DEF MCNext, allVars, meVars, Me!vars
<1>3. MemoryInv /\ [MCNext]_allVars => MemoryInv'
  BY <1>2, MemoryMoves
<1>4. MemoryInv /\ [MCNext]_allVars =>
        [\A c \in MemoryCalls : meCall'[c].pc # meCall[c].pc =>
           IF meCall'[c].pc = "written"
           THEN Me!UpdateOf(c) /\ Len(meMemory') <= MaxLines
           ELSE meMemory' = meMemory]_(Me!vars)
  BY <1>2, MemoryMoves DEF MemoryStep
<1> QED BY <1>1, <1>3, <1>4, PTL DEF MCSpec, MemoryIsSerial, Me!MemoryIsSerial

\* ---- the calendar: an edit changes what it names and nothing else -----------

LEMMA SameCount == \A S : Cal!Cardinality(S) = Cardinality(S)
  BY DEF Cal!Cardinality, Cardinality

\* An arrangement of an event, as it is listed.
Shown(c, k) ==
  [uid |-> c.uid, start |-> k, end |-> Cal!EndOf(c, k), title |-> c.title,
   orig |-> IF Cal!IsOverride(c) THEN {Cal!Key(v) : v \in c.of} ELSE {k}]

LEMMA Listing ==
  ASSUME NEW cal, NEW a
  PROVE  a \in Cal!Arrangements(cal) <=>
           \E c \in cal : ~c.cancelled
             /\ \E k \in Cal!Occurrences(Cal!Listed(cal, c)) : a = Shown(Cal!Listed(cal, c), k)
  BY DEF Cal!Arrangements, Cal!Listable, Shown

LEMMA ListedKeeps ==
  ASSUME NEW cal, NEW c, IsEvent(c)
  PROVE  LET d == Cal!Listed(cal, c)
         IN /\ d.uid = c.uid /\ d.of = c.of /\ d.start = c.start /\ d.span = c.span
            /\ d.title = c.title /\ d.rule = c.rule /\ d.rdates = c.rdates
  BY DEF Cal!Listed, IsEvent, EventFields

LEMMA ShownAlike ==
  ASSUME NEW cal, NEW c, IsEvent(c), NEW k
  PROVE  Shown(Cal!Listed(cal, c), k) = Shown(c, k)
  BY ListedKeeps DEF Shown, Cal!EndOf, Cal!IsOverride

LEMMA ShownOf ==
  ASSUME NEW c, NEW k
  PROVE  /\ Shown(c, k).uid = c.uid
         /\ Shown(c, k).orig = IF Cal!IsOverride(c) THEN {Cal!Key(v) : v \in c.of} ELSE {k}
  BY DEF Shown

\* What is listed of an event depends on the components that have its uid.
LEMMA ListedLocally ==
  ASSUME NEW cal, NEW new, NEW u, Cal!Of(cal, u) = Cal!Of(new, u),
         \A c \in cal \cup new : IsEvent(c),
         NEW a, a.uid = u, a \in Cal!Arrangements(cal)
  PROVE  a \in Cal!Arrangements(new)
<1>1. PICK c \in cal : ~c.cancelled
        /\ \E k \in Cal!Occurrences(Cal!Listed(cal, c)) : a = Shown(Cal!Listed(cal, c), k)
  BY Listing
<1>2. PICK k \in Cal!Occurrences(Cal!Listed(cal, c)) : a = Shown(Cal!Listed(cal, c), k)
  BY <1>1
<1>3. c.uid = u
  <2>1. a = Shown(c, k)
    BY <1>2, ShownAlike
  <2> QED BY <2>1, ShownOf
<1>4. c \in new /\ Cal!Listed(new, c) = Cal!Listed(cal, c)
  BY <1>3 DEF Cal!Listed, Cal!Overrides, Cal!Of
<1> QED BY <1>1, <1>2, <1>4, Listing

LEMMA SameElsewhere ==
  ASSUME NEW cal, NEW new, NEW u, Cal!Of(cal, u) = Cal!Of(new, u),
         \A c \in cal \cup new : IsEvent(c), NEW a, a.uid = u
  PROVE  a \in Cal!Arrangements(cal) <=> a \in Cal!Arrangements(new)
  BY ListedLocally

\* An arrangement has the uid of one of the components.
LEMMA ShownUid ==
  ASSUME NEW cal, \A c \in cal : IsEvent(c), NEW a \in Cal!Arrangements(cal)
  PROVE  a.uid \in Cal!Uid(cal)
<1>1. PICK c \in cal : \E k : a = Shown(c, k)
  BY Listing, ShownAlike
<1>2. PICK k : a = Shown(c, k)
  BY <1>1
<1>3. a.uid = c.uid
  BY <1>2, ShownOf
<1> QED BY <1>3 DEF Cal!Uid

\* ---- what an edit makes ----------------------------------------------------

LEMMA NewEventIs ==
  ASSUME NEW event, NEW uid
  PROVE  LET c == Cal!VEvent(event, uid)
         IN IsEvent(c) /\ c.uid = uid /\ ~Cal!IsOverride(c) /\ ~c.ranged
  BY DEF Cal!VEvent, IsEvent, EventFields, Cal!IsOverride

LEMMA ParseIs ==
  ASSUME NEW g, g.at \in Int, g.form \in {"date", "wall", "instant"}
  PROVE  OneAtMost(Cal!Parse(g))
  BY DEF Cal!Parse, OneAtMost

LEMMA ParsedIs ==
  ASSUME NEW S, OneAtMost(S), AreTimes(S)
  PROVE  OneAtMost(Cal!Parsed(S))
<1>1. SUFFICES ASSUME NEW x \in Cal!Parsed(S), NEW y \in Cal!Parsed(S) PROVE x = y
  BY DEF OneAtMost
<1>2. PICK g \in S : x \in Cal!Parse(g)
  BY DEF Cal!Parsed
<1>3. PICK h \in S : y \in Cal!Parse(h)
  BY DEF Cal!Parsed
<1>4. g = h /\ g.at \in Int /\ g.form \in {"date", "wall", "instant"}
  BY <1>2, <1>3 DEF OneAtMost, AreTimes
<1> QED BY <1>2, <1>3, <1>4, ParseIs DEF OneAtMost

LEMMA RetimedIs ==
  ASSUME NEW c, NEW ch, OneAtMost(ch.start), AreTimes(ch.start),
         OneAtMost(ch.end), AreTimes(ch.end), OneAtMost(ch.minutes)
  PROVE  OneAtMost(Cal!Retimed(c, ch))
<1> DEFINE starts == IF ch.start = {} THEN {c.start} ELSE Cal!Parsed(ch.start)
           spans(s) ==
             IF ch.end # {}
             THEN {sp \in {Cal!Elapsed(Cal!Between(s, v)) :
                             v \in {v \in Cal!Parsed(ch.end) : Cal!Timed(v) = Cal!Timed(s)}} : sp.n > 0}
             ELSE IF ch.minutes # {}
             THEN {Cal!Elapsed(m) : m \in {m \in ch.minutes : Cal!Timed(s)}}
             ELSE {sp \in {c.span} : Cal!Timed(s) = Cal!Timed(c.start)}
<1>1. OneAtMost(starts)
  BY ParsedIs DEF OneAtMost
<1>2. \A s : OneAtMost(spans(s))
  BY ParsedIs DEF OneAtMost
<1>3. Cal!Retimed(c, ch) \subseteq UNION {{[start |-> s, span |-> sp] : sp \in spans(s)} : s \in starts}
  BY DEF Cal!Retimed
<1> HIDE DEF starts, spans
<1> QED BY <1>1, <1>2, <1>3 DEF OneAtMost

\* The event a change makes of c, at the start and of the length it gets.
PatchOf(c, ch, r) ==
  LET rules == ch.repeat \ {Cal!NoRule}
      adding == rules # {} /\ ~Cal!Recurring(c)
      anew == ch.start # {} \/ adding
      zone == IF anew THEN "local" ELSE Cal!SavedZone(c)
      repeats == rules # {} \/ (Cal!Recurring(c) /\ ch.repeat = {})
      b == Cal!Begins(r.start, zone, repeats)
  IN [c EXCEPT
       !.start = b.start, !.span = r.span,
       !.title = IF ch.title = {} THEN @ ELSE CHOOSE t \in ch.title : TRUE,
       !.rdates = IF anew THEN b.rdates ELSE @,
       !.exdates = IF anew THEN b.exdates ELSE @,
       !.rule = IF ch.repeat = {} THEN @
                ELSE Cal!RRule(CHOOSE x \in ch.repeat : TRUE, r.start, zone)]

LEMMA PatchedAre ==
  ASSUME NEW c, NEW ch
  PROVE  Cal!Patched(c, ch) = {PatchOf(c, ch, r) : r \in Cal!Retimed(c, ch)}
  BY DEF Cal!Patched, PatchOf

\* A change of an event keeps what it is: its uid, which occurrence it was made
\* for, and whether it was cancelled.
LEMMA PatchOfIs ==
  ASSUME NEW c, IsEvent(c), NEW ch, NEW r
  PROVE  LET p == PatchOf(c, ch, r)
         IN /\ IsEvent(p) /\ p.uid = c.uid /\ p.of = c.of /\ p.ranged = c.ranged
            /\ ch.repeat = {} => p.rule = c.rule
            /\ ch.start = {} /\ ch.repeat = {} => p.rdates = c.rdates /\ p.exdates = c.exdates
            /\ ch.repeat = {} /\ ~Cal!Recurring(c) => p.rdates = {} /\ p.exdates = {}
<1> DEFINE rules == ch.repeat \ {Cal!NoRule}
           adding == rules # {} /\ ~Cal!Recurring(c)
           anew == ch.start # {} \/ adding
           zone == IF anew THEN "local" ELSE Cal!SavedZone(c)
           repeats == rules # {} \/ (Cal!Recurring(c) /\ ch.repeat = {})
           b == Cal!Begins(r.start, zone, repeats)
           p == PatchOf(c, ch, r)
           title == IF ch.title = {} THEN c.title ELSE CHOOSE t \in ch.title : TRUE
           rdates == IF anew THEN b.rdates ELSE c.rdates
           exdates == IF anew THEN b.exdates ELSE c.exdates
           rule == IF ch.repeat = {} THEN c.rule
                   ELSE Cal!RRule(CHOOSE x \in ch.repeat : TRUE, r.start, zone)
<1>1. p = [c EXCEPT !.start = b.start, !.span = r.span, !.title = title,
                    !.rdates = rdates, !.exdates = exdates, !.rule = rule]
  BY DEF PatchOf, IsEvent, EventFields
<1>2. ch.repeat = {} /\ ~Cal!Recurring(c) => rdates = {} /\ exdates = {}
  BY DEF Cal!Begins, Cal!Recurring
<1>3. ch.repeat = {} => rule = c.rule /\ (ch.start = {} => rdates = c.rdates /\ exdates = c.exdates)
  OBVIOUS
<1> HIDE DEF b, p, title, rdates, exdates, rule
<1>4. /\ IsEvent(p) /\ p.uid = c.uid /\ p.of = c.of /\ p.ranged = c.ranged
      /\ p.rule = rule /\ p.rdates = rdates /\ p.exdates = exdates
  BY <1>1 DEF IsEvent, EventFields
<1> QED BY <1>2, <1>3, <1>4 DEF p

LEMMA PatchedIs ==
  ASSUME NEW c, IsEvent(c), NEW ch, NEW p \in Cal!Patched(c, ch)
  PROVE  /\ IsEvent(p) /\ p.uid = c.uid /\ p.of = c.of /\ p.ranged = c.ranged
         /\ ch.repeat = {} => p.rule = c.rule
         /\ ch.start = {} /\ ch.repeat = {} => p.rdates = c.rdates /\ p.exdates = c.exdates
         /\ ch.repeat = {} /\ ~Cal!Recurring(c) => p.rdates = {} /\ p.exdates = {}
<1>1. PICK r \in Cal!Retimed(c, ch) : p = PatchOf(c, ch, r)
  BY PatchedAre
<1> QED BY <1>1, PatchOfIs

LEMMA PatchedOnce ==
  ASSUME NEW c, NEW ch, OneAtMost(ch.start), AreTimes(ch.start),
         OneAtMost(ch.end), AreTimes(ch.end), OneAtMost(ch.minutes)
  PROVE  OneAtMost(Cal!Patched(c, ch))
<1>1. OneAtMost(Cal!Retimed(c, ch))
  BY RetimedIs
<1> QED BY <1>1, PatchedAre DEF OneAtMost

\* The image of a finite set is finite.
LEMMA ImageIsFinite ==
  ASSUME NEW S, IsFiniteSet(S), NEW f, DOMAIN f = S, f = [x \in S |-> f[x]]
  PROVE  IsFiniteSet({f[x] : x \in S})
<1>1. f \in Surjection(S, {f[x] : x \in S})
  BY DEF Surjection
<1> QED BY <1>1, FS_Surjection

\* ---- each edit keeps a calendar and what it does not name --------------------

LEMMA AddKeeps ==
  ASSUME NEW cal, IsCalendar(cal), NEW q, IsEdit(q), q.op = "add", NEW new \in Cal!Add(cal, q)
  PROVE  /\ IsCalendar(new)
         /\ \A u \in Cal!Uid(cal) : Cal!Of(cal, u) = Cal!Of(new, u)
<1>1. PICK uid \in [q.events -> CalUids \ Cal!Uid(cal)] :
        new = cal \cup {Cal!VEvent(CHOOSE ev \in Cal!Resolved(e) : TRUE, uid[e]) : e \in q.events}
  BY DEF Cal!Add
<1> DEFINE made == [e \in q.events |-> Cal!VEvent(CHOOSE ev \in Cal!Resolved(e) : TRUE, uid[e])]
           more == {made[e] : e \in q.events}
<1>2. new = cal \cup more
  BY <1>1
<1>3. \A e \in q.events : /\ IsEvent(made[e]) /\ made[e].uid \notin Cal!Uid(cal)
                          /\ ~Cal!IsOverride(made[e]) /\ ~made[e].ranged
  BY NewEventIs
<1>4. IsFiniteSet(more)
  <2>1. IsFiniteSet(q.events) /\ DOMAIN made = q.events /\ made = [e \in q.events |-> made[e]]
    BY DEF IsEdit
  <2> HIDE DEF made
  <2> QED BY <2>1, ImageIsFinite
<1> HIDE DEF made
<1>5. IsFiniteSet(new)
  BY <1>2, <1>4, FS_Union DEF IsCalendar
<1>6. \A c \in more : IsEvent(c) /\ c.uid \notin Cal!Uid(cal) /\ ~Cal!IsOverride(c) /\ ~c.ranged
  BY <1>3
<1> HIDE DEF more
<1>7. IsCalendar(new)
  BY <1>2, <1>5, <1>6 DEF IsCalendar
<1> QED BY <1>2, <1>6, <1>7 DEF Cal!Of

LEMMA RemoveKeeps ==
  ASSUME NEW cal, IsCalendar(cal), NEW q, NEW new \in Cal!Remove(cal, q)
  PROVE  /\ IsCalendar(new)
         /\ \A u : u \notin q.ids => Cal!Of(cal, u) = Cal!Of(new, u)
<1>1. new = {c \in cal : c.uid \notin q.ids}
  BY DEF Cal!Remove
<1>2. IsFiniteSet(new)
  BY <1>1, FS_Subset DEF IsCalendar
<1> QED BY <1>1, <1>2 DEF IsCalendar, Cal!Of

LEMMA SeriesKeeps ==
  ASSUME NEW cal, IsCalendar(cal), NEW q, IsEdit(q), q.op = "update", NEW m \in Cal!Of(cal, q.id),
         ~Cal!IsOverride(m), NEW new \in Cal!UpdateSeries(cal, m, q)
  PROVE  /\ IsCalendar(new)
         /\ \A u : u # q.id => Cal!Of(cal, u) = Cal!Of(new, u)
<1> DEFINE all == Cal!Of(cal, q.id)
           made == [c \in all |-> CHOOSE p : p \in Cal!Patched(c, q.changes)]
           more == {made[c] : c \in all}
<1>1. /\ \A c \in all : Cal!Patched(c, q.changes) # {}
      /\ new = (cal \ all) \cup UNION {Cal!Patched(c, q.changes) : c \in all}
      /\ Cardinality(all) > 1 => ~Cal!Retimes(q.changes)
  <2> DEFINE unsafe == \/ m.opaque
                       \/ m.rdates # {} \/ m.exdates # {}
                       \/ Cardinality(all) > 1
             repeating == Cal!Recurring(m) \/ Cardinality(all) > 1
             refused == \/ repeating /\ Cal!Retimes(q.changes) /\ unsafe
                        \/ \E c \in all : Cal!Patched(c, q.changes) = {}
             result == (cal \ all) \cup UNION {Cal!Patched(c, q.changes) : c \in all}
  <2>1. Cal!UpdateSeries(cal, m, q) = IF refused THEN {} ELSE {result}
    BY SameCount DEF Cal!UpdateSeries
  <2>2. ~refused /\ new = result
    <3> HIDE DEF refused, result
    <3> QED BY <2>1
  <2> QED BY <2>2
<1>2. \A c \in all : IsEvent(c) /\ c.uid = q.id /\ c \in cal
  BY DEF Cal!Of, IsCalendar
<1>3. \A c \in all : OneAtMost(Cal!Patched(c, q.changes))
  BY PatchedOnce DEF IsEdit
<1>4. \A c \in all : Cal!Patched(c, q.changes) = {made[c]}
  BY <1>1, <1>3 DEF OneAtMost
<1>5. new = (cal \ all) \cup more
  BY <1>1, <1>4
<1>6. IsFiniteSet(all)
  BY FS_Subset DEF IsCalendar, Cal!Of
<1>7. IsFiniteSet(more)
  <2>1. DOMAIN made = all /\ made = [c \in all |-> made[c]]
    OBVIOUS
  <2> HIDE DEF made, all
  <2> QED BY <2>1, <1>6, ImageIsFinite
<1> HIDE DEF made
<1>8. \A c \in all : /\ IsEvent(made[c]) /\ made[c].uid = q.id
                    /\ IF Cal!IsOverride(made[c]) THEN ~Cal!Recurring(made[c]) ELSE ~made[c].ranged
  <2>1. SUFFICES ASSUME NEW c \in all
                 PROVE  /\ IsEvent(made[c]) /\ made[c].uid = q.id
                        /\ IF Cal!IsOverride(made[c]) THEN ~Cal!Recurring(made[c]) ELSE ~made[c].ranged
    OBVIOUS
  <2>2. made[c] \in Cal!Patched(c, q.changes) /\ IsEvent(c) /\ c.uid = q.id /\ c \in cal
    BY <1>2, <1>4
  <2>3. /\ IsEvent(made[c]) /\ made[c].uid = c.uid /\ made[c].of = c.of /\ made[c].ranged = c.ranged
        /\ q.changes.repeat = {} => made[c].rule = c.rule
        /\ q.changes.start = {} /\ q.changes.repeat = {} =>
             made[c].rdates = c.rdates /\ made[c].exdates = c.exdates
    BY <2>2, PatchedIs
  <2>4. CASE ~Cal!IsOverride(c)
    BY <2>2, <2>3, <2>4 DEF IsCalendar, Cal!IsOverride
  <2>5. CASE Cal!IsOverride(c)
    <3>1. Cardinality(all) > 1
      <4>1. c # m /\ c \in all /\ m \in all
        BY <2>5
      <4>2. Cardinality(all) # 1 /\ Cardinality(all) # 0 /\ Cardinality(all) \in Nat
        BY <4>1, <1>6, FS_Singleton, FS_EmptySet, FS_CardinalityType
      <4> QED BY <4>2
    <3>2. q.changes.start = {} /\ q.changes.repeat = {}
      BY <3>1, <1>1 DEF Cal!Retimes
    <3> QED BY <2>2, <2>3, <2>5, <3>2 DEF IsCalendar, Cal!IsOverride, Cal!Recurring
  <2> QED BY <2>4, <2>5
<1>9. \A p \in more : /\ IsEvent(p) /\ p.uid = q.id
                     /\ IF Cal!IsOverride(p) THEN ~Cal!Recurring(p) ELSE ~p.ranged
  BY <1>8
<1> HIDE DEF more
<1>10. IsFiniteSet(new)
  BY <1>5, <1>6, <1>7, FS_Union, FS_Difference DEF IsCalendar
<1>11. IsCalendar(new)
  BY <1>5, <1>9, <1>10 DEF IsCalendar
<1> QED BY <1>2, <1>5, <1>9, <1>11 DEF Cal!Of

\* ---- one occurrence of a series ---------------------------------------------

\* The date an instant is read as begins at that instant.
LEMMA DateIsKept ==
  ASSUME NEW d \in Int
  PROVE  Cal!First(CalDay * Cal!DayOf(Cal!First(CalDay * d))) = Cal!First(CalDay * d)
<1>1. /\ (CalDay * d) \div CalDay = d
      /\ (CalDay * d + 1) \div CalDay = d
  BY CalendarAssumption
<1>2. CalDay * d \in Int /\ FallBack \in Int /\ SpringForward \in Int
  BY CalendarAssumption
<1>3. \A w \in Int : Cal!Wall(Cal!First(w)) \in {w, w + 1}
  BY CalendarAssumption DEF Cal!First, Cal!Wall, Cal!InstantsOf
<1>4. Cal!DayOf(Cal!First(CalDay * d)) = d
  BY <1>1, <1>2, <1>3 DEF Cal!DayOf
<1> QED BY <1>4

\* A time written into the calendar reads as the instant it was written for.
LEMMA WrittenIs ==
  ASSUME NEW u \in Int, NEW zone
  PROVE  LET v == Cal!Written(u, zone) IN Cal!Timed(v) /\ Cal!Key(v) = u
<1>1. ASSUME Cal!First(Cal!Wall(u)) # u PROVE Cal!Fold(u)
  <2> DEFINE w == Cal!Wall(u)
  <2>1. w \in Int /\ w \in {u, u + 1}
    BY CalendarAssumption DEF Cal!Wall
  <2>2. u \in Cal!InstantsOf(w) /\ Cal!InstantsOf(w) \subseteq {w - 1, w}
    BY <2>1 DEF Cal!InstantsOf
  <2> HIDE DEF w
  <2>3. Cal!InstantsOf(w) = {w - 1} \cup {w}
    BY <1>1, <2>1, <2>2 DEF Cal!First, w
  <2>4. Cardinality({w - 1} \cup {w}) = 2
    <3>1. IsFiniteSet({w - 1}) /\ Cardinality({w - 1}) = 1
      BY FS_Singleton
    <3>2. w \notin {w - 1}
      BY <2>1
    <3> QED BY <3>1, <3>2, FS_AddElement
  <2> QED BY <1>1, <2>3, <2>4, SameCount DEF Cal!Fold, w
<1> QED BY <1>1, CalendarAssumption DEF Cal!Written, Cal!Utc, Cal!Local, Cal!Timed, Cal!Key

LEMMA ParseAt ==
  ASSUME NEW g, g.at \in Int, g.form \in {"date", "wall", "instant"}, NEW v \in Cal!Parse(g)
  PROVE  v.at \in Int /\ Cal!Parse(g) = {v}
<1>1. \A w \in Int : Cal!First(w) \in Int
  BY DEF Cal!First
<1>2. v.at \in Int
  BY <1>1 DEF Cal!Parse
<1> QED BY <1>2, ParseIs DEF OneAtMost

\* c.of is of the form of the start of m, a time or a date.
SameForm(c, m) == \A v \in c.of : Cal!Timed(v) = Cal!Timed(m.start)

IsOne(S) == \E x : S = {x}
Keys(S) == {Cal!Key(v) : v \in Cal!Parsed(S)}
OfKeys(c) == {Cal!Key(v) : v \in c.of}

\* The component made for the occurrence of m at k.
OccurrenceAt(m, k) ==
  LET at == IF Cal!Timed(m.start) THEN Cal!Written(k, Cal!SavedZone(m))
            ELSE [form |-> "date", at |-> Cal!DayOf(k)]
  IN [m EXCEPT !.start = at, !.of = {at}, !.rule = Cal!NoRule, !.rdates = {}, !.exdates = {}]

\* The instants a caller may mean by g in the series of m.
NamedKeys(m, g) ==
  {Cal!Key(v) : v \in {v \in Cal!Parse(g) : Cal!Timed(v) = Cal!Timed(m.start)}}

LEMMA OccurrenceAre ==
  ASSUME NEW m, NEW g, NEW o \in Cal!Occurrence(m, g)
  PROVE  \E v \in Cal!Parse(g) :
           Cal!Timed(v) = Cal!Timed(m.start) /\ o = OccurrenceAt(m, Cal!Key(v))
<1>1. Cal!Occurrence(m, g) =
        {OccurrenceAt(m, k) : k \in IF m.opaque THEN {}
                                    ELSE NamedKeys(m, g) \cap Cal!Occurrences(m)}
  BY Zenon DEF Cal!Occurrence, OccurrenceAt, NamedKeys
<1>2. PICK k \in NamedKeys(m, g) : o = OccurrenceAt(m, k)
  BY <1>1
<1>3. PICK v \in Cal!Parse(g) : Cal!Timed(v) = Cal!Timed(m.start) /\ k = Cal!Key(v)
  BY DEF NamedKeys
<1> QED BY <1>2, <1>3

\* The component made for the occurrence a call names stands for that instant.
LEMMA OccurrenceIs ==
  ASSUME NEW m, IsEvent(m), ~m.ranged, NEW S, OneAtMost(S), AreTimes(S), NEW g \in S,
         NEW o \in Cal!Occurrence(m, g)
  PROVE  /\ IsEvent(o) /\ o.uid = m.uid /\ ~o.ranged /\ ~Cal!Recurring(o)
         /\ SameForm(o, m)
         /\ OfKeys(o) = Keys(S) /\ IsOne(Keys(S))
<1> DEFINE at(k) == IF Cal!Timed(m.start) THEN Cal!Written(k, Cal!SavedZone(m))
                    ELSE [form |-> "date", at |-> Cal!DayOf(k)]
<1>1. PICK v \in Cal!Parse(g) :
        Cal!Timed(v) = Cal!Timed(m.start) /\ o = OccurrenceAt(m, Cal!Key(v))
  BY OccurrenceAre
<1>2. PICK k : k = Cal!Key(v) /\ Cal!Timed(v) = Cal!Timed(m.start) /\ o = OccurrenceAt(m, k)
  BY <1>1
<1>3. g.at \in Int /\ g.form \in {"date", "wall", "instant"}
  BY DEF AreTimes
<1>4. v.at \in Int /\ Cal!Parse(g) = {v}
  BY <1>2, <1>3, ParseAt
<1>5. Cal!Timed(at(k)) = Cal!Timed(m.start) /\ Cal!Key(at(k)) = k
  <2>1. CASE Cal!Timed(v)
    <3>1. k \in Int
      BY <1>2, <1>4, <2>1 DEF Cal!Key
    <3> QED BY <1>2, <2>1, <3>1, WrittenIs
  <2>2. CASE ~Cal!Timed(v)
    <3>1. k = Cal!First(CalDay * v.at)
      BY <1>2, <2>2 DEF Cal!Key
    <3>2. ~Cal!Timed(at(k)) /\ Cal!Key(at(k)) = Cal!First(CalDay * Cal!DayOf(k))
      BY <1>2, <2>2 DEF Cal!Key, Cal!Timed
    <3>3. Cal!First(CalDay * Cal!DayOf(k)) = k
      BY <1>4, <3>1, DateIsKept
    <3> HIDE DEF at
    <3> QED BY <1>2, <2>2, <3>2, <3>3 DEF Cal!Timed
  <2> QED BY <2>1, <2>2
<1>6. o = [m EXCEPT !.start = at(k), !.of = {at(k)}, !.rule = Cal!NoRule,
                   !.rdates = {}, !.exdates = {}]
  BY <1>2 DEF OccurrenceAt
<1> HIDE DEF at
<1>7. /\ IsEvent(o) /\ o.uid = m.uid /\ o.ranged = m.ranged /\ o.of = {at(k)}
      /\ o.rule = Cal!NoRule /\ o.rdates = {} /\ o.exdates = {}
  BY <1>6 DEF IsEvent, EventFields
<1>8. Cal!Parsed(S) = {v}
  BY <1>4 DEF OneAtMost, Cal!Parsed
<1>9. OfKeys(o) = {k} /\ Keys(S) = {k}
  BY <1>2, <1>5, <1>7, <1>8 DEF OfKeys, Keys
<1> QED BY <1>5, <1>7, <1>9 DEF Cal!Recurring, SameForm, IsOne

\* Whether overrides hide a series altogether, and the occurrences they replace.
Hidden(cal, c) ==
  \E o \in Cal!Overrides(cal, c.uid) :
    o.ranged \/ ~SameForm(o, c)
Taken(cal, c) == UNION {OfKeys(o) : o \in Cal!Overrides(cal, c.uid)}

LEMMA OccurrencesListed ==
  ASSUME NEW cal, NEW c, IsEvent(c)
  PROVE  Cal!Occurrences(Cal!Listed(cal, c)) =
           IF ~Cal!Recurring(c) THEN Cal!Occurrences(c)
           ELSE IF Hidden(cal, c) THEN {} ELSE Cal!Occurrences(c) \ Taken(cal, c)
<1> DEFINE d == Cal!Listed(cal, c)
           changed == Cal!Overrides(cal, c.uid)
           more == UNION {o.of : o \in changed}
<1> SUFFICES Cal!Occurrences(d) =
               IF ~Cal!Recurring(c) THEN Cal!Occurrences(c)
               ELSE IF Hidden(cal, c) THEN {} ELSE Cal!Occurrences(c) \ Taken(cal, c)
  OBVIOUS
<1>1. /\ d.start = c.start /\ d.rule = c.rule /\ d.rdates = c.rdates
  BY ListedKeeps
<1>2. Cal!Expanded(d) = Cal!Expanded(c)
  BY <1>1 DEF Cal!Expanded, Cal!Periods
<1> DEFINE ruled == IF c.rule = Cal!NoRule THEN {Cal!Key(c.start)}
                    ELSE {k \in Cal!Expanded(c) : \A u \in c.rule.until : k <= u}
           all == ruled \cup {Cal!Key(v) : v \in c.rdates}
<1>3. /\ Cal!Occurrences(c) = IF Cal!Recurring(c) /\ c.opaque THEN {}
                              ELSE all \ {Cal!Key(v) : v \in c.exdates}
      /\ Cal!Occurrences(d) = IF Cal!Recurring(d) /\ d.opaque THEN {}
                              ELSE all \ {Cal!Key(v) : v \in d.exdates}
  BY <1>1, <1>2 DEF Cal!Occurrences
<1>4. CASE ~Cal!Recurring(c)
  <2>1. d.opaque = c.opaque /\ d.exdates = c.exdates
    BY <1>4 DEF Cal!Listed, IsEvent, EventFields
  <2>2. ~Cal!Recurring(d)
    BY <1>1, <1>4, <2>1 DEF Cal!Recurring
  <2> HIDE DEF d, all
  <2> QED BY <1>3, <1>4, <2>1, <2>2
<1>5. CASE Cal!Recurring(c) /\ Hidden(cal, c)
  <2>1. d.opaque /\ d.exdates = c.exdates
    BY <1>5 DEF Cal!Listed, IsEvent, EventFields, Hidden, SameForm
  <2>2. Cal!Recurring(d)
    BY <1>1, <1>5, <2>1 DEF Cal!Recurring
  <2> HIDE DEF d, all
  <2> QED BY <1>3, <1>5, <2>1, <2>2
<1>6. CASE Cal!Recurring(c) /\ ~Hidden(cal, c)
  <2>1. d.opaque = c.opaque /\ d.exdates = c.exdates \cup more
    BY <1>6 DEF Cal!Listed, IsEvent, EventFields, Hidden, SameForm
  <2>2. Cal!Recurring(d)
    BY <1>1, <1>6, <2>1 DEF Cal!Recurring
  <2>3. Taken(cal, c) = {Cal!Key(v) : v \in more}
    BY DEF Taken, OfKeys
  <2> HIDE DEF d, all, more
  <2> QED BY <1>3, <1>6, <2>1, <2>2, <2>3
<1> QED BY <1>4, <1>5, <1>6

\* m is the series of its uid, and nothing but overrides is beside it.
IsSeries(cal, m) ==
  /\ m \in cal /\ ~Cal!IsOverride(m)
  /\ \A c \in cal : c.uid = m.uid => c = m \/ Cal!IsOverride(c)

\* The override p of the occurrence at k takes the place of the one there was.
Replaced(cal, m, k, p, new) ==
  LET prev == {c \in Cal!Overrides(cal, m.uid) : OfKeys(c) = {k}}
  IN /\ \A c \in Cal!Overrides(cal, m.uid) : ~c.ranged
     /\ p.uid = m.uid /\ ~p.ranged /\ OfKeys(p) = {k}
     /\ IF prev = {} THEN SameForm(p, m)
        ELSE \E b \in prev : prev = {b} /\ p.of = b.of
     /\ new = (cal \ prev) \cup {p}

LEMMA OverrideReplaces ==
  ASSUME NEW cal, NEW m, IsSeries(cal, m), NEW k, NEW p, NEW new, Replaced(cal, m, k, p, new)
  PROVE  /\ IsSeries(new, m) /\ Cal!IsOverride(p)
         /\ Cal!Overrides(new, m.uid) =
              {c \in Cal!Overrides(cal, m.uid) : OfKeys(c) # {k}} \cup {p}
         /\ Hidden(new, m) <=> Hidden(cal, m)
         /\ \A x : x # k => (x \in Taken(cal, m) <=> x \in Taken(new, m))
<1> DEFINE u == m.uid
           prev == {c \in Cal!Overrides(cal, u) : OfKeys(c) = {k}}
<1>0. /\ \A c \in Cal!Overrides(cal, u) : ~c.ranged
      /\ p.uid = u /\ ~p.ranged /\ OfKeys(p) = {k}
      /\ IF prev = {} THEN SameForm(p, m)
         ELSE \E b \in prev : prev = {b} /\ p.of = b.of
      /\ new = (cal \ prev) \cup {p}
  BY DEF Replaced
<1>1. Cal!IsOverride(p)
  BY <1>0 DEF OfKeys, Cal!IsOverride
<1>2. IsSeries(new, m)
  BY <1>0, <1>1 DEF IsSeries, Cal!Overrides
<1>3. Cal!Overrides(new, u) = (Cal!Overrides(cal, u) \ prev) \cup {p}
  BY <1>0, <1>1 DEF Cal!Overrides, Cal!Of
<1>4. Hidden(new, m) <=> Hidden(cal, m)
  <2>1. /\ Hidden(cal, m) <=> \E c \in Cal!Overrides(cal, u) : ~SameForm(c, m)
        /\ Hidden(new, m) <=> \E c \in Cal!Overrides(new, u) : ~SameForm(c, m)
    BY <1>0, <1>3 DEF Hidden
  <2>2. IF prev = {} THEN SameForm(p, m) ELSE \E b \in prev : prev = {b} /\ (SameForm(p, m) <=> SameForm(b, m))
    BY <1>0 DEF SameForm
  <2>3. prev \subseteq Cal!Overrides(cal, u)
    OBVIOUS
  <2> QED BY <1>3, <2>1, <2>2, <2>3
<1>5. \A x : x # k => (x \in Taken(cal, m) <=> x \in Taken(new, m))
  <2>1. \A c \in prev \cup {p} : OfKeys(c) = {k}
    BY <1>0
  <2>2. SUFFICES ASSUME NEW x, x # k PROVE x \in Taken(cal, m) <=> x \in Taken(new, m)
    OBVIOUS
  <2>3. x \in Taken(cal, m) <=> \E c \in Cal!Overrides(cal, u) \ prev : x \in OfKeys(c)
    BY <2>1, <2>2 DEF Taken
  <2>4. x \in Taken(new, m) <=> \E c \in Cal!Overrides(cal, u) \ prev : x \in OfKeys(c)
    <3>1. x \in Taken(new, m) <=> \E c \in Cal!Overrides(new, u) : x \in OfKeys(c)
      BY DEF Taken
    <3> QED BY <1>3, <2>1, <2>2, <3>1
  <2> QED BY <2>3, <2>4
<1>6. Cal!Overrides(cal, u) \ prev = {c \in Cal!Overrides(cal, u) : OfKeys(c) # {k}}
  OBVIOUS
<1> QED BY <1>1, <1>2, <1>3, <1>4, <1>5, <1>6

\* What is listed of a series: occurrences of its own and its overrides.
Own(cal, m, a) ==
  ~m.cancelled /\ \E k \in Cal!Occurrences(Cal!Listed(cal, m)) : a = Shown(m, k)
Overridden(cal, u, a) ==
  \E c \in Cal!Overrides(cal, u) : ~c.cancelled /\ \E k \in Cal!Occurrences(c) : a = Shown(c, k)

LEMMA ListedOfSeries ==
  ASSUME NEW cal, IsCalendar(cal), NEW m, IsSeries(cal, m), NEW a, a.uid = m.uid
  PROVE  a \in Cal!Arrangements(cal) <=> Own(cal, m, a) \/ Overridden(cal, m.uid, a)
<1>1. \A c \in cal : \A k : Shown(Cal!Listed(cal, c), k) = Shown(c, k)
  BY ShownAlike DEF IsCalendar
<1>2. a \in Cal!Arrangements(cal) <=>
        \E c \in cal : ~c.cancelled
          /\ \E k \in Cal!Occurrences(Cal!Listed(cal, c)) : a = Shown(c, k)
  BY <1>1, Listing
<1>3. \A c, k : a = Shown(c, k) => c.uid = m.uid
  <2>1. \A c, k : Shown(c, k).uid = c.uid
    BY ShownOf
  <2> QED BY <2>1
<1>4. \A c \in cal : Cal!IsOverride(c) => Cal!Occurrences(Cal!Listed(cal, c)) = Cal!Occurrences(c)
  BY OccurrencesListed DEF IsCalendar
<1>5. Cal!Overrides(cal, m.uid) = {c \in cal : c.uid = m.uid /\ Cal!IsOverride(c)}
  BY DEF Cal!Overrides, Cal!Of
<1>6. ASSUME a \in Cal!Arrangements(cal) PROVE Own(cal, m, a) \/ Overridden(cal, m.uid, a)
  BY <1>2, <1>3, <1>4, <1>5, <1>6 DEF Own, Overridden, IsSeries
<1>7. ASSUME Own(cal, m, a) PROVE a \in Cal!Arrangements(cal)
  BY <1>2, <1>7 DEF Own, IsSeries
<1>8. ASSUME Overridden(cal, m.uid, a) PROVE a \in Cal!Arrangements(cal)
  BY <1>2, <1>4, <1>5, <1>8 DEF Overridden
<1> QED BY <1>6, <1>7, <1>8

LEMMA OtherOccurrencesStay ==
  ASSUME NEW cal, IsCalendar(cal), NEW m, IsSeries(cal, m), NEW k, NEW p,
         NEW new, IsCalendar(new), Replaced(cal, m, k, p, new),
         NEW a, a.uid = m.uid, a.orig # {k}
  PROVE  a \in Cal!Arrangements(cal) <=> a \in Cal!Arrangements(new)
<1>1. /\ IsSeries(new, m) /\ Cal!IsOverride(p)
      /\ Cal!Overrides(new, m.uid) =
           {c \in Cal!Overrides(cal, m.uid) : OfKeys(c) # {k}} \cup {p}
      /\ Hidden(new, m) <=> Hidden(cal, m)
      /\ \A x : x # k => (x \in Taken(cal, m) <=> x \in Taken(new, m))
  <2>1. IsSeries(new, m) /\ Cal!IsOverride(p)
    BY OverrideReplaces
  <2>2. Cal!Overrides(new, m.uid) =
          {c \in Cal!Overrides(cal, m.uid) : OfKeys(c) # {k}} \cup {p}
    BY OverrideReplaces
  <2>3. Hidden(new, m) <=> Hidden(cal, m)
    BY OverrideReplaces
  <2>4. \A x : x # k => (x \in Taken(cal, m) <=> x \in Taken(new, m))
    BY OverrideReplaces
  <2> QED BY <2>1, <2>2, <2>3, <2>4
<1>2. ASSUME NEW c, NEW x
      PROVE  Shown(c, x).orig = IF Cal!IsOverride(c) THEN OfKeys(c) ELSE {x}
  BY ShownOf DEF OfKeys
<1>3. OfKeys(p) = {k}
  BY DEF Replaced
<1>4. Own(cal, m, a) <=> Own(new, m, a)
  <2>1. \A x : a = Shown(m, x) => x # k
    BY <1>2 DEF IsSeries
  <2>2. IsEvent(m)
    BY DEF IsCalendar, IsSeries
  <2>3. \A x : x # k => (x \in Cal!Occurrences(Cal!Listed(cal, m))
                         <=> x \in Cal!Occurrences(Cal!Listed(new, m)))
    BY <1>1, <2>2, OccurrencesListed
  <2> QED BY <2>1, <2>3 DEF Own
<1>5. Overridden(cal, m.uid, a) <=> Overridden(new, m.uid, a)
  <2>1. \A c \in Cal!Overrides(cal, m.uid) : Cal!IsOverride(c)
    BY DEF Cal!Overrides
  <2>2. \A c : Cal!IsOverride(c) /\ OfKeys(c) = {k} => \A x : a # Shown(c, x)
    BY <1>2
  <2> QED BY <1>1, <1>3, <2>1, <2>2 DEF Overridden
<1> QED BY <1>1, <1>4, <1>5, ListedOfSeries

LEMMA OccurrenceKeeps ==
  ASSUME NEW cal, IsCalendar(cal), NEW q, IsEdit(q), q.op = "update", q.scope = "occurrence",
         NEW m, IsSeries(cal, m), m.uid = q.id, NEW new \in Cal!UpdateOccurrence(cal, m, q)
  PROVE  /\ IsCalendar(new)
         /\ \E k, p : Replaced(cal, m, k, p, new) /\ Keys(q.occurrence) = {k}
<1> DEFINE overrides == Cal!Overrides(cal, q.id)
           previous(o) == {p \in overrides : Cal!SameKeys(p, o)}
           baseline(o) == IF previous(o) = {} THEN {o}
                          ELSE {p \in previous(o) : Cal!Cardinality(previous(o)) = 1}
           fits == /\ \A o \in overrides : ~o.ranged
                   /\ \A v \in Cal!Parsed(q.changes.start) : Cal!Timed(v) = Cal!Timed(m.start)
           candidates == {o \in UNION {Cal!Occurrence(m, g) : g \in q.occurrence} : fits}
           outcomes(o) == {(cal \ previous(o)) \cup {p} :
             p \in UNION {Cal!Patched(b, q.changes) : b \in {b \in baseline(o) : ~b.cancelled}}}
<1>1. Cal!UpdateOccurrence(cal, m, q) = UNION {outcomes(o) : o \in candidates}
  BY DEF Cal!UpdateOccurrence
<1>2. PICK o \in candidates : new \in outcomes(o)
  <2> HIDE DEF outcomes, candidates
  <2> QED BY <1>1
<1>3. fits /\ \E g \in q.occurrence : o \in Cal!Occurrence(m, g)
  BY <1>2
<1>4. PICK g \in q.occurrence : o \in Cal!Occurrence(m, g)
  BY <1>3
<1>5. PICK b \in baseline(o) : \E p \in Cal!Patched(b, q.changes) :
        new = (cal \ previous(o)) \cup {p}
  <2> DEFINE bases == {b \in baseline(o) : ~b.cancelled}
  <2>1. PICK p \in UNION {Cal!Patched(b, q.changes) : b \in bases} :
          new = (cal \ previous(o)) \cup {p}
    <3> HIDE DEF baseline, previous
    <3> QED BY <1>2
  <2>2. PICK b \in bases : p \in Cal!Patched(b, q.changes)
    <3> HIDE DEF bases
    <3> QED BY <2>1
  <2>3. b \in baseline(o)
    BY <2>2
  <2> HIDE DEF baseline, previous, bases
  <2> QED BY <2>1, <2>2, <2>3
<1>6. PICK p \in Cal!Patched(b, q.changes) : new = (cal \ previous(o)) \cup {p}
  BY <1>5
<1>7. m \in cal /\ IsEvent(m) /\ ~m.ranged
  BY DEF IsSeries, IsCalendar
<1>8. OneAtMost(q.occurrence) /\ AreTimes(q.occurrence) /\ q.changes.repeat = {}
  BY DEF IsEdit
<1>9. /\ IsEvent(o) /\ o.uid = m.uid /\ ~o.ranged /\ ~Cal!Recurring(o)
      /\ SameForm(o, m)
      /\ OfKeys(o) = Keys(q.occurrence) /\ IsOne(Keys(q.occurrence))
  BY <1>4, <1>7, <1>8, OccurrenceIs
<1>10. PICK k : OfKeys(o) = {k} /\ Keys(q.occurrence) = {k}
  BY <1>9 DEF IsOne
<1>11. previous(o) = {c \in overrides : OfKeys(c) = {k}}
  BY <1>10 DEF Cal!SameKeys, OfKeys
<1>12. IF previous(o) = {} THEN b = o ELSE previous(o) = {b}
  <2>1. IsFiniteSet(previous(o))
    BY FS_Subset DEF IsCalendar, Cal!Overrides, Cal!Of
  <2>2. CASE previous(o) = {}
    BY <1>5, <2>2
  <2>3. CASE previous(o) # {}
    <3>1. b \in previous(o) /\ Cardinality(previous(o)) = 1
      BY <1>5, <2>3, SameCount
    <3>2. \E x : previous(o) = {x}
      <4> HIDE DEF previous
      <4> QED BY <2>1, <3>1, FS_Singleton
    <3> QED BY <3>1, <3>2
  <2> QED BY <2>2, <2>3
<1> HIDE DEF baseline, previous, outcomes, candidates
<1>13. /\ IsEvent(b) /\ b.uid = m.uid /\ ~b.ranged /\ ~Cal!Recurring(b) /\ OfKeys(b) = {k}
  <2>1. CASE previous(o) = {}
    BY <1>9, <1>10, <1>12, <2>1
  <2>2. CASE previous(o) # {}
    <3>1. b \in overrides /\ OfKeys(b) = {k}
      BY <1>11, <1>12, <2>2
    <3> QED BY <1>3, <3>1 DEF Cal!Overrides, Cal!Of, IsCalendar
  <2> QED BY <2>1, <2>2
<1>14. /\ IsEvent(p) /\ p.uid = b.uid /\ p.of = b.of /\ p.ranged = b.ranged /\ p.rule = b.rule
       /\ p.rdates = {} /\ p.exdates = {}
  BY <1>6, <1>8, <1>13, PatchedIs
<1>15. ~Cal!Recurring(p) /\ OfKeys(p) = {k} /\ p.uid = m.uid /\ ~p.ranged
  BY <1>13, <1>14 DEF Cal!Recurring, OfKeys
<1>16. Replaced(cal, m, k, p, new)
  <2>1. IF previous(o) = {} THEN SameForm(p, m)
        ELSE previous(o) = {b} /\ p.of = b.of /\ b \in previous(o)
    BY <1>9, <1>12, <1>14 DEF SameForm
  <2> QED BY <1>3, <1>6, <1>11, <1>15, <2>1 DEF Replaced
<1>17. IsCalendar(new)
  <2>1. IsFiniteSet(cal \ previous(o)) /\ IsFiniteSet((cal \ previous(o)) \cup {p})
    BY FS_Difference, FS_AddElement DEF IsCalendar
  <2>2. Cal!IsOverride(p)
    BY <1>15 DEF OfKeys, Cal!IsOverride
  <2> QED BY <1>6, <1>14, <1>15, <2>1, <2>2 DEF IsCalendar
<1> QED BY <1>10, <1>16, <1>17

LEMMA ReplacedElsewhere ==
  ASSUME NEW cal, NEW m, NEW k, NEW p, NEW new, Replaced(cal, m, k, p, new), NEW u, u # m.uid
  PROVE  Cal!Of(cal, u) = Cal!Of(new, u)
  BY DEF Replaced, Cal!Overrides, Cal!Of

\* ---- every edit ------------------------------------------------------------

\* Whether an update is about an arrangement.
IsAbout(q, a) == a.uid = q.id /\ (q.scope = "occurrence" => a.orig = Keys(q.occurrence))

LEMMA UpdateKeeps ==
  ASSUME NEW cal, IsCalendar(cal), NEW q, IsEdit(q), q.op = "update", NEW new \in Cal!Update(cal, q)
  PROVE  /\ IsCalendar(new)
         /\ \A a : ~IsAbout(q, a) => (a \in Cal!Arrangements(cal) <=> a \in Cal!Arrangements(new))
<1> DEFINE masters == Cal!Of(cal, q.id) \ Cal!Overrides(cal, q.id)
           result(m) == IF q.scope = "occurrence" THEN Cal!UpdateOccurrence(cal, m, q)
                        ELSE Cal!UpdateSeries(cal, m, q)
<1>1. PICK m \in masters : Cal!Cardinality(masters) = 1 /\ new \in result(m)
  BY DEF Cal!Update
<1>2. masters = {m}
  <2>1. IsFiniteSet(masters)
    BY FS_Subset DEF IsCalendar, Cal!Of
  <2> HIDE DEF masters
  <2>2. \E x : masters = {x}
    BY <1>1, <2>1, SameCount, FS_Singleton
  <2> QED BY <1>1, <2>2
<1>3. IsSeries(cal, m) /\ m.uid = q.id /\ m \in Cal!Of(cal, q.id)
  BY <1>2 DEF IsSeries, Cal!Of, Cal!Overrides
<1>4. \A c \in cal : IsEvent(c)
  BY DEF IsCalendar
<1>5. CASE q.scope = "occurrence"
  <2>1. new \in Cal!UpdateOccurrence(cal, m, q)
    BY <1>1, <1>5
  <2>2. IsCalendar(new) /\ \E k, p : Replaced(cal, m, k, p, new) /\ Keys(q.occurrence) = {k}
    BY <1>3, <1>5, <2>1, OccurrenceKeeps
  <2>3. PICK k, p : Replaced(cal, m, k, p, new) /\ Keys(q.occurrence) = {k}
    BY <2>2
  <2>4. ASSUME NEW a, a.uid # q.id PROVE a \in Cal!Arrangements(cal) <=> a \in Cal!Arrangements(new)
    <3>1. Cal!Of(cal, a.uid) = Cal!Of(new, a.uid)
      BY <1>3, <2>3, <2>4, ReplacedElsewhere
    <3>2. \A c \in cal \cup new : IsEvent(c)
      BY <2>2 DEF IsCalendar
    <3> QED BY <3>1, <3>2, SameElsewhere
  <2>5. ASSUME NEW a, a.uid = q.id, a.orig # {k}
        PROVE  a \in Cal!Arrangements(cal) <=> a \in Cal!Arrangements(new)
    BY <1>3, <2>2, <2>3, <2>5, OtherOccurrencesStay
  <2> QED BY <1>5, <2>2, <2>3, <2>4, <2>5 DEF IsAbout
<1>6. CASE q.scope # "occurrence"
  <2>1. new \in Cal!UpdateSeries(cal, m, q)
    BY <1>1, <1>6
  <2>2. IsCalendar(new) /\ \A u : u # q.id => Cal!Of(cal, u) = Cal!Of(new, u)
    BY <1>3, <2>1, SeriesKeeps DEF IsSeries
  <2>3. ASSUME NEW a, a.uid # q.id PROVE a \in Cal!Arrangements(cal) <=> a \in Cal!Arrangements(new)
    <3>1. \A c \in cal \cup new : IsEvent(c)
      BY <2>2 DEF IsCalendar
    <3> QED BY <2>2, <2>3, <3>1, SameElsewhere
  <2> QED BY <1>6, <2>2, <2>3 DEF IsAbout
<1> QED BY <1>5, <1>6

\* An edit leaves a calendar, and in it every arrangement it does not name.
LEMMA EditedIs ==
  ASSUME IsCalendar(calFile), NEW q, IsEdit(q), NEW new \in Cal!Edited(calFile, q)
  PROVE  IsCalendar(new) /\ Cal!Others(calFile, q) = Cal!Others(new, q)
<1>1. SUFFICES IsCalendar(new)
        /\ \A a : ~Cal!Named(q, a) => (a \in Cal!Arrangements(calFile) <=> a \in Cal!Arrangements(new))
  BY DEF Cal!Others
<1>2. CASE q.op = "add"
  <2>1. /\ IsCalendar(new)
        /\ \A u \in Cal!Uid(calFile) : Cal!Of(calFile, u) = Cal!Of(new, u)
    BY <1>2, AddKeeps DEF Cal!Edited
  <2>2. \A c \in calFile \cup new : IsEvent(c)
    BY <2>1 DEF IsCalendar
  <2>3. ASSUME NEW a, ~Cal!Named(q, a)
        PROVE  a \in Cal!Arrangements(calFile) <=> a \in Cal!Arrangements(new)
    <3>1. a.uid \in Cal!Uid(calFile)
      BY <1>2, <2>3 DEF Cal!Named
    <3> QED BY <2>1, <2>2, <3>1, SameElsewhere
  <2> QED BY <2>1, <2>3
<1>3. CASE q.op = "remove"
  <2>1. /\ IsCalendar(new)
        /\ \A u : u \notin q.ids => Cal!Of(calFile, u) = Cal!Of(new, u)
    BY <1>3, RemoveKeeps DEF Cal!Edited
  <2>2. \A c \in calFile \cup new : IsEvent(c)
    BY <2>1 DEF IsCalendar
  <2>3. ASSUME NEW a, ~Cal!Named(q, a)
        PROVE  a \in Cal!Arrangements(calFile) <=> a \in Cal!Arrangements(new)
    <3>1. a.uid \notin q.ids
      BY <1>3, <2>3 DEF Cal!Named
    <3> QED BY <2>1, <2>2, <3>1, SameElsewhere
  <2> QED BY <2>1, <2>3
<1>4. CASE q.op = "update"
  <2>1. \A a : ~Cal!Named(q, a) => ~IsAbout(q, a)
    BY <1>4 DEF Cal!Named, IsAbout, Keys
  <2> QED BY <1>4, <2>1, UpdateKeeps DEF Cal!Edited
<1> QED BY <1>2, <1>3, <1>4 DEF IsEdit

\* ---- calls that share the calendar ------------------------------------------

\* What a call is about to publish was made from the calendar as it still is.
CalendarInv ==
  /\ IsCalendar(calFile)
  /\ calPc = [s \in CalSessions |-> calPc[s]]
  /\ calCall = [s \in CalSessions |-> calCall[s]]
  /\ calDraft = [s \in CalSessions |-> calDraft[s]]
  /\ \A s \in CalSessions : calPc[s] # "idle" => IsEdit(calCall[s])
  /\ \A s \in CalSessions : calPc[s] = "writing" =>
       calLock = {s} /\ calDraft[s] \in Cal!Edited(calFile, calCall[s])

LEMMA CalendarInit == Cal!Init => CalendarInv
  BY CalendarAssumption DEF Cal!Init, CalendarInv

CalendarStep ==
  \A s \in CalSessions : Cal!Publishes(s) =>
    Cal!Others(calFile, calCall[s]) = Cal!Others(calFile', calCall[s])

\* A step that leaves the calendar and the calls that write as they are.
LEMMA OutsideKeeps ==
  ASSUME CalendarInv, NEW s \in CalSessions, calFile' = calFile,
         NEW pc, NEW call, NEW draft,
         calPc' = [calPc EXCEPT ![s] = pc], calCall' = [calCall EXCEPT ![s] = call],
         calDraft' = [calDraft EXCEPT ![s] = draft],
         pc # "idle" => IsEdit(call),
         pc = "writing" => calLock' = {s} /\ draft \in Cal!Edited(calFile, call),
         \A t \in CalSessions \ {s} : calPc[t] = "writing" => calLock' = calLock
  PROVE  CalendarInv' /\ CalendarStep
  BY DEF CalendarInv, CalendarStep, Cal!Publishes

LEMMA CalBeginKeeps ==
  ASSUME CalendarInv, NEW s \in CalSessions, NEW q \in CalCalls, Cal!Begin(s, q)
  PROVE  CalendarInv' /\ CalendarStep
<1>1. /\ calFile' = calFile /\ calPc' = [calPc EXCEPT ![s] = "waiting"]
      /\ calCall' = [calCall EXCEPT ![s] = q]
      /\ calDraft' = [calDraft EXCEPT ![s] = calDraft[s]] /\ calLock' = calLock
  BY DEF Cal!Begin, CalendarInv
<1>2. IsEdit(q)
  BY CalendarAssumption
<1> QED BY <1>1, <1>2, OutsideKeeps

LEMMA CalEditKeeps ==
  ASSUME CalendarInv, NEW s \in CalSessions, Cal!Edit(s)
  PROVE  CalendarInv' /\ CalendarStep
<1>1. PICK new \in Cal!Edited(calFile, calCall[s]) : calDraft' = [calDraft EXCEPT ![s] = new]
  BY DEF Cal!Edit
<1>2. /\ calFile' = calFile /\ calPc' = [calPc EXCEPT ![s] = "writing"]
      /\ calCall' = [calCall EXCEPT ![s] = calCall[s]]
      /\ calLock = {} /\ calLock' = {s} /\ IsEdit(calCall[s])
  BY DEF Cal!Edit, Cal!MayLock, CalendarInv
<1>3. \A t \in CalSessions \ {s} : calPc[t] = "writing" => calLock' = calLock
  BY <1>2 DEF CalendarInv
<1> QED BY <1>1, <1>2, <1>3, OutsideKeeps

\* A call that gives up leaves the lock to whoever holds it.
LEMMA CalLeaveKeeps ==
  ASSUME CalendarInv, NEW s \in CalSessions, Cal!Leave(s), calFile' = calFile
  PROVE  CalendarInv' /\ CalendarStep
<1>1. /\ calPc' = [calPc EXCEPT ![s] = "idle"] /\ calCall' = [calCall EXCEPT ![s] = Cal!NoCall]
      /\ calDraft' = [calDraft EXCEPT ![s] = {}] /\ calLock' = calLock \ {s}
  BY DEF Cal!Leave
<1>2. \A t \in CalSessions \ {s} : calPc[t] = "writing" => calLock' = calLock
  BY <1>1 DEF CalendarInv
<1> QED BY <1>1, <1>2, OutsideKeeps

LEMMA CalPublishKeeps ==
  ASSUME CalendarInv, NEW s \in CalSessions, Cal!Publish(s)
  PROVE  CalendarInv' /\ CalendarStep
<1>1. /\ calPc[s] = "writing" /\ calFile' = calDraft[s]
      /\ calPc' = [calPc EXCEPT ![s] = "idle"] /\ calCall' = [calCall EXCEPT ![s] = Cal!NoCall]
      /\ calDraft' = [calDraft EXCEPT ![s] = {}]
  BY DEF Cal!Publish, Cal!Leave
<1>2. /\ IsCalendar(calFile) /\ IsEdit(calCall[s]) /\ calDraft[s] \in Cal!Edited(calFile, calCall[s])
      /\ \A t \in CalSessions \ {s} : calPc[t] # "writing"
  BY <1>1 DEF CalendarInv
<1>3. IsCalendar(calFile') /\ Cal!Others(calFile, calCall[s]) = Cal!Others(calFile', calCall[s])
  BY <1>1, <1>2, EditedIs
<1>4. CalendarStep
  BY <1>2, <1>3 DEF CalendarStep, Cal!Publishes
<1>5. CalendarInv'
  BY <1>1, <1>2, <1>3 DEF CalendarInv
<1> QED BY <1>4, <1>5

LEMMA CalendarMoves ==
  ASSUME CalendarInv, [Cal!Next]_(Cal!vars) PROVE CalendarInv' /\ [CalendarStep]_(Cal!vars)
<1>1. CASE UNCHANGED Cal!vars
  <2>1. UNCHANGED <<calFile, calLock, calPc, calCall, calDraft>>
    BY <1>1 DEF Cal!vars
  <2> QED BY <1>1, <2>1 DEF CalendarInv
<1>2. CASE Cal!Next
  <2>1. PICK s \in CalSessions :
          \/ \E q \in CalCalls : Cal!Begin(s, q)
          \/ Cal!Edit(s) \/ Cal!Publish(s)
          \/ (Cal!Leave(s) /\ calFile' = calFile)
    BY <1>2 DEF Cal!Next, Cal!Refuse, Cal!FailToPublish, Cal!Cancel, Cal!Crash
  <2> QED BY <2>1, CalBeginKeeps, CalEditKeeps, CalPublishKeeps, CalLeaveKeeps
<1> QED BY <1>1, <1>2

\* An edit published changes what its call names, as the calendar was when it
\* is published, and nothing another session put there (_change, calendar_update).
THEOREM EditsStayScoped == MCSpec => Cal!EditsStayInScope
<1>1. MCInit => CalendarInv
  BY CalendarInit DEF MCInit
<1>2. [MCNext]_allVars => [Cal!Next]_(Cal!vars)
  BY DEF MCNext, allVars, calVars, Cal!vars
<1>3. CalendarInv /\ [MCNext]_allVars => CalendarInv'
  BY <1>2, CalendarMoves
<1>4. CalendarInv /\ [MCNext]_allVars =>
        [\A s \in CalSessions : Cal!Publishes(s) =>
           Cal!Others(calFile, calCall[s]) = Cal!Others(calFile', calCall[s])]_(Cal!vars)
  BY <1>2, CalendarMoves DEF CalendarStep
<1> QED BY <1>1, <1>3, <1>4, PTL DEF MCSpec, Cal!EditsStayInScope

=============================================================================
