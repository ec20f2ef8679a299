--------------------------- MODULE SessionLoopProofs ---------------------------
(***************************************************************************)
(* The pause after a Stop, the lines of the user and the count of every    *)
(* event, for every number of monitors, events and lines; the trace of a   *)
(* run, for every capacity of its queue, cap and number of records; a      *)
(* command in a sandbox, for any number of faults; and a headless run, for *)
(* any script and any number of cancellations.                             *)
(***************************************************************************)
EXTENDS MCSession, TLAPS, FiniteSetTheorems

-----------------------------------------------------------------------------
(* A Stop holds monitor events back *)

\* While a Stop stands, the loop neither listens to the inbox nor takes from it.
PauseInv ==
  /\ enabled \in BOOLEAN
  /\ closed => ~enabled
  /\ stopped => paused \/ ~enabled
  /\ loop \in {"race", "retract"} => ~stopped
  /\ turnOf = "monitor" => ~stopped

\* Nobody has pressed Stop yet.
LEMMA PauseInit == Init => PauseInv
  BY DEF Init, PauseInv

\* Only StartUserTurn withdraws a Stop, and it withdraws the pause with it.
LEMMA PauseStep == PauseInv /\ [Next]_vars => PauseInv'
<1> SUFFICES ASSUME PauseInv, [Next]_vars PROVE PauseInv'
  OBVIOUS
<1> USE DEF PauseInv
<1>1. CASE UNCHANGED vars
  BY <1>1 DEF vars, flagVars, turnVars, ghostVars
<1>2. ASSUME NEW s \in Sources,
             Publish(s) \/ Exit(s) \/ CancelSource(s) \/ StartMonitor(s)
      PROVE  PauseInv'
  <2>1. /\ UNCHANGED <<enabled, paused, closed, loop, stopped>>
        /\ turnOf' = turnOf
    BY <1>2 DEF Publish, Publishing, Exit, CancelSource, StartMonitor, flagVars,
                turnVars, ghostVars
  <2> QED BY <2>1
<1>3. CASE Close
  BY <1>3 DEF Close, turnVars, ghostVars
<1>4. CASE TypeLine \/ ReaderReturns \/ ReaderCancelled \/ ReaderFinished
  <2>1. UNCHANGED <<enabled, paused, closed, loop, stopped, turnOf>>
    BY <1>4 DEF TypeLine, ReaderReturns, ReaderCancelled, ReaderFinished,
                flagVars, turnVars, ghostVars
  <2> QED BY <2>1
<1>5. CASE Leave \/ TakeClosed \/ EventWins \/ Interrupted
  BY <1>5 DEF Leave, TakeClosed, EventWins, Interrupted, flagVars, turnVars,
              ghostVars
<1>6. CASE ReadNext
  BY <1>6 DEF ReadNext, Blocking, flagVars, turnVars, ghostVars
<1>7. CASE UserWins
  BY <1>7 DEF UserWins, StartUserTurn
<1>8. CASE Take
  BY <1>8 DEF Take, flagVars, turnVars
<1>9. CASE TurnEnds \/ TurnFails
  BY <1>9 DEF TurnEnds, TurnFails, LeaveTurn, flagVars, ghostVars
<1>10. CASE Stop
  BY <1>10 DEF Stop, LeaveTurn, PauseInbox
<1> QED BY <1>1, <1>2, <1>3, <1>4, <1>5, <1>6, <1>7, <1>8, <1>9, <1>10
        DEF Next, Session

\* After a Stop no monitor event starts a turn before the user has spoken.
THEOREM EventsAreHeld == Spec => []StopHoldsEvents
<1>1. PauseInv => StopHoldsEvents
  BY DEF PauseInv, StopHoldsEvents
<1> QED BY <1>1, PauseInit, PauseStep, PTL DEF Spec

-----------------------------------------------------------------------------
(* The user's lines *)

Numbers(n) == [i \in 1 .. n |-> i]

\* The newest line is answered, with the reader, or parked, never in two
\* places; every earlier one is answered.
LineInv ==
  /\ typed \in Nat /\ line \in Nat /\ parked \in Nat
  /\ loop # "ended" =>
       /\ reader \in {"accepted", "done"} => line # 0
       /\ reader \in {"none", "open", "cancelled"} => line = 0
       /\ reader \notin {"none", "cancelled"} => parked = 0
       /\ loop \in {"top", "turn"} => reader = "none"
       /\ line # 0 => line = typed /\ parked = 0
       /\ parked # 0 => parked = typed
       /\ answered = Numbers(IF line # 0 \/ parked # 0 THEN typed - 1 ELSE typed)

\* One more line extends the sequence of numbers.
LEMMA NumbersAppend ==
  ASSUME NEW n \in Nat, n # 0
  PROVE  Numbers(n) = Append(Numbers(n - 1), n)
  BY DEF Numbers

\* No line was typed yet.
LEMMA LineInit == Init => LineInv
  BY DEF Init, LineInv, Numbers

\* Each step moves the newest line on, or leaves it where it is.
LEMMA LineStep == LineInv /\ [Next]_vars => LineInv'
<1> SUFFICES ASSUME LineInv, [Next]_vars PROVE LineInv'
  OBVIOUS
<1> USE DEF LineInv
<1>1. CASE UNCHANGED vars
  BY <1>1 DEF vars, inputVars, ghostVars
<1>2. ASSUME NEW s \in Sources,
             Publish(s) \/ Exit(s) \/ CancelSource(s) \/ StartMonitor(s)
      PROVE  LineInv'
  BY <1>2 DEF Publish, Publishing, Exit, CancelSource, StartMonitor, inputVars,
              ghostVars
<1>3. CASE Close \/ EventWins
  BY <1>3 DEF Close, EventWins, inputVars, ghostVars
<1>4. CASE TypeLine
  BY <1>4 DEF TypeLine, ghostVars
<1>5. CASE ReaderReturns \/ ReaderFinished
  BY <1>5 DEF ReaderReturns, ReaderFinished, ghostVars
<1>6. CASE ReaderCancelled
  BY <1>6 DEF ReaderCancelled, ParkAccepted, ghostVars
<1>7. CASE ReadNext
  BY <1>7 DEF ReadNext, OpenReader, ghostVars
<1>8. CASE UserWins
  <2>1. /\ answered' = Append(answered, line) /\ line' = 0 /\ reader' = "none"
        /\ loop' = "turn" /\ loop # "ended"
        /\ UNCHANGED <<parked, typed>> /\ reader = "done"
    BY <1>8 DEF UserWins, StartUserTurn
  <2>2. typed # 0 /\ line = typed /\ answered = Numbers(typed - 1) /\ parked = 0
    BY <2>1
  <2>3. answered' = Numbers(typed)
    BY <2>1, <2>2, NumbersAppend
  <2> QED BY <2>1, <2>2, <2>3
<1>9. CASE Take
  BY <1>9 DEF Take, OpenReader
<1>10. CASE Leave \/ TakeClosed \/ Interrupted
  BY <1>10 DEF Leave, TakeClosed, Interrupted
<1>11. CASE TurnEnds \/ TurnFails \/ Stop
  BY <1>11 DEF TurnEnds, TurnFails, Stop, LeaveTurn, inputVars, ghostVars
<1> QED BY <1>1, <1>2, <1>3, <1>4, <1>5, <1>6, <1>7, <1>8, <1>9, <1>10, <1>11
        DEF Next, Session

\* Every line the user entered becomes one turn, in the order of entry.
THEOREM LinesAreKept == Spec => []EveryLineCounts
<1>1. LineInv => EveryLineCounts
  <2> SUFFICES ASSUME LineInv, loop # "ended"
               PROVE  answered \o (IF line # 0 THEN <<line>> ELSE << >>)
                        \o (IF parked # 0 THEN <<parked>> ELSE << >>)
                        = Numbers(typed)
    BY DEF EveryLineCounts, Numbers
  <2>1. CASE line = 0 /\ parked = 0
    BY <2>1 DEF LineInv, Numbers
  <2>2. CASE line # 0
    <3>1. parked = 0 /\ line = typed /\ answered = Numbers(typed - 1)
      BY <2>2 DEF LineInv
    <3>2. answered \o <<typed>> = Append(Numbers(typed - 1), typed)
      BY <3>1, <2>2 DEF Numbers, LineInv
    <3>3. Numbers(typed) = Append(Numbers(typed - 1), typed)
      BY <2>2, <3>1, NumbersAppend DEF LineInv
    <3>4. Numbers(typed) \o << >> = Numbers(typed)
      BY DEF Numbers, LineInv
    <3> QED BY <2>2, <3>1, <3>2, <3>3, <3>4
  <2>3. CASE parked # 0
    <3>1. line = 0 /\ parked = typed /\ answered = Numbers(typed - 1)
      BY <2>3 DEF LineInv
    <3>2. answered \o << >> = answered
      BY <3>1, <2>3 DEF Numbers, LineInv
    <3>3. answered \o <<typed>> = Append(Numbers(typed - 1), typed)
      BY <3>1, <2>3 DEF Numbers, LineInv
    <3>4. Numbers(typed) = Append(Numbers(typed - 1), typed)
      BY <2>3, <3>1, NumbersAppend DEF LineInv
    <3> QED BY <2>3, <3>1, <3>2, <3>3, <3>4
  <2> QED BY <2>1, <2>2, <2>3
<1> QED BY <1>1, LineInit, LineStep, PTL DEF Spec

\* The user's lines all count, and a Stop holds until the user speaks.
THEOREM UserFirst == Spec => []UserComesFirst
  BY EventsAreHeld, LinesAreKept, PTL DEF UserComesFirst

-----------------------------------------------------------------------------
(* The events of the monitors *)

\* Counting up to an element numbers a finite set of numbers from 1, in order.
LEMMA PlacesNumber ==
  ASSUME NEW K \in SUBSET Nat, IsFiniteSet(K)
  PROVE  /\ Cardinality(K) \in Nat
         /\ \A i \in K : Place(K, i) \in 1 .. Cardinality(K)
         /\ \A i, j \in K : i <= j <=> Place(K, i) <= Place(K, j)
         /\ \A n \in 1 .. Cardinality(K) : \E i \in K : Place(K, i) = n
<1> DEFINE Upto(i) == {j \in K : j <= i}
           N == Cardinality(K)
<1>0. \A i \in K : i \in Nat
  OBVIOUS
<1>1. N \in Nat
  BY FS_CardinalityType
<1>2. ASSUME NEW i \in K
      PROVE  /\ IsFiniteSet(Upto(i)) /\ Place(K, i) = Cardinality(Upto(i))
             /\ Place(K, i) \in 1 .. N
  <2>1. Upto(i) \in SUBSET K /\ i \in Upto(i)
    OBVIOUS
  <2>2. Place(K, i) = Cardinality(Upto(i))
    BY DEF Place
  <2> HIDE DEF Upto
  <2>3. IsFiniteSet(Upto(i)) /\ Cardinality(Upto(i)) <= N
    BY <2>1, FS_Subset
  <2>4. Cardinality(Upto(i)) \in Nat /\ Cardinality(Upto(i)) # 0
    BY <2>1, <2>3, FS_CardinalityType, FS_EmptySet
  <2> QED
    BY <1>1, <2>2, <2>3, <2>4
<1>3. ASSUME NEW i \in K, NEW j \in K, i <= j
      PROVE  Place(K, i) <= Place(K, j)
  <2>0. \A k \in K : k <= i => k <= j
    BY <1>0, <1>3
  <2>1. Upto(i) \in SUBSET Upto(j)
    BY <2>0
  <2> HIDE DEF Upto
  <2> QED
    BY <1>2, <2>1, FS_Subset
<1>4. ASSUME NEW i \in K, NEW j \in K, i < j
      PROVE  Place(K, i) < Place(K, j)
  <2>0. (\A k \in K : k <= i => k <= j) /\ j <= j /\ ~(j <= i)
    BY <1>0, <1>4
  <2>1. Upto(i) \in SUBSET Upto(j) /\ j \in Upto(j) /\ j \notin Upto(i)
    BY <2>0
  <2> HIDE DEF Upto
  <2>2. /\ Cardinality(Upto(i)) <= Cardinality(Upto(j))
        /\ Cardinality(Upto(i)) # Cardinality(Upto(j))
    BY <1>2, <2>1, FS_Subset
  <2>3. Place(K, i) = Cardinality(Upto(i)) /\ Place(K, j) = Cardinality(Upto(j))
    BY <1>2
  <2>4. Place(K, i) \in Nat /\ Place(K, j) \in Nat
    <3> HIDE DEF N
    <3> QED BY <1>1, <1>2
  <2> QED
    BY <2>2, <2>3, <2>4
<1> HIDE DEF N, Upto
<1>5. \A i, j \in K : i <= j <=> Place(K, i) <= Place(K, j)
  <2> TAKE i, j \in K
  <2>1. i \in Nat /\ j \in Nat /\ Place(K, i) \in Nat /\ Place(K, j) \in Nat
    BY <1>1, <1>2
  <2> QED
    BY <1>3, <1>4, <2>1
<1>6. \A n \in 1 .. N : \E i \in K : Place(K, i) = n
  <2> DEFINE p == [i \in K |-> Place(K, i)]
  <2>1. p \in Injection(K, 1 .. N)
    <3>1. p \in [K -> 1 .. N]
      BY <1>2
    <3>2. \A i, j \in K : p[i] = p[j] => i = j
      <4> TAKE i, j \in K
      <4>1. i \in Nat /\ j \in Nat /\ Place(K, i) \in Nat /\ Place(K, j) \in Nat
        BY <1>1, <1>2
      <4> QED
        BY <1>5, <4>1
    <3> QED
      BY <3>1, <3>2 DEF Injection, IsInjective
  <2>2. IsFiniteSet(1 .. N) /\ Cardinality(1 .. N) = N
    BY <1>1, FS_Interval
  <2>3. p \in Surjection(K, 1 .. N)
    BY <2>1, <2>2, FS_Injection DEF N
  <2> QED
    BY <2>3 DEF Surjection
<1> QED
  BY <1>1, <1>2, <1>5, <1>6 DEF N

\* A filtered list holds what stands at the kept places, in their order.
LEMMA Filtered ==
  ASSUME NEW S, NEW q \in Seq(S), NEW K \in SUBSET DOMAIN q
  PROVE  /\ Subsequence(q, K) \in Seq(S)
         /\ \A n \in DOMAIN Subsequence(q, K) :
              \E i \in K : Subsequence(q, K)[n] = q[i]
         /\ \A i \in K : \E n \in DOMAIN Subsequence(q, K) : Subsequence(q, K)[n] = q[i]
         /\ \A m, n \in DOMAIN Subsequence(q, K) : m < n =>
              \E i, j \in K : i < j /\ Subsequence(q, K)[m] = q[i] /\ Subsequence(q, K)[n] = q[j]
<1> DEFINE N == Cardinality(K)
           Nth(n) == CHOOSE i \in K : Place(K, i) = n
           f == Subsequence(q, K)
<1>1. DOMAIN q = 1 .. Len(q) /\ Len(q) \in Nat
  OBVIOUS
<1>2. K \in SUBSET Nat /\ IsFiniteSet(K)
  <2>1. IsFiniteSet(DOMAIN q)
    BY <1>1, FS_Interval
  <2> QED BY <1>1, <2>1, FS_Subset
<1>3. f = [n \in 1 .. N |-> q[Nth(n)]]
  BY DEF Subsequence
<1>4. /\ N \in Nat
      /\ \A i \in K : Place(K, i) \in 1 .. N
      /\ \A i, j \in K : i <= j <=> Place(K, i) <= Place(K, j)
      /\ \A n \in 1 .. N : \E i \in K : Place(K, i) = n
  BY <1>2, PlacesNumber
<1>5. \A n \in 1 .. N : Nth(n) \in K /\ Place(K, Nth(n)) = n
  BY <1>4
<1> HIDE DEF N, f
<1>6. DOMAIN f = 1 .. N /\ \A n \in 1 .. N : f[n] = q[Nth(n)]
  BY <1>3
<1>7. f \in Seq(S)
  <2>1. \A n \in 1 .. N : q[Nth(n)] \in S
    BY <1>1, <1>5
  <2> HIDE DEF Nth
  <2> QED BY <1>3, <1>4, <2>1
<1> HIDE DEF Nth
<1>8. \A i \in K : f[Place(K, i)] = q[i]
  <2> TAKE i \in K
  <2> DEFINE j == Nth(Place(K, i))
  <2>1. j \in K /\ Place(K, j) = Place(K, i) /\ f[Place(K, i)] = q[j]
    BY <1>4, <1>5, <1>6
  <2> HIDE DEF j
  <2>2. i \in Nat /\ j \in Nat /\ Place(K, i) \in Nat
    BY <1>2, <1>4, <2>1
  <2>3. i <= j /\ j <= i
    BY <1>4, <2>1, <2>2
  <2>4. i = j
    BY <2>2, <2>3
  <2> QED BY <2>1, <2>4
<1>9. ASSUME NEW m \in DOMAIN f, NEW n \in DOMAIN f, m < n
      PROVE  \E i, j \in K : i < j /\ f[m] = q[i] /\ f[n] = q[j]
  <2>1. m \in 1 .. N /\ n \in 1 .. N
    BY <1>6
  <2>2. Nth(m) \in K /\ Nth(n) \in K /\ Place(K, Nth(m)) = m /\ Place(K, Nth(n)) = n
    BY <2>1, <1>5
  <2>3. Nth(m) \in Nat /\ Nth(n) \in Nat /\ m \in Nat /\ n \in Nat
    BY <2>1, <2>2, <1>2, <1>4
  <2>4. ~(Nth(n) <= Nth(m))
    BY <1>4, <1>9, <2>2, <2>3
  <2>5. Nth(m) < Nth(n)
    BY <2>3, <2>4
  <2> QED BY <1>6, <2>1, <2>2, <2>5
<1>10. \A n \in DOMAIN f : \E i \in K : f[n] = q[i]
  BY <1>5, <1>6
<1>11. \A i \in K : \E n \in DOMAIN f : f[n] = q[i]
  BY <1>4, <1>6, <1>8
<1> QED BY <1>7, <1>9, <1>10, <1>11 DEF f

Told == [src : Sources, id : Nat \ {0}]

EventTypeInv ==
  /\ queue \in Seq(Told) /\ heard \in Seq(Told)
  /\ src \in [Sources -> {"new", "attached", "finished", "cancelled"}]
  /\ dropped \in [Sources -> Nat] /\ published \in [Sources -> Nat]
  /\ reported \in [Sources -> Nat]
  /\ born \subseteq Sources /\ voided \subseteq Sources

\* The numbers of each source rise.
Rising(q) ==
  \A i, j \in DOMAIN q : i < j /\ q[i].src = q[j].src => q[i].id < q[j].id

\* What is queued comes after what was heard.
EventOrderInv ==
  /\ Rising(heard) /\ Rising(queue)
  /\ \A i \in DOMAIN heard : heard[i].id <= published[heard[i].src]
  /\ \A i \in DOMAIN queue : queue[i].id <= published[queue[i].src]
  /\ \A i \in DOMAIN heard, j \in DOMAIN queue :
       heard[i].src = queue[j].src => heard[i].id < queue[j].id

\* A running turn can name its watches, and a voided one silenced them.
SilenceInv ==
  /\ \A s \in born : src[s] # "new"
  /\ \A s \in voided : src[s] = "cancelled"

\* The inductive invariant of the inbox.
InboxInv == EventTypeInv /\ EventOrderInv /\ SilenceInv /\ LossIsReported

\* A list that holds no more than another, in its order, rises with it.
Within(f, q) ==
  /\ \A n \in DOMAIN f : \E i \in DOMAIN q : f[n] = q[i]
  /\ \A m, n \in DOMAIN f : m < n => \E i, j \in DOMAIN q : i < j /\ f[m] = q[i] /\ f[n] = q[j]

LEMMA WithinRises ==
  ASSUME NEW f, NEW q, Within(f, q), Rising(q)
  PROVE  Rising(f)
<1> SUFFICES ASSUME NEW m \in DOMAIN f, NEW n \in DOMAIN f, m < n, f[m].src = f[n].src
             PROVE  f[m].id < f[n].id
  BY DEF Rising
<1>1. PICK i \in DOMAIN q, j \in DOMAIN q : i < j /\ f[m] = q[i] /\ f[n] = q[j]
  BY DEF Within
<1> QED BY <1>1 DEF Rising

\* Dropping the oldest event of the queue, and taking the first ones.
LEMMA TailIsWithin ==
  ASSUME NEW S, NEW q \in Seq(S), q # << >>
  PROVE  /\ Tail(q) \in Seq(S) /\ Within(Tail(q), q) /\ Head(q) = q[1] /\ 1 \in DOMAIN q
         /\ \A j \in DOMAIN Tail(q) : j + 1 \in DOMAIN q /\ Tail(q)[j] = q[j + 1] /\ j \in Nat
         /\ \A j \in DOMAIN q : j # 1 => j - 1 \in DOMAIN Tail(q) /\ Tail(q)[j - 1] = q[j] /\ j > 1
<1>1. /\ Len(q) \in Nat /\ Len(q) > 0 /\ DOMAIN q = 1 .. Len(q)
      /\ Tail(q) \in Seq(S) /\ Head(q) = q[1]
  OBVIOUS
<1>2. DOMAIN Tail(q) = 1 .. Len(q) - 1 /\ \A j \in 1 .. Len(q) - 1 : Tail(q)[j] = q[j + 1]
  BY <1>1
<1>3. \A j \in DOMAIN Tail(q) : j + 1 \in DOMAIN q /\ Tail(q)[j] = q[j + 1] /\ j \in Nat
  BY <1>1, <1>2
<1>4. \A j \in DOMAIN q : j # 1 => j - 1 \in DOMAIN Tail(q) /\ Tail(q)[j - 1] = q[j] /\ j > 1
  BY <1>1, <1>2
<1>5. \A m, n \in DOMAIN Tail(q) : m < n => m + 1 < n + 1
  BY <1>3
<1> QED BY <1>1, <1>3, <1>4, <1>5 DEF Within

LEMMA PrefixIsWithin ==
  ASSUME NEW S, NEW q \in Seq(S), NEW m \in 0 .. Len(q)
  PROVE  LET a == SubSeq(q, 1, m)
             b == SubSeq(q, m + 1, Len(q))
         IN  /\ a \in Seq(S) /\ b \in Seq(S) /\ Within(a, q) /\ Within(b, q)
             /\ \A i \in DOMAIN a, j \in DOMAIN b : \E k, n \in DOMAIN q :
                  k < n /\ a[i] = q[k] /\ b[j] = q[n]
             /\ \A k \in DOMAIN q : (\E i \in DOMAIN a : a[i] = q[k]) \/ (\E j \in DOMAIN b : b[j] = q[k])
<1> DEFINE a == SubSeq(q, 1, m)
           b == SubSeq(q, m + 1, Len(q))
<1>1. Len(q) \in Nat /\ DOMAIN q = 1 .. Len(q) /\ m \in Nat /\ m <= Len(q)
  OBVIOUS
<1>2. /\ a \in Seq(S) /\ DOMAIN a = 1 .. m /\ \A i \in 1 .. m : a[i] = q[i]
  BY <1>1
<1>3. /\ b \in Seq(S) /\ DOMAIN b = 1 .. Len(q) - m
      /\ \A j \in 1 .. Len(q) - m : b[j] = q[m + j]
  BY <1>1
<1> HIDE DEF a, b
<1>4. \A i \in DOMAIN a : i \in DOMAIN q /\ i \in Nat /\ a[i] = q[i] /\ i <= m
  BY <1>1, <1>2
<1>5. \A j \in DOMAIN b : m + j \in DOMAIN q /\ j \in Nat /\ j > 0 /\ b[j] = q[m + j]
  BY <1>1, <1>3
<1>6. Within(a, q)
  BY <1>4 DEF Within
<1>7. Within(b, q)
  <2>1. \A i, j \in DOMAIN b : i < j => m + i < m + j
    BY <1>1, <1>5
  <2> QED BY <1>5, <2>1 DEF Within
<1>8. \A i \in DOMAIN a, j \in DOMAIN b : \E k, n \in DOMAIN q : k < n /\ a[i] = q[k] /\ b[j] = q[n]
  <2> TAKE i \in DOMAIN a, j \in DOMAIN b
  <2>1. i < m + j
    BY <1>1, <1>4, <1>5
  <2> QED BY <1>4, <1>5, <2>1
<1>9. ASSUME NEW k \in DOMAIN q
      PROVE  (\E i \in DOMAIN a : a[i] = q[k]) \/ (\E j \in DOMAIN b : b[j] = q[k])
  <2>1. CASE k <= m
    BY <1>1, <1>2, <2>1
  <2>2. CASE k > m
    <3>1. k - m \in DOMAIN b /\ m + (k - m) = k
      BY <1>1, <1>3, <2>2
    <3> QED BY <1>5, <3>1
  <2> QED BY <1>1, <2>1, <2>2
<1> QED BY <1>2, <1>3, <1>6, <1>7, <1>8, <1>9 DEF a, b

\* What stays of a list once events of some sources are taken out.
LEMMA FilteredIsWithin ==
  ASSUME NEW S, NEW q \in Seq(S), NEW K \in SUBSET DOMAIN q
  PROVE  Subsequence(q, K) \in Seq(S) /\ Within(Subsequence(q, K), q)
BY Filtered DEF Within

LEMMA InboxInit == Init => InboxInv
<1> SUFFICES ASSUME Init PROVE InboxInv
  OBVIOUS
<1> DEFINE e == << >>
<1>1. queue = e /\ heard = e /\ e \in Seq(Told) /\ DOMAIN e = {}
  BY DEF Init
<1> HIDE DEF e
<1>2. /\ src = [s \in Sources |-> "new"] /\ dropped = [s \in Sources |-> 0]
      /\ published = [s \in Sources |-> 0] /\ reported = [s \in Sources |-> 0]
      /\ born = {} /\ voided = {}
  BY DEF Init
<1>3. EventTypeInv /\ SilenceInv
  BY <1>1, <1>2 DEF EventTypeInv, SilenceInv
<1>4. EventOrderInv
  BY <1>1 DEF EventOrderInv, Rising
<1>5. LossIsReported
  <2> SUFFICES ASSUME NEW s \in Sources PROVE Cardinality(Lost(s)) = dropped[s] + reported[s]
    BY DEF LossIsReported
  <2>1. published[s] = 0 /\ dropped[s] + reported[s] = 0
    BY <1>2
  <2>2. Lost(s) = {}
    BY <2>1 DEF Lost
  <2> QED BY <2>1, <2>2, FS_EmptySet
<1> QED BY <1>3, <1>4, <1>5 DEF InboxInv

\* Nothing but the bookkeeping of watches moves: a turn, the editor, a watch
\* that starts or ends.
LEMMA InboxRests ==
  ASSUME InboxInv,
         UNCHANGED <<queue, heard, dropped, published, reported, closed, voided>>,
         src' \in [Sources -> {"new", "attached", "finished", "cancelled"}],
         \A s \in Sources : src[s] = "cancelled" <=> src'[s] = "cancelled",
         born' \subseteq Sources, \A s \in born' : src'[s] # "new"
  PROVE  InboxInv'
<1>1. EventTypeInv'
  BY DEF InboxInv, EventTypeInv
<1>2. EventOrderInv'
  BY DEF InboxInv, EventOrderInv, Rising
<1>3. SilenceInv'
  BY DEF InboxInv, SilenceInv, EventTypeInv
<1>4. \A s : Lost(s)' = Lost(s)
  BY DEF Lost, NumbersOf
<1>5. LossIsReported'
  BY <1>4 DEF InboxInv, LossIsReported
<1> QED BY <1>1, <1>2, <1>3, <1>5 DEF InboxInv

\* The numbers of the events in a list.
LEMMA NumbersAre ==
  ASSUME NEW q, NEW s, NEW n
  PROVE  n \in NumbersOf(q, s) <=> \E i \in DOMAIN q : q[i].src = s /\ q[i].id = n
BY DEF NumbersOf

LEMMA LostIsFinite ==
  ASSUME InboxInv, NEW s \in Sources
  PROVE  IsFiniteSet(Lost(s)) /\ Cardinality(Lost(s)) \in Nat
<1>1. published[s] \in Nat
  BY DEF InboxInv, EventTypeInv
<1>2. IsFiniteSet(1 .. published[s]) /\ Lost(s) \in SUBSET (1 .. published[s])
  BY <1>1, FS_Interval DEF Lost
<1> QED BY <1>2, FS_Subset, FS_CardinalityType

\* The oldest event makes room.
LEMMA RoomIs ==
  ASSUME InboxInv
  PROVE  /\ Room \in Seq(Told) /\ Within(Room, queue)
         /\ Len(queue) >= MaxEvents => queue # << >> /\ Head(queue) = queue[1] /\ 1 \in DOMAIN queue
         /\ \A s : NumbersOf(Room, s) =
              IF Len(queue) >= MaxEvents /\ Head(queue).src = s
              THEN NumbersOf(queue, s) \ {Head(queue).id} ELSE NumbersOf(queue, s)
<1>1. queue \in Seq(Told) /\ Rising(queue)
  BY DEF InboxInv, EventTypeInv, EventOrderInv
<1>2. CASE ~(Len(queue) >= MaxEvents)
  <2>1. Room = queue
    BY <1>2 DEF Room
  <2>2. Within(queue, queue)
    BY DEF Within
  <2> QED BY <1>1, <1>2, <2>1, <2>2
<1>3. CASE Len(queue) >= MaxEvents
  <2>1. Room = Tail(queue) /\ queue # << >>
    BY <1>1, <1>3, LimitAssumption DEF Room
  <2> DEFINE t == Tail(queue)
             h == Head(queue)
  <2>2. /\ t \in Seq(Told) /\ Within(t, queue) /\ h = queue[1] /\ 1 \in DOMAIN queue
        /\ \A j \in DOMAIN t : j + 1 \in DOMAIN queue /\ t[j] = queue[j + 1] /\ j \in Nat /\ j > 0
        /\ \A j \in DOMAIN queue : j # 1 => j - 1 \in DOMAIN t /\ t[j - 1] = queue[j] /\ j > 1
    <3>1. Tail(queue) \in Seq(Told)
      BY <1>1, <2>1, TailIsWithin
    <3>2. \A j \in DOMAIN Tail(queue) : j > 0
      BY <3>1
    <3> QED BY <1>1, <2>1, <3>2, TailIsWithin
  <2> HIDE DEF t, h
  <2>3. ASSUME NEW s, NEW n
        PROVE  n \in NumbersOf(t, s) <=> n \in NumbersOf(queue, s) /\ ~(h.src = s /\ n = h.id)
    <3>1. ASSUME n \in NumbersOf(t, s)
          PROVE  n \in NumbersOf(queue, s) /\ ~(h.src = s /\ n = h.id)
      <4>1. PICK j \in DOMAIN t : t[j].src = s /\ t[j].id = n
        BY <3>1, NumbersAre
      <4>2. j + 1 \in DOMAIN queue /\ queue[j + 1] = t[j] /\ 1 < j + 1
        BY <2>2
      <4>3. n \in NumbersOf(queue, s)
        BY <4>1, <4>2, NumbersAre
      <4>4. h.src = s => queue[1].id < queue[j + 1].id
        BY <1>1, <2>2, <4>1, <4>2 DEF Rising
      <4>5. queue[1].id \in Nat /\ queue[j + 1].id \in Nat
        <5>1. queue[1] \in Told /\ queue[j + 1] \in Told
          BY <1>1, <2>2, <4>2
        <5> QED BY <5>1 DEF Told
      <4> QED BY <2>2, <4>1, <4>2, <4>3, <4>4, <4>5
    <3>2. ASSUME n \in NumbersOf(queue, s), ~(h.src = s /\ n = h.id)
          PROVE  n \in NumbersOf(t, s)
      <4>1. PICK j \in DOMAIN queue : queue[j].src = s /\ queue[j].id = n
        BY <3>2, NumbersAre
      <4>2. j # 1
        BY <2>2, <3>2, <4>1
      <4>3. j - 1 \in DOMAIN t /\ t[j - 1] = queue[j]
        BY <2>2, <4>2
      <4> QED BY <4>1, <4>3, NumbersAre
    <3> QED BY <3>1, <3>2
  <2>4. \A s : NumbersOf(t, s) = IF h.src = s THEN NumbersOf(queue, s) \ {h.id} ELSE NumbersOf(queue, s)
    BY <2>3
  <2> QED BY <1>3, <2>1, <2>2, <2>4 DEF t, h
<1> QED BY <1>2, <1>3

\* publish: one event joins the queue, the oldest may leave it, counted.
LEMMA PutKeeps ==
  ASSUME InboxInv, NEW s \in Sources, Put(s), ~closed,
         UNCHANGED <<heard, closed, reported, born, voided>>,
         src' \in [Sources -> {"new", "attached", "finished", "cancelled"}],
         \A t \in Sources : src[t] = "cancelled" <=> src'[t] = "cancelled",
         \A t \in Sources : src'[t] = "new" => src[t] = "new"
  PROVE  InboxInv'
<1> DEFINE e == Event(s)
           r == Room
           h == Head(queue)
           full == Len(queue) >= MaxEvents
<1>1. /\ queue' = Append(r, e) /\ published' = [published EXCEPT ![s] = @ + 1]
      /\ IF full THEN DropOldest ELSE UNCHANGED dropped
  BY DEF Put
<1>2. /\ queue \in Seq(Told) /\ heard \in Seq(Told) /\ Rising(queue) /\ Rising(heard)
      /\ published \in [Sources -> Nat] /\ dropped \in [Sources -> Nat]
      /\ reported \in [Sources -> Nat]
  BY DEF InboxInv, EventTypeInv, EventOrderInv
<1>3. e.src = s /\ e.id = published[s] + 1 /\ e \in Told
  BY <1>2 DEF Event, Told
<1>4. /\ r \in Seq(Told) /\ Within(r, queue)
      /\ full => queue # << >> /\ h = queue[1] /\ 1 \in DOMAIN queue
      /\ \A t : NumbersOf(r, t) = IF full /\ h.src = t THEN NumbersOf(queue, t) \ {h.id}
                                  ELSE NumbersOf(queue, t)
  BY RoomIs
<1> HIDE DEF e, r, h, full
<1>5. /\ queue' \in Seq(Told) /\ DOMAIN queue' = DOMAIN r \cup {Len(r) + 1}
      /\ \A i \in DOMAIN r : queue'[i] = r[i] /\ i \in Nat /\ i < Len(r) + 1
      /\ queue'[Len(r) + 1] = e /\ Len(r) \in Nat
  BY <1>1, <1>3, <1>4
<1>6. full => h \in Told /\ h.src \in Sources /\ h.id \in Nat /\ h.id > 0 /\ h.id <= published[h.src]
  <2>1. full => h \in Told /\ h.id <= published[h.src]
    BY <1>2, <1>4 DEF InboxInv, EventOrderInv
  <2> QED BY <2>1 DEF Told
<1>7. dropped' \in [Sources -> Nat]
  <2>1. dropped' = dropped \/ dropped' = [dropped EXCEPT ![Head(queue).src] = @ + 1]
    BY <1>1 DEF DropOldest
  <2> DEFINE v == Head(queue).src
  <2> HIDE DEF v
  <2>2. dropped' = dropped \/ dropped' = [dropped EXCEPT ![v] = @ + 1]
    BY <2>1 DEF v
  <2> QED BY <1>2, <2>2
<1>8. \A i \in DOMAIN r : r[i] \in Told /\ r[i].src \in Sources /\ r[i].id \in Nat /\ r[i].id <= published[r[i].src]
  <2> TAKE i \in DOMAIN r
  <2>1. r[i] \in Told
    BY <1>4
  <2>2. PICK k \in DOMAIN queue : r[i] = queue[k]
    BY <1>4 DEF Within
  <2> QED BY <2>1, <2>2 DEF InboxInv, EventOrderInv, Told
<1>9. \A t \in Sources : published'[t] = IF t = s THEN published[t] + 1 ELSE published[t]
  BY <1>1, <1>2
<1>10. /\ published' \in [Sources -> Nat]
       /\ \A t \in Sources : published[t] \in Nat /\ published'[t] \in Nat /\ published[t] <= published'[t]
  BY <1>1, <1>2
<1>11. EventTypeInv'
  BY <1>5, <1>7, <1>10 DEF InboxInv, EventTypeInv
<1>12. SilenceInv'
  BY DEF InboxInv, SilenceInv, EventTypeInv
<1>13. EventOrderInv'
  <2>1. Rising(r)
    BY <1>2, <1>4, WithinRises
  <2>2. Rising(queue')
    <3> SUFFICES ASSUME NEW i \in DOMAIN queue', NEW j \in DOMAIN queue', i < j,
                        queue'[i].src = queue'[j].src
                 PROVE  queue'[i].id < queue'[j].id
      BY DEF Rising
    <3>1. i \in DOMAIN r
      BY <1>5
    <3>2. CASE j \in DOMAIN r
      BY <1>5, <2>1, <3>1, <3>2 DEF Rising
    <3>3. CASE j = Len(r) + 1
      BY <1>2, <1>3, <1>5, <1>8, <3>1, <3>3
    <3> QED BY <1>5, <3>2, <3>3
  <2>3. \A i \in DOMAIN queue' : queue'[i].id <= published'[queue'[i].src]
    <3> TAKE i \in DOMAIN queue'
    <3>1. CASE i \in DOMAIN r
      <4>1. r[i].src \in Sources /\ r[i].id \in Nat /\ r[i].id <= published[r[i].src]
        BY <1>8, <3>1
      <4>2. r[i].id <= published'[r[i].src]
        BY <1>10, <4>1
      <4> QED BY <1>5, <3>1, <4>2
    <3>2. CASE i = Len(r) + 1
      BY <1>2, <1>3, <1>5, <1>9, <3>2
    <3> QED BY <1>5, <3>1, <3>2
  <2>4. \A i \in DOMAIN heard : heard[i].src \in Sources /\ heard[i].id \in Nat /\ heard[i].id <= published[heard[i].src]
    <3> TAKE i \in DOMAIN heard
    <3>1. heard[i] \in Told
      BY <1>2
    <3> QED BY <3>1 DEF InboxInv, EventOrderInv, Told
  <2>5. \A i \in DOMAIN heard : heard[i].id <= published'[heard[i].src]
    <3> TAKE i \in DOMAIN heard
    <3> QED BY <1>10, <2>4
  <2>6. \A i \in DOMAIN heard, j \in DOMAIN queue' :
          heard[i].src = queue'[j].src => heard[i].id < queue'[j].id
    <3> TAKE i \in DOMAIN heard, j \in DOMAIN queue'
    <3>1. CASE j \in DOMAIN r
      <4>1. PICK k \in DOMAIN queue : r[j] = queue[k]
        BY <1>4, <3>1 DEF Within
      <4> QED BY <1>5, <3>1, <4>1 DEF InboxInv, EventOrderInv
    <3>2. CASE j = Len(r) + 1
      BY <1>2, <1>3, <1>5, <2>4, <3>2
    <3> QED BY <1>5, <3>1, <3>2
  <2>7. Rising(heard')
    BY <1>2 DEF Rising
  <2> QED BY <2>2, <2>3, <2>5, <2>6, <2>7 DEF EventOrderInv
<1>14. LossIsReported'
  <2> SUFFICES ASSUME Cardinality(Sources) <= MaxEvents,
                      NEW t \in Sources, src'[t] # "cancelled"
               PROVE  Cardinality(Lost(t))' = dropped'[t] + reported'[t]
    BY DEF LossIsReported
  <2>1. Cardinality(Lost(t)) = dropped[t] + reported[t]
    BY DEF InboxInv, LossIsReported
  <2>2. NumbersOf(queue', t) = NumbersOf(r, t) \cup (IF t = s THEN {published[s] + 1} ELSE {})
    <3>1. ASSUME NEW n
          PROVE  n \in NumbersOf(queue', t) <=> n \in NumbersOf(r, t) \/ (t = s /\ n = published[s] + 1)
      <4>1. n \in NumbersOf(queue', t) <=> \E i \in DOMAIN queue' : queue'[i].src = t /\ queue'[i].id = n
        BY DEF NumbersOf
      <4>2. n \in NumbersOf(r, t) <=> \E i \in DOMAIN r : r[i].src = t /\ r[i].id = n
        BY NumbersAre
      <4> QED BY <1>3, <1>5, <4>1, <4>2
    <3> QED BY <3>1
  <2>3. Lost(t)' = (1 .. published'[t]) \ (NumbersOf(heard, t) \cup NumbersOf(queue', t))
    BY DEF Lost, NumbersOf
  <2>4. \A n \in NumbersOf(heard, t) : n <= published[t] /\ n \in Nat
    <3> TAKE n \in NumbersOf(heard, t)
    <3>1. PICK i \in DOMAIN heard : heard[i].src = t /\ heard[i].id = n
      BY NumbersAre
    <3>2. heard[i] \in Told /\ heard[i].id <= published[heard[i].src]
      BY <1>2 DEF InboxInv, EventOrderInv
    <3> QED BY <3>1, <3>2 DEF Told
  <2>5. CASE ~(full /\ h.src = t)
    <3>1. NumbersOf(r, t) = NumbersOf(queue, t)
      BY <1>4, <2>5
    <3>2. Lost(t)' = Lost(t)
      <4>1. CASE t = s
        <5>1. published[t] \in Nat /\ published'[t] = published[t] + 1
          BY <1>2, <1>9, <4>1
        <5>2. (1 .. published'[t]) = (1 .. published[t]) \cup {published[t] + 1}
          BY <5>1
        <5>3. published[t] + 1 \notin 1 .. published[t]
          BY <5>1
        <5> QED BY <2>2, <2>3, <3>1, <4>1, <5>2, <5>3 DEF Lost
      <4>2. CASE t # s
        BY <1>9, <2>2, <2>3, <3>1, <4>2 DEF Lost
      <4> QED BY <4>1, <4>2
    <3>3. dropped'[t] = dropped[t]
      BY <1>1, <1>2, <2>5 DEF DropOldest, full, h
    <3> QED BY <2>1, <3>2, <3>3
  <2>6. CASE full /\ h.src = t
    <3>1. h.id \in 1 .. published[t] /\ h.id \in NumbersOf(queue, t) /\ h.id \notin NumbersOf(heard, t)
      <4>1. h.id \in NumbersOf(queue, t)
        BY <1>4, <2>6, NumbersAre
      <4>2. \A i \in DOMAIN heard : heard[i].src = t => heard[i].id < h.id
        BY <1>4, <2>6 DEF InboxInv, EventOrderInv
      <4>3. \A i \in DOMAIN heard : heard[i].src = t => heard[i].id # h.id
        <5> TAKE i \in DOMAIN heard
        <5>1. heard[i] \in Told
          BY <1>2
        <5>2. heard[i].id \in Nat
          BY <5>1 DEF Told
        <5> QED BY <1>6, <2>6, <4>2, <5>2
      <4>4. h.id \notin NumbersOf(heard, t)
        BY <4>3, NumbersAre
      <4> QED BY <1>2, <1>6, <2>6, <4>1, <4>4
    <3>2. Lost(t)' = Lost(t) \cup {h.id}
      <4>0. NumbersOf(r, t) = NumbersOf(queue, t) \ {h.id}
        BY <1>4, <2>6
      <4>1. CASE t = s
        <5>1. published[t] \in Nat /\ published'[t] = published[t] + 1
          BY <1>2, <1>9, <4>1
        <5>2. (1 .. published'[t]) = (1 .. published[t]) \cup {published[t] + 1}
          BY <5>1
        <5>3. published[t] + 1 \notin 1 .. published[t] /\ h.id # published[t] + 1
          BY <3>1, <5>1
        <5> QED BY <2>2, <2>3, <3>1, <4>0, <4>1, <5>2, <5>3 DEF Lost
      <4>2. CASE t # s
        BY <1>9, <2>2, <2>3, <3>1, <4>0, <4>2 DEF Lost
      <4> QED BY <4>1, <4>2
    <3>3. h.id \notin Lost(t)
      BY <3>1 DEF Lost
    <3>4. Cardinality(Lost(t)') = Cardinality(Lost(t)) + 1
      BY <3>2, <3>3, FS_AddElement, LostIsFinite
    <3>5. dropped'[t] = dropped[t] + 1
      <4>1. dropped[t] > 0 \/ Dropping < MaxEvents
        <5> SUFFICES ASSUME ~(dropped[t] > 0) PROVE Dropping < MaxEvents
          OBVIOUS
        <5> DEFINE D == {x \in Sources : dropped[x] > 0}
        <5>1. D \in SUBSET Sources /\ t \notin D
          OBVIOUS
        <5>2. IsFiniteSet(Sources) /\ MaxEvents \in Nat
          BY LimitAssumption
        <5> HIDE DEF D
        <5>3. /\ IsFiniteSet(D) /\ Cardinality(D) <= Cardinality(Sources)
              /\ Cardinality(D) # Cardinality(Sources)
          BY <5>1, <5>2, FS_Subset
        <5>4. Cardinality(D) \in Nat /\ Cardinality(Sources) \in Nat
          BY <5>2, <5>3, FS_CardinalityType
        <5>5. Cardinality(D) < MaxEvents
          BY <5>2, <5>3, <5>4
        <5> QED BY <5>5 DEF Dropping, D
      <4>2. dropped' = [dropped EXCEPT ![t] = @ + 1]
        BY <1>1, <2>6, <4>1 DEF DropOldest, h
      <4> QED BY <1>2, <4>2
    <3>6. dropped[t] \in Nat /\ reported[t] \in Nat
      BY <1>2
    <3> QED BY <2>1, <3>4, <3>5, <3>6
  <2> QED BY <2>5, <2>6
<1> QED BY <1>11, <1>12, <1>13, <1>14 DEF InboxInv

\* cancel and the silencing of a voided turn: the events of some sources go.
LEMMA DiscardKeeps ==
  ASSUME InboxInv, NEW gone \in SUBSET Sources, Discard(gone),
         UNCHANGED <<heard, published, reported, closed>>,
         voided' \subseteq Sources, \A s \in voided' : s \in voided \/ s \in gone \/ src[s] = "cancelled",
         born' \subseteq born
  PROVE  InboxInv'
<1> DEFINE K == {i \in DOMAIN queue : queue[i].src \notin gone}
<1>1. /\ src' = [s \in Sources |-> IF s \in gone THEN "cancelled" ELSE src[s]]
      /\ queue' = Subsequence(queue, K)
      /\ dropped' = [s \in Sources |-> IF s \in gone THEN 0 ELSE dropped[s]]
  BY DEF Discard
<1>2. /\ queue \in Seq(Told) /\ heard \in Seq(Told) /\ Rising(queue) /\ Rising(heard)
      /\ dropped \in [Sources -> Nat] /\ reported \in [Sources -> Nat]
      /\ src \in [Sources -> {"new", "attached", "finished", "cancelled"}]
  BY DEF InboxInv, EventTypeInv, EventOrderInv
<1>3. K \in SUBSET DOMAIN queue /\ \A i \in DOMAIN queue : i \in K <=> queue[i].src \notin gone
  OBVIOUS
<1> HIDE DEF K
<1>4. queue' \in Seq(Told) /\ Within(queue', queue)
  BY <1>1, <1>2, <1>3, FilteredIsWithin
<1>5. EventTypeInv'
  BY <1>1, <1>2, <1>4 DEF InboxInv, EventTypeInv
<1>6. EventOrderInv'
  <2>1. Rising(queue)' /\ Rising(heard)'
    <3>1. Rising(queue')
      BY <1>2, <1>4, WithinRises
    <3> QED BY <1>2, <3>1 DEF Rising
  <2>2. \A j \in DOMAIN queue' : \E k \in DOMAIN queue : queue'[j] = queue[k]
    BY <1>4 DEF Within
  <2> QED BY <2>1, <2>2 DEF InboxInv, EventOrderInv
<1>7. SilenceInv'
  BY <1>1, <1>2 DEF InboxInv, SilenceInv, EventTypeInv
<1>8. LossIsReported'
  <2> SUFFICES ASSUME ~closed, Cardinality(Sources) <= MaxEvents,
                      NEW t \in Sources, src'[t] # "cancelled"
               PROVE  Cardinality(Lost(t))' = dropped'[t] + reported'[t]
    BY DEF LossIsReported
  <2>1. t \notin gone /\ src[t] # "cancelled" /\ dropped'[t] = dropped[t]
    BY <1>1
  <2>2. Cardinality(Lost(t)) = dropped[t] + reported[t]
    BY <2>1 DEF InboxInv, LossIsReported
  <2>3. ASSUME NEW n
        PROVE  n \in NumbersOf(queue', t) <=> n \in NumbersOf(queue, t)
    <3>1. ASSUME NEW i \in DOMAIN queue', queue'[i].src = t, queue'[i].id = n
          PROVE  \E k \in DOMAIN queue : queue[k].src = t /\ queue[k].id = n
      BY <1>4, <3>1 DEF Within
    <3>2. ASSUME NEW k \in DOMAIN queue, queue[k].src = t, queue[k].id = n
          PROVE  \E i \in DOMAIN queue' : queue'[i].src = t /\ queue'[i].id = n
      <4>1. k \in K
        BY <1>3, <2>1, <3>2
      <4>2. PICK i \in DOMAIN Subsequence(queue, K) : Subsequence(queue, K)[i] = queue[k]
        BY <1>2, <1>3, <4>1, Filtered
      <4> QED BY <1>1, <3>2, <4>2
    <3> QED BY <3>1, <3>2 DEF NumbersOf
  <2>4. NumbersOf(queue', t) = NumbersOf(queue, t)
    BY <2>3
  <2>5. Lost(t)' = Lost(t)
    BY <2>4 DEF Lost, NumbersOf
  <2> QED BY <2>1, <2>2, <2>5
<1> QED BY <1>5, <1>6, <1>7, <1>8 DEF InboxInv

\* close empties the inbox; nothing is heard of it any more.
LEMMA InboxCloses == InboxInv /\ Close => InboxInv'
<1> SUFFICES ASSUME InboxInv, Close PROVE InboxInv'
  OBVIOUS
<1> DEFINE e == << >>
<1>1. /\ closed' /\ queue' = e /\ e \in Seq(Told) /\ DOMAIN e = {}
      /\ dropped' = [s \in Sources |-> 0]
      /\ UNCHANGED <<src, born, heard, published, reported, voided>>
  BY DEF Close, turnVars, ghostVars
<1> HIDE DEF e
<1>2. EventTypeInv'
  BY <1>1 DEF InboxInv, EventTypeInv
<1>3. EventOrderInv'
  BY <1>1 DEF InboxInv, EventOrderInv, Rising
<1>4. SilenceInv' /\ LossIsReported'
  BY <1>1 DEF InboxInv, SilenceInv, LossIsReported
<1> QED BY <1>2, <1>3, <1>4 DEF InboxInv

Left == SubSeq(queue, Len(Batch) + 1, Len(queue))

\* take hands over the first events of the queue.
LEMMA BatchIs ==
  ASSUME NEW S, queue \in Seq(S)
  PROVE  /\ Batch \in Seq(S) /\ Left \in Seq(S) /\ Within(Batch, queue) /\ Within(Left, queue)
         /\ \A i \in DOMAIN Batch, j \in DOMAIN Left : \E k, n \in DOMAIN queue :
              k < n /\ Batch[i] = queue[k] /\ Left[j] = queue[n]
         /\ \A k \in DOMAIN queue :
              (\E i \in DOMAIN Batch : Batch[i] = queue[k]) \/ (\E j \in DOMAIN Left : Left[j] = queue[k])
<1>1. PICK m \in 0 .. Len(queue) : Batch = SubSeq(queue, 1, m) /\ Len(Batch) = m
  <2>1. CASE Len(queue) < BatchSize
    <3>1. Batch = queue /\ queue = SubSeq(queue, 1, Len(queue)) /\ Len(queue) \in 0 .. Len(queue)
      BY <2>1 DEF Batch
    <3> QED BY <3>1
  <2>2. CASE ~(Len(queue) < BatchSize)
    <3>1. Len(queue) \in Nat /\ BatchSize \in Nat /\ BatchSize <= Len(queue)
      BY <2>2, LimitAssumption
    <3>2. Batch = SubSeq(queue, 1, BatchSize) /\ Len(SubSeq(queue, 1, BatchSize)) = BatchSize
      BY <2>2, <3>1 DEF Batch
    <3> QED BY <3>1, <3>2
  <2> QED BY <2>1, <2>2
<1> DEFINE a == SubSeq(queue, 1, m)
           b == SubSeq(queue, m + 1, Len(queue))
<1>2. Batch = a /\ Left = b
  BY <1>1 DEF Left
<1>3. /\ a \in Seq(S) /\ b \in Seq(S) /\ Within(a, queue) /\ Within(b, queue)
      /\ \A i \in DOMAIN a, j \in DOMAIN b : \E k, n \in DOMAIN queue :
           k < n /\ a[i] = queue[k] /\ b[j] = queue[n]
      /\ \A k \in DOMAIN queue :
           (\E i \in DOMAIN a : a[i] = queue[k]) \/ (\E j \in DOMAIN b : b[j] = queue[k])
  BY PrefixIsWithin
<1> HIDE DEF a, b
<1> QED BY <1>2, <1>3

LEMMA TakeKeeps == InboxInv /\ Take => InboxInv'
<1> SUFFICES ASSUME InboxInv, Take PROVE InboxInv'
  OBVIOUS
<1> DEFINE a == Batch
           b == Left
           K == {i \in DOMAIN a : src[a[i].src] # "cancelled"}
           c == Subsequence(a, K)
           told == {s \in Sources : dropped[s] > 0 /\ src[s] # "cancelled"}
<1>1. /\ queue' = b /\ heard' = heard \o c
      /\ dropped' = [s \in Sources |-> 0]
      /\ reported' = [s \in Sources |-> IF s \in told THEN reported[s] + dropped[s] ELSE reported[s]]
      /\ UNCHANGED <<src, closed, published, voided>>
      /\ born' = born \/ born' = {}
  BY DEF Take, Left, flagVars, turnVars
<1>2. /\ queue \in Seq(Told) /\ heard \in Seq(Told) /\ Rising(queue) /\ Rising(heard)
      /\ dropped \in [Sources -> Nat] /\ reported \in [Sources -> Nat] /\ published \in [Sources -> Nat]
  BY DEF InboxInv, EventTypeInv, EventOrderInv
<1>3. /\ a \in Seq(Told) /\ b \in Seq(Told) /\ Within(a, queue) /\ Within(b, queue)
      /\ \A i \in DOMAIN a, j \in DOMAIN b : \E k, n \in DOMAIN queue :
           k < n /\ a[i] = queue[k] /\ b[j] = queue[n]
      /\ \A k \in DOMAIN queue :
           (\E i \in DOMAIN a : a[i] = queue[k]) \/ (\E j \in DOMAIN b : b[j] = queue[k])
  BY <1>2, BatchIs
<1> HIDE DEF a, b
<1>4. K \in SUBSET DOMAIN a /\ \A i \in DOMAIN a : i \in K <=> src[a[i].src] # "cancelled"
  OBVIOUS
<1> HIDE DEF K
<1>5. /\ c \in Seq(Told) /\ Within(c, a)
      /\ \A i \in K : \E n \in DOMAIN c : c[n] = a[i]
      /\ \A n \in DOMAIN c : \E i \in K : c[n] = a[i]
  <2>1. c \in Seq(Told) /\ Within(c, a)
    BY <1>3, <1>4, FilteredIsWithin
  <2>2. \A i \in K : \E n \in DOMAIN c : c[n] = a[i]
    BY <1>3, <1>4, Filtered
  <2>3. \A n \in DOMAIN c : \E i \in K : c[n] = a[i]
    BY <1>3, <1>4, Filtered
  <2> QED BY <2>1, <2>2, <2>3
<1> HIDE DEF c, told
<1>6. /\ heard' \in Seq(Told) /\ Len(heard) \in Nat
      /\ DOMAIN heard = 1 .. Len(heard)
      /\ \A i \in DOMAIN heard : i \in DOMAIN heard' /\ heard'[i] = heard[i]
      /\ \A n \in DOMAIN c : Len(heard) + n \in DOMAIN heard' /\ heard'[Len(heard) + n] = c[n] /\ n \in Nat /\ n > 0
      /\ \A i \in DOMAIN heard' : i \in DOMAIN heard \/ \E n \in DOMAIN c : i = Len(heard) + n
  <2>1. /\ Len(heard') = Len(heard) + Len(c) /\ heard' \in Seq(Told) /\ Len(heard) \in Nat /\ Len(c) \in Nat
        /\ DOMAIN heard = 1 .. Len(heard) /\ DOMAIN c = 1 .. Len(c) /\ DOMAIN heard' = 1 .. Len(heard')
    BY <1>1, <1>2, <1>5
  <2>2. \A i \in 1 .. Len(heard) : heard'[i] = heard[i]
    BY <1>1, <1>2, <1>5
  <2>3. \A n \in 1 .. Len(c) : heard'[Len(heard) + n] = c[n]
    BY <1>1, <1>2, <1>5
  <2>4. \A i \in 1 .. Len(heard) + Len(c) :
          i \in 1 .. Len(heard) \/ (i - Len(heard) \in 1 .. Len(c) /\ i = Len(heard) + (i - Len(heard)))
    BY <2>1
  <2>5. \A i \in DOMAIN heard' : i \in DOMAIN heard \/ \E n \in DOMAIN c : i = Len(heard) + n
    BY <2>1, <2>4
  <2>6. \A n \in DOMAIN c :
          Len(heard) + n \in DOMAIN heard' /\ heard'[Len(heard) + n] = c[n] /\ n \in Nat /\ n > 0
    BY <2>1, <2>3
  <2>7. \A i \in DOMAIN heard : i \in DOMAIN heard' /\ heard'[i] = heard[i]
    BY <2>1, <2>2
  <2> QED BY <2>1, <2>5, <2>6, <2>7
<1>7. \A n \in DOMAIN c : \E k \in DOMAIN queue : c[n] = queue[k]
  BY <1>3, <1>5 DEF Within
<1>8. EventTypeInv'
  <2>1. dropped' \in [Sources -> Nat] /\ reported' \in [Sources -> Nat]
    BY <1>1, <1>2
  <2> QED BY <1>1, <1>3, <1>6, <2>1 DEF InboxInv, EventTypeInv
<1>9. SilenceInv'
  BY <1>1 DEF InboxInv, SilenceInv
<1>10. EventOrderInv'
  <2>1. Rising(queue') /\ Rising(c)
    <3>1. Rising(a) /\ Rising(b)
      BY <1>2, <1>3, WithinRises
    <3> QED BY <1>1, <1>5, <3>1, WithinRises
  <2>2. Rising(heard')
    <3> SUFFICES ASSUME NEW i \in DOMAIN heard', NEW j \in DOMAIN heard', i < j,
                        heard'[i].src = heard'[j].src
                 PROVE  heard'[i].id < heard'[j].id
      BY DEF Rising
    <3>1. CASE j \in DOMAIN heard
      <4>1. i \in DOMAIN heard
        BY <1>6, <3>1
      <4> QED BY <1>2, <1>6, <3>1, <4>1 DEF Rising
    <3>2. ASSUME NEW n \in DOMAIN c, j = Len(heard) + n PROVE heard'[i].id < heard'[j].id
      <4>1. CASE i \in DOMAIN heard
        <5>1. PICK k \in DOMAIN queue : c[n] = queue[k]
          BY <1>7
        <5> QED BY <1>6, <3>2, <4>1, <5>1 DEF InboxInv, EventOrderInv
      <4>2. ASSUME NEW m \in DOMAIN c, i = Len(heard) + m PROVE heard'[i].id < heard'[j].id
        <5>1. m < n
          BY <1>6, <3>2, <4>2
        <5> QED BY <1>6, <2>1, <3>2, <4>2, <5>1 DEF Rising
      <4> QED BY <1>6, <4>1, <4>2
    <3> QED BY <1>6, <3>1, <3>2
  <2>3. \A i \in DOMAIN heard' : heard'[i].id <= published'[heard'[i].src]
    <3> TAKE i \in DOMAIN heard'
    <3>1. CASE i \in DOMAIN heard
      BY <1>1, <1>6, <3>1 DEF InboxInv, EventOrderInv
    <3>2. ASSUME NEW n \in DOMAIN c, i = Len(heard) + n PROVE heard'[i].id <= published'[heard'[i].src]
      <4>1. PICK k \in DOMAIN queue : c[n] = queue[k]
        BY <1>7
      <4> QED BY <1>1, <1>6, <3>2, <4>1 DEF InboxInv, EventOrderInv
    <3> QED BY <1>6, <3>1, <3>2
  <2>4. \A j \in DOMAIN b : \E k \in DOMAIN queue : b[j] = queue[k]
    BY <1>3 DEF Within
  <2>5. \A i \in DOMAIN queue' : queue'[i].id <= published'[queue'[i].src]
    BY <1>1, <2>4 DEF InboxInv, EventOrderInv
  <2>6. \A i \in DOMAIN heard', j \in DOMAIN queue' :
          heard'[i].src = queue'[j].src => heard'[i].id < queue'[j].id
    <3> SUFFICES ASSUME NEW i \in DOMAIN heard', NEW j \in DOMAIN b, heard'[i].src = b[j].src
                 PROVE  heard'[i].id < b[j].id
      BY <1>1
    <3>1. CASE i \in DOMAIN heard
      <4>1. PICK k \in DOMAIN queue : b[j] = queue[k]
        BY <2>4
      <4> QED BY <1>6, <3>1, <4>1 DEF InboxInv, EventOrderInv
    <3>2. ASSUME NEW n \in DOMAIN c, i = Len(heard) + n PROVE heard'[i].id < b[j].id
      <4>1. PICK x \in K : c[n] = a[x]
        BY <1>5
      <4>2. x \in DOMAIN a
        BY <1>4
      <4>3. PICK k \in DOMAIN queue, l \in DOMAIN queue : k < l /\ a[x] = queue[k] /\ b[j] = queue[l]
        BY <1>3, <4>2
      <4>4. heard'[i] = queue[k]
        BY <1>6, <3>2, <4>1, <4>3
      <4> QED BY <1>2, <4>3, <4>4 DEF Rising
    <3> QED BY <1>6, <3>1, <3>2
  <2> QED BY <2>1, <2>2, <2>3, <2>5, <2>6 DEF EventOrderInv, Rising
<1>11. LossIsReported'
  <2> SUFFICES ASSUME ~closed, Cardinality(Sources) <= MaxEvents,
                      NEW t \in Sources, src[t] # "cancelled"
               PROVE  Cardinality(Lost(t))' = dropped'[t] + reported'[t]
    BY <1>1 DEF LossIsReported
  <2>1. Cardinality(Lost(t)) = dropped[t] + reported[t]
    BY DEF InboxInv, LossIsReported
  <2>2. ASSUME NEW n
        PROVE  n \in NumbersOf(heard', t) \/ n \in NumbersOf(queue', t)
                 <=> n \in NumbersOf(heard, t) \/ n \in NumbersOf(queue, t)
    <3>1. ASSUME NEW i \in DOMAIN heard', heard'[i].src = t, heard'[i].id = n
          PROVE  n \in NumbersOf(heard, t) \/ n \in NumbersOf(queue, t)
      <4>1. CASE i \in DOMAIN heard
        BY <1>6, <3>1, <4>1 DEF NumbersOf
      <4>2. ASSUME NEW m \in DOMAIN c, i = Len(heard) + m PROVE n \in NumbersOf(queue, t)
        <5>1. PICK k \in DOMAIN queue : c[m] = queue[k]
          BY <1>7
        <5> QED BY <1>6, <3>1, <4>2, <5>1 DEF NumbersOf
      <4> QED BY <1>6, <4>1, <4>2
    <3>2. ASSUME NEW j \in DOMAIN b, b[j].src = t, b[j].id = n
          PROVE  n \in NumbersOf(queue, t)
      BY <1>3, <3>2 DEF Within, NumbersOf
    <3>3. ASSUME NEW i \in DOMAIN heard, heard[i].src = t, heard[i].id = n
          PROVE  n \in NumbersOf(heard', t)
      BY <1>6, <3>3 DEF NumbersOf
    <3>4. ASSUME NEW k \in DOMAIN queue, queue[k].src = t, queue[k].id = n
          PROVE  n \in NumbersOf(heard', t) \/ n \in NumbersOf(b, t)
      <4>1. CASE \E j \in DOMAIN b : b[j] = queue[k]
        BY <3>4, <4>1 DEF NumbersOf
      <4>2. ASSUME NEW i \in DOMAIN a, a[i] = queue[k] PROVE n \in NumbersOf(heard', t)
        <5>1. i \in K
          BY <1>4, <3>4, <4>2
        <5>2. PICK m \in DOMAIN c : c[m] = a[i]
          BY <1>5, <5>1
        <5> QED BY <1>6, <3>4, <4>2, <5>2 DEF NumbersOf
      <4> QED BY <1>3, <4>1, <4>2
    <3>5. /\ n \in NumbersOf(heard', t) <=> \E i \in DOMAIN heard' : heard'[i].src = t /\ heard'[i].id = n
          /\ n \in NumbersOf(heard, t) <=> \E i \in DOMAIN heard : heard[i].src = t /\ heard[i].id = n
          /\ n \in NumbersOf(queue, t) <=> \E i \in DOMAIN queue : queue[i].src = t /\ queue[i].id = n
          /\ n \in NumbersOf(b, t) <=> \E i \in DOMAIN b : b[i].src = t /\ b[i].id = n
      BY DEF NumbersOf
    <3>6. NumbersOf(queue', t) = NumbersOf(b, t)
      BY <1>1
    <3> QED BY <3>1, <3>2, <3>3, <3>4, <3>5, <3>6
  <2>3. NumbersOf(heard', t) \cup NumbersOf(queue', t) = NumbersOf(heard, t) \cup NumbersOf(queue, t)
    BY <2>2
  <2>4. Lost(t)' = (1 .. published'[t]) \ (NumbersOf(heard', t) \cup NumbersOf(queue', t))
    BY DEF Lost, NumbersOf
  <2>5. Lost(t)' = Lost(t)
    BY <1>1, <2>3, <2>4 DEF Lost
  <2>6. dropped'[t] + reported'[t] = dropped[t] + reported[t]
    <3>1. dropped'[t] = 0 /\ dropped[t] \in Nat /\ reported[t] \in Nat
          /\ reported'[t] = IF t \in told THEN reported[t] + dropped[t] ELSE reported[t]
      BY <1>1, <1>2
    <3>2. t \in told <=> dropped[t] > 0
      BY DEF told
    <3> QED BY <3>1, <3>2
  <2> QED BY <2>1, <2>5, <2>6
<1> QED BY <1>8, <1>9, <1>10, <1>11 DEF InboxInv

LEMMA InboxStep == InboxInv /\ [Next]_vars => InboxInv'
<1> SUFFICES ASSUME InboxInv, [Next]_vars PROVE InboxInv'
  OBVIOUS
<1>0. /\ src \in [Sources -> {"new", "attached", "finished", "cancelled"}]
      /\ born \subseteq Sources /\ \A s \in born : src[s] # "new"
      /\ voided \subseteq Sources
  BY DEF InboxInv, EventTypeInv, SilenceInv
<1>1. ASSUME UNCHANGED <<queue, heard, dropped, published, reported, closed, voided, src>>,
             born' = born \/ born' = {}
      PROVE  InboxInv'
  BY <1>0, <1>1, InboxRests
<1>2. CASE UNCHANGED vars
  BY <1>1, <1>2 DEF vars, inboxVars, flagVars, turnVars, ghostVars
<1>3. CASE TypeLine \/ ReaderReturns \/ ReaderCancelled \/ ReaderFinished \/ ReadNext
           \/ Leave \/ EventWins \/ TakeClosed \/ TurnEnds \/ Interrupted
  BY <1>1, <1>3 DEF TypeLine, ReaderReturns, ReaderCancelled, ReaderFinished, ReadNext, Leave,
                    EventWins, TakeClosed, TurnEnds, Interrupted, LeaveTurn,
                    inboxVars, flagVars, turnVars, ghostVars
<1>4. CASE UserWins
  BY <1>1, <1>4 DEF UserWins, StartUserTurn, inboxVars
<1>5. ASSUME NEW s \in Sources, StartMonitor(s) PROVE InboxInv'
  <2>1. /\ UNCHANGED <<queue, heard, dropped, published, reported, closed, voided>>
        /\ src[s] = "new" /\ src' = [src EXCEPT ![s] = "attached"] /\ born' = born \cup {s}
    BY <1>5 DEF StartMonitor, flagVars, ghostVars
  <2>2. /\ src' \in [Sources -> {"new", "attached", "finished", "cancelled"}]
        /\ \A t \in Sources : src[t] = "cancelled" <=> src'[t] = "cancelled"
        /\ born' \subseteq Sources /\ \A t \in born' : src'[t] # "new"
    BY <1>0, <2>1
  <2> QED BY <2>1, <2>2, InboxRests
<1>6. ASSUME NEW s \in Sources, Publish(s) PROVE InboxInv'
  <2>1. Put(s) /\ ~closed /\ UNCHANGED <<heard, closed, reported, born, voided, src>>
    BY <1>6 DEF Publish, Publishing, flagVars, turnVars
  <2> QED BY <1>0, <2>1, PutKeeps
<1>7. ASSUME NEW s \in Sources, Exit(s) PROVE InboxInv'
  <2>1. src[s] = "attached" /\ src' = [src EXCEPT ![s] = "finished"]
    BY <1>7 DEF Exit, Publishing
  <2>2. /\ src' \in [Sources -> {"new", "attached", "finished", "cancelled"}]
        /\ \A t \in Sources : src[t] = "cancelled" <=> src'[t] = "cancelled"
        /\ \A t \in Sources : src'[t] = "new" <=> src[t] = "new"
    BY <1>0, <2>1
  <2>3. CASE Publishing(s)
    <3>1. Put(s) /\ ~closed /\ UNCHANGED <<heard, closed, reported, born, voided>>
      BY <2>3 DEF Publishing, flagVars, turnVars
    <3> QED BY <2>2, <3>1, PutKeeps
  <2>4. CASE ~Publishing(s)
    <3>1. UNCHANGED <<queue, heard, dropped, published, reported, closed, voided, born>>
      BY <1>7, <2>4 DEF Exit, flagVars, turnVars, ghostVars
    <3> QED BY <1>0, <2>2, <3>1, InboxRests
  <2> QED BY <2>3, <2>4
<1>8. ASSUME NEW s \in Sources, CancelSource(s) PROVE InboxInv'
  <2>1. Discard({s}) /\ UNCHANGED <<heard, published, reported, closed, voided, born>>
    BY <1>8 DEF CancelSource, flagVars, turnVars, ghostVars
  <2> QED BY <1>0, <2>1, DiscardKeeps
<1>9. Silenced \in SUBSET Sources /\ \A s \in born : s \in Silenced \/ src[s] = "cancelled"
  BY <1>0 DEF Silenced
<1>10. CASE TurnFails
  <2>1. /\ Discard(Silenced) /\ voided' = voided \cup born /\ born' = {}
        /\ UNCHANGED <<heard, published, reported, closed>>
    BY <1>10 DEF TurnFails, LeaveTurn, flagVars
  <2> QED BY <1>0, <1>9, <2>1, DiscardKeeps
<1>11. CASE Stop
  <2>1. born' = {} /\ UNCHANGED <<heard, published, reported, closed>>
    BY <1>11 DEF Stop, LeaveTurn
  <2>2. CASE Discard(Silenced) /\ voided' = voided \cup born
    BY <1>0, <1>9, <2>1, <2>2, DiscardKeeps
  <2>3. CASE UNCHANGED <<inboxVars, voided>>
    BY <1>1, <2>1, <2>3 DEF inboxVars
  <2> QED BY <1>11, <2>2, <2>3 DEF Stop
<1> QED BY <1>2, <1>3, <1>4, <1>5, <1>6, <1>7, <1>8, <1>10, <1>11, InboxCloses, TakeKeeps
        DEF Next, Session

\* What was voided is cancelled, and what is cancelled is never handed over.
LEMMA VoidedStaysSilent ==
  InboxInv /\ [Next]_vars => \A s \in voided : NumbersOf(heard', s) = NumbersOf(heard, s)
<1> SUFFICES ASSUME InboxInv, [Next]_vars, NEW s \in voided
             PROVE  NumbersOf(heard', s) = NumbersOf(heard, s)
  OBVIOUS
<1>1. CASE Take
  <2> DEFINE K == {i \in DOMAIN Batch : src[Batch[i].src] # "cancelled"}
             c == Subsequence(Batch, K)
  <2>1. src[s] = "cancelled" /\ heard' = heard \o c
    BY <1>1 DEF Take, InboxInv, SilenceInv
  <2>2. heard \in Seq(Told) /\ Batch \in Seq(Told)
    <3>1. queue \in Seq(Told) /\ heard \in Seq(Told)
      BY DEF InboxInv, EventTypeInv
    <3> QED BY <3>1, BatchIs
  <2>0. K \in SUBSET DOMAIN Batch
    OBVIOUS
  <2>3. c \in Seq(Told) /\ \A n \in DOMAIN c : \E i \in K : c[n] = Batch[i]
    BY <2>0, <2>2, Filtered
  <2>4. \A i \in K : Batch[i].src # s
    BY <2>1
  <2> HIDE DEF c, K
  <2>5. \A n \in DOMAIN c : c[n].src # s
    BY <2>3, <2>4
  <2>6. /\ \A i \in DOMAIN heard : i \in DOMAIN heard' /\ heard'[i] = heard[i]
        /\ \A i \in DOMAIN heard' : i \in DOMAIN heard \/ \E n \in DOMAIN c : heard'[i] = c[n]
    <3>1. /\ Len(heard') = Len(heard) + Len(c) /\ Len(heard) \in Nat /\ Len(c) \in Nat
          /\ DOMAIN heard = 1 .. Len(heard) /\ DOMAIN c = 1 .. Len(c) /\ DOMAIN heard' = 1 .. Len(heard')
          /\ \A i \in 1 .. Len(heard) : heard'[i] = heard[i]
      BY <2>1, <2>2, <2>3
    <3>2. \A i \in DOMAIN heard' : i \notin DOMAIN heard => i - Len(heard) \in DOMAIN c /\ heard'[i] = c[i - Len(heard)]
      BY <2>1, <2>2, <2>3
    <3> QED BY <3>1, <3>2
  <2>7. {i \in DOMAIN heard' : heard'[i].src = s} = {i \in DOMAIN heard : heard[i].src = s}
    BY <2>5, <2>6
  <2> QED BY <2>6, <2>7 DEF NumbersOf
<1>2. CASE ~Take
  <2>1. heard' = heard
    BY <1>2 DEF Next, Session, Publish, Publishing, Exit, CancelSource, StartMonitor, Close,
                TypeLine, Leave, ReaderReturns, ReaderCancelled, ReaderFinished, ReadNext,
                UserWins, StartUserTurn, EventWins, TakeClosed, TurnEnds, TurnFails, Stop,
                Interrupted, vars, ghostVars
  <2> QED BY <2>1
<1> QED BY <1>1, <1>2

\* Monitors are heard in order, nothing is heard of a voided turn's monitor, and
\* what the full inbox drops is counted (BackgroundInbox, EventSource.cancel).
THEOREM EventsAreCounted == Spec => EventsAreAccounted
<1>1. InboxInv => LossIsReported
  BY DEF InboxInv
<1>2. InboxInv => HeardInOrder
  <2> SUFFICES ASSUME InboxInv, NEW i \in DOMAIN (heard \o queue), NEW j \in DOMAIN (heard \o queue),
                      i < j, (heard \o queue)[i].src = (heard \o queue)[j].src
               PROVE  (heard \o queue)[i].id < (heard \o queue)[j].id
    BY DEF HeardInOrder
  <2> DEFINE h == Len(heard)
  <2>1. /\ heard \in Seq(Told) /\ queue \in Seq(Told) /\ Rising(heard) /\ Rising(queue)
        /\ \A m \in DOMAIN heard, n \in DOMAIN queue :
             heard[m].src = queue[n].src => heard[m].id < queue[n].id
    BY DEF InboxInv, EventTypeInv, EventOrderInv
  <2>2. /\ h \in Nat /\ DOMAIN heard = 1 .. h /\ DOMAIN queue = 1 .. Len(queue) /\ Len(queue) \in Nat
        /\ i \in 1 .. h + Len(queue) /\ j \in 1 .. h + Len(queue)
    BY <2>1
  <2>3. \A m \in 1 .. h + Len(queue) :
          (heard \o queue)[m] = IF m <= h THEN heard[m] ELSE queue[m - h]
    BY <2>1
  <2> HIDE DEF h
  <2>4. CASE j <= h
    <3>1. i <= h /\ i \in DOMAIN heard /\ j \in DOMAIN heard
      BY <2>2, <2>4
    <3> QED BY <2>1, <2>2, <2>3, <2>4, <3>1 DEF Rising
  <2>5. CASE i <= h /\ ~(j <= h)
    <3>1. i \in DOMAIN heard /\ j - h \in DOMAIN queue
      BY <2>2, <2>5
    <3> QED BY <2>1, <2>2, <2>3, <2>5, <3>1
  <2>6. CASE ~(i <= h)
    <3>1. ~(j <= h) /\ i - h \in DOMAIN queue /\ j - h \in DOMAIN queue /\ i - h < j - h
      BY <2>2, <2>6
    <3> QED BY <2>1, <2>2, <2>3, <2>6, <3>1 DEF Rising
  <2> QED BY <2>2, <2>4, <2>5, <2>6
<1> QED BY <1>1, <1>2, InboxInit, InboxStep, VoidedStaysSilent, PTL
        DEF Spec, EventsAreAccounted, VoidedIsSilent

-----------------------------------------------------------------------------
(* The trace of a run *)

Recs ==
  [kind : {"record"}, seq : Nat, what : {"event", "start", "end", "capture", "cap"},
   about : Nat]
Arts == [kind : {"artifact"}, id : Nat]
Fences == [kind : {"fence"}, id : Nat]
Items == Recs \cup Arts \cup Fences \cup {Tr!Stop}

TraceTypeInv ==
  /\ trSeq \in Nat /\ trSpans \in SUBSET Nat /\ trCaptured \in Nat
  /\ trQueue \in Seq(Items) /\ trJournal \in Seq(Recs)
  /\ trHealth \in [complete : BOOLEAN, capped : BOOLEAN]
  /\ trClosed \in BOOLEAN /\ trDead \in BOOLEAN /\ trSealed \in Nat
  /\ trFlushed \in Nat /\ trFlushed <= Len(trJournal)
  /\ trWriter \in {"opening", "running", "stopping", "failed", "ended"}

IsRec(i) == trQueue[i].kind = "record"

\* The queue holds records in the order of their numbers, and nothing to write
\* behind a stop.
QueueInv ==
  /\ \A i \in 1 .. Len(trQueue) : IsRec(i) => trQueue[i].seq <= trSeq /\ trQueue[i].what # "cap"
  /\ \A i, j \in 1 .. Len(trQueue) : i < j /\ IsRec(i) /\ IsRec(j) => trQueue[i].seq < trQueue[j].seq
  /\ \A i, j \in 1 .. Len(trQueue) :
       trQueue[i].kind = "stop" /\ i < j => trQueue[j].kind \notin {"record", "artifact"}
  /\ \A i \in 1 .. Len(trQueue) : trQueue[i].kind = "stop" => trClosed
  /\ trCloser # "idle" => trClosed

\* The writer still writes what it takes.
Writes == trWriter \in {"opening", "running"} /\ ~trHealth.capped /\ ~trDead

\* The artifact is there, or ahead of the place n of the queue.
Held(a, n) ==
  \/ a \in trArtifacts
  \/ \E j \in 1 .. Len(trQueue) : j < n /\ trQueue[j].kind = "artifact" /\ trQueue[j].id = a

\* As long as the writer writes, what comes is newer than what is there, and
\* announces what comes before it.
WriteInv ==
  Writes =>
    /\ \A j \in 1 .. Len(trJournal) : trJournal[j].seq <= trSeq /\ trJournal[j].what # "cap"
    /\ \A i \in 1 .. Len(trQueue), j \in 1 .. Len(trJournal) :
         IsRec(i) => trJournal[j].seq < trQueue[i].seq
    /\ \A i \in 1 .. Len(trQueue) :
         IsRec(i) /\ trQueue[i].what = "capture" => Held(trQueue[i].about, i)
    /\ trCaptured # 0 => Held(trCaptured, Len(trQueue) + 1)

\* What the sink is to write.
Emitted == IF trClosed THEN trSealed ELSE trSeq

AllWritten == trClosed /\ Len(trJournal) = trSealed /\ trFlushed = Len(trJournal)

\* Nothing was lost yet: the queue is what the journal lacks.
CompleteInv ==
  trHealth.complete =>
    /\ ~trHealth.capped /\ trWriter # "failed"
    /\ trWriter \in {"opening", "running"} /\ ~trDead =>
         /\ Len(trJournal) <= Emitted
         /\ \A i \in 1 .. Len(trQueue) : IsRec(i) => trQueue[i].seq \in Len(trJournal) + 1 .. Emitted
         /\ \A n \in Len(trJournal) + 1 .. Emitted :
                \E i \in 1 .. Len(trQueue) : IsRec(i) /\ trQueue[i].seq = n
    /\ trWriter \in {"stopping", "ended"} => AllWritten

SummaryInv == trSummary # Tr!None /\ trSummary.complete => trWriter = "ended" /\ AllWritten

\* The inductive invariant: what an inspection may be shown at any moment.
TraceInv ==
  /\ TraceTypeInv /\ QueueInv /\ WriteInv /\ CompleteInv /\ SummaryInv /\ Tr!JournalIsSound

\* What the threads carry: the last record the writer took is no older than what
\* it wrote, and every fence has the number of a flush.
ThreadsInv ==
  /\ trLast \in Nat /\ trFlushes \in Nat /\ trStrays \in SUBSET Nat
  /\ Writes => \A j \in 1 .. Len(trJournal) : trJournal[j].seq <= trLast

LEMMA TraceInvInit == Tr!Init => TraceInv
<1> SUFFICES ASSUME Tr!Init PROVE TraceInv
  OBVIOUS
<1> DEFINE e == << >>
<1>1. trQueue = e /\ trJournal = e /\ Len(e) = 0 /\ e \in Seq(Items) /\ e \in Seq(Recs)
  BY DEF Tr!Init
<1>2. Tr!Healthy \in [complete : BOOLEAN, capped : BOOLEAN] /\ ~Tr!Healthy.capped
  BY DEF Tr!Healthy
<1> HIDE DEF e
<1>0. /\ trSeq = 0 /\ trSpans = {} /\ trCaptured = 0 /\ trClosed = FALSE /\ trSealed = 0 /\ trHealth = Tr!Healthy
      /\ trFlushed = 0 /\ trArtifacts = {} /\ trWriter = "opening" /\ trCloser = "idle" /\ trDead = FALSE
      /\ trSummary = Tr!None
  BY DEF Tr!Init
<1>3. TraceTypeInv
  <2>1. trSeq \in Nat /\ trSpans \in SUBSET Nat /\ trCaptured \in Nat /\ trSealed \in Nat
    BY <1>0
  <2>2. trQueue \in Seq(Items) /\ trJournal \in Seq(Recs) /\ trFlushed \in Nat /\ trFlushed <= Len(trJournal)
    BY <1>0, <1>1
  <2>3. trHealth \in [complete : BOOLEAN, capped : BOOLEAN] /\ trClosed \in BOOLEAN /\ trDead \in BOOLEAN
    BY <1>0, <1>2
  <2> QED BY <1>0, <2>1, <2>2, <2>3 DEF TraceTypeInv
<1> USE DEF Tr!Init
<1>4. QueueInv /\ WriteInv
  BY <1>1 DEF QueueInv, WriteInv
<1>5. CompleteInv
  BY <1>1, <1>2 DEF CompleteInv, Emitted
<1>6. SummaryInv
  BY DEF SummaryInv
<1>7. Tr!JournalIsSound
  BY <1>1 DEF Tr!JournalIsSound, Tr!Lines
<1> QED BY <1>3, <1>4, <1>5, <1>6, <1>7 DEF TraceInv

\* What an item is.
LEMMA ItemsAre ==
  ASSUME NEW item \in Items
  PROVE  /\ item.kind \in {"record", "artifact", "stop", "fence"}
         /\ item.kind = "record" => item \in Recs
         /\ item.kind = "artifact" => item.id \in Nat
         /\ item.kind = "stop" => item = Tr!Stop
BY DEF Items, Recs, Arts, Fences, Tr!Stop

LEMMA HealthIs ==
  ASSUME TraceTypeInv
  PROVE  /\ Tr!Incomplete(trHealth) \in [complete : BOOLEAN, capped : BOOLEAN]
         /\ ~Tr!Incomplete(trHealth).complete /\ Tr!Incomplete(trHealth).capped = trHealth.capped
BY DEF TraceTypeInv, Tr!Incomplete

\* One more item.
LEMMA QueueGrows ==
  ASSUME TraceTypeInv, NEW item \in Items, trQueue' = Append(trQueue, item)
  PROVE  /\ trQueue' \in Seq(Items) /\ Len(trQueue') = Len(trQueue) + 1 /\ Len(trQueue) \in Nat
         /\ \A i \in 1 .. Len(trQueue) : trQueue'[i] = trQueue[i]
         /\ trQueue'[Len(trQueue) + 1] = item
BY DEF TraceTypeInv

\* The oldest one is taken.
LEMMA QueueShrinks ==
  ASSUME TraceTypeInv, trQueue # << >>, trQueue' = Tail(trQueue)
  PROVE  /\ trQueue' \in Seq(Items) /\ Len(trQueue') = Len(trQueue) - 1
         /\ Len(trQueue) \in Nat /\ Len(trQueue) > 0
         /\ \A i \in 1 .. Len(trQueue') : trQueue'[i] = trQueue[i + 1]
         /\ Head(trQueue) = trQueue[1] /\ trQueue[1] \in Items
BY DEF TraceTypeInv

\* One more line.
LEMMA JournalGrows ==
  ASSUME TraceTypeInv, NEW r \in Recs, trJournal' = Append(trJournal, r)
  PROVE  /\ trJournal' \in Seq(Recs) /\ Len(trJournal') = Len(trJournal) + 1 /\ Len(trJournal) \in Nat
         /\ \A i \in 1 .. Len(trJournal) : trJournal'[i] = trJournal[i]
         /\ trJournal'[Len(trJournal) + 1] = r
BY DEF TraceTypeInv

-----------------------------------------------------------------------------
(* The agent's thread *)

\* Something was refused or timed out: the trace is no longer complete.
Loses ==
  /\ trHealth' = Tr!Incomplete(trHealth)
  /\ UNCHANGED <<trQueue, trClosed, trSealed, Tr!disk, trDead, trWriter>>
  /\ trSeq' \in Nat /\ trSeq' >= trSeq /\ trSpans' \in SUBSET Nat
  /\ trCaptured' \in {0, trCaptured}
  /\ trCloser' # "idle" => trClosed

LEMMA LosesKeeps ==
  ASSUME TraceInv, Loses
  PROVE  TraceInv'
<1> USE DEF TraceInv
<1>1. /\ trHealth' \in [complete : BOOLEAN, capped : BOOLEAN]
      /\ ~trHealth'.complete /\ trHealth'.capped = trHealth.capped
  BY HealthIs DEF Loses
<1>2. /\ UNCHANGED <<trQueue, trClosed, trSealed, trJournal, trFlushed, trArtifacts, trSummary, trDead, trWriter>>
      /\ trSeq' \in Nat /\ trSeq' >= trSeq /\ trSpans' \in SUBSET Nat
      /\ trCaptured' \in {0, trCaptured} /\ (trCloser' # "idle" => trClosed)
      /\ trSeq \in Nat
  BY DEF Loses, Tr!disk, TraceTypeInv
<1>3. TraceTypeInv'
  BY <1>1, <1>2 DEF TraceTypeInv
<1>4. \A i \in 1 .. Len(trQueue) : IsRec(i) => trQueue[i].seq \in Nat
  <2>1. \A i \in 1 .. Len(trQueue) : trQueue[i] \in Items
    BY DEF TraceTypeInv
  <2> QED BY <2>1, ItemsAre DEF IsRec, Recs
<1>5. QueueInv'
  BY <1>2, <1>4 DEF QueueInv, IsRec
<1>6. \A j \in 1 .. Len(trJournal) : trJournal[j].seq \in Nat
  <2>1. \A j \in 1 .. Len(trJournal) : trJournal[j] \in Recs
    BY DEF TraceTypeInv
  <2> QED BY <2>1 DEF Recs
<1>7. WriteInv'
  BY <1>1, <1>2, <1>6 DEF WriteInv, Writes, IsRec, Held
<1>8. CompleteInv' /\ SummaryInv' /\ Tr!JournalIsSound'
  BY <1>1, <1>2 DEF CompleteInv, SummaryInv, AllWritten, Tr!JournalIsSound, Tr!Lines
<1> QED BY <1>3, <1>5, <1>7, <1>8

\* An item enters the queue: a numbered record, an artifact or what the threads
\* wait for.
Enters(item) ==
  /\ item \in Items /\ trQueue' = Append(trQueue, item)
  /\ UNCHANGED <<trClosed, trSealed, trHealth, Tr!disk, trDead, trWriter>>
  /\ IF item.kind = "record"
     THEN /\ trSeq' = trSeq + 1 /\ item.seq = trSeq' /\ item.what # "cap"
          /\ item.what = "capture" => item.about = trCaptured /\ trCaptured # 0
     ELSE trSeq' = trSeq
  /\ item.kind \in {"record", "artifact"} => ~trClosed
  /\ item.kind = "stop" => trClosed
  /\ trSpans' \in SUBSET Nat /\ trCaptured' \in Nat
  /\ trCaptured' \in {0, trCaptured} \/ (item.kind = "artifact" /\ item.id = trCaptured')
  /\ trCloser' # "idle" => trClosed

LEMMA EntersKeeps ==
  ASSUME TraceInv, NEW item, Enters(item)
  PROVE  TraceInv'
<1> USE DEF TraceInv
<1> PICK n : n = Len(trQueue)
  OBVIOUS
<1>1. /\ item \in Items
      /\ UNCHANGED <<trClosed, trSealed, trHealth, trJournal, trFlushed, trArtifacts, trSummary, trDead, trWriter>>
      /\ item.kind = "record" => /\ trSeq' = trSeq + 1 /\ item.seq = trSeq' /\ item.what # "cap"
                                 /\ item.what = "capture" => item.about = trCaptured /\ trCaptured # 0
      /\ item.kind # "record" => trSeq' = trSeq
      /\ item.kind \in {"record", "artifact"} => ~trClosed
      /\ item.kind = "stop" => trClosed
      /\ trSpans' \in SUBSET Nat /\ trCaptured' \in Nat
      /\ trCaptured' \in {0, trCaptured} \/ (item.kind = "artifact" /\ item.id = trCaptured')
      /\ (trCloser' # "idle" => trClosed)
  BY DEF Enters, Tr!disk
<1>2. /\ trQueue' \in Seq(Items) /\ Len(trQueue') = n + 1 /\ n \in Nat
      /\ \A i \in 1 .. n : trQueue'[i] = trQueue[i]
      /\ trQueue'[n + 1] = item
  BY QueueGrows DEF Enters
<1>3. item.kind \in {"record", "artifact", "stop", "fence"}
  BY <1>1, ItemsAre
<1>4. trSeq \in Nat /\ trSeq' \in Nat /\ trSeq <= trSeq'
  BY <1>1 DEF TraceTypeInv
<1>5. \A i \in 1 .. n : IsRec(i) => trQueue[i].seq \in Nat
  <2>1. \A i \in 1 .. n : trQueue[i] \in Items
    BY DEF TraceTypeInv
  <2> QED BY <2>1, ItemsAre DEF IsRec, Recs
<1>6. TraceTypeInv'
  BY <1>1, <1>2, <1>4 DEF TraceTypeInv
<1>7. QueueInv'
  <2>1. \A i \in 1 .. n + 1 : i \in 1 .. n \/ i = n + 1
    BY <1>2
  <2>2. \A i \in 1 .. n + 1 : IsRec(i)' => trQueue'[i].seq <= trSeq' /\ trQueue'[i].what # "cap"
    BY <1>1, <1>2, <1>4, <1>5, <2>1 DEF QueueInv, IsRec
  <2>3. \A i, j \in 1 .. n + 1 :
          i < j /\ IsRec(i)' /\ IsRec(j)' => trQueue'[i].seq < trQueue'[j].seq
    <3> SUFFICES ASSUME NEW i \in 1 .. n + 1, NEW j \in 1 .. n + 1,
                        i < j, IsRec(i)', IsRec(j)'
                 PROVE  trQueue'[i].seq < trQueue'[j].seq
      OBVIOUS
    <3>1. i \in 1 .. n /\ IsRec(i) /\ trQueue'[i] = trQueue[i]
      BY <1>2 DEF IsRec
    <3>2. CASE j \in 1 .. n
      BY <1>2, <3>1, <3>2 DEF QueueInv, IsRec
    <3>3. CASE j = n + 1
      BY <1>1, <1>2, <1>4, <1>5, <3>1, <3>3 DEF QueueInv, IsRec
    <3> QED BY <2>1, <3>2, <3>3
  <2>4. \A i, j \in 1 .. n + 1 :
          trQueue'[i].kind = "stop" /\ i < j => trQueue'[j].kind \notin {"record", "artifact"}
    <3> SUFFICES ASSUME NEW i \in 1 .. n + 1, NEW j \in 1 .. n + 1,
                        i < j, trQueue'[i].kind = "stop"
                 PROVE  trQueue'[j].kind \notin {"record", "artifact"}
      OBVIOUS
    <3>1. i \in 1 .. n /\ trQueue'[i] = trQueue[i] /\ trClosed
      BY <1>2 DEF QueueInv
    <3>2. CASE j \in 1 .. n
      BY <1>2, <3>1, <3>2 DEF QueueInv
    <3>3. CASE j = n + 1
      BY <1>1, <1>2, <3>1, <3>3
    <3> QED BY <2>1, <3>2, <3>3
  <2>5. \A i \in 1 .. n + 1 : trQueue'[i].kind = "stop" => trClosed
    BY <1>1, <1>2, <2>1 DEF QueueInv
  <2> QED BY <1>1, <1>2, <2>2, <2>3, <2>4, <2>5 DEF QueueInv
<1>8. \A a : \A i \in 1 .. n + 1 : Held(a, i) => Held(a, i)'
  BY <1>1, <1>2 DEF Held
<1>9. WriteInv'
  <2> SUFFICES ASSUME Writes PROVE WriteInv'
    BY <1>1 DEF WriteInv, Writes
  <2>1. \A j \in 1 .. Len(trJournal) : trJournal[j].seq <= trSeq /\ trJournal[j].seq \in Nat
                                       /\ trJournal[j].what # "cap"
    <3>1. \A j \in 1 .. Len(trJournal) : trJournal[j] \in Recs
      BY DEF TraceTypeInv
    <3> QED BY <3>1 DEF Recs, WriteInv
  <2>2. \A i \in 1 .. n + 1, j \in 1 .. Len(trJournal) :
             IsRec(i)' => trJournal[j].seq < trQueue'[i].seq
    <3> SUFFICES ASSUME NEW i \in 1 .. n + 1, NEW j \in 1 .. Len(trJournal), IsRec(i)'
                 PROVE  trJournal[j].seq < trQueue'[i].seq
      OBVIOUS
    <3>1. CASE i \in 1 .. n
      BY <1>2, <3>1 DEF WriteInv, IsRec
    <3>2. CASE i = n + 1
      BY <1>1, <1>2, <1>4, <2>1, <3>2 DEF IsRec
    <3> QED BY <1>2, <3>1, <3>2
  <2>3. ASSUME NEW i \in 1 .. n + 1, IsRec(i)', trQueue'[i].what = "capture",
               NEW a, a = trQueue'[i].about
        PROVE  Held(a, i)'
    <3>1. CASE i \in 1 .. n
      <4>1. IsRec(i) /\ trQueue[i].what = "capture" /\ trQueue[i].about = a
        BY <1>2, <2>3, <3>1 DEF IsRec
      <4>2. Held(trQueue[i].about, i)
        BY <3>1, <4>1 DEF WriteInv
      <4>3. Held(a, i)
        BY <4>1, <4>2 DEF Held
      <4> QED BY <1>8, <4>3
    <3>2. CASE i = n + 1
      <4>1. trCaptured # 0 /\ a = trCaptured
        BY <1>1, <1>2, <2>3, <3>2 DEF IsRec
      <4>2. Held(trCaptured, n + 1)
        BY <4>1 DEF WriteInv
      <4>3. Held(a, n + 1)
        BY <4>1, <4>2 DEF Held
      <4> QED BY <1>2, <1>8, <3>2, <4>3
    <3> QED BY <1>2, <3>1, <3>2
  <2>4. ASSUME NEW a, a = trCaptured', a # 0 PROVE Held(a, n + 2)'
    <3>1. CASE a = trCaptured
      <4>1. Held(trCaptured, n + 1)
        BY <2>4, <3>1 DEF WriteInv
      <4>2. Held(a, n + 1)
        BY <3>1, <4>1 DEF Held
      <4>3. Held(a, n + 1)'
        BY <1>2, <1>8, <4>2
      <4> QED BY <1>2, <4>3 DEF Held
    <3>2. CASE item.kind = "artifact" /\ item.id = a
      BY <1>2, <3>2 DEF Held
    <3> QED BY <1>1, <2>4, <3>1, <3>2
  <2>5. \A i \in 1 .. n + 1 :
          IsRec(i)' /\ trQueue'[i].what = "capture" => Held(trQueue[i].about, i)'
    BY <2>3 DEF Held
  <2>6. trCaptured' # 0 => Held(trCaptured, n + 2)'
    BY <2>4 DEF Held
  <2>7. \A j \in 1 .. Len(trJournal) : trJournal[j].seq <= trSeq' /\ trJournal[j].what # "cap"
    BY <1>4, <2>1
  <2>8. Len(trQueue') = n + 1 /\ (n + 1) + 1 = n + 2 /\ trJournal' = trJournal
    BY <1>1, <1>2
  <2> QED BY <2>2, <2>5, <2>6, <2>7, <2>8 DEF WriteInv
<1>10. CompleteInv'
  <2>1. Emitted' = IF item.kind = "record" THEN Emitted + 1 ELSE Emitted
    BY <1>1, <1>4 DEF Emitted
  <2>2. Emitted \in Nat /\ Len(trJournal) \in Nat
    BY DEF Emitted, TraceTypeInv
  <2>3. item.kind = "record" => item.seq = Emitted + 1
    BY <1>1 DEF Emitted
  <2> SUFFICES ASSUME trHealth.complete, trWriter \in {"opening", "running"}, ~trDead PROVE
         /\ Len(trJournal) <= Emitted'
         /\ \A i \in 1 .. n + 1 : IsRec(i)' => trQueue'[i].seq \in Len(trJournal) + 1 .. Emitted'
         /\ \A k \in Len(trJournal) + 1 .. Emitted' :
              \E i \in 1 .. n + 1 : IsRec(i)' /\ trQueue'[i].seq = k
    BY <1>1, <1>2 DEF CompleteInv, AllWritten
  <2>4. Len(trJournal) <= Emitted'
    BY <2>1, <2>2 DEF CompleteInv
  <2>5. ASSUME NEW i \in 1 .. n + 1, IsRec(i)' PROVE trQueue'[i].seq \in Len(trJournal) + 1 .. Emitted'
    <3>1. CASE i \in 1 .. n
      BY <1>2, <2>1, <2>2, <2>5, <3>1 DEF CompleteInv, IsRec
    <3>2. CASE i = n + 1
      BY <1>2, <2>1, <2>2, <2>3, <2>5, <3>2 DEF CompleteInv, IsRec
    <3> QED BY <1>2, <3>1, <3>2
  <2>6. ASSUME NEW k \in Len(trJournal) + 1 .. Emitted'
        PROVE  \E i \in 1 .. n + 1 : IsRec(i)' /\ trQueue'[i].seq = k
    <3>1. CASE k \in Len(trJournal) + 1 .. Emitted
      <4>1. PICK i \in 1 .. n : IsRec(i) /\ trQueue[i].seq = k
        BY <3>1 DEF CompleteInv
      <4> QED BY <1>2, <4>1 DEF IsRec
    <3>2. CASE k = Emitted + 1 /\ item.kind = "record"
      BY <1>2, <2>3, <3>2 DEF IsRec
    <3> QED BY <2>1, <2>2, <3>1, <3>2
  <2> QED BY <2>4, <2>5, <2>6
<1>11. SummaryInv' /\ Tr!JournalIsSound'
  BY <1>1 DEF SummaryInv, AllWritten, Tr!JournalIsSound, Tr!Lines
<1> QED BY <1>6, <1>7, <1>9, <1>10, <1>11

-----------------------------------------------------------------------------
(* The writer *)

LEMMA QueueItems ==
  ASSUME TraceTypeInv
  PROVE  /\ Len(trQueue) \in Nat
         /\ \A i \in 1 .. Len(trQueue) :
              /\ trQueue[i] \in Items
              /\ trQueue[i].kind \in {"record", "artifact", "stop", "fence"}
              /\ IsRec(i) => trQueue[i] \in Recs /\ trQueue[i].seq \in Nat
<1>1. Len(trQueue) \in Nat /\ \A i \in 1 .. Len(trQueue) : trQueue[i] \in Items
  BY DEF TraceTypeInv
<1> QED BY <1>1, ItemsAre DEF IsRec, Recs

LEMMA JournalLines ==
  ASSUME TraceTypeInv
  PROVE  /\ Len(trJournal) \in Nat
         /\ \A i \in 1 .. Len(trJournal) : trJournal[i] \in Recs /\ trJournal[i].seq \in Nat
<1>1. Len(trJournal) \in Nat /\ \A i \in 1 .. Len(trJournal) : trJournal[i] \in Recs
  BY DEF TraceTypeInv
<1> QED BY <1>1 DEF Recs

\* The oldest item is taken.
Taking ==
  /\ trQueue # << >> /\ trQueue' = Tail(trQueue)
  /\ UNCHANGED <<Tr!producing, trClosed, trSealed, trSummary, trCloser, trDead>>

LEMMA TakingKeeps ==
  ASSUME TraceInv, Taking
  PROVE  QueueInv'
<1> USE DEF TraceInv
<1>1. UNCHANGED <<trSeq, trClosed, trCloser>>
  BY DEF Taking, Tr!producing
<1>2. /\ Len(trQueue') = Len(trQueue) - 1 /\ Len(trQueue) \in Nat /\ Len(trQueue) > 0
      /\ \A i \in 1 .. Len(trQueue') : trQueue'[i] = trQueue[i + 1]
  BY QueueShrinks DEF Taking
<1>3. \A i \in 1 .. Len(trQueue') : i + 1 \in 1 .. Len(trQueue)
  BY <1>2
<1>4. \A i \in 1 .. Len(trQueue') : IsRec(i)' => trQueue'[i].seq <= trSeq' /\ trQueue'[i].what # "cap"
  BY <1>1, <1>2, <1>3 DEF QueueInv, IsRec
<1>5. \A i, j \in 1 .. Len(trQueue') :
        i < j /\ IsRec(i)' /\ IsRec(j)' => trQueue'[i].seq < trQueue'[j].seq
  <2> TAKE i, j \in 1 .. Len(trQueue')
  <2> HAVE i < j /\ IsRec(i)' /\ IsRec(j)'
  <2>1. i + 1 < j + 1 /\ IsRec(i + 1) /\ IsRec(j + 1)
    BY <1>2 DEF IsRec
  <2>2. trQueue[i + 1].seq < trQueue[j + 1].seq
    BY <1>3, <2>1 DEF QueueInv
  <2> QED BY <1>2, <2>2
<1>6. \A i, j \in 1 .. Len(trQueue') :
        trQueue'[i].kind = "stop" /\ i < j => trQueue'[j].kind \notin {"record", "artifact"}
  <2> TAKE i, j \in 1 .. Len(trQueue')
  <2> HAVE trQueue'[i].kind = "stop" /\ i < j
  <2>1. i + 1 < j + 1 /\ trQueue[i + 1].kind = "stop"
    BY <1>2
  <2>2. trQueue[j + 1].kind \notin {"record", "artifact"}
    BY <1>3, <2>1 DEF QueueInv
  <2> QED BY <1>2, <2>2
<1>7. \A i \in 1 .. Len(trQueue') : trQueue'[i].kind = "stop" => trClosed'
  BY <1>1, <1>2, <1>3 DEF QueueInv
<1>8. trCloser' # "idle" => trClosed'
  BY <1>1 DEF QueueInv
<1> QED BY <1>4, <1>5, <1>6, <1>7, <1>8 DEF QueueInv

\* What was held is still held, if the item taken is no artifact or is stored.
LEMMA TakingHolds ==
  ASSUME TraceInv, Taking, trArtifacts \subseteq trArtifacts',
         Head(trQueue).kind = "artifact" => Head(trQueue).id \in trArtifacts'
  PROVE  \A a : \A i \in 1 .. Len(trQueue) + 1 : Held(a, i) => Held(a, i - 1)'
<1> USE DEF TraceInv
<1>1. /\ Len(trQueue') = Len(trQueue) - 1 /\ Len(trQueue) \in Nat /\ Len(trQueue) > 0
      /\ \A i \in 1 .. Len(trQueue') : trQueue'[i] = trQueue[i + 1]
      /\ Head(trQueue) = trQueue[1]
  BY QueueShrinks DEF Taking
<1> SUFFICES ASSUME NEW a, NEW i \in 1 .. Len(trQueue) + 1, Held(a, i), a \notin trArtifacts'
             PROVE  Held(a, i - 1)'
  BY DEF Held
<1>2. PICK j \in 1 .. Len(trQueue) : j < i /\ trQueue[j].kind = "artifact" /\ trQueue[j].id = a
  BY DEF Held
<1>3. j # 1
  BY <1>1, <1>2
<1>4. PICK k \in 1 .. Len(trQueue') : k = j - 1
  BY <1>1, <1>3
<1>5. k < i - 1 /\ trQueue'[k] = trQueue[j]
  BY <1>1, <1>2, <1>4
<1> QED BY <1>2, <1>5 DEF Held

\* What is still to be announced is still there or ahead of it.
LEMMA TakingAnnounces ==
  ASSUME TraceInv, Taking, Writes, trArtifacts \subseteq trArtifacts',
         Head(trQueue).kind = "artifact" => Head(trQueue).id \in trArtifacts'
  PROVE  /\ \A i \in 1 .. Len(trQueue') :
              IsRec(i)' /\ trQueue'[i].what = "capture" => Held(trQueue[i].about, i)'
         /\ trCaptured' # 0 => Held(trCaptured, Len(trQueue) + 1)'
<1> USE DEF TraceInv
<1>1. trCaptured' = trCaptured
  BY DEF Taking, Tr!producing
<1>2. /\ Len(trQueue') = Len(trQueue) - 1 /\ Len(trQueue) \in Nat
      /\ \A i \in 1 .. Len(trQueue') : trQueue'[i] = trQueue[i + 1]
  BY QueueShrinks DEF Taking
<1>3. \A i \in 1 .. Len(trQueue') : i + 1 \in 1 .. Len(trQueue) /\ (IsRec(i)' <=> IsRec(i + 1))
  BY <1>2 DEF IsRec
<1>4. \A a : \A i \in 1 .. Len(trQueue) + 1 : Held(a, i) => Held(a, i - 1)'
  BY TakingHolds
<1>5. ASSUME NEW i \in 1 .. Len(trQueue'), IsRec(i)', trQueue'[i].what = "capture",
             NEW a, a = trQueue'[i].about
      PROVE  Held(a, i)'
  <2>1. Held(trQueue[i + 1].about, i + 1)
    BY <1>2, <1>3, <1>5 DEF WriteInv
  <2>2. Held(a, i + 1)
    BY <1>2, <1>5, <2>1 DEF Held
  <2>3. Held(a, (i + 1) - 1)'
    BY <1>2, <1>3, <1>4, <2>2
  <2>4. (i + 1) - 1 = i
    BY <1>2
  <2> QED BY <2>3, <2>4
<1>6. ASSUME NEW a, a = trCaptured', a # 0 PROVE Held(a, Len(trQueue) + 1)'
  <2>1. Held(trCaptured, Len(trQueue) + 1)
    BY <1>1, <1>6 DEF WriteInv
  <2>2. Held(a, Len(trQueue) + 1)
    BY <1>1, <1>6, <2>1 DEF Held
  <2> PICK n : n = Len(trQueue) + 1
    OBVIOUS
  <2>3. Held(a, n - 1)'
    BY <1>2, <1>4, <2>2
  <2>4. n - 1 = Len(trQueue') + 1
    BY <1>2
  <2> QED BY <2>3, <2>4 DEF Held
<1>7. \A i \in 1 .. Len(trQueue') :
        IsRec(i)' /\ trQueue'[i].what = "capture" => Held(trQueue[i].about, i)'
  BY <1>5 DEF Held
<1>8. trCaptured' # 0 => Held(trCaptured, Len(trQueue) + 1)'
  BY <1>6 DEF Held
<1> QED BY <1>7, <1>8

\* An item is taken and not written: it was no record or artifact, the trace is
\* no longer complete or nothing more is written.
Drops ==
  /\ Taking /\ UNCHANGED <<trJournal, trArtifacts>>
  /\ trFlushed' \in {trFlushed, Len(trJournal)}
  /\ trHealth' \in {trHealth, Tr!Incomplete(trHealth)} /\ trWriter # "ended"
  /\ trWriter' \in {"opening", "running", "stopping", "failed", "ended"}
  /\ ~trHealth.capped /\ trWriter' \in {"opening", "running"}
     => trWriter' = trWriter /\ Head(trQueue).kind # "artifact"
  /\ trHealth'.complete =>
       \/ trWriter' = trWriter /\ Head(trQueue).kind # "record"
       \/ trWriter' = "stopping" /\ Head(trQueue).kind = "stop" /\ trFlushed' = Len(trJournal)
          /\ trWriter \in {"opening", "running"} /\ ~trDead

LEMMA DropsKeeps ==
  ASSUME TraceInv, Drops
  PROVE  TraceInv'
<1> USE DEF TraceInv
<1>1. Taking /\ QueueInv'
  BY TakingKeeps DEF Drops
<1>2. UNCHANGED <<trSeq, trSpans, trCaptured, trClosed, trSealed, trJournal, trArtifacts, trSummary, trCloser, trDead>>
  BY <1>1 DEF Drops, Taking, Tr!producing
<1>3. /\ trQueue' \in Seq(Items) /\ Len(trQueue') = Len(trQueue) - 1
      /\ Len(trQueue) \in Nat /\ Len(trQueue) > 0
      /\ \A i \in 1 .. Len(trQueue') : trQueue'[i] = trQueue[i + 1]
      /\ Head(trQueue) = trQueue[1]
  BY <1>1, QueueShrinks DEF Taking
<1>4. /\ trFlushed' \in {trFlushed, Len(trJournal)} /\ trWriter # "ended"
      /\ trWriter' \in {"opening", "running", "stopping", "failed", "ended"}
      /\ ~trHealth.capped /\ trWriter' \in {"opening", "running"}
         => trWriter' = trWriter /\ Head(trQueue).kind # "artifact"
      /\ trHealth'.complete =>
           \/ trWriter' = trWriter /\ Head(trQueue).kind # "record"
           \/ trWriter' = "stopping" /\ Head(trQueue).kind = "stop" /\ trFlushed' = Len(trJournal)
              /\ trWriter \in {"opening", "running"} /\ ~trDead
  BY DEF Drops
<1>5. /\ trHealth' \in [complete : BOOLEAN, capped : BOOLEAN]
      /\ trHealth'.capped = trHealth.capped /\ (trHealth'.complete => trHealth.complete)
  BY HealthIs DEF Drops, TraceTypeInv
<1>6. TraceTypeInv'
  BY <1>2, <1>3, <1>4, <1>5, JournalLines DEF TraceTypeInv
<1>7. \A i \in 1 .. Len(trQueue') : i + 1 \in 1 .. Len(trQueue) /\ (IsRec(i)' <=> IsRec(i + 1))
  BY <1>3 DEF IsRec
<1>8. WriteInv'
  <2> SUFFICES ASSUME Writes' PROVE WriteInv'
    BY DEF WriteInv
  <2>1. Writes /\ Head(trQueue).kind # "artifact"
    BY <1>2, <1>4, <1>5 DEF Writes
  <2>3. \A j \in 1 .. Len(trJournal) : trJournal[j].seq <= trSeq' /\ trJournal[j].what # "cap"
    BY <1>2, <2>1 DEF WriteInv
  <2>4. \A i \in 1 .. Len(trQueue'), j \in 1 .. Len(trJournal) :
          IsRec(i)' => trJournal[j].seq < trQueue'[i].seq
    BY <1>3, <1>7, <2>1 DEF WriteInv
  <2>5. /\ \A i \in 1 .. Len(trQueue') :
             IsRec(i)' /\ trQueue'[i].what = "capture" => Held(trQueue[i].about, i)'
        /\ trCaptured' # 0 => Held(trCaptured, Len(trQueue) + 1)'
    BY <1>1, <1>2, <2>1, TakingAnnounces
  <2> QED BY <1>2, <1>3, <2>3, <2>4, <2>5 DEF WriteInv
<1>9. CompleteInv'
  <2> SUFFICES ASSUME trHealth'.complete PROVE CompleteInv'
    BY DEF CompleteInv
  <2>1. /\ trHealth.complete /\ ~trHealth'.capped /\ trWriter # "failed"
        /\ Emitted' = Emitted /\ Emitted \in Nat
    BY <1>2, <1>5 DEF CompleteInv, Emitted, TraceTypeInv
  <2>2. CASE trWriter' = trWriter /\ Head(trQueue).kind # "record"
    <3>1. ASSUME trWriter \in {"opening", "running"}, ~trDead
          PROVE  /\ Len(trJournal) <= Emitted
                 /\ \A i \in 1 .. Len(trQueue') : IsRec(i)' =>
                      trQueue'[i].seq \in Len(trJournal) + 1 .. Emitted
                 /\ \A n \in Len(trJournal) + 1 .. Emitted :
                      \E i \in 1 .. Len(trQueue') : IsRec(i)' /\ trQueue'[i].seq = n
      <4>1. \A i \in 1 .. Len(trQueue') : IsRec(i)' =>
                      trQueue'[i].seq \in Len(trJournal) + 1 .. Emitted
        BY <1>3, <1>7, <2>1, <3>1 DEF CompleteInv
      <4>2. ASSUME NEW n \in Len(trJournal) + 1 .. Emitted
            PROVE  \E i \in 1 .. Len(trQueue') : IsRec(i)' /\ trQueue'[i].seq = n
        <5>1. PICK i \in 1 .. Len(trQueue) : IsRec(i) /\ trQueue[i].seq = n
          BY <2>1, <3>1 DEF CompleteInv
        <5>2. i # 1
          BY <1>3, <2>2, <5>1 DEF IsRec
        <5>3. PICK k \in 1 .. Len(trQueue') : i = k + 1
          BY <1>3, <5>2
        <5> QED BY <1>3, <1>7, <5>1, <5>3
      <4> QED BY <2>1, <3>1, <4>1, <4>2 DEF CompleteInv
    <3>2. trWriter \in {"stopping", "ended"} => AllWritten'
      BY <1>2, <1>4, <2>1 DEF CompleteInv, AllWritten
    <3> QED BY <1>2, <2>1, <2>2, <3>1, <3>2 DEF CompleteInv
  <2>3. CASE /\ trWriter' = "stopping" /\ Head(trQueue).kind = "stop" /\ trFlushed' = Len(trJournal)
             /\ trWriter \in {"opening", "running"} /\ ~trDead
    <3>1. trClosed /\ Emitted = trSealed
      BY <1>3, <2>3 DEF QueueInv, Emitted
    <3>2. Len(trJournal) <= trSealed
      BY <2>1, <2>3, <3>1 DEF CompleteInv
    <3>3. \A i \in 1 .. Len(trQueue) : ~IsRec(i)
      BY <1>3, <2>3 DEF QueueInv, IsRec
    <3>4. ~(Len(trJournal) + 1 <= trSealed)
      <4>1. ASSUME Len(trJournal) + 1 <= trSealed PROVE FALSE
        <5>1. Len(trJournal) + 1 \in Len(trJournal) + 1 .. Emitted
          BY <2>1, <3>1, <4>1, JournalLines
        <5> QED BY <2>1, <2>3, <3>3, <5>1 DEF CompleteInv
      <4> QED BY <4>1
    <3>5. Len(trJournal) = trSealed
      BY <3>2, <3>4, JournalLines DEF TraceTypeInv
    <3> QED BY <1>2, <2>1, <2>3, <3>1, <3>5 DEF CompleteInv, AllWritten
  <2> QED BY <1>4, <2>2, <2>3
<1>10. SummaryInv'
  BY <1>2, <1>4 DEF SummaryInv
<1>11. Tr!JournalIsSound'
  BY <1>2 DEF Tr!JournalIsSound, Tr!Lines
<1> QED BY <1>1, <1>6, <1>8, <1>9, <1>10, <1>11

LEMMA WriteRecordKeeps ==
  ASSUME TraceInv, Tr!WriteRecord
  PROVE  TraceInv'
<1> USE DEF TraceInv
<1> PICK n : n = Len(trJournal)
  OBVIOUS
<1> PICK r : r = Head(trQueue)
  OBVIOUS
<1>1. /\ UNCHANGED <<trSeq, trSpans, trCaptured, trClosed, trSealed, trHealth, trArtifacts, trSummary, trWriter,
                     trCloser, trDead>>
      /\ Taking /\ r.kind = "record" /\ ~trHealth.capped /\ trWriter = "running" /\ ~trDead
      /\ trJournal' = Append(trJournal, r) /\ trFlushed' \in {trFlushed, Len(trJournal')}
  BY DEF Tr!WriteRecord, Tr!Takes, Tr!Write, Taking, Tr!producing
<1>2. QueueInv'
  BY <1>1, TakingKeeps
<1>3. /\ trQueue' \in Seq(Items) /\ Len(trQueue') = Len(trQueue) - 1
      /\ Len(trQueue) \in Nat /\ Len(trQueue) > 0
      /\ \A i \in 1 .. Len(trQueue') : trQueue'[i] = trQueue[i + 1]
      /\ r = trQueue[1] /\ r \in Recs
  BY <1>1, QueueShrinks, QueueItems DEF Taking, IsRec
<1>4. /\ trJournal' \in Seq(Recs) /\ Len(trJournal') = n + 1 /\ n \in Nat
      /\ \A i \in 1 .. n : trJournal'[i] = trJournal[i]
      /\ trJournal'[n + 1] = r
  BY <1>1, <1>3, JournalGrows
<1>5. \A i \in 1 .. Len(trQueue') : i + 1 \in 1 .. Len(trQueue) /\ (IsRec(i)' <=> IsRec(i + 1))
  BY <1>3 DEF IsRec
<1>6. Writes /\ IsRec(1) /\ 1 \in 1 .. Len(trQueue)
  BY <1>1, <1>3 DEF Writes, IsRec
<1>7. /\ r.seq \in Nat /\ r.seq <= trSeq /\ r.what # "cap"
      /\ \A j \in 1 .. n : trJournal[j].seq < r.seq /\ trJournal[j].seq \in Nat
                            /\ trJournal[j].seq <= trSeq /\ trJournal[j].what # "cap"
      /\ r.what = "capture" => r.about \in trArtifacts
  <2>1. r.seq \in Nat /\ r.seq <= trSeq /\ r.what # "cap"
    BY <1>3, <1>6 DEF QueueInv, Recs
  <2>2. \A j \in 1 .. n : trJournal[j].seq < r.seq /\ trJournal[j].seq \in Nat
                           /\ trJournal[j].seq <= trSeq /\ trJournal[j].what # "cap"
    BY <1>3, <1>6, JournalLines DEF WriteInv
  <2>3. ASSUME r.what = "capture" PROVE r.about \in trArtifacts
    <3>1. Held(trQueue[1].about, 1)
      BY <1>3, <1>6, <2>3 DEF WriteInv
    <3> QED BY <1>3, <3>1 DEF Held
  <2> QED BY <2>1, <2>2, <2>3
<1>8. \A i \in 1 .. Len(trQueue') : IsRec(i)' => trQueue'[i].seq > r.seq /\ trQueue'[i].seq \in Nat
  BY <1>3, <1>5, <1>6, QueueItems DEF QueueInv
<1>9. \A i \in 1 .. n + 1 : i \in 1 .. n \/ i = n + 1
  BY <1>4
<1>10. TraceTypeInv'
  BY <1>1, <1>3, <1>4 DEF TraceTypeInv
<1>11. WriteInv'
  <2>2. \A j \in 1 .. n + 1 : trJournal'[j].seq <= trSeq' /\ trJournal'[j].what # "cap"
    BY <1>1, <1>4, <1>7, <1>9
  <2>3. \A i \in 1 .. Len(trQueue'), j \in 1 .. n + 1 : IsRec(i)' => trJournal'[j].seq < trQueue'[i].seq
    <3> TAKE i \in 1 .. Len(trQueue'), j \in 1 .. n + 1
    <3> HAVE IsRec(i)'
    <3>1. trJournal'[j].seq <= r.seq /\ trJournal'[j].seq \in Nat
      BY <1>4, <1>7, <1>9
    <3> QED BY <1>7, <1>8, <3>1
  <2>5. /\ \A i \in 1 .. Len(trQueue') :
             IsRec(i)' /\ trQueue'[i].what = "capture" => Held(trQueue[i].about, i)'
        /\ trCaptured' # 0 => Held(trCaptured, Len(trQueue) + 1)'
    BY <1>1, <1>6, TakingAnnounces
  <2> QED BY <1>4, <2>2, <2>3, <2>5 DEF WriteInv
<1>12. CompleteInv'
  <2> SUFFICES ASSUME trHealth.complete PROVE CompleteInv'
    BY <1>1 DEF CompleteInv
  <2>1. /\ Emitted' = Emitted /\ Emitted \in Nat /\ n <= Emitted
        /\ \A i \in 1 .. Len(trQueue) : IsRec(i) => trQueue[i].seq \in n + 1 .. Emitted
        /\ \A k \in n + 1 .. Emitted : \E i \in 1 .. Len(trQueue) : IsRec(i) /\ trQueue[i].seq = k
    BY <1>1 DEF CompleteInv, Emitted, TraceTypeInv
  <2>2. r.seq \in n + 1 .. Emitted
    BY <1>3, <1>6, <2>1
  <2>3. ASSUME NEW i \in 1 .. Len(trQueue'), IsRec(i)' PROVE trQueue'[i].seq \in n + 2 .. Emitted
    <3>1. trQueue'[i].seq \in n + 1 .. Emitted
      BY <1>3, <1>5, <2>1, <2>3
    <3>2. trQueue'[i].seq > r.seq /\ r.seq >= n + 1
      BY <1>8, <2>2, <2>3
    <3> QED BY <1>4, <2>1, <2>2, <3>1, <3>2
  <2>4. ASSUME NEW k \in n + 2 .. Emitted
        PROVE  \E i \in 1 .. Len(trQueue') : IsRec(i)' /\ trQueue'[i].seq = k
    <3>1. r.seq = n + 1
      <4>1. PICK i \in 1 .. Len(trQueue) : IsRec(i) /\ trQueue[i].seq = n + 1
        BY <1>4, <2>1
      <4>2. CASE i = 1
        BY <1>3, <4>1, <4>2
      <4>3. CASE i # 1
        <5>1. 1 < i
          BY <1>3, <4>3
        <5>2. trQueue[1].seq < trQueue[i].seq
          BY <1>6, <4>1, <5>1 DEF QueueInv
        <5> QED BY <1>3, <1>4, <2>2, <4>1, <5>2
      <4> QED BY <4>2, <4>3
    <3>2. PICK i \in 1 .. Len(trQueue) : IsRec(i) /\ trQueue[i].seq = k
      BY <1>4, <2>1
    <3>3. i # 1
      <4>1. trQueue[1].seq = n + 1 /\ k # n + 1
        BY <1>3, <1>4, <3>1
      <4> QED BY <3>2, <4>1
    <3>4. PICK m \in 1 .. Len(trQueue') : i = m + 1
      <4>1. i - 1 \in 1 .. Len(trQueue') /\ i = (i - 1) + 1
        BY <1>3, <3>3
      <4> QED BY <4>1
    <3> QED BY <1>3, <1>5, <3>2, <3>4
  <2>5. n + 1 <= Emitted
    BY <2>1, <2>2, <1>4
  <2>6. ~trHealth'.capped /\ trWriter' = "running"
    BY <1>1
  <2>7. Len(trJournal') + 1 = n + 2
    BY <1>4
  <2> QED BY <1>4, <2>1, <2>3, <2>4, <2>5, <2>6, <2>7 DEF CompleteInv
<1>13. SummaryInv'
  BY <1>1 DEF SummaryInv
<1>14. Tr!JournalIsSound'
  <2>1. \A i, j \in 1 .. n + 1 : i < j => trJournal'[i].seq < trJournal'[j].seq
    <3> TAKE i, j \in 1 .. n + 1
    <3> HAVE i < j
    <3>1. i \in 1 .. n
      BY <1>4
    <3>2. CASE j \in 1 .. n
      BY <1>4, <3>1, <3>2 DEF Tr!JournalIsSound, Tr!Lines
    <3>3. CASE j = n + 1
      BY <1>4, <1>7, <3>1, <3>3
    <3> QED BY <1>9, <3>2, <3>3
  <2>2. \A i \in 1 .. n + 1 : trJournal'[i].what = "capture" => trJournal'[i].about \in trArtifacts
    BY <1>4, <1>7, <1>9 DEF Tr!JournalIsSound, Tr!Lines
  <2>3. \A i \in 1 .. n + 1 : trJournal'[i].what # "cap"
    BY <1>4, <1>7, <1>9
  <2> QED BY <1>1, <1>4, <2>1, <2>2, <2>3 DEF Tr!JournalIsSound, Tr!Lines
<1> QED BY <1>2, <1>10, <1>11, <1>12, <1>13, <1>14

LEMMA WriteArtifactKeeps ==
  ASSUME TraceInv, Tr!WriteArtifact
  PROVE  TraceInv'
<1> USE DEF TraceInv
<1>1. /\ UNCHANGED <<trSeq, trSpans, trCaptured, trClosed, trSealed, trHealth, trJournal, trFlushed, trSummary,
                     trWriter, trCloser, trDead>>
      /\ Taking /\ Head(trQueue).kind = "artifact" /\ ~trHealth.capped /\ trWriter = "running" /\ ~trDead
      /\ trArtifacts' = trArtifacts \cup {Head(trQueue).id}
  BY DEF Tr!WriteArtifact, Tr!Takes, Taking, Tr!producing
<1>2. QueueInv'
  BY <1>1, TakingKeeps
<1>3. /\ trQueue' \in Seq(Items) /\ Len(trQueue') = Len(trQueue) - 1
      /\ Len(trQueue) \in Nat /\ Len(trQueue) > 0
      /\ \A i \in 1 .. Len(trQueue') : trQueue'[i] = trQueue[i + 1]
      /\ Head(trQueue) = trQueue[1]
  BY <1>1, QueueShrinks DEF Taking
<1>5. \A i \in 1 .. Len(trQueue') : i + 1 \in 1 .. Len(trQueue) /\ (IsRec(i)' <=> IsRec(i + 1))
  BY <1>3 DEF IsRec
<1>6. Writes
  BY <1>1 DEF Writes
<1>10. TraceTypeInv'
  BY <1>1, <1>3 DEF TraceTypeInv
<1>11. WriteInv'
  <2>2. \A j \in 1 .. Len(trJournal) : trJournal[j].seq <= trSeq /\ trJournal[j].what # "cap"
    BY <1>6 DEF WriteInv
  <2>3. \A i \in 1 .. Len(trQueue'), j \in 1 .. Len(trJournal) :
          IsRec(i)' => trJournal[j].seq < trQueue'[i].seq
    BY <1>3, <1>5, <1>6 DEF WriteInv
  <2>5. /\ \A i \in 1 .. Len(trQueue') :
             IsRec(i)' /\ trQueue'[i].what = "capture" => Held(trQueue[i].about, i)'
        /\ trCaptured' # 0 => Held(trCaptured, Len(trQueue) + 1)'
    BY <1>1, <1>6, TakingAnnounces
  <2> QED BY <1>1, <2>2, <2>3, <2>5 DEF WriteInv
<1>12. CompleteInv'
  <2> SUFFICES ASSUME trHealth.complete PROVE CompleteInv'
    BY <1>1 DEF CompleteInv
  <2>1. /\ Emitted' = Emitted /\ Len(trJournal) <= Emitted
        /\ \A i \in 1 .. Len(trQueue) : IsRec(i) => trQueue[i].seq \in Len(trJournal) + 1 .. Emitted
        /\ \A k \in Len(trJournal) + 1 .. Emitted :
             \E i \in 1 .. Len(trQueue) : IsRec(i) /\ trQueue[i].seq = k
    BY <1>1 DEF CompleteInv, Emitted
  <2>3. \A i \in 1 .. Len(trQueue') : IsRec(i)' => trQueue'[i].seq \in Len(trJournal) + 1 .. Emitted
    BY <1>3, <1>5, <2>1
  <2>4. ASSUME NEW k \in Len(trJournal) + 1 .. Emitted
        PROVE  \E i \in 1 .. Len(trQueue') : IsRec(i)' /\ trQueue'[i].seq = k
    <3>2. PICK i \in 1 .. Len(trQueue) : IsRec(i) /\ trQueue[i].seq = k
      BY <2>1
    <3>3. i # 1
      BY <1>1, <1>3, <3>2 DEF IsRec
    <3>4. PICK m \in 1 .. Len(trQueue') : i = m + 1
      <4>1. i - 1 \in 1 .. Len(trQueue') /\ i = (i - 1) + 1
        BY <1>3, <3>3
      <4> QED BY <4>1
    <3> QED BY <1>3, <1>5, <3>2, <3>4
  <2> QED BY <1>1, <2>1, <2>3, <2>4 DEF CompleteInv
<1>13. SummaryInv' /\ Tr!JournalIsSound'
  BY <1>1 DEF SummaryInv, Tr!JournalIsSound, Tr!Lines
<1> QED BY <1>2, <1>10, <1>11, <1>12, <1>13

\* The marker ends the journal: nothing is written after it.
LEMMA ReachCapKeeps ==
  ASSUME TraceInv, ThreadsInv, Tr!ReachCap
  PROVE  TraceInv'
<1> USE DEF TraceInv
<1> PICK n : n = Len(trJournal)
  OBVIOUS
<1> PICK item : item = Head(trQueue)
  OBVIOUS
<1>1. /\ UNCHANGED <<trSeq, trSpans, trCaptured, trClosed, trSealed, trArtifacts, trSummary, trWriter,
                     trCloser, trDead>>
      /\ Taking /\ item.kind \in {"record", "artifact"} /\ ~trHealth.capped
      /\ trWriter = "running" /\ ~trDead
      /\ trJournal' = trJournal \o Tr!Marker(item) /\ trFlushed' = Len(trJournal')
      /\ trHealth' = [Tr!Incomplete(trHealth) EXCEPT !.capped = TRUE]
  BY DEF Tr!ReachCap, Tr!Takes, Taking, Tr!producing
<1>2. QueueInv'
  BY <1>1, TakingKeeps
<1>3. trQueue' \in Seq(Items) /\ item = trQueue[1] /\ 1 \in 1 .. Len(trQueue)
  BY <1>1, QueueShrinks DEF Taking
<1>4. /\ trHealth' \in [complete : BOOLEAN, capped : BOOLEAN] /\ trHealth'.capped /\ ~trHealth'.complete
  <2> DEFINE t == TRUE
  <2>1. t \in BOOLEAN /\ t
    OBVIOUS
  <2>2. trHealth' = [Tr!Incomplete(trHealth) EXCEPT !.capped = t]
    BY <1>1
  <2> HIDE DEF t
  <2> QED BY <2>1, <2>2, HealthIs
<1>5. n \in Nat /\ \A j \in 1 .. n : trJournal[j] \in Recs /\ trJournal[j].seq \in Nat
  BY JournalLines
<1>6. \A j \in 1 .. n : trJournal[j].what # "cap"
  BY <1>1 DEF WriteInv, Writes
<1>7. \/ trJournal' = trJournal
      \/ \E r \in Recs : /\ trJournal' = Append(trJournal, r) /\ r.what = "cap"
                         /\ \A j \in 1 .. n : trJournal[j].seq < r.seq
  <2>1. CASE item.kind = "record"
    <3>1. item \in Recs /\ \A j \in 1 .. n : trJournal[j].seq < item.seq
      BY <1>1, <1>3, <2>1, QueueItems DEF WriteInv, Writes, IsRec
    <3> PICK r : r = Tr!Record(item.seq, "cap", 0)
      OBVIOUS
    <3>2. r \in Recs /\ r.what = "cap" /\ r.seq = item.seq
      BY <3>1 DEF Tr!Record, Recs
    <3>3. trJournal' = Append(trJournal, r)
      <4>1. trJournal' = trJournal \o << r >>
        BY <1>1, <2>1 DEF Tr!Marker
      <4>2. trJournal \in Seq(Recs)
        BY DEF TraceTypeInv
      <4> QED BY <3>2, <4>1, <4>2
    <3> QED BY <3>1, <3>2, <3>3
  <2>2. CASE item.kind # "record" /\ trLast = 0
    BY <1>1, <2>2 DEF Tr!Marker, TraceTypeInv
  <2>3. CASE item.kind # "record" /\ trLast # 0
    <3> PICK r : r = Tr!Record(trLast + 1, "cap", 0)
      OBVIOUS
    <3>1. r \in Recs /\ r.what = "cap" /\ r.seq = trLast + 1 /\ trLast \in Nat
      BY DEF Tr!Record, Recs, ThreadsInv
    <3>2. trJournal' = Append(trJournal, r)
      <4>0. Tr!Marker(item) = << r >>
        BY <2>3 DEF Tr!Marker
      <4>1. trJournal' = trJournal \o << r >>
        BY <1>1, <4>0
      <4>2. trJournal \in Seq(Recs)
        BY DEF TraceTypeInv
      <4> QED BY <3>1, <4>1, <4>2
    <3>3. \A j \in 1 .. n : trJournal[j].seq <= trLast
      BY <1>1 DEF ThreadsInv, Writes
    <3>4. \A j \in 1 .. n : trJournal[j].seq < r.seq
      BY <1>5, <3>1, <3>3
    <3> QED BY <3>1, <3>2, <3>4
  <2> QED BY <2>1, <2>2, <2>3
<1>8. trJournal' \in Seq(Recs) /\ Len(trJournal') \in Nat /\ Tr!JournalIsSound'
  <2>1. CASE trJournal' = trJournal
    BY <1>1, <1>5, <2>1 DEF TraceTypeInv, Tr!JournalIsSound, Tr!Lines
  <2>2. CASE trJournal' # trJournal
    <3> PICK r \in Recs : /\ trJournal' = Append(trJournal, r) /\ r.what = "cap"
                          /\ \A j \in 1 .. n : trJournal[j].seq < r.seq
      BY <1>7, <2>2
    <3>1. /\ trJournal' \in Seq(Recs) /\ Len(trJournal') = n + 1
          /\ \A i \in 1 .. n : trJournal'[i] = trJournal[i]
          /\ trJournal'[n + 1] = r
      BY JournalGrows
    <3>2. \A i \in 1 .. n + 1 : i \in 1 .. n \/ i = n + 1
      BY <1>5
    <3>3. \A i, j \in 1 .. n + 1 : i < j => trJournal'[i].seq < trJournal'[j].seq
      <4> TAKE i, j \in 1 .. n + 1
      <4> HAVE i < j
      <4>1. i \in 1 .. n
        BY <1>5
      <4>2. CASE j \in 1 .. n
        BY <3>1, <4>1, <4>2 DEF Tr!JournalIsSound, Tr!Lines
      <4>3. CASE j = n + 1
        BY <3>1, <4>1, <4>3
      <4> QED BY <3>2, <4>2, <4>3
    <3>4. \A i \in 1 .. n + 1 : trJournal'[i].what = "capture" => trJournal'[i].about \in trArtifacts
      BY <3>1, <3>2 DEF Tr!JournalIsSound, Tr!Lines
    <3>5. \A i \in 1 .. n + 1 : trJournal'[i].what = "cap" => i = n + 1
      BY <1>6, <3>1, <3>2
    <3> QED BY <1>1, <1>5, <3>1, <3>3, <3>4, <3>5 DEF Tr!JournalIsSound, Tr!Lines
  <2> QED BY <2>1, <2>2
<1>9. TraceTypeInv'
  BY <1>1, <1>3, <1>4, <1>8 DEF TraceTypeInv
<1>10. WriteInv' /\ CompleteInv' /\ SummaryInv'
  BY <1>1, <1>4 DEF WriteInv, Writes, CompleteInv, SummaryInv
<1> QED BY <1>2, <1>8, <1>9, <1>10

\* Nothing moves but the threads themselves.
Stays ==
  /\ UNCHANGED <<Tr!producing, trQueue, trClosed, trSealed, trHealth, trJournal, trArtifacts, trSummary, trDead>>
  /\ trFlushed' \in {trFlushed, Len(trJournal)}
  /\ trWriter' = trWriter \/ (trWriter = "opening" /\ trWriter' = "running")
  /\ trCloser' # "idle" => trCloser # "idle"

LEMMA StaysKeeps ==
  ASSUME TraceInv, Stays
  PROVE  TraceInv'
<1> USE DEF TraceInv
<1>1. /\ UNCHANGED <<trSeq, trSpans, trCaptured, trQueue, trClosed, trSealed, trHealth, trJournal, trArtifacts,
                     trSummary, trDead>>
      /\ trFlushed' \in {trFlushed, Len(trJournal)}
      /\ trWriter' = trWriter \/ (trWriter = "opening" /\ trWriter' = "running")
      /\ trCloser' # "idle" => trCloser # "idle"
  BY DEF Stays, Tr!producing
<1>2. TraceTypeInv'
  BY <1>1, JournalLines DEF TraceTypeInv
<1>3. QueueInv' /\ Tr!JournalIsSound'
  BY <1>1 DEF QueueInv, IsRec, Tr!JournalIsSound, Tr!Lines
<1>4. WriteInv'
  BY <1>1 DEF WriteInv, Writes, IsRec, Held
<1>5. CompleteInv' /\ SummaryInv'
  BY <1>1 DEF CompleteInv, SummaryInv, AllWritten, Emitted, IsRec
<1> QED BY <1>2, <1>3, <1>4, <1>5

\* The writer gives up, or ends with a summary of what it knows.
LEMMA WriterEndsKeeps ==
  ASSUME TraceInv,
         \/ Tr!Summarize
         \/ Tr!DiskFails /\ trWriter \in {"opening", "stopping"} /\ UNCHANGED trQueue
  PROVE  TraceInv'
<1> USE DEF TraceInv
<1>1. /\ UNCHANGED <<trSeq, trSpans, trCaptured, trQueue, trClosed, trSealed, trJournal, trFlushed, trArtifacts,
                     trCloser, trDead>>
      /\ trWriter' \in {"failed", "ended"}
      /\ trHealth' \in {trHealth, Tr!Incomplete(trHealth)}
      /\ trHealth'.complete => /\ trWriter = "stopping" /\ trWriter' = "ended"
                               /\ trHealth' = trHealth
      /\ \/ trSummary' = trSummary /\ trWriter # "ended"
         \/ trSummary'.complete = trHealth.complete /\ trWriter = "stopping" /\ trWriter' = "ended"
  BY HealthIs DEF Tr!Summarize, Tr!DiskFails, Tr!producing, Tr!disk
<1>2. trHealth' \in [complete : BOOLEAN, capped : BOOLEAN]
  BY <1>1, HealthIs DEF TraceTypeInv
<1>3. TraceTypeInv' /\ QueueInv' /\ Tr!JournalIsSound'
  BY <1>1, <1>2 DEF TraceTypeInv, QueueInv, IsRec, Tr!JournalIsSound, Tr!Lines
<1>4. WriteInv'
  BY <1>1 DEF WriteInv, Writes
<1>5. CompleteInv' /\ SummaryInv'
  BY <1>1 DEF CompleteInv, SummaryInv, AllWritten
<1> QED BY <1>3, <1>4, <1>5

LEMMA CloseKeeps ==
  ASSUME TraceInv, Tr!Close
  PROVE  TraceInv'
<1> USE DEF TraceInv
<1>1. /\ UNCHANGED <<trSeq, trSpans, trCaptured, trQueue, trHealth, trJournal, trFlushed, trArtifacts,
                     trSummary, trWriter, trDead>>
      /\ ~trClosed /\ trClosed' = TRUE /\ trSealed' = trSeq
  BY DEF Tr!Close, Tr!producing, Tr!disk
<1>2. Emitted' = Emitted
  BY <1>1 DEF Emitted
<1>3. TraceTypeInv' /\ QueueInv' /\ Tr!JournalIsSound'
  BY <1>1 DEF TraceTypeInv, QueueInv, IsRec, Tr!JournalIsSound, Tr!Lines
<1>4. WriteInv'
  BY <1>1 DEF WriteInv, Writes, IsRec, Held
<1>5. CompleteInv' /\ SummaryInv'
  BY <1>1, <1>2 DEF CompleteInv, SummaryInv, AllWritten, IsRec
<1> QED BY <1>3, <1>4, <1>5

\* A prefix survives, no shorter than what was flushed.
LEMMA DieKeeps ==
  ASSUME TraceInv, Tr!Die
  PROVE  TraceInv'
<1> USE DEF TraceInv
<1>1. PICK n \in trFlushed .. Len(trJournal) : trJournal' = SubSeq(trJournal, 1, n) /\ trFlushed' = n
  BY DEF Tr!Die
<1>2. UNCHANGED <<trSeq, trSpans, trCaptured, trQueue, trClosed, trSealed, trHealth, trArtifacts, trSummary,
                  trWriter, trCloser>> /\ trDead' = TRUE
  BY DEF Tr!Die, Tr!producing
<1>3. /\ trJournal' \in Seq(Recs) /\ Len(trJournal') = n /\ n \in Nat /\ n <= Len(trJournal)
      /\ Len(trJournal) \in Nat /\ \A i \in 1 .. n : trJournal'[i] = trJournal[i] /\ i \in 1 .. Len(trJournal)
  BY <1>1 DEF TraceTypeInv
<1>4. TraceTypeInv' /\ QueueInv'
  BY <1>1, <1>2, <1>3 DEF TraceTypeInv, QueueInv, IsRec
<1>5. WriteInv'
  BY <1>2 DEF WriteInv, Writes
<1>6. AllWritten => AllWritten'
  BY <1>1, <1>2, <1>3 DEF AllWritten
<1>7. CompleteInv' /\ SummaryInv'
  BY <1>2, <1>6 DEF CompleteInv, SummaryInv
<1>8. Tr!JournalIsSound'
  <2>1. \A i, j \in 1 .. n : i < j => trJournal'[i].seq < trJournal'[j].seq
    BY <1>3 DEF Tr!JournalIsSound, Tr!Lines
  <2>2. \A i \in 1 .. n : /\ trJournal'[i].what = "capture" => trJournal'[i].about \in trArtifacts'
                          /\ trJournal'[i].what = "cap" => i = n
    BY <1>2, <1>3 DEF Tr!JournalIsSound, Tr!Lines
  <2> QED BY <1>3, <2>1, <2>2 DEF Tr!JournalIsSound, Tr!Lines
<1> QED BY <1>4, <1>5, <1>7, <1>8

-----------------------------------------------------------------------------
(* Every step *)

\* What the agent's thread hands over is taken as it is, or refused.
LEMMA Hands ==
  ASSUME TraceInv, NEW item, Tr!Enqueue(item), UNCHANGED <<trClosed, trSealed, Tr!disk, trDead, trWriter, trCloser>>,
         trSeq' \in Nat, trSeq' >= trSeq, trSpans' \in SUBSET Nat, trCaptured' \in Nat,
         Tr!Refuses => trCaptured' \in {0, trCaptured},
         item \in Items, item.kind \in {"record", "artifact"},
         IF item.kind = "record"
         THEN /\ trSeq' = trSeq + 1 /\ item.seq = trSeq' /\ item.what # "cap"
              /\ item.what = "capture" => item.about = trCaptured /\ trCaptured # 0
         ELSE trSeq' = trSeq,
         trCaptured' \in {0, trCaptured} \/ (item.kind = "artifact" /\ item.id = trCaptured')
  PROVE  TraceInv'
<1>1. trCloser' # "idle" => trClosed
  BY DEF TraceInv, QueueInv
<1>2. CASE Tr!Refuses
  <2>1. trHealth' = Tr!Incomplete(trHealth) /\ trQueue' = trQueue
    BY <1>2 DEF Tr!Enqueue
  <2>2. Loses
    BY <1>1, <1>2, <2>1 DEF Loses
  <2> QED BY <2>2, LosesKeeps
<1>3. CASE ~Tr!Refuses
  <2>1. trQueue' = Append(trQueue, item) /\ trHealth' = trHealth /\ ~trClosed
    BY <1>3 DEF Tr!Enqueue, Tr!Refuses
  <2>2. Enters(item)
    BY <1>1, <2>1 DEF Enters
  <2> QED BY <2>2, EntersKeeps
<1> QED BY <1>2, <1>3

LEMMA RecordIs ==
  ASSUME NEW n \in Nat, NEW what \in {"event", "start", "end", "capture"}, NEW a \in Nat
  PROVE  /\ Tr!Record(n, what, a) \in Items /\ Tr!Record(n, what, a).kind = "record"
         /\ Tr!Record(n, what, a).seq = n /\ Tr!Record(n, what, a).what = what
         /\ Tr!Record(n, what, a).about = a
BY DEF Tr!Record, Items, Recs

LEMMA ArtifactIs ==
  ASSUME NEW n \in Nat
  PROVE  Tr!Artifact(n) \in Items /\ Tr!Artifact(n).kind = "artifact" /\ Tr!Artifact(n).id = n
BY DEF Tr!Artifact, Items, Arts

LEMMA ProducerKeeps ==
  ASSUME TraceInv, Tr!Producer
  PROVE  TraceInv'
<1>1. /\ trSeq \in Nat /\ trSeq + 1 \in Nat /\ trSeq + 1 >= trSeq /\ trSpans \in SUBSET Nat /\ trCaptured \in Nat
      /\ trCloser # "idle" => trClosed
  BY DEF TraceInv, TraceTypeInv, QueueInv
<1>2. CASE Tr!EmitRecord
  <2>1. PICK what \in {"event", "start", "end"}, a \in Nat : Tr!Emit(what, a) /\ trSpans' \in SUBSET Nat
    BY <1>1, <1>2 DEF Tr!EmitRecord
  <2> PICK item : item = Tr!Record(trSeq + 1, what, a)
    OBVIOUS
  <2>2. /\ item \in Items /\ item.kind = "record" /\ item.seq = trSeq + 1 /\ item.what = what
    BY <1>1, RecordIs
  <2>3. /\ trSeq' = trSeq + 1 /\ Tr!Enqueue(item) /\ trCaptured' = trCaptured
        /\ UNCHANGED <<trClosed, trSealed, Tr!disk, trDead, trWriter, trCloser>>
    BY <1>2, <2>1 DEF Tr!Emit, Tr!EmitRecord
  <2> QED BY <1>1, <2>1, <2>2, <2>3, Hands
<1>3. CASE Tr!Capture
  <2> PICK item : item = Tr!Artifact(trSeq + 1)
    OBVIOUS
  <2>1. item \in Items /\ item.kind = "artifact" /\ item.id = trSeq + 1
    BY <1>1, ArtifactIs
  <2>2. /\ Tr!Enqueue(item) /\ trSeq' = trSeq /\ trSpans' = trSpans
        /\ trCaptured' = IF Tr!Refuses THEN 0 ELSE trSeq + 1
        /\ UNCHANGED <<trClosed, trSealed, Tr!disk, trDead, trWriter, trCloser>>
    BY <1>3 DEF Tr!Capture, Tr!Taken
  <2> QED BY <1>1, <2>1, <2>2, Hands
<1>4. CASE Tr!Announce
  <2> PICK item : item = Tr!Record(trSeq + 1, "capture", trCaptured)
    OBVIOUS
  <2>1. /\ item \in Items /\ item.kind = "record" /\ item.seq = trSeq + 1 /\ item.what = "capture"
        /\ item.about = trCaptured
    BY <1>1, RecordIs
  <2>2. /\ Tr!Enqueue(item) /\ trSeq' = trSeq + 1 /\ trSpans' = trSpans /\ trCaptured # 0 /\ trCaptured' = 0
        /\ UNCHANGED <<trClosed, trSealed, Tr!disk, trDead, trWriter, trCloser>>
    BY <1>4 DEF Tr!Announce, Tr!Emit
  <2> QED BY <1>1, <2>1, <2>2, Hands
<1>5. CASE Tr!BeginFlush
  <2>1. Stays
    BY <1>5 DEF Tr!BeginFlush, Stays, Tr!disk
  <2> QED BY <2>1, StaysKeeps
<1>6. CASE Tr!Close
  BY <1>6, CloseKeeps
<1> QED BY <1>2, <1>3, <1>4, <1>5, <1>6 DEF Tr!Producer

LEMMA WaitersKeep ==
  ASSUME TraceInv, ThreadsInv, Tr!Waiters
  PROVE  TraceInv'
<1>1. /\ trSeq \in Nat /\ trSpans \in SUBSET Nat /\ trCaptured \in Nat /\ trSeq >= trSeq
      /\ trCloser # "idle" => trClosed
  BY DEF TraceInv, TraceTypeInv, QueueInv
<1>2. CASE Tr!PutFence \/ Tr!PutStray
  <2>1. PICK n \in Nat : trQueue' = Append(trQueue, Tr!Fence(n))
    BY <1>2 DEF Tr!PutFence, Tr!PutStray, ThreadsInv
  <2> PICK item : item = Tr!Fence(n)
    OBVIOUS
  <2>2. item \in Items /\ item.kind = "fence"
    BY DEF Tr!Fence, Fences, Items
  <2>3. UNCHANGED <<trSeq, trSpans, trCaptured, trClosed, trSealed, trHealth, Tr!disk, trDead,
                    trWriter, trCloser>>
    BY <1>2 DEF Tr!PutFence, Tr!PutStray, Tr!producing
  <2>4. Enters(item)
    BY <1>1, <2>1, <2>2, <2>3 DEF Enters
  <2> QED BY <2>4, EntersKeeps
<1>3. CASE Tr!PutStop
  <2> PICK item : item = Tr!Stop
    OBVIOUS
  <2>1. item \in Items /\ item.kind = "stop"
    BY DEF Tr!Stop, Items
  <2>2. /\ UNCHANGED <<trSeq, trSpans, trCaptured, trClosed, trSealed, trHealth, Tr!disk, trDead, trWriter>>
        /\ trQueue' = Append(trQueue, item) /\ trCloser # "idle"
    BY <1>3 DEF Tr!PutStop, Tr!producing
  <2>3. Enters(item)
    BY <1>1, <2>1, <2>2 DEF Enters
  <2> QED BY <2>3, EntersKeeps
<1>4. CASE Tr!FlushTimesOut \/ Tr!CloseTimesOut
  <2>1. /\ UNCHANGED <<trSeq, trSpans, trCaptured, trQueue, trClosed, trSealed, Tr!disk, trDead, trWriter>>
        /\ trHealth' = Tr!Incomplete(trHealth) /\ (trCloser' # "idle" => trCloser # "idle")
    BY <1>4 DEF Tr!FlushTimesOut, Tr!CloseTimesOut, Tr!producing
  <2>2. Loses
    BY <1>1, <2>1 DEF Loses
  <2> QED BY <2>2, LosesKeeps
<1>5. CASE Tr!Joined
  <2>1. Stays
    BY <1>5 DEF Tr!Joined, Stays, Tr!disk
  <2> QED BY <2>1, StaysKeeps
<1> QED BY <1>2, <1>3, <1>4, <1>5 DEF Tr!Waiters

LEMMA WriterKeeps ==
  ASSUME TraceInv, ThreadsInv, Tr!Writer
  PROVE  TraceInv'
<1>1. CASE Tr!OpenJournal \/ Tr!FlushWhenIdle
  <2>1. Stays
    BY <1>1 DEF Tr!OpenJournal, Tr!FlushWhenIdle, Tr!Idle, Stays, Tr!disk
  <2> QED BY <2>1, StaysKeeps
<1>2. CASE Tr!WriteRecord
  BY <1>2, WriteRecordKeeps
<1>3. CASE Tr!WriteArtifact
  BY <1>3, WriteArtifactKeeps
<1>4. CASE Tr!ReachCap
  BY <1>4, ReachCapKeeps
<1>5. CASE Tr!Summarize
  BY <1>5, WriterEndsKeeps
<1>6. CASE Tr!DropLongRecord
  <2>1. Head(trQueue).kind = "record" /\ ~Tr!Incomplete(trHealth).complete
    BY <1>6, HealthIs DEF Tr!DropLongRecord, Tr!Takes, TraceInv
  <2>2. Drops
    BY <1>6, <2>1 DEF Tr!DropLongRecord, Tr!Takes, Drops, Taking, Tr!disk
  <2> QED BY <2>2, DropsKeeps
<1>7. CASE Tr!SkipAfterCap
  <2>1. ~trHealth.complete
    BY <1>7 DEF Tr!SkipAfterCap, TraceInv, CompleteInv
  <2>2. Drops
    BY <1>7, <2>1 DEF Tr!SkipAfterCap, Tr!Takes, Drops, Taking, Tr!disk
  <2> QED BY <2>2, DropsKeeps
<1>8. CASE Tr!SetFence
  <2>1. Drops
    BY <1>8 DEF Tr!SetFence, Tr!Takes, Drops, Taking
  <2> QED BY <2>1, DropsKeeps
<1>9. CASE Tr!TakeStop
  <2>1. Drops
    BY <1>9 DEF Tr!TakeStop, Tr!Takes, Drops, Taking
  <2> QED BY <2>1, DropsKeeps
<1>10. CASE Tr!DiskFails
  <2>1. CASE trWriter \in {"opening", "stopping"} /\ UNCHANGED trQueue
    BY <1>10, <2>1, WriterEndsKeeps
  <2>2. CASE (Tr!Takes("record") \/ Tr!Takes("artifact")) /\ trQueue' = Tail(trQueue)
    <3>1. /\ Taking /\ UNCHANGED <<trJournal, trFlushed, trArtifacts>> /\ trWriter = "running"
          /\ trWriter' = "failed" /\ trHealth' = Tr!Incomplete(trHealth)
      BY <1>10, <2>2 DEF Tr!DiskFails, Tr!Takes, Taking, Tr!disk
    <3>2. ~trHealth'.complete
      BY <3>1, HealthIs DEF TraceInv
    <3>3. Drops
      BY <3>1, <3>2 DEF Drops
    <3> QED BY <3>3, DropsKeeps
  <2> QED BY <1>10, <2>1, <2>2 DEF Tr!DiskFails
<1>11. CASE Tr!Drain
  <2>1. ~trHealth.complete
    BY <1>11 DEF Tr!Drain, TraceInv, CompleteInv
  <2>2. /\ Taking /\ UNCHANGED <<trJournal, trFlushed, trArtifacts, trHealth>> /\ trWriter = "failed"
        /\ trWriter' \in {"failed", "ended"}
    BY <1>11 DEF Tr!Drain, Tr!DrainGoesOn, Taking, Tr!disk
  <2>3. Drops
    BY <2>1, <2>2 DEF Drops
  <2> QED BY <2>3, DropsKeeps
<1> QED BY <1>1, <1>2, <1>3, <1>4, <1>5, <1>6, <1>7, <1>8, <1>9, <1>10, <1>11 DEF Tr!Writer

\* What is taken is newer than what is written, and only the writer takes.
LEMMA ThreadsInvStep ==
  ASSUME TraceInv, ThreadsInv, [Tr!Next]_(Tr!vars)
  PROVE  ThreadsInv'
<1> USE DEF TraceInv
<1>1. CASE UNCHANGED <<trLast, trJournal>> /\ (Writes' => Writes)
  <2>1. trFlushes' \in Nat /\ trStrays' \in SUBSET Nat
    BY DEF ThreadsInv, Tr!Next, Tr!Producer, Tr!Waiters, Tr!Writer, Tr!vars, Tr!EmitRecord, Tr!Capture,
           Tr!Announce, Tr!BeginFlush, Tr!Close, Tr!PutFence, Tr!FlushTimesOut, Tr!PutStray, Tr!PutStop,
           Tr!Joined, Tr!CloseTimesOut, Tr!OpenJournal, Tr!WriteRecord, Tr!DropLongRecord,
           Tr!WriteArtifact, Tr!ReachCap, Tr!SkipAfterCap, Tr!SetFence, Tr!TakeStop, Tr!Summarize,
           Tr!FlushWhenIdle, Tr!DiskFails, Tr!Drain, Tr!Die
  <2> QED BY <1>1, <2>1 DEF ThreadsInv
<1>2. CASE Tr!WriteRecord \/ Tr!DropLongRecord
  <2> PICK n : n = Len(trJournal)
    OBVIOUS
  <2> PICK r : r = Head(trQueue)
    OBVIOUS
  <2>1. /\ trQueue # << >> /\ trQueue' = Tail(trQueue) /\ r.kind = "record" /\ trLast' = r.seq
        /\ trWriter = "running" /\ ~trHealth.capped /\ ~trDead
        /\ trJournal' \in {trJournal, Append(trJournal, r)} /\ UNCHANGED <<trFlushes, trStrays>>
    BY <1>2 DEF Tr!WriteRecord, Tr!DropLongRecord, Tr!Takes, Tr!Write, Tr!disk
  <2>2. IsRec(1) /\ 1 \in 1 .. Len(trQueue) /\ r = trQueue[1] /\ Writes
    BY <2>1, QueueShrinks DEF IsRec, Writes
  <2>3. r \in Recs /\ r.seq \in Nat
    BY <2>2, QueueItems
  <2>4. \A j \in 1 .. n : trJournal[j].seq <= r.seq
    BY <2>2, <2>3, JournalLines DEF WriteInv
  <2>5. \A j \in 1 .. Len(trJournal') : trJournal'[j].seq <= r.seq
    <3>1. CASE trJournal' = trJournal
      BY <2>4, <3>1
    <3>2. CASE trJournal' = Append(trJournal, r)
      <4>1. /\ Len(trJournal') = n + 1 /\ n \in Nat /\ trJournal'[n + 1] = r
            /\ \A i \in 1 .. n : trJournal'[i] = trJournal[i]
        BY <2>3, <3>2, JournalGrows
      <4>2. \A i \in 1 .. n + 1 : i \in 1 .. n \/ i = n + 1
        BY <4>1
      <4> QED BY <2>3, <2>4, <4>1, <4>2
    <3> QED BY <2>1, <3>1, <3>2
  <2> QED BY <2>1, <2>3, <2>5 DEF ThreadsInv
<1>3. CASE Tr!ReachCap
  <2>1. trHealth'.capped
    <3>1. Tr!Incomplete(trHealth) \in [complete : BOOLEAN, capped : BOOLEAN]
      BY HealthIs
    <3> QED BY <1>3, <3>1 DEF Tr!ReachCap
  <2>2. trLast' \in Nat /\ UNCHANGED <<trFlushes, trStrays>>
    <3>1. trQueue # << >> /\ Head(trQueue) = trQueue[1] /\ 1 \in 1 .. Len(trQueue)
      BY <1>3, QueueShrinks DEF Tr!ReachCap, Tr!Takes
    <3>2. Head(trQueue).kind = "record" => Head(trQueue).seq \in Nat
      BY <3>1, QueueItems DEF IsRec
    <3> QED BY <1>3, <3>2 DEF Tr!ReachCap, Tr!LastWith, ThreadsInv
  <2> QED BY <2>1, <2>2 DEF ThreadsInv, Writes
<1>4. CASE Tr!Die
  BY <1>4 DEF Tr!Die, ThreadsInv, Writes
<1>5. CASE Tr!Producer
  <2>1. /\ UNCHANGED <<trLast, trJournal, trWriter, trDead>>
        /\ trHealth' \in {trHealth, Tr!Incomplete(trHealth)}
    BY <1>5 DEF Tr!Producer, Tr!EmitRecord, Tr!Capture, Tr!Announce, Tr!BeginFlush, Tr!Close,
                Tr!Emit, Tr!Enqueue, Tr!disk
  <2> QED BY <1>1, <2>1, HealthIs DEF Writes
<1>6. CASE Tr!Waiters
  <2>1. /\ UNCHANGED <<trLast, trJournal, trWriter, trDead>>
        /\ trHealth' \in {trHealth, Tr!Incomplete(trHealth)}
    BY <1>6 DEF Tr!Waiters, Tr!PutFence, Tr!FlushTimesOut, Tr!PutStray, Tr!PutStop, Tr!Joined,
                Tr!CloseTimesOut, Tr!disk
  <2> QED BY <1>1, <2>1, HealthIs DEF Writes
<1>7. CASE /\ Tr!Writer
           /\ ~(Tr!WriteRecord \/ Tr!DropLongRecord \/ Tr!ReachCap)
  <2>1. /\ UNCHANGED <<trLast, trJournal, trDead>>
        /\ trHealth' \in {trHealth, Tr!Incomplete(trHealth)}
        /\ trWriter' \in {"opening", "running"} => trWriter \in {"opening", "running"}
    BY <1>7 DEF Tr!Writer, Tr!OpenJournal, Tr!WriteArtifact, Tr!SkipAfterCap, Tr!SetFence, Tr!TakeStop,
                Tr!Summarize, Tr!FlushWhenIdle, Tr!DiskFails, Tr!Drain, Tr!DrainGoesOn, Tr!Takes,
                Tr!Idle, Tr!disk
  <2> QED BY <1>1, <2>1, HealthIs DEF Writes
<1>8. CASE UNCHANGED Tr!vars
  BY <1>1, <1>8 DEF Tr!vars, Tr!disk, Writes
<1> QED BY <1>2, <1>3, <1>4, <1>5, <1>6, <1>7, <1>8 DEF Tr!Next

LEMMA TraceInvStep ==
  TraceInv /\ ThreadsInv /\ [Tr!Next]_(Tr!vars) => TraceInv' /\ ThreadsInv'
<1> SUFFICES ASSUME TraceInv, ThreadsInv, [Tr!Next]_(Tr!vars) PROVE TraceInv'
  BY ThreadsInvStep
<1>1. CASE UNCHANGED Tr!vars
  <2>1. Stays
    BY <1>1 DEF Tr!vars, Tr!disk, Stays
  <2> QED BY <2>1, StaysKeeps
<1> QED BY <1>1, ProducerKeeps, WaitersKeep, WriterKeeps, DieKeeps DEF Tr!Next

LEMMA TraceInvTruthful == TraceInv => Tr!TraceIsTruthful
<1> SUFFICES ASSUME TraceInv PROVE Tr!TraceIsTruthful
  OBVIOUS
<1>1. Tr!JournalIsSound
  BY DEF TraceInv
<1>2. ASSUME Tr!LooksComplete PROVE {trJournal[i].seq : i \in Tr!Lines} = 1 .. trSealed
  <2>1. Len(trJournal) = trSealed /\ Tr!NoGap
    BY <1>2 DEF Tr!LooksComplete, TraceInv, SummaryInv, AllWritten
  <2> QED BY <2>1 DEF Tr!NoGap, Tr!Lines
<1> QED BY <1>1, <1>2 DEF Tr!TraceIsTruthful, Tr!CompleteMeansAll, Tr!JournalIsSound

\* Whatever was dropped, timed out, failed on disk or was lost with the process:
\* a trace that inspection calls complete lacks nothing that was emitted before
\* the close, and what a trace shows is in order and was announced truthfully
\* (LocalTraceSink, inspect_trace).
THEOREM TracesAreTruthful == MCSpec => []TraceIsTruthful
<1>1. MCInit => TraceInv /\ ThreadsInv
  <2>1. Tr!Init => ThreadsInv
    BY DEF Tr!Init, ThreadsInv
  <2> QED BY <2>1, TraceInvInit DEF MCInit
<1>2. TraceInv /\ ThreadsInv /\ [MCNext]_allVars => TraceInv' /\ ThreadsInv'
  <2>1. [MCNext]_allVars => [Tr!Next]_(Tr!vars)
    BY DEF MCNext, allVars, trVars, Tr!vars, Tr!producing, Tr!disk
  <2> QED BY <2>1, TraceInvStep
<1>3. TraceInv => TraceIsTruthful
  BY TraceInvTruthful DEF TraceIsTruthful
<1> QED BY <1>1, <1>2, <1>3, PTL DEF MCSpec

-----------------------------------------------------------------------------
(* A command in a sandbox *)

\* The watchdog stands down - disarmed, or after a removal of its own that worked
\* - only when there is no container and none can appear any more, whatever
\* fails, times out, is cancelled or dies: on a strict runtime a removal that
\* finds nothing counts as a failure. At its deadline it gives up instead,
\* whatever is there then (_launch_oci, _sandbox_watchdog).
THEOREM NobodyStandsDownEarly == MCSpec => []Sb!DisarmedWhenGone
<1> USE DEF Sb!DisarmedWhenGone, Sb!MayAppear, Sb!Exists
<1>1. MCInit => Sb!DisarmedWhenGone
  BY DEF MCInit, Sb!Init
<1>2. Sb!DisarmedWhenGone /\ [MCNext]_allVars => Sb!DisarmedWhenGone'
  <2> SUFFICES ASSUME Sb!DisarmedWhenGone, Sb!Next \/ UNCHANGED sbVars
               PROVE  Sb!DisarmedWhenGone'
    BY DEF MCNext, allVars
  <2>1. CASE UNCHANGED sbVars
    BY <2>1 DEF sbVars
  <2>2. CASE Sb!Runtime
    BY <2>2 DEF Sb!Runtime, Sb!RuntimeCreates, Sb!CommandEnds
  <2>3. CASE Sb!Undo
    BY <2>3 DEF Sb!Undo, Sb!Removal, Sb!HandedDown
  <2>4. CASE Sb!Stage \/ Sb!Watch \/ Sb!Created \/ Sb!Fail
    BY <2>4 DEF Sb!Stage, Sb!Watch, Sb!Created, Sb!Fail
  <2>5. CASE Sb!Start \/ Sb!Ended \/ Sb!Inspected \/ Sb!Abort \/ Sb!Return
    BY <2>5 DEF Sb!Start, Sb!Ended, Sb!Inspected, Sb!Abort, Sb!Return
  <2>6. CASE Sb!CleanupKills \/ Sb!CleanupReaps
    BY <2>6 DEF Sb!CleanupKills, Sb!CleanupReaps
  <2>7. CASE Sb!CleanupRemoves
    BY <2>7 DEF Sb!CleanupRemoves, Sb!Removal, Sb!HandedDown
  <2>8. CASE Sb!WatchdogRemoves
    BY <2>8 DEF Sb!WatchdogRemoves, Sb!Removal
  <2>9. CASE Sb!WatchdogWakes \/ Sb!WatchdogGivesUp
    BY <2>9 DEF Sb!WatchdogWakes, Sb!WatchdogGivesUp
  <2>10. CASE Sb!OwnerDies
    BY <2>10 DEF Sb!OwnerDies, Sb!OnEndOfPipe
  <2> QED BY <2>1, <2>2, <2>3, <2>4, <2>5, <2>6, <2>7, <2>8, <2>9, <2>10
          DEF Sb!Next, Sb!Owner, Sb!Cleanup, Sb!Watchdog
<1> QED BY <1>1, <1>2, PTL DEF MCSpec

-----------------------------------------------------------------------------
(* A headless run *)

\* The turns read are those completed, until one goes wrong; what ended the
\* session shows in the outcome.
ScoreInv ==
  /\ hlLeft \in Nat /\ hlGood \in Nat
  /\ hlSess \in {"reading", "turn", "stopping", "ended", "cancelled", "failed"}
  /\ hlSess \in {"turn", "stopping"} => hlOutcome = "none" /\ hlGood + hlLeft + 1 = Turns
  /\ hlSess = "reading" /\ hlOutcome = "none" => hlGood + hlLeft = Turns
  /\ hlOutcome = "completed" => hlGood + hlLeft = Turns
  /\ hlSess = "ended" /\ hlOutcome = "completed" => Hl!TimedOut \/ hlLeft = 0
  /\ hlSess = "failed" /\ hlDrv \notin {"closing", "returned", "raised"} => hlOutcome = "failed"
  /\ hlOutcome = "timed_out" => hlTimer # "none"

\* The driver goes on only when the session is over, and each cancellation by
\* the caller is somewhere on its way.
DriverInv ==
  /\ hlDrv \in {"awaiting", "gathering", "untiming", "closing", "returned", "raised"}
  /\ hlDrv # "awaiting" => Hl!Over
  /\ hlUnwinding => ~Hl!Over
  /\ hlDrv = "gathering" => hlInterrupted \/ Hl!TimedOut
  /\ hlDrv = "untiming" /\ ~hlInterrupted /\ ~Hl!TimedOut => hlSess # "cancelled"
  /\ hlCancels \in Nat
  /\ hlCancels > 0 =>
       \/ hlDrv = "awaiting" /\ (hlHit \/ hlUnwinding \/ hlSess = "cancelled")
       \/ hlDrv = "gathering" /\ (hlInterrupted \/ hlHit)
       \/ hlDrv \in {"untiming", "closing"} /\ (hlRaising \/ hlHit)
       \/ hlDrv = "raised"

\* What was settled, and that it was settled before the agent was closed.
ResultInv ==
  hlDrv \in {"closing", "returned", "raised"} =>
    \/ hlDrv = "raised" /\ hlSkipped
    \/ /\ hlClosed /\ ~hlPending /\ hlResult # "none"
       /\ hlResult = "completed" => hlLeft = 0 /\ hlGood = Turns
       /\ Hl!TimedOut => hlResult = "timed_out"
       /\ hlResult = "timed_out" => hlTimer # "none"

\* The inductive invariant of a headless run.
RunInv == ScoreInv /\ DriverInv /\ ResultInv

LEMMA RunInit == Hl!Init => RunInv
  BY ScriptAssumption
     DEF Hl!Init, RunInv, ScoreInv, DriverInv, ResultInv, Hl!TimedOut, Hl!Over

\* Reading, a turn and its end, while the driver awaits the session.
LEMMA SessionKeeps ==
  ASSUME RunInv, Hl!Read \/ Hl!TurnEnds \/ Hl!TurnStops \/ Hl!Unwind
  PROVE  RunInv'
<1> USE DEF RunInv, Hl!Over, Hl!TimedOut, Hl!driver
<1>1. hlDrv = "awaiting"
  BY DEF DriverInv, Hl!Read, Hl!TurnEnds, Hl!TurnStops, Hl!Unwind
<1>2. CASE Hl!Read
  BY <1>1, <1>2 DEF Hl!Read, Hl!ReadsNext, Hl!ReadsOn, ScoreInv, DriverInv, ResultInv
<1>3. CASE Hl!TurnEnds
  BY <1>1, <1>3 DEF Hl!TurnEnds, Hl!BadEnds, ScoreInv, DriverInv, ResultInv
<1>4. CASE Hl!TurnStops
  BY <1>1, <1>4 DEF Hl!TurnStops, ScoreInv, DriverInv, ResultInv
<1>5. CASE Hl!Unwind
  BY <1>1, <1>5 DEF Hl!Unwind, ScoreInv, DriverInv, ResultInv
<1> QED BY <1>2, <1>3, <1>4, <1>5

\* The deadline strikes, or the caller cancels.
LEMMA InterruptionKeeps == ASSUME RunInv, Hl!Deadline \/ Hl!Cancel PROVE RunInv'
<1> USE DEF RunInv, Hl!Over, Hl!TimedOut, Hl!driver
<1>1. CASE Hl!Deadline
  BY <1>1 DEF Hl!Deadline, ScoreInv, DriverInv, ResultInv
<1>2. CASE Hl!Cancel
  <2>1. ScoreInv'
    BY <1>2 DEF Hl!Cancel, ScoreInv
  <2>2. DriverInv'
    BY <1>2 DEF Hl!Cancel, DriverInv
  <2>3. ResultInv'
    BY <1>2 DEF Hl!Cancel, ResultInv
  <2> QED BY <2>1, <2>2, <2>3
<1> QED BY <1>1, <1>2

\* The driver after the session. Nothing it settles is changed later: the
\* deadline strikes only while it awaits the session.
LEMMA DriverKeeps ==
  ASSUME RunInv, Hl!Awaited \/ Hl!Gathered \/ Hl!Finalize \/ Hl!SkipCleanup \/ Hl!CloseEnds
  PROVE  RunInv'
<1> USE DEF RunInv, Hl!Over, Hl!TimedOut, Hl!session
<1>1. CASE Hl!Awaited
  BY <1>1 DEF Hl!Awaited, Hl!Interrupted, ScoreInv, DriverInv, ResultInv
<1>2. CASE Hl!Gathered
  BY <1>2 DEF Hl!Gathered, ScoreInv, DriverInv, ResultInv
<1>3. CASE Hl!Finalize
  <2>1. \/ Hl!Settled = "timed_out" /\ Hl!TimedOut
        \/ Hl!Settled = "cancelled" /\ ~Hl!TimedOut
        \/ Hl!Settled = "failed" /\ ~Hl!TimedOut
        \/ /\ Hl!Settled = hlOutcome /\ hlOutcome # "none"
           /\ ~Hl!TimedOut /\ ~hlInterrupted /\ ~hlFailure
    BY DEF Hl!Settled
  <2>2. Hl!Settled = "completed" => hlLeft = 0 /\ hlGood = Turns
    BY <1>3, <2>1 DEF Hl!Finalize, ScoreInv, DriverInv
  <2>3. Hl!TimedOut' <=> Hl!TimedOut
    BY <1>3 DEF Hl!Finalize
  <2>4. Hl!Settled = "timed_out" => hlTimer' # "none"
    BY <1>3, <2>1 DEF Hl!Finalize, ScoreInv
  <2> DEFINE s == Hl!Settled
  <2>5. /\ hlResult' = s /\ hlOutcome' = s /\ hlDrv = "untiming" /\ hlDrv' = "closing" /\ hlClosed'
        /\ ~hlPending'
        /\ UNCHANGED <<hlLeft, hlGood, hlSess, hlUnwinding, hlHit, hlCancels, hlRaising>>
    BY <1>3 DEF Hl!Finalize, Hl!StillPending
  <2>6. s # "none" /\ (s = "completed" => hlLeft = 0 /\ hlGood = Turns)
        /\ (Hl!TimedOut' => s = "timed_out") /\ (s = "timed_out" => hlTimer' # "none")
    BY <2>1, <2>2, <2>3, <2>4
  <2> HIDE DEF s
  <2>7. ScoreInv'
    BY <2>5, <2>6, ScriptAssumption DEF ScoreInv, DriverInv
  <2>8. DriverInv'
    BY <2>5 DEF DriverInv
  <2>9. ResultInv'
    BY <2>5, <2>6 DEF ResultInv
  <2> QED BY <2>7, <2>8, <2>9
<1>4. CASE Hl!SkipCleanup
  BY <1>4 DEF Hl!SkipCleanup, ScoreInv, DriverInv, ResultInv
<1>5. CASE Hl!CloseEnds
  BY <1>5 DEF Hl!CloseEnds, ScoreInv, DriverInv, ResultInv
<1> QED BY <1>1, <1>2, <1>3, <1>4, <1>5

LEMMA RunStep == RunInv /\ [Hl!Next]_(Hl!vars) => RunInv'
<1> SUFFICES ASSUME RunInv, [Hl!Next]_(Hl!vars) PROVE RunInv'
  OBVIOUS
<1>1. CASE UNCHANGED Hl!vars
  BY <1>1 DEF Hl!vars, Hl!session, Hl!driver, RunInv, ScoreInv, DriverInv, ResultInv,
              Hl!Over, Hl!TimedOut
<1> QED BY <1>1, SessionKeeps, InterruptionKeeps, DriverKeeps DEF Hl!Next, Hl!Settles

LEMMA RunIsProper == RunInv => Hl!EveryExitCleansUp /\ Hl!OutcomeIsTruthful
  BY DEF RunInv, ScoreInv, DriverInv, ResultInv, Hl!EveryExitCleansUp, Hl!CleansUp,
         Hl!OutcomeIsTruthful, Hl!Ended, Hl!Over, Hl!TimedOut

\* Whatever ends a headless run - the script, a failure, the deadline, the
\* caller, two of them at once - no turn is left pending and the agent is
\* closed, unless the caller cancels while the timer is awaited; and the result
\* says what became of the script, the deadline and the caller (run_headless).
THEOREM RunsAreTruthful == MCSpec => [](Hl!EveryExitCleansUp /\ Hl!OutcomeIsTruthful)
<1>1. MCInit => RunInv
  BY RunInit DEF MCInit
<1>2. RunInv /\ [MCNext]_allVars => RunInv'
  <2>1. [MCNext]_allVars => [Hl!Next]_(Hl!vars)
    BY DEF MCNext, allVars, hlVars, Hl!vars, Hl!session, Hl!driver
  <2> QED BY <2>1, RunStep
<1> QED BY <1>1, <1>2, RunIsProper, PTL DEF MCSpec

=============================================================================
