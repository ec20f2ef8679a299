--------------------------- MODULE AgentTurnProofs ---------------------------
(***************************************************************************)
(* Theorems about AgentTurn for every number of generators, turns, calls,  *)
(* iterations and crashes.  IInv is inductive; each theorem follows from   *)
(* it.  The properties speak of the lease, the tally and the transcript;   *)
(* IInv adds what ties them together: where a generator's program counter  *)
(* may be while it holds the lease, and which row of the transcript the    *)
(* turn's user message and a pending truncate point at.                    *)
(*                                                                         *)
(* The second half is about what is remembered.  Known adds to IInv how    *)
(* memory, checkpoint, turn index and side state follow from the rows, at  *)
(* every place of a turn and between turns, and that every snapshot is     *)
(* what the rows up to it give.  From Known follow that a restart resumes  *)
(* what this process holds, that a compaction can be saved, and that the   *)
(* agent implements Conversation.                                          *)
(***************************************************************************)
EXTENDS AgentTurn, FiniteSetTheorems, SequenceTheorems, WellFoundedInduction,
        TLAPS

\* Places a turn reaches only after its user message was committed.
Committing == {"compact", "iter", "stream", "replied", "calls", "tools",
               "results", "ending", "notices"}

\* The lease, its checkpoint and its tally are taken and released together.
LeaseCoupled ==
  /\ lease # NoGen <=> ckpt # NoCkpt
  /\ lease # NoGen => statsLease = lease /\ statsSeq = msgSeq
  /\ lease = NoGen => msgSeq = 0

\* A generator inside its body holds the lease, its task is the active one
\* and has not ended; one that holds the lease is where msgSeq says it is.
PlacesAgree ==
  \A g \in Gens :
    /\ at[g] = "in" => lease = g /\ active = g /\ ~Dead(g) /\ pc[g] # "none"
    /\ lease = g =>
         /\ pc[g] = "pre" => msgSeq = 0
         /\ pc[g] \in Committing => msgSeq # 0
         /\ pc[g] = "stream" => turnIndex > 0
         /\ pc[g] # "terminal"

\* The user message of the running turn is a row of the transcript.
UserRow == msgSeq # 0 =>
  /\ msgSeq \in 1 .. Len(log)
  /\ log[msgSeq].msg.role = "user"

\* A pending truncate points at the user message of the tail it removes.
PendingTail == pending # 0 =>
  /\ lease = NoGen
  /\ pending \in 1 .. Len(log)
  /\ log[pending].msg.role = "user"
  /\ \A i \in pending .. Len(log) : log[i].msg.t = log[pending].msg.t

RowsOfThePast == \A i \in 1 .. Len(log) : log[i].msg.t <= turn

LogInv ==
  /\ UserRow
  /\ PendingTail
  /\ RowsOfThePast
  /\ TurnOwnsTail
  /\ StatsAtOwnUserMessage

IInv == TypeOK /\ LeaseCoupled /\ PlacesAgree /\ LogInv

-----------------------------------------------------------------------------
(* Facts about transcripts *)

\* A nonempty set of indices has a greatest element: of the sets of larger
\* elements, one is minimal under inclusion.
LEMMA GreatestIndex ==
  ASSUME NEW n \in Nat, NEW T \in SUBSET (1 .. n), T # {}
  PROVE  \E s \in T : \A o \in T : o <= s
<1> DEFINE Above(s) == {o \in T : s < o}
           All == {Above(s) : s \in T}
           R == StrictSubsetOrdering(T)
           F == FiniteSubsetsOf(T)
<1>1. IsFiniteSet(T) /\ \A o \in T : o \in Nat
  <2>1. IsFiniteSet(1 .. n)
    BY FS_Interval
  <2>2. \A o \in T : o \in Nat
    OBVIOUS
  <2> QED BY <2>1, <2>2, FS_Subset
<1>2. IsWellFoundedOn(R, F)
  BY FS_StrictSubsetOrderingWellFounded
<1>3. All \subseteq F /\ All # {}
  <2>1. ASSUME NEW s \in T
        PROVE  Above(s) \in F
    <3>1. Above(s) \in SUBSET T
      OBVIOUS
    <3>2. IsFiniteSet(Above(s))
      BY <3>1, <1>1, FS_Subset
    <3> QED BY <3>1, <3>2 DEF FiniteSubsetsOf
  <2> QED BY <2>1
<1>4. PICK a \in All : \A b \in All : ~(<<b, a>> \in R)
  <2> HIDE DEF All, R, F
  <2> QED BY <1>2, <1>3, WFMin
<1>5. PICK s \in T : a = Above(s)
  BY <1>4
<1>6. ASSUME NEW o \in T, s < o
      PROVE  FALSE
  <2>1. Above(o) \subseteq Above(s) /\ Above(o) # Above(s)
    <3>1. o \in Above(s) /\ o \notin Above(o)
      BY <1>6
    <3>2. Above(o) \subseteq Above(s)
      <4>1. ASSUME NEW z \in T, o < z
            PROVE  s < z
        <5>1. s \in Nat /\ o \in Nat /\ z \in Nat
          BY <1>1
        <5> QED BY <1>6, <4>1, <5>1
      <4> QED BY <4>1
    <3> QED BY <3>1, <3>2
  <2>2. <<Above(o), Above(s)>> \in R
    BY <2>1 DEF StrictSubsetOrdering
  <2> QED BY <2>2, <1>4, <1>5
<1>7. \A o \in T : o <= s
  BY <1>6
<1> QED BY <1>7

\* Message rows are typed, and Append leaves the rows before it alone.
LEMMA AppendRow ==
  ASSUME NEW l \in Seq(Row), turn \in Nat, NEW role \in Roles,
         NEW calls \in Nat
  PROVE  LET m == Message(l, role, calls)
             r == RowOf(m)
             k == Append(l, r)
         IN  /\ m \in Msg /\ r \in Row
             /\ k \in Seq(Row)
             /\ Len(k) = Len(l) + 1
             /\ \A i \in 1 .. Len(l) : k[i] = l[i]
             /\ k[Len(l) + 1] = r
             /\ r.msg.t = turn /\ r.msg.role = role /\ r.stats = 0
<1>1. Len(l) \in Nat
  BY LenProperties
<1>2. Message(l, role, calls) \in Msg
  BY <1>1 DEF Message, Msg
<1>3. RowOf(Message(l, role, calls)) \in Row
  BY <1>2 DEF RowOf, Row
<1> QED BY <1>2, <1>3, AppendProperties DEF RowOf, Message

\* truncate_after keeps the rows up to seq and their messages.
LEMMA TruncateRows ==
  ASSUME NEW l \in Seq(Row), NEW seq \in 1 .. Len(l)
  PROVE  LET k == Truncate(l, seq)
         IN  /\ k \in Seq(Row)
             /\ Len(k) = seq
             /\ \A i \in 1 .. seq : k[i].msg = l[i].msg
             /\ \A i \in 1 .. seq : i < seq => k[i] = l[i]
             /\ k[seq].stats = 0
<1> DEFINE k == Truncate(l, seq)
<1>1. Len(l) \in Nat /\ seq \in Nat /\ \A i \in 1 .. Len(l) : l[i] \in Row
  BY LenProperties, ElementOfSeq
<1>2. \A i \in 1 .. seq : l[i] \in Row
  BY <1>1
<1>3. \A i \in 1 .. seq : RowOf(l[i].msg) \in Row
  BY <1>2 DEF RowOf, Row
<1>4. k \in [1 .. seq -> Row]
  BY <1>2, <1>3 DEF Truncate
<1>5. k \in Seq(Row)
  BY <1>4, <1>1, SeqDef
<1>6. Len(k) = seq
  <2>1. DOMAIN k = 1 .. seq
    BY DEF Truncate
  <2>2. DOMAIN k = 1 .. Len(k) /\ Len(k) \in Nat
    BY <1>5, LenProperties
  <2> QED BY <2>1, <2>2, <1>1
<1> QED BY <1>1, <1>5, <1>6 DEF Truncate, RowOf

\* Writing the statistics of a row changes nothing else.
LEMMA StatsRow ==
  ASSUME NEW l \in Seq(Row), NEW seq \in 1 .. Len(l), turn \in Nat
  PROVE  LET k == [l EXCEPT ![seq].stats = turn]
         IN  /\ k \in Seq(Row)
             /\ Len(k) = Len(l)
             /\ \A i \in 1 .. Len(l) : k[i].msg = l[i].msg
             /\ \A i \in 1 .. Len(l) : k[i].snap = l[i].snap
             /\ \A i \in 1 .. Len(l) : k[i].side = l[i].side
             /\ \A i \in 1 .. Len(l) : i # seq => k[i] = l[i]
             /\ k[seq].stats = turn
<1>1. l[seq] \in Row
  BY ElementOfSeq
<1> DEFINE r == [l[seq] EXCEPT !.stats = turn]
<1>2. /\ r \in Row /\ r.msg = l[seq].msg /\ r.stats = turn
      /\ r.snap = l[seq].snap /\ r.side = l[seq].side
  BY <1>1 DEF Row
<1>3. [l EXCEPT ![seq].stats = turn] = [l EXCEPT ![seq] = r]
  OBVIOUS
<1> HIDE DEF r
<1> QED BY <1>2, <1>3, ExceptSeq

\* Saving the skills and todos at a row changes nothing else.
LEMMA SideRow ==
  ASSUME NEW l \in Seq(Row), NEW seq \in 1 .. Len(l), NEW sd \in Sides
  PROVE  LET k == [l EXCEPT ![seq].side = sd]
         IN  /\ k \in Seq(Row)
             /\ Len(k) = Len(l)
             /\ \A i \in 1 .. Len(l) : k[i].msg = l[i].msg
             /\ \A i \in 1 .. Len(l) : k[i].stats = l[i].stats
             /\ \A i \in 1 .. Len(l) : k[i].snap = l[i].snap
             /\ k[seq].side = sd
<1>1. l[seq] \in Row
  BY ElementOfSeq
<1> DEFINE r == [l[seq] EXCEPT !.side = sd]
<1>2. /\ r \in Row /\ r.msg = l[seq].msg /\ r.stats = l[seq].stats
      /\ r.snap = l[seq].snap /\ r.side = sd
  BY <1>1 DEF Row
<1>3. [l EXCEPT ![seq].side = sd] = [l EXCEPT ![seq] = r]
  OBVIOUS
<1> HIDE DEF r
<1> QED BY <1>2, <1>3, ExceptSeq

\* Saving a compaction at the last row changes no message and no statistics.
LEMMA SnapshotRows ==
  ASSUME log \in Seq(Row), NEW snap \in Snap
  PROVE  LET k == SaveSnapshot(snap)
         IN  /\ k \in Seq(Row)
             /\ Len(k) = Len(log)
             /\ \A i \in 1 .. Len(log) : k[i].msg = log[i].msg
             /\ \A i \in 1 .. Len(log) : k[i].stats = log[i].stats
<1> DEFINE k == SaveSnapshot(snap)
<1>1. DOMAIN log = 1 .. Len(log) /\ Len(log) \in Nat
  BY LenProperties
<1>2. ASSUME NEW i \in 1 .. Len(log)
      PROVE  /\ k[i] \in Row
             /\ k[i].msg = log[i].msg
             /\ k[i].stats = log[i].stats
  <2>1. log[i] \in Row
    BY ElementOfSeq
  <2>2. \A s \in Snap \cup {NoSnap} :
          LET r == [log[i] EXCEPT !.snap = s]
          IN  r \in Row /\ r.msg = log[i].msg /\ r.stats = log[i].stats
    BY <2>1 DEF Row
  <2>3. \E s \in Snap \cup {NoSnap} :
          k[i] = [log[i] EXCEPT !.snap = s] \/ k[i] = log[i]
    BY <1>1 DEF SaveSnapshot
  <2> QED BY <2>1, <2>2, <2>3
<1>3. k \in [1 .. Len(log) -> Row]
  BY <1>1, <1>2 DEF SaveSnapshot
<1>4. k \in Seq(Row)
  BY <1>3, <1>1, SeqDef
<1>5. Len(k) = Len(log)
  <2>1. DOMAIN k = 1 .. Len(log)
    BY <1>1 DEF SaveSnapshot
  <2>2. DOMAIN k = 1 .. Len(k) /\ Len(k) \in Nat
    BY <1>4, LenProperties
  <2> QED BY <2>1, <2>2, <1>1
<1> QED BY <1>2, <1>4, <1>5

\* The messages that survive a trim are finitely many messages of the rows.
LEMMA TrimmedFinite ==
  ASSUME NEW l \in Seq(Row), NEW first \in Nat \ {0}
  PROVE  /\ Trimmed(l, first, Len(l)) \in SUBSET Msg
         /\ IsFiniteSet(Trimmed(l, first, Len(l)))
<1> DEFINE S == {i \in first .. Len(l) : Kept(l, i)}
           f == [i \in S |-> l[i].msg]
<1>1. S \subseteq 1 .. Len(l)
  BY LenProperties
<1>2. \A i \in S : l[i].msg \in Msg
  <2>1. \A i \in S : l[i] \in Row
    BY <1>1, ElementOfSeq
  <2> QED BY <2>1 DEF Row
<1>3. IsFiniteSet(S)
  <2>1. IsFiniteSet(1 .. Len(l))
    BY FS_Interval, LenProperties
  <2> QED BY <2>1, <1>1, FS_Subset
<1>4. Trimmed(l, first, Len(l)) = {l[i].msg : i \in S}
  BY DEF Trimmed
<1>5. f \in Surjection(S, {l[i].msg : i \in S})
  BY DEF Surjection
<1> HIDE DEF S, f
<1>6. IsFiniteSet({l[i].msg : i \in S})
  BY <1>3, <1>5, FS_Surjection
<1> QED BY <1>2, <1>4, <1>6

\* A new process has a memory, a turn index and a side state of their types.
LEMMA ReplayTyped ==
  ASSUME NEW l \in Seq(Row)
  PROVE  /\ Replay(l).mem \in SUBSET Msg
         /\ Replay(l).idx \in Nat
         /\ Replay(l).side \in Sides
<1>1. DOMAIN l = 1 .. Len(l) /\ Len(l) \in Nat
  BY LenProperties
<1> DEFINE s == LatestSnap(l)
           tail == Trimmed(l, s + 1, Len(l))
           saved == {i \in DOMAIN l : l[i].side # NoSide}
<1>2. s \in 0 .. Len(l) /\ (s # 0 => l[s].snap \in Snap)
  <2> DEFINE good == {i \in DOMAIN l : Usable(l, i)}
  <2>1. CASE good = {}
    BY <2>1, <1>1 DEF LatestSnap
  <2>2. CASE good # {}
    <3>1. \E i \in good : \A o \in good : o <= i
      BY <2>2, <1>1, GreatestIndex
    <3>2. s \in good
      BY <2>2, <3>1 DEF LatestSnap
    <3>3. s \in 1 .. Len(l) /\ l[s].snap # NoSnap
      BY <3>2, <1>1 DEF Usable
    <3>4. l[s] \in Row
      BY <3>3, ElementOfSeq
    <3> QED BY <3>3, <3>4 DEF Row
  <2> QED BY <2>1, <2>2
<1>3. tail \in SUBSET Msg /\ IsFiniteSet(tail)
  <2>1. s + 1 \in Nat \ {0}
    BY <1>2
  <2> HIDE DEF s
  <2> QED BY <2>1, TrimmedFinite
<1>4. Assistants(tail) \in Nat
  <2>1. {m \in tail : m.role = "assistant"} \in SUBSET tail
    OBVIOUS
  <2>2. IsFiniteSet({m \in tail : m.role = "assistant"})
    BY <2>1, <1>3, FS_Subset
  <2> QED BY <2>2, FS_CardinalityType DEF Assistants
<1>5. (IF saved = {} THEN InitSide
       ELSE l[CHOOSE i \in saved : \A o \in saved : o <= i].side) \in Sides
  <2>1. CASE saved = {}
    BY <2>1, SideAssumption
  <2>2. CASE saved # {}
    <3> DEFINE c == CHOOSE i \in saved : \A o \in saved : o <= i
    <3>1. \E i \in saved : \A o \in saved : o <= i
      BY <2>2, <1>1, GreatestIndex
    <3>2. c \in saved
      BY <3>1
    <3>3. c \in 1 .. Len(l) /\ l[c].side # NoSide
      BY <3>2, <1>1
    <3>4. l[c] \in Row
      BY <3>3, ElementOfSeq
    <3> QED BY <2>2, <3>3, <3>4 DEF Row
  <2> QED BY <2>1, <2>2
<1>6. Replay(l).mem \in SUBSET Msg
  BY <1>2, <1>3 DEF Replay, Snap
<1>7. Replay(l).idx \in Nat
  <2>1. s # 0 => l[s].snap.idx \in Nat
    BY <1>2 DEF Snap
  <2> QED BY <2>1, <1>4 DEF Replay
<1>8. Replay(l).side \in Sides
  BY <1>5 DEF Replay
<1> QED BY <1>6, <1>7, <1>8

-----------------------------------------------------------------------------
(* What the actions that write the transcript do to it *)

\* Every row carries no statistics, or those of its own turn at a user message.
OwnStats(l) ==
  \A i \in 1 .. Len(l) : l[i].stats # 0 =>
    l[i].msg.role = "user" /\ l[i].stats = l[i].msg.t

LEMMA StatsAreOwn ==
  ASSUME TypeOK
  PROVE  StatsAtOwnUserMessage <=> OwnStats(log)
<1>1. DOMAIN log = 1 .. Len(log)
  BY LenProperties DEF TypeOK
<1> QED BY <1>1 DEF StatsAtOwnUserMessage, OwnStats

\* The facts every action starts from while the lease is held.
LEMMA HeldLease ==
  ASSUME IInv, lease # NoGen
  PROVE  /\ ckpt \in Ckpt /\ pending = 0 /\ statsSeq = msgSeq
         /\ log \in Seq(Row) /\ Len(log) \in Nat /\ OwnStats(log)
         /\ \A i \in 1 .. Len(log) :
              /\ log[i] \in Row
              /\ (log[i].msg.t = turn) <=> (msgSeq # 0 /\ i >= msgSeq)
         /\ msgSeq # 0 => /\ msgSeq \in 1 .. Len(log)
                          /\ log[msgSeq].msg.role = "user"
<1>1. ckpt \in Ckpt /\ pending = 0 /\ statsSeq = msgSeq
  BY DEF IInv, TypeOK, LeaseCoupled, LogInv, PendingTail
<1>2. log \in Seq(Row)
  BY DEF IInv, TypeOK
<1>3. /\ Len(log) \in Nat /\ DOMAIN log = 1 .. Len(log)
      /\ \A i \in 1 .. Len(log) : log[i] \in Row
  BY <1>2, LenProperties, ElementOfSeq
<1>4. \A i \in 1 .. Len(log) :
        (log[i].msg.t = turn) <=> (msgSeq # 0 /\ i >= msgSeq)
  BY <1>3 DEF IInv, LogInv, LeaseCoupled, TurnOwnsTail
<1>5. OwnStats(log)
  BY StatsAreOwn DEF IInv, LogInv
<1> QED BY <1>1, <1>2, <1>3, <1>4, <1>5 DEF IInv, LogInv, UserRow

\* A row appended while the lease is held, the turn's user message or one
\* behind it.
LEMMA AppendKeepsLogInv ==
  ASSUME IInv, lease # NoGen, NEW role \in Roles, NEW calls \in Nat,
         log' = Append(log, RowOf(Message(log, role, calls))),
         lease' = lease, pending' = pending, turn' = turn, ckpt' = ckpt,
         \/ msgSeq # 0 /\ msgSeq' = msgSeq
         \/ msgSeq = 0 /\ msgSeq' = Len(log) + 1 /\ role = "user"
  PROVE  LogInv' /\ log' \in Seq(Row) /\ Message(log, role, calls) \in Msg
<1> DEFINE r == RowOf(Message(log, role, calls))
<1>1. turn \in Nat /\ msgSeq \in Nat
  BY DEF IInv, TypeOK
<1>2. log \in Seq(Row) /\ Len(log) \in Nat /\ OwnStats(log) /\ pending = 0
  BY HeldLease
<1>3. /\ Message(log, role, calls) \in Msg /\ r \in Row
      /\ log' \in Seq(Row) /\ Len(log') = Len(log) + 1
      /\ \A i \in 1 .. Len(log) : log'[i] = log[i]
      /\ log'[Len(log) + 1] = r
      /\ r.msg.t = turn /\ r.msg.role = role /\ r.stats = 0
  BY <1>1, <1>2, AppendRow
<1> HIDE DEF r
<1>4. DOMAIN (log') = 1 .. Len(log) + 1
  BY <1>3, LenProperties
<1>5. UserRow'
  BY <1>1, <1>2, <1>3, HeldLease DEF UserRow
<1>6. PendingTail'
  BY <1>2 DEF PendingTail
<1>7. RowsOfThePast'
  BY <1>1, <1>2, <1>3 DEF RowsOfThePast, IInv, LogInv
<1>8. TurnOwnsTail'
  <2>1. ASSUME NEW i \in 1 .. Len(log) + 1
        PROVE  (log'[i].msg.t = turn) <=> (msgSeq' # 0 /\ i >= msgSeq')
    <3>1. CASE i = Len(log) + 1
      BY <3>1, <1>1, <1>2, <1>3, HeldLease
    <3>2. CASE i # Len(log) + 1
      <4>1. i \in 1 .. Len(log)
        BY <3>2, <1>2
      <4>2. (log[i].msg.t = turn) <=> (msgSeq # 0 /\ i >= msgSeq)
        BY <4>1, HeldLease
      <4> QED BY <4>1, <4>2, <1>1, <1>2, <1>3
    <3> QED BY <3>1, <3>2
  <2> QED BY <2>1, <1>4 DEF TurnOwnsTail
<1>9. StatsAtOwnUserMessage'
  <2>1. \A i \in 1 .. Len(log) + 1 : log'[i].stats # 0 =>
          log'[i].msg.role = "user" /\ log'[i].stats = log'[i].msg.t
    BY <1>2, <1>3 DEF OwnStats
  <2> QED BY <2>1, <1>4 DEF StatsAtOwnUserMessage
<1> QED BY <1>3, <1>5, <1>6, <1>7, <1>8, <1>9 DEF LogInv

\* Events saved at rows, while messages and statistics stay.
LEMMA EventsKeepLogInv ==
  ASSUME IInv, lease # NoGen,
         log' \in Seq(Row), Len(log') = Len(log),
         \A i \in 1 .. Len(log) : /\ log'[i].msg = log[i].msg
                                  /\ log'[i].stats = log[i].stats,
         lease' = lease, pending' = pending, turn' = turn, ckpt' = ckpt,
         msgSeq' = msgSeq
  PROVE  LogInv'
<1>1. log \in Seq(Row) /\ OwnStats(log) /\ pending = 0 /\ Len(log) \in Nat
  BY HeldLease
<1>2. DOMAIN (log') = 1 .. Len(log) /\ DOMAIN log = 1 .. Len(log)
  BY <1>1, LenProperties
<1>3. UserRow' /\ PendingTail' /\ RowsOfThePast' /\ TurnOwnsTail'
  BY <1>1, <1>2
     DEF IInv, LogInv, UserRow, PendingTail, RowsOfThePast, TurnOwnsTail
<1>4. StatsAtOwnUserMessage'
  BY <1>1, <1>2 DEF StatsAtOwnUserMessage, OwnStats
<1> QED BY <1>3, <1>4 DEF LogInv

\* The transcript a voided turn leaves, before its tally is written.
LEMMA TruncatedRows ==
  ASSUME IInv, lease # NoGen, NEW ok \in BOOLEAN
  PROVE  LET k == TruncatedLog(ok)
         IN  /\ k \in Seq(Row) /\ OwnStats(k)
             /\ Len(k) = IF msgSeq # 0 /\ ok THEN msgSeq ELSE Len(log)
             /\ \A i \in 1 .. Len(k) : k[i].msg = log[i].msg
             /\ \A i \in 1 .. Len(k) : i # msgSeq => k[i] = log[i]
             /\ ~ok => k = log
<1> DEFINE k == TruncatedLog(ok)
<1>1. log \in Seq(Row) /\ OwnStats(log) /\ Len(log) \in Nat
  BY HeldLease
<1>2. CASE msgSeq = 0 \/ ~ok
  BY <1>1, <1>2 DEF TruncatedLog
<1>3. CASE msgSeq # 0 /\ ok
  <2>1. msgSeq \in 1 .. Len(log) /\ k = Truncate(log, msgSeq)
    BY <1>3, HeldLease DEF TruncatedLog
  <2>2. /\ k \in Seq(Row) /\ Len(k) = msgSeq
        /\ \A i \in 1 .. msgSeq : k[i].msg = log[i].msg
        /\ \A i \in 1 .. msgSeq : i < msgSeq => k[i] = log[i]
        /\ k[msgSeq].stats = 0
    BY <1>1, <2>1, TruncateRows
  <2> HIDE DEF k
  <2>3. OwnStats(k)
    BY <1>1, <2>1, <2>2 DEF OwnStats
  <2>4. \A i \in 1 .. msgSeq : i # msgSeq => k[i] = log[i]
    BY <1>1, <2>1, <2>2
  <2> QED BY <1>3, <2>2, <2>3, <2>4 DEF k
<1> QED BY <1>2, <1>3

\* Closing the tally of the turn on what is left of the transcript.
LEMMA TallyRows ==
  ASSUME IInv, lease # NoGen, NEW ok \in BOOLEAN, NEW saved \in BOOLEAN,
         FinishStats(TruncatedLog(ok), saved)
  PROVE  /\ log' \in Seq(Row) /\ OwnStats(log')
         /\ Len(log') = IF msgSeq # 0 /\ ok THEN msgSeq ELSE Len(log)
         /\ \A i \in 1 .. Len(log') : log'[i].msg = log[i].msg
         /\ \A i \in 1 .. Len(log') : i # msgSeq => log'[i] = log[i]
<1> DEFINE k == TruncatedLog(ok)
<1>1. /\ k \in Seq(Row) /\ OwnStats(k)
      /\ Len(k) = IF msgSeq # 0 /\ ok THEN msgSeq ELSE Len(log)
      /\ \A i \in 1 .. Len(k) : k[i].msg = log[i].msg
      /\ \A i \in 1 .. Len(k) : i # msgSeq => k[i] = log[i]
  BY TruncatedRows
<1>2. log' = IF statsSeq # 0 /\ saved
             THEN [k EXCEPT ![statsSeq].stats = turn] ELSE k
  BY DEF FinishStats
<1> HIDE DEF k
<1>3. CASE ~(statsSeq # 0 /\ saved)
  BY <1>1, <1>2, <1>3
<1>4. CASE statsSeq # 0 /\ saved
  <2>1. /\ statsSeq = msgSeq /\ msgSeq \in 1 .. Len(log)
        /\ log[msgSeq].msg.role = "user" /\ log[msgSeq].msg.t = turn
        /\ Len(log) \in Nat /\ turn \in Nat
    <3>1. /\ statsSeq = msgSeq /\ msgSeq \in 1 .. Len(log)
          /\ log[msgSeq].msg.role = "user" /\ Len(log) \in Nat
      BY <1>4, HeldLease
    <3>2. log[msgSeq].msg.t = turn
      BY <3>1, HeldLease
    <3> QED BY <3>1, <3>2 DEF IInv, TypeOK
  <2>2. msgSeq \in 1 .. Len(k)
    BY <1>1, <2>1
  <2>3. /\ log' \in Seq(Row) /\ Len(log') = Len(k)
        /\ \A i \in 1 .. Len(k) : log'[i].msg = k[i].msg
        /\ \A i \in 1 .. Len(k) : i # msgSeq => log'[i] = k[i]
        /\ log'[msgSeq].stats = turn
    BY <1>1, <1>2, <1>4, <2>1, <2>2, StatsRow
  <2>4. OwnStats(log')
    BY <1>1, <2>1, <2>2, <2>3 DEF OwnStats
  <2> QED BY <1>1, <2>2, <2>3, <2>4
<1> QED BY <1>3, <1>4

\* Once the lease is free and the transcript holds messages it held before,
\* with statistics of their own, LogInv is only about the pending truncate.
LEMMA FreedLease ==
  ASSUME IInv, log' \in Seq(Row), OwnStats(log'), Len(log') <= Len(log),
         \A i \in 1 .. Len(log') : log'[i].msg = log[i].msg,
         ckpt' = NoCkpt, msgSeq' = 0, turn' = turn, PendingTail'
  PROVE  LogInv'
<1>1. log \in Seq(Row)
  BY DEF IInv, TypeOK
<1>2. /\ Len(log) \in Nat /\ Len(log') \in Nat
      /\ DOMAIN (log') = 1 .. Len(log')
  BY <1>1, LenProperties
<1>3. UserRow' /\ TurnOwnsTail'
  BY DEF UserRow, TurnOwnsTail
<1>4. RowsOfThePast'
  BY <1>2 DEF IInv, LogInv, RowsOfThePast
<1>5. StatsAtOwnUserMessage'
  BY <1>2 DEF StatsAtOwnUserMessage, OwnStats
<1> QED BY <1>3, <1>4, <1>5 DEF LogInv

\* After a failed repair the pending truncate names the turn's own tail.
LEMMA VoidedTail ==
  ASSUME IInv, lease # NoGen, NEW ok \in BOOLEAN,
         pending' = PendingAfter(ok), lease' = NoGen, log' \in Seq(Row),
         ok \/ Len(log') = Len(log),
         \A i \in 1 .. Len(log') : log'[i].msg = log[i].msg
  PROVE  PendingTail' /\ pending' \in Nat
<1>1. pending = 0 /\ Len(log) \in Nat /\ msgSeq \in Nat
  BY HeldLease DEF IInv, TypeOK
<1>2. CASE msgSeq = 0 \/ ok
  BY <1>1, <1>2 DEF PendingAfter, PendingTail
<1>3. CASE msgSeq # 0 /\ ~ok
  <2>1. pending' = msgSeq /\ Len(log') = Len(log)
    BY <1>3 DEF PendingAfter
  <2>2. msgSeq \in 1 .. Len(log) /\ log[msgSeq].msg.role = "user"
    BY <1>3, HeldLease
  <2>3. \A i \in msgSeq .. Len(log) : log[i].msg.t = turn
    <3>1. \A i \in msgSeq .. Len(log) : i \in 1 .. Len(log) /\ i >= msgSeq
      BY <1>1, <2>2
    <3> QED BY <1>3, <3>1, HeldLease
  <2>4. \A i \in msgSeq .. Len(log) : log'[i].msg.t = turn
    BY <1>1, <2>1, <2>2, <2>3
  <2> QED BY <1>1, <2>1, <2>2, <2>4 DEF PendingTail
<1> QED BY <1>2, <1>3

\* The types of all variables but those of the generators.
TurnTypes ==
  /\ lease \in Gens \cup {NoGen} /\ active \in Gens \cup {NoGen}
  /\ ckpt \in Ckpt \cup {NoCkpt}
  /\ msgSeq \in Nat /\ statsSeq \in Nat /\ pending \in Nat
  /\ cancelReq \in BOOLEAN /\ committed \in BOOLEAN
  /\ told \in {"none", "ended", "voided"}
  /\ statsLease \in Gens \cup {NoGen}
  /\ turnIndex \in Nat /\ turn \in Nat /\ crashes \in Nat
  /\ side \in Sides /\ before \in Sides \cup {NoSide}
  /\ mem \in SUBSET Msg
  /\ log \in Seq(Row)

\* What _rollback_turn restores has its type.
LEMMA RestoredTypes ==
  ASSUME IInv, lease # NoGen, RestoreMemory
  PROVE  mem' \in SUBSET Msg /\ turnIndex' \in Nat /\ side' \in Sides
<1>1. ckpt \in Ckpt
  BY HeldLease
<1>2. msgSeq # 0 => log[msgSeq].msg \in Msg
  <2>1. msgSeq # 0 => log[msgSeq] \in Row
    BY HeldLease
  <2> QED BY <2>1 DEF Row
<1> QED BY <1>1, <1>2 DEF RestoreMemory, Ckpt

LEMMA RollbackStep ==
  ASSUME IInv, lease # NoGen, Rollback
  PROVE  TurnTypes' /\ LeaseCoupled' /\ LogInv' /\ lease' = NoGen
<1>1. PICK ok \in BOOLEAN, saved \in BOOLEAN :
        /\ saved => ok
        /\ RestoreMemory
        /\ pending' = PendingAfter(ok)
        /\ told' = "voided"
        /\ ClearTurn
        /\ FinishStats(TruncatedLog(ok), saved)
        /\ before' = NoSide
        /\ UNCHANGED <<turn, crashes>>
  BY DEF Rollback
<1>2. /\ log' \in Seq(Row) /\ OwnStats(log')
      /\ Len(log') = IF msgSeq # 0 /\ ok THEN msgSeq ELSE Len(log)
      /\ \A i \in 1 .. Len(log') : log'[i].msg = log[i].msg
  BY <1>1, TallyRows
<1>3. /\ lease' = NoGen /\ active' = NoGen /\ ckpt' = NoCkpt /\ msgSeq' = 0
      /\ cancelReq' = FALSE /\ committed' = FALSE
      /\ statsLease' = NoGen /\ statsSeq' = 0
  BY <1>1 DEF ClearTurn, FinishStats
<1>4. PendingTail' /\ pending' \in Nat
  BY <1>1, <1>2, <1>3, VoidedTail
<1>5. mem' \in SUBSET Msg /\ turnIndex' \in Nat /\ side' \in Sides
  BY <1>1, RestoredTypes
<1>6. Len(log') <= Len(log)
  BY <1>2, HeldLease
<1>7. LogInv'
  BY <1>1, <1>2, <1>3, <1>4, <1>6, FreedLease
<1>8. TurnTypes'
  BY <1>1, <1>2, <1>3, <1>4, <1>5 DEF TurnTypes, IInv, TypeOK
<1>9. LeaseCoupled'
  BY <1>3 DEF LeaseCoupled
<1> QED BY <1>3, <1>7, <1>8, <1>9

\* A turn that is blocked or done gives up its state and closes its tally.
LEMMA ReleaseStep ==
  ASSUME IInv, lease # NoGen, ClearTurn, NEW saved \in BOOLEAN,
         FinishStats(log, saved), told' \in {"none", "ended", "voided"},
         UNCHANGED <<workVars, pending, turn, crashes>>
  PROVE  TurnTypes' /\ LeaseCoupled' /\ LogInv' /\ lease' = NoGen
<1>1. TruncatedLog(FALSE) = log
  BY DEF TruncatedLog
<1>2. /\ log' \in Seq(Row) /\ OwnStats(log') /\ Len(log') = Len(log)
      /\ \A i \in 1 .. Len(log') : log'[i].msg = log[i].msg
  BY <1>1, TallyRows
<1>3. /\ lease' = NoGen /\ active' = NoGen /\ ckpt' = NoCkpt /\ msgSeq' = 0
      /\ cancelReq' = FALSE /\ committed' = FALSE
      /\ statsLease' = NoGen /\ statsSeq' = 0
  BY DEF ClearTurn, FinishStats
<1>4. PendingTail'
  BY HeldLease DEF PendingTail
<1>5. LogInv'
  BY <1>2, <1>3, <1>4, HeldLease, FreedLease
<1>6. TurnTypes'
  BY <1>2, <1>3 DEF TurnTypes, IInv, TypeOK, workVars
<1>7. LeaseCoupled'
  BY <1>3 DEF LeaseCoupled
<1> QED BY <1>3, <1>5, <1>6, <1>7

-----------------------------------------------------------------------------
(* The generators *)

GenTypes ==
  /\ pc \in [Gens -> Places]
  /\ at \in [Gens -> {"in", "out"}]
  /\ drv \in [Gens -> {"live", "cancelling", "cancelled", "ended"}]

LEMMA Recombined ==
  ASSUME GenTypes', TurnTypes', LeaseCoupled', PlacesAgree', LogInv'
  PROVE  IInv'
  BY DEF IInv, TypeOK, GenTypes, TurnTypes

\* A generator inside its body holds the lease and was not told it ended.
LEMMA InsideHolds ==
  ASSUME IInv, NEW g \in Gens, at[g] = "in"
  PROVE  /\ lease = g /\ lease # NoGen /\ active = g /\ ~Dead(g)
         /\ pc[g] \in Committing => msgSeq # 0
         /\ pc[g] = "pre" => msgSeq = 0
         /\ pc[g] = "stream" => turnIndex > 0
  BY GenAssumption DEF IInv, PlacesAgree

\* No generator is inside its body once the lease is free and each of them
\* is outside.
LEMMA FreedPlaces ==
  ASSUME lease' = NoGen, \A h \in Gens : at'[h] # "in"
  PROVE  PlacesAgree'
  BY GenAssumption DEF PlacesAgree

\* The lease holder goes on at where, a place msgSeq and turnIndex agree with.
LEMMA GotoKeepsPlaces ==
  ASSUME IInv, NEW g \in Gens, at[g] = "in",
         NEW where \in Places \ {"none", "terminal"},
         NEW place \in {"in", "out"},
         Goto(g, where, place), UNCHANGED <<lease, active>>,
         where = "pre" => msgSeq' = 0,
         where \in Committing => msgSeq' # 0,
         where = "stream" => turnIndex' > 0
  PROVE  GenTypes' /\ PlacesAgree'
<1>1. /\ pc \in [Gens -> Places] /\ at \in [Gens -> {"in", "out"}]
      /\ drv \in [Gens -> {"live", "cancelling", "cancelled", "ended"}]
  BY DEF IInv, TypeOK
<1>2. /\ pc' = [pc EXCEPT ![g] = where] /\ at' = [at EXCEPT ![g] = place]
      /\ drv' = drv /\ lease' = lease /\ active' = active
  BY DEF Goto
<1>3. GenTypes'
  BY <1>1, <1>2 DEF GenTypes
<1>4. lease = g /\ active = g /\ ~Dead(g)
  BY InsideHolds
<1>5. \A h \in Gens : at'[h] = "in" => h = g
  BY <1>1, <1>2, <1>4 DEF IInv, PlacesAgree
<1>6. PlacesAgree'
  BY <1>1, <1>2, <1>4, <1>5 DEF PlacesAgree, Dead
<1> QED BY <1>3, <1>6

\* Steps that touch neither the lease, the tally nor the transcript.
LEMMA QuietStep ==
  ASSUME IInv, UNCHANGED <<lease, ckpt, msgSeq, pending, log, turn,
                           statsLease, statsSeq>>
  PROVE  LeaseCoupled' /\ LogInv'
  BY DEF IInv, LeaseCoupled, LogInv, UserRow, PendingTail, RowsOfThePast,
         TurnOwnsTail, StatsAtOwnUserMessage

-----------------------------------------------------------------------------
(* IInv is inductive: one lemma per action *)

LEMMA AcquireStep ==
  ASSUME IInv, NEW g \in Gens, Acquire(g)
  PROVE  IInv'
<1> USE DEF Acquire, MayAcquire, RetryCleanup, OpenStats
<1>1. lease = NoGen /\ log \in Seq(Row) /\ turn \in Nat /\ pending \in Nat
  BY DEF IInv, TypeOK, LeaseCoupled
<1>2. OwnStats(log) /\ Len(log) \in Nat
  BY <1>1, LenProperties, StatsAreOwn DEF IInv, LogInv
<1>3. /\ log' \in Seq(Row) /\ OwnStats(log') /\ Len(log') <= Len(log)
      /\ Len(log') \in Nat
      /\ \A i \in 1 .. Len(log') : log'[i].msg = log[i].msg
  <2>1. CASE pending = 0
    BY <1>1, <1>2, <2>1
  <2>2. CASE pending # 0
    <3>1. pending \in 1 .. Len(log) /\ log' = Truncate(log, pending)
      BY <2>2 DEF IInv, LogInv, PendingTail
    <3>2. /\ log' \in Seq(Row) /\ Len(log') = pending
          /\ \A i \in 1 .. pending : log'[i].msg = log[i].msg
          /\ \A i \in 1 .. pending : i < pending => log'[i] = log[i]
          /\ log'[pending].stats = 0
      BY <1>1, <3>1, TruncateRows
    <3>3. OwnStats(log')
      BY <1>1, <1>2, <3>1, <3>2 DEF OwnStats
    <3> QED BY <1>1, <1>2, <3>1, <3>2, <3>3
  <2> QED BY <2>1, <2>2
<1>4. [mem |-> mem, idx |-> turnIndex, side |-> side] \in Ckpt
  BY DEF IInv, TypeOK, Ckpt
<1>5. TypeOK'
  <2>1. GenTypes'
    BY DEF IInv, TypeOK, GenTypes, Places
  <2>2. /\ turnIndex' \in Nat /\ turn' \in Nat /\ crashes' \in Nat
        /\ side' \in Sides /\ before' \in Sides \cup {NoSide}
        /\ mem' \in SUBSET Msg
    BY <1>1 DEF IInv, TypeOK, workVars
  <2>3. TurnTypes'
    BY <1>1, <1>3, <1>4, <2>2 DEF TurnTypes
  <2> QED BY <2>1, <2>3 DEF TypeOK, GenTypes, TurnTypes
<1>6. LeaseCoupled'
  BY <1>4, GenAssumption, SentinelAssumption DEF LeaseCoupled
<1>7. PlacesAgree'
  <2>1. \A h \in Gens : h # g => at'[h] # "in"
    BY <1>1, InsideHolds DEF IInv, TypeOK
  <2>2. pc'[g] = "pre" /\ at'[g] = "in" /\ drv'[g] = "live"
    BY DEF IInv, TypeOK
  <2> QED BY <2>1, <2>2 DEF PlacesAgree, Dead, Committing
<1>8. LogInv'
  <2>1. DOMAIN (log') = 1 .. Len(log')
    BY <1>3, LenProperties
  <2>2. \A i \in 1 .. Len(log') : log'[i].msg.t <= turn
    BY <1>2, <1>3 DEF IInv, LogInv, RowsOfThePast
  <2>3. \A i \in 1 .. Len(log') : log'[i].msg.t \in Nat
    <3>1. \A i \in 1 .. Len(log') : log'[i] \in Row
      BY <1>3, ElementOfSeq
    <3> QED BY <3>1 DEF Row, Msg
  <2>4. RowsOfThePast' /\ TurnOwnsTail'
    BY <1>1, <2>1, <2>2, <2>3 DEF RowsOfThePast, TurnOwnsTail
  <2>5. UserRow' /\ PendingTail'
    BY DEF UserRow, PendingTail
  <2>6. StatsAtOwnUserMessage'
    BY <1>3, <2>1 DEF StatsAtOwnUserMessage, OwnStats
  <2> QED BY <2>4, <2>5, <2>6 DEF LogInv
<1> QED BY <1>5, <1>6, <1>7, <1>8 DEF IInv

LEMMA SubmitUserStep ==
  ASSUME IInv, NEW g \in Gens, SubmitUser(g)
  PROVE  IInv'
<1> USE DEF SubmitUser, UserSequence, Runs
<1>1. lease = g /\ lease # NoGen /\ msgSeq = 0
  BY InsideHolds
<1>2. /\ LogInv' /\ log' \in Seq(Row) /\ Message(log, "user", 0) \in Msg
      /\ Len(log) \in Nat
  BY <1>1, AppendKeepsLogInv, HeldLease DEF Roles
<1>3. TurnTypes'
  BY <1>2 DEF IInv, TypeOK, TurnTypes
<1>4. GenTypes' /\ PlacesAgree'
  BY <1>2, GotoKeepsPlaces DEF Places, Committing
<1>5. LeaseCoupled'
  BY <1>1, <1>2 DEF IInv, LeaseCoupled
<1> QED BY <1>2, <1>3, <1>4, <1>5, Recombined

LEMMA CompactStep ==
  ASSUME IInv, NEW g \in Gens, Compact(g)
  PROVE  IInv'
<1> USE DEF Compact, Runs
<1>1. lease = g /\ lease # NoGen /\ msgSeq # 0
  BY InsideHolds DEF Committing
<1>2. /\ turnIndex' = turnIndex /\ turn' = turn /\ ckpt' = ckpt
      /\ lease' = lease /\ active' = active /\ msgSeq' = msgSeq
      /\ pending' = pending /\ statsLease' = statsLease
      /\ statsSeq' = statsSeq
  BY DEF turnVars, statVars
<1>3. mem' \in SUBSET Msg /\ log' \in Seq(Row) /\ LogInv'
  <2>1. CASE UNCHANGED <<mem, log>>
    BY <1>2, <2>1, QuietStep DEF IInv, TypeOK
  <2>2. ASSUME NEW tail \in Tails \ {mem},
               mem' = tail \cup {Summary},
               log' = SaveSnapshot([mem |-> mem', idx |-> turnIndex])
        PROVE  mem' \in SUBSET Msg /\ log' \in Seq(Row) /\ LogInv'
    <3>1. Summary \in Msg
      BY DEF Summary, Msg, Roles, IInv, TypeOK
    <3>2. mem' \in SUBSET Msg
      BY <2>2, <3>1 DEF Tails, IInv, TypeOK
    <3>3. [mem |-> mem', idx |-> turnIndex] \in Snap
      BY <3>2 DEF Snap, IInv, TypeOK
    <3>4. /\ log' \in Seq(Row) /\ Len(log') = Len(log)
          /\ \A i \in 1 .. Len(log) : /\ log'[i].msg = log[i].msg
                                      /\ log'[i].stats = log[i].stats
      BY <2>2, <3>3, SnapshotRows DEF IInv, TypeOK
    <3>5. LogInv'
      BY <1>1, <1>2, <3>4, EventsKeepLogInv
    <3> QED BY <3>2, <3>4, <3>5
  <2> QED BY <2>1, <2>2
<1>4. TurnTypes'
  BY <1>3 DEF IInv, TypeOK, TurnTypes, turnVars, statVars
<1>5. GenTypes' /\ PlacesAgree'
  BY <1>1, <1>2, GotoKeepsPlaces DEF Places, Committing
<1>6. LeaseCoupled'
  BY <1>2 DEF IInv, LeaseCoupled
<1> QED BY <1>3, <1>4, <1>5, <1>6, Recombined

LEMMA RequestStep ==
  ASSUME IInv, NEW g \in Gens, Request(g)
  PROVE  IInv'
<1> USE DEF Request, Runs
<1>1. lease = g /\ msgSeq # 0 /\ turnIndex \in Nat
  BY InsideHolds DEF Committing, IInv, TypeOK
<1>2. LeaseCoupled' /\ LogInv'
  BY QuietStep DEF turnVars, statVars
<1>3. mem' \in SUBSET Msg
  BY DEF Tails, IInv, TypeOK
<1>4. TurnTypes'
  BY <1>1, <1>3 DEF IInv, TypeOK, TurnTypes, turnVars, statVars
<1>5. GenTypes' /\ PlacesAgree'
  BY <1>1, GotoKeepsPlaces DEF Places, Committing, turnVars
<1> QED BY <1>2, <1>4, <1>5, Recombined

LEMMA EmitStep ==
  ASSUME IInv, NEW g \in Gens, Emit(g)
  PROVE  IInv'
<1> USE DEF Emit, Runs
<1>1. /\ pc[g] \in {"pre", "iter", "stream", "tools"} /\ at[g] = "in"
      /\ pc[g] \in Committing => msgSeq # 0
      /\ pc[g] = "pre" => msgSeq = 0
      /\ pc[g] = "stream" => turnIndex > 0
  BY InsideHolds
<1>2. LeaseCoupled' /\ LogInv'
  BY QuietStep DEF turnVars, statVars
<1>3. TurnTypes'
  BY DEF IInv, TypeOK, TurnTypes, turnVars, statVars, workVars
<1>4. GenTypes' /\ PlacesAgree'
  <2>1. UNCHANGED <<lease, active, msgSeq, turnIndex>>
    BY DEF turnVars, workVars
  <2>2. CASE pc[g] = "tools"
    <3>1. Goto(g, "results", "out")
      BY <2>2
    <3> QED BY <1>1, <2>1, <2>2, <3>1, GotoKeepsPlaces DEF Places, Committing
  <2>3. CASE pc[g] # "tools"
    <3>1. Goto(g, pc[g], "out")
      BY <2>3
    <3>2. pc[g] \in Places \ {"none", "terminal"}
      BY <1>1 DEF Places
    <3> QED BY <1>1, <2>1, <3>1, <3>2, GotoKeepsPlaces
  <2> QED BY <2>2, <2>3
<1> QED BY <1>2, <1>3, <1>4, Recombined

LEMMA ModelFailsStep ==
  ASSUME IInv, NEW g \in Gens, ModelFails(g)
  PROVE  IInv'
<1> USE DEF ModelFails, AnsweredIterations, Runs, EnterTurnEnd
<1>1. lease = g /\ msgSeq # 0 /\ turnIndex \in Nat /\ turnIndex > 0
  BY InsideHolds DEF Committing, IInv, TypeOK
<1>2. LeaseCoupled' /\ LogInv'
  BY QuietStep DEF turnVars, statVars
<1>3. TurnTypes'
  BY <1>1 DEF IInv, TypeOK, TurnTypes, turnVars, statVars
<1>4. GenTypes' /\ PlacesAgree'
  BY <1>1, GotoKeepsPlaces DEF Places, Committing, turnVars
<1> QED BY <1>2, <1>3, <1>4, Recombined

\* Replies and tool results: one message appended behind the user message.
LEMMA MessageStep ==
  ASSUME IInv, NEW g \in Gens, at[g] = "in", pc[g] \in Committing,
         NEW role \in Roles, NEW calls \in Nat, AppendMessage(role, calls),
         NEW where \in {"ending", "replied", "calls", "results"},
         NEW place \in {"in", "out"}, Goto(g, where, place),
         told' \in {"none", "ended", "voided"},
         UNCHANGED <<turnVars, statVars, turnIndex, before, side, pending,
                     turn, crashes>>
  PROVE  IInv'
<1>1. lease = g /\ lease # NoGen /\ msgSeq # 0
  BY InsideHolds
<1>2. LogInv' /\ log' \in Seq(Row) /\ Message(log, role, calls) \in Msg
  BY <1>1, AppendKeepsLogInv DEF AppendMessage, turnVars
<1>3. TurnTypes'
  BY <1>2 DEF AppendMessage, IInv, TypeOK, TurnTypes, turnVars, statVars
<1>4. GenTypes' /\ PlacesAgree'
  <2>1. where \in Places \ {"none", "terminal"} /\ where # "pre"
        /\ where # "stream"
    BY DEF Places
  <2> QED BY <1>1, <2>1, GotoKeepsPlaces DEF turnVars
<1>5. LeaseCoupled'
  BY DEF IInv, LeaseCoupled, turnVars, statVars
<1> QED BY <1>2, <1>3, <1>4, <1>5, Recombined

LEMMA ReplyStep ==
  ASSUME IInv, NEW g \in Gens,
         Reply(g) \/ ReplyWithCalls(g) \/ ToolResult(g)
  PROVE  IInv'
<1> USE DEF Runs, Committing, Roles
<1>1. CASE Reply(g)
  <2>1. told \in {"none", "ended", "voided"}
    BY DEF IInv, TypeOK
  <2>2. CASE EnterTurnEnd(g)
    BY <1>1, <2>2, MessageStep DEF Reply, EnterTurnEnd
  <2>3. CASE Goto(g, "replied", "in") /\ UNCHANGED told
    BY <1>1, <2>1, <2>3, MessageStep DEF Reply
  <2> QED BY <1>1, <2>2, <2>3 DEF Reply
<1>2. CASE ReplyWithCalls(g)
  <2>1. PICK c \in 1 .. MaxCalls : AppendMessage("assistant", c)
    BY <1>2 DEF ReplyWithCalls
  <2>2. c \in Nat /\ told' \in {"none", "ended", "voided"}
    BY <1>2, BoundAssumption DEF ReplyWithCalls, IInv, TypeOK
  <2> QED BY <1>2, <2>1, <2>2, MessageStep DEF ReplyWithCalls
<1>3. CASE ToolResult(g)
  <2>1. told' \in {"none", "ended", "voided"}
    BY <1>3 DEF ToolResult, IInv, TypeOK
  <2> QED BY <1>3, <2>1, MessageStep DEF ToolResult
<1> QED BY <1>1, <1>2, <1>3

LEMMA ToolsStep ==
  ASSUME IInv, NEW g \in Gens, Dispatch(g) \/ ToolEffect(g)
  PROVE  IInv'
<1>1. LeaseCoupled' /\ LogInv'
  BY QuietStep DEF Dispatch, ToolEffect, turnVars, statVars
<1>2. TurnTypes'
  BY DEF Dispatch, ToolEffect, IInv, TypeOK, TurnTypes, turnVars, statVars
<1>3. GenTypes' /\ PlacesAgree'
  <2>1. CASE Dispatch(g)
    BY <2>1, InsideHolds, GotoKeepsPlaces
       DEF Dispatch, Runs, Places, Committing, turnVars
  <2>2. CASE ToolEffect(g)
    BY <2>2 DEF ToolEffect, IInv, TypeOK, GenTypes, PlacesAgree, Dead,
                genVars, turnVars
  <2> QED BY <2>1, <2>2
<1> QED BY <1>1, <1>2, <1>3, Recombined

LEMMA FinishBatchStep ==
  ASSUME IInv, NEW g \in Gens, FinishBatch(g)
  PROVE  IInv'
<1> USE DEF FinishBatch, Runs
<1>1. lease = g /\ lease # NoGen /\ msgSeq # 0
  BY InsideHolds DEF Committing
<1>2. /\ turnIndex' = turnIndex /\ turn' = turn /\ ckpt' = ckpt
      /\ lease' = lease /\ active' = active /\ msgSeq' = msgSeq
      /\ pending' = pending /\ statsLease' = statsLease
      /\ statsSeq' = statsSeq /\ side' = side
  BY DEF turnVars, statVars
<1>3. /\ log \in Seq(Row) /\ Len(log) \in Nat /\ OwnStats(log) /\ pending = 0
      /\ msgSeq \in 1 .. Len(log) /\ turn \in Nat /\ side \in Sides
      /\ log[msgSeq].msg.role = "user"
  BY <1>1, HeldLease DEF IInv, TypeOK
<1> DEFINE m == Message(log, "media", 0)
           k == Append(log, RowOf(m))
<1>4. /\ m \in Msg /\ k \in Seq(Row) /\ Len(k) = Len(log) + 1
      /\ \A i \in 1 .. Len(log) : k[i] = log[i]
      /\ k[Len(log) + 1].msg.t = turn /\ k[Len(log) + 1].stats = 0
  BY <1>3, AppendRow DEF Roles
<1>5. PICK media \in BOOLEAN :
        LET l == IF media THEN k ELSE log
        IN  /\ mem' = IF media THEN mem \cup {m} ELSE mem
            /\ log' = IF side = before THEN l
                      ELSE [l EXCEPT ![Len(l)].side = side]
  OBVIOUS
<1> DEFINE l == IF media THEN k ELSE log
<1> HIDE DEF m, k
<1>6. /\ l \in Seq(Row) /\ Len(l) \in Nat /\ Len(l) >= Len(log)
      /\ Len(l) <= Len(log) + 1
      /\ \A i \in 1 .. Len(log) : l[i] = log[i]
      /\ \A i \in 1 .. Len(l) : i > Len(log) =>
           l[i].msg.t = turn /\ l[i].stats = 0
  BY <1>3, <1>4
<1>7. log' = IF side = before THEN l ELSE [l EXCEPT ![Len(l)].side = side]
  BY <1>5
<1>8. mem' \in SUBSET Msg
  BY <1>4, <1>5 DEF IInv, TypeOK
<1> HIDE DEF l
<1>9. /\ log' \in Seq(Row) /\ Len(log') = Len(l)
      /\ \A i \in 1 .. Len(l) : /\ log'[i].msg = l[i].msg
                                /\ log'[i].stats = l[i].stats
  <2>1. CASE side = before
    BY <1>6, <1>7, <2>1
  <2>2. CASE side # before
    <3>1. Len(l) \in 1 .. Len(l)
      BY <1>3, <1>6
    <3> DEFINE w == [l EXCEPT ![Len(l)].side = side]
    <3>2. /\ w \in Seq(Row) /\ Len(w) = Len(l)
          /\ \A i \in 1 .. Len(l) : w[i].msg = l[i].msg
          /\ \A i \in 1 .. Len(l) : w[i].stats = l[i].stats
      <4> HIDE DEF FinishBatch
      <4> QED BY <1>3, <1>6, <3>1, SideRow
    <3>3. log' = w
      BY <1>7, <2>2
    <3> HIDE DEF w
    <3> QED BY <3>2, <3>3
  <2> QED BY <2>1, <2>2
<1>10. DOMAIN (log') = 1 .. Len(l)
  BY <1>9, LenProperties
<1>11. \A i \in 1 .. Len(l) :
         (log'[i].msg.t = turn) <=> (msgSeq # 0 /\ i >= msgSeq)
  <2>1. ASSUME NEW i \in 1 .. Len(l)
        PROVE  (l[i].msg.t = turn) <=> (msgSeq # 0 /\ i >= msgSeq)
    <3>1. CASE i > Len(log)
      BY <1>1, <1>3, <1>6, <3>1
    <3>2. CASE ~(i > Len(log))
      <4>1. i \in 1 .. Len(log)
        BY <1>3, <1>6, <3>2
      <4>2. (log[i].msg.t = turn) <=> (msgSeq # 0 /\ i >= msgSeq)
        BY <1>1, <4>1, HeldLease
      <4> QED BY <1>6, <4>1, <4>2
    <3> QED BY <3>1, <3>2
  <2> QED BY <1>9, <2>1
<1>12. TurnOwnsTail'
  BY <1>2, <1>10, <1>11 DEF TurnOwnsTail
<1>13. RowsOfThePast'
  <2>1. \A i \in 1 .. Len(log) : l[i].msg.t <= turn
    BY <1>6 DEF IInv, LogInv, RowsOfThePast
  <2>2. \A i \in 1 .. Len(l) : l[i].msg.t <= turn
    BY <1>3, <1>6, <2>1
  <2> QED BY <1>2, <1>9, <2>2 DEF RowsOfThePast
<1>14. StatsAtOwnUserMessage'
  <2>1. \A i \in 1 .. Len(l) : l[i].stats # 0 =>
          l[i].msg.role = "user" /\ l[i].stats = l[i].msg.t
    BY <1>3, <1>6 DEF OwnStats
  <2> QED BY <1>9, <1>10, <2>1 DEF StatsAtOwnUserMessage
<1>15. UserRow' /\ PendingTail'
  BY <1>2, <1>3, <1>6, <1>9 DEF UserRow, PendingTail
<1>16. TurnTypes'
  BY <1>2, <1>8, <1>9 DEF IInv, TypeOK, TurnTypes, turnVars
<1>17. GenTypes' /\ PlacesAgree'
  BY <1>1, <1>2, GotoKeepsPlaces DEF Places, Committing
<1>18. LeaseCoupled'
  BY <1>2 DEF IInv, LeaseCoupled
<1>19. LogInv'
  BY <1>12, <1>13, <1>14, <1>15 DEF LogInv
<1> QED BY <1>16, <1>17, <1>18, <1>19, Recombined

LEMMA EndingStep ==
  ASSUME IInv, NEW g \in Gens,
         MaxIterations(g) \/ GuardReply(g) \/ TurnEndNotices(g)
  PROVE  IInv'
<1> USE DEF MaxIterations, GuardReply, TurnEndNotices, Runs, EnterTurnEnd
<1>1. lease = g /\ msgSeq # 0 /\ at[g] = "in"
  BY InsideHolds DEF Committing
<1>2. LeaseCoupled' /\ LogInv'
  BY QuietStep DEF turnVars, statVars
<1>3. TurnTypes'
  BY DEF IInv, TypeOK, TurnTypes, turnVars, statVars, workVars
<1>4. GenTypes' /\ PlacesAgree'
  <2>1. UNCHANGED <<lease, active, msgSeq, turnIndex>>
    BY DEF turnVars, workVars
  <2>2. \/ Goto(g, "ending", "in")
        \/ Goto(g, "notices", "out")
    OBVIOUS
  <2> QED BY <1>1, <2>1, <2>2, GotoKeepsPlaces DEF Places, Committing
<1> QED BY <1>2, <1>3, <1>4, Recombined

\* The lease holder leaves its body for good: Block, Release, Fail, Abort.
LEMMA OutsidePlaces ==
  ASSUME IInv, NEW g \in Gens, lease = g, lease' = NoGen,
         at' = [at EXCEPT ![g] = "out"]
  PROVE  PlacesAgree'
<1>1. \A h \in Gens : at'[h] # "in"
  BY DEF IInv, TypeOK, PlacesAgree
<1> QED BY <1>1, FreedPlaces

LEMMA ReleasingStep ==
  ASSUME IInv, NEW g \in Gens, Block(g) \/ Release(g)
  PROVE  IInv'
<1>1. lease = g /\ lease # NoGen
  BY InsideHolds, GenAssumption DEF Block, Release, Runs
<1>2. TurnTypes' /\ LeaseCoupled' /\ LogInv' /\ lease' = NoGen
  <2>1. CASE Block(g)
    <3>1. told' \in {"none", "ended", "voided"}
      BY <2>1 DEF Block, IInv, TypeOK
    <3> QED BY <1>1, <2>1, <3>1, ReleaseStep DEF Block
  <2>2. CASE Release(g)
    <3>1. PICK saved \in BOOLEAN : FinishStats(log, saved)
      BY <2>2 DEF Release
    <3> QED BY <1>1, <2>2, <3>1, ReleaseStep DEF Release
  <2> QED BY <2>1, <2>2
<1>3. GenTypes' /\ at' = [at EXCEPT ![g] = "out"]
  BY DEF Block, Release, Goto, GenTypes, Places, IInv, TypeOK
<1>4. PlacesAgree'
  BY <1>1, <1>2, <1>3, OutsidePlaces
<1> QED BY <1>2, <1>3, <1>4, Recombined

LEMMA FailStep ==
  ASSUME IInv, NEW g \in Gens, Fail(g)
  PROVE  IInv'
<1>1. lease = g /\ lease # NoGen
  BY InsideHolds DEF Fail
<1>2. TurnTypes' /\ LeaseCoupled' /\ LogInv' /\ lease' = NoGen
  BY <1>1, RollbackStep DEF Fail
<1>3. GenTypes' /\ at' = [at EXCEPT ![g] = "out"]
  BY DEF Fail, Goto, GenTypes, Places, IInv, TypeOK
<1>4. PlacesAgree'
  BY <1>1, <1>2, <1>3, OutsidePlaces
<1> QED BY <1>2, <1>3, <1>4, Recombined

LEMMA AbortStep ==
  ASSUME IInv, NEW g \in Gens, Abort(g)
  PROVE  IInv'
<1>1. lease = g /\ lease # NoGen
  BY InsideHolds DEF Abort
<1>2. PICK ok \in BOOLEAN : /\ RestoreMemory
                            /\ pending' = PendingAfter(ok)
                            /\ log' = TruncatedLog(ok)
  BY DEF Abort
<1>3. /\ lease' = NoGen /\ active' = NoGen /\ ckpt' = NoCkpt /\ msgSeq' = 0
      /\ cancelReq' = FALSE /\ committed' = FALSE /\ turn' = turn
      /\ statsLease' = statsLease /\ statsSeq' = statsSeq
      /\ told' = "voided" /\ before' = NoSide /\ crashes' = crashes
  BY DEF Abort, ClearTurn, statVars
<1>4. /\ log' \in Seq(Row) /\ OwnStats(log')
      /\ Len(log') = IF msgSeq # 0 /\ ok THEN msgSeq ELSE Len(log)
      /\ \A i \in 1 .. Len(log') : log'[i].msg = log[i].msg
  BY <1>1, <1>2, TruncatedRows
<1>5. PendingTail' /\ pending' \in Nat
  BY <1>1, <1>2, <1>3, <1>4, VoidedTail
<1>6. Len(log') <= Len(log)
  BY <1>1, <1>4, HeldLease
<1>7. LogInv'
  BY <1>3, <1>4, <1>5, <1>6, FreedLease
<1>8. mem' \in SUBSET Msg /\ turnIndex' \in Nat /\ side' \in Sides
  BY <1>1, <1>2, RestoredTypes
<1>9. TurnTypes'
  BY <1>3, <1>4, <1>5, <1>8 DEF TurnTypes, IInv, TypeOK
<1>10. LeaseCoupled'
  BY <1>3 DEF LeaseCoupled
<1>11. GenTypes' /\ at' = [at EXCEPT ![g] = "out"]
  BY DEF Abort, Finish, GenTypes, Places, IInv, TypeOK
<1>12. PlacesAgree'
  BY <1>1, <1>3, <1>11, OutsidePlaces
<1> QED BY <1>7, <1>9, <1>10, <1>11, <1>12, Recombined

-----------------------------------------------------------------------------
(* The generator protocol *)

LEMMA CancelledInsideStep ==
  ASSUME IInv, NEW g \in Gens, CancelledInside(g)
  PROVE  IInv'
<1> USE DEF CancelledInside, HandOver, Finish
<1>1. lease = g /\ active = g
  BY InsideHolds
<1>2. LeaseCoupled' /\ LogInv'
  BY QuietStep DEF statVars
<1>3. TurnTypes'
  BY <1>1 DEF IInv, TypeOK, TurnTypes, statVars, workVars
<1>4. GenTypes'
  BY DEF IInv, TypeOK, GenTypes, Places
<1>5. PlacesAgree'
  <2>1. \A h \in Gens : at'[h] # "in"
    BY <1>1 DEF IInv, TypeOK, PlacesAgree
  <2>2. pc'[g] = "none" /\ lease' = g
    BY <1>1 DEF IInv, TypeOK
  <2> QED BY <2>1, <2>2 DEF PlacesAgree, Committing
<1> QED BY <1>2, <1>3, <1>4, <1>5, Recombined

LEMMA ResumeStep ==
  ASSUME IInv, NEW g \in Gens, Resume(g)
  PROVE  IInv'
<1> USE DEF Resume, Finish
<1>1. LeaseCoupled' /\ LogInv'
  BY QuietStep DEF statVars
<1>2. TurnTypes'
  BY DEF IInv, TypeOK, TurnTypes, statVars, workVars
<1>3. GenTypes'
  BY DEF IInv, TypeOK, GenTypes, Places
<1>4. UNCHANGED <<lease, msgSeq, turnIndex>>
  BY DEF workVars
<1>5. PlacesAgree'
  <2>1. /\ pc \in [Gens -> Places] /\ at \in [Gens -> {"in", "out"}]
        /\ drv \in [Gens -> {"live", "cancelling", "cancelled", "ended"}]
    BY DEF IInv, TypeOK
  <2>2. CASE lease # g
    <3>1. /\ active' = active /\ pc' = [pc EXCEPT ![g] = "none"]
          /\ at' = [at EXCEPT ![g] = "out"]
          /\ drv' = [drv EXCEPT ![g] = "ended"]
      BY <2>2
    <3> HIDE DEF Resume, Finish
    <3> QED BY <1>4, <2>1, <2>2, <3>1 DEF IInv, PlacesAgree, Dead
  <2>3. CASE lease = g
    <3>1. /\ active' = g /\ pc' = pc /\ at' = [at EXCEPT ![g] = "in"]
          /\ drv' = [drv EXCEPT ![g] = "live"] /\ pc[g] # "none"
      BY <2>3
    <3> HIDE DEF Resume, Finish
    <3> QED BY <1>4, <2>1, <2>3, <3>1 DEF IInv, PlacesAgree, Dead
  <2> QED BY <2>2, <2>3
<1> QED BY <1>1, <1>2, <1>3, <1>5, Recombined

LEMMA CancelTurnStep ==
  ASSUME IInv, CancelTurn
  PROVE  IInv'
<1> USE DEF CancelTurn
<1>1. LeaseCoupled' /\ LogInv'
  BY QuietStep DEF statVars
<1>2. TurnTypes'
  BY DEF IInv, TypeOK, TurnTypes, statVars, workVars
<1>3. GenTypes' /\ PlacesAgree'
  BY DEF IInv, TypeOK, GenTypes, PlacesAgree, Dead, workVars
<1> QED BY <1>1, <1>2, <1>3, Recombined

LEMMA InterruptStep ==
  ASSUME IInv, NEW g \in Gens, Interrupt(g)
  PROVE  IInv'
<1> USE DEF Interrupt
<1>1. LeaseCoupled' /\ LogInv'
  BY QuietStep DEF turnVars, statVars
<1>2. TurnTypes'
  BY DEF IInv, TypeOK, TurnTypes, turnVars, statVars, workVars
<1>3. GenTypes' /\ PlacesAgree'
  BY DEF IInv, TypeOK, GenTypes, PlacesAgree, Dead, turnVars, workVars
<1> QED BY <1>1, <1>2, <1>3, Recombined

LEMMA TaskStopsStep ==
  ASSUME IInv, NEW g \in Gens, TaskStops(g)
  PROVE  IInv'
<1> USE DEF TaskStops
<1>1. LeaseCoupled' /\ LogInv'
  BY QuietStep DEF turnVars, statVars
<1>2. TurnTypes'
  BY DEF IInv, TypeOK, TurnTypes, turnVars, statVars, workVars
<1>3. GenTypes' /\ PlacesAgree'
  BY DEF IInv, TypeOK, GenTypes, PlacesAgree, Dead, turnVars, workVars
<1> QED BY <1>1, <1>2, <1>3, Recombined

LEMMA CloseStep ==
  ASSUME IInv, NEW g \in Gens, Close(g)
  PROVE  IInv'
<1> USE DEF StaleClose
<1>1. /\ GenTypes' /\ at' = [at EXCEPT ![g] = "out"]
      /\ pc' = [pc EXCEPT ![g] = "none"]
      /\ drv' = [drv EXCEPT ![g] = "ended"]
  BY DEF Close, Finish, IInv, TypeOK, GenTypes, Places
<1>2. CASE lease # g
  <2>1. LeaseCoupled' /\ LogInv'
    BY <1>2, QuietStep DEF Close, turnVars, statVars
  <2>2. TurnTypes'
    BY <1>2 DEF Close, IInv, TypeOK, TurnTypes, turnVars, statVars, workVars
  <2>3. UNCHANGED <<lease, active, msgSeq, turnIndex>>
    BY <1>2 DEF Close, turnVars, workVars
  <2>4. PlacesAgree'
    BY <1>1, <1>2, <2>3 DEF IInv, TypeOK, PlacesAgree, Dead
  <2> QED BY <1>1, <2>1, <2>2, <2>4, Recombined
<1>3. CASE /\ lease = g
           /\ cancelReq \/ (active # NoGen /\ drv[active] = "cancelled")
  <2>1. LeaseCoupled' /\ LogInv'
    BY <1>3, QuietStep DEF Close, statVars
  <2>2. TurnTypes'
    BY <1>3 DEF Close, IInv, TypeOK, TurnTypes, statVars, workVars
  <2>3. \A h \in Gens : at'[h] # "in"
    BY <1>1, <1>3 DEF Close, IInv, TypeOK, PlacesAgree
  <2>4. lease' = g /\ pc'[g] = "none"
    BY <1>1, <1>3 DEF Close, IInv, TypeOK
  <2>5. PlacesAgree'
    BY <2>3, <2>4 DEF PlacesAgree, Committing
  <2> QED BY <1>1, <2>1, <2>2, <2>5, Recombined
<1>4. CASE /\ lease = g
           /\ ~(cancelReq \/ (active # NoGen /\ drv[active] = "cancelled"))
  <2>1. Rollback /\ lease # NoGen
    BY <1>4, GenAssumption DEF Close
  <2>2. TurnTypes' /\ LeaseCoupled' /\ LogInv' /\ lease' = NoGen
    BY <2>1, RollbackStep
  <2>3. PlacesAgree'
    BY <1>1, <1>4, <2>2, OutsidePlaces
  <2> QED BY <1>1, <2>2, <2>3, Recombined
<1> QED BY <1>2, <1>3, <1>4

LEMMA FinalizeStep ==
  ASSUME IInv, Finalize
  PROVE  IInv'
<1>1. lease # NoGen
  BY DEF Finalize, CanFinalize, IInv, LeaseCoupled
<1>2. \A h \in Gens : at[h] # "in"
  BY GenAssumption DEF Finalize, CanFinalize, IInv, PlacesAgree
<1>3. TurnTypes' /\ LeaseCoupled' /\ LogInv' /\ lease' = NoGen
  <2>1. CASE committed
    <3>1. PICK saved \in BOOLEAN : FinishStats(log, saved)
      BY <2>1 DEF Finalize
    <3> QED BY <1>1, <2>1, <3>1, ReleaseStep DEF Finalize
  <2>2. CASE ~committed
    BY <1>1, <2>2, RollbackStep DEF Finalize
  <2> QED BY <2>1, <2>2
<1>4. GenTypes' /\ at' = at
  BY DEF Finalize, genVars, GenTypes, IInv, TypeOK
<1>5. PlacesAgree'
  BY <1>2, <1>3, <1>4, FreedPlaces
<1> QED BY <1>3, <1>4, <1>5, Recombined

LEMMA CrashStep ==
  ASSUME IInv, Crash
  PROVE  IInv'
<1>1. /\ lease' = NoGen /\ active' = NoGen /\ ckpt' = NoCkpt /\ msgSeq' = 0
      /\ cancelReq' = FALSE /\ committed' = FALSE /\ told' = "none"
      /\ statsLease' = NoGen /\ statsSeq' = 0 /\ pending' = 0
      /\ before' = NoSide /\ log' = log /\ turn' = turn
  BY DEF Crash, ClearTurn
<1>2. log \in Seq(Row) /\ Len(log) \in Nat /\ OwnStats(log)
  BY LenProperties, StatsAreOwn DEF IInv, TypeOK, LogInv
<1>3. mem' \in SUBSET Msg /\ turnIndex' \in Nat /\ side' \in Sides
  BY <1>2, ReplayTyped DEF Crash
<1>4. TurnTypes'
  <2>1. crashes' \in Nat /\ turn \in Nat
    BY DEF Crash, IInv, TypeOK
  <2> QED BY <1>1, <1>2, <1>3, <2>1 DEF TurnTypes
<1>5. LogInv'
  <2>1. PendingTail'
    BY <1>1 DEF PendingTail
  <2> QED BY <1>1, <1>2, <2>1, FreedLease
<1>6. LeaseCoupled'
  BY <1>1 DEF LeaseCoupled
<1>7. GenTypes' /\ \A h \in Gens : at'[h] # "in"
  BY DEF Crash, GenTypes, Places
<1>8. PlacesAgree'
  BY <1>1, <1>7, FreedPlaces
<1> QED BY <1>4, <1>5, <1>6, <1>7, <1>8, Recombined

-----------------------------------------------------------------------------
(* The invariants *)

LEMMA InitHolds == Init => IInv
<1> SUFFICES ASSUME Init
             PROVE  IInv
  OBVIOUS
<1> USE DEF Init
<1>1. log \in Seq(Row) /\ Len(log) = 0
  BY EmptySeq
<1>2. TypeOK
  BY <1>1, SideAssumption DEF TypeOK, Places
<1>3. LeaseCoupled /\ PlacesAgree
  BY GenAssumption DEF LeaseCoupled, PlacesAgree
<1>4. LogInv
  BY <1>1, LenProperties DEF LogInv, UserRow, PendingTail, RowsOfThePast,
                             TurnOwnsTail, StatsAtOwnUserMessage
<1> QED BY <1>2, <1>3, <1>4 DEF IInv

LEMMA StutterStep == IInv /\ UNCHANGED vars => IInv'
  BY DEF IInv, TypeOK, LeaseCoupled, PlacesAgree, Dead, LogInv, UserRow,
         PendingTail, RowsOfThePast, TurnOwnsTail, StatsAtOwnUserMessage,
         vars, genVars, turnVars, statVars, workVars

LEMMA StepHolds == IInv /\ [Next]_vars => IInv'
<1> SUFFICES ASSUME IInv, [Next]_vars
             PROVE  IInv'
  OBVIOUS
<1>1. CASE UNCHANGED vars
  BY <1>1, StutterStep
<1>2. ASSUME NEW g \in Gens, Acquire(g) \/ Emit(g) \/ Interrupt(g)
      PROVE  IInv'
  BY <1>2, AcquireStep, EmitStep, InterruptStep
<1>3. ASSUME NEW g \in Gens, Body(g)
      PROVE  IInv'
  BY <1>3, SubmitUserStep, CompactStep, RequestStep, ModelFailsStep,
     ReplyStep, ToolsStep, FinishBatchStep, EndingStep, ReleasingStep,
     FailStep, AbortStep, CancelledInsideStep
     DEF Body
<1>4. ASSUME NEW g \in Gens, Consumer(g)
      PROVE  IInv'
  BY <1>4, ResumeStep, TaskStopsStep, CloseStep DEF Consumer
<1>5. CASE CancelTurn \/ Finalize \/ Crash
  BY <1>5, CancelTurnStep, FinalizeStep, CrashStep
<1> QED BY <1>1, <1>2, <1>3, <1>4, <1>5 DEF Next

THEOREM Invariance == Spec => []IInv
  BY InitHolds, StepHolds, PTL DEF Spec

\* Every variable keeps its type, whatever the generators, the stops and the
\* crashes do.
THEOREM TypeCorrect == Spec => []TypeOK
<1>1. IInv => TypeOK
  BY DEF IInv
<1> QED BY <1>1, Invariance, PTL

\* Two generators are never inside the body of a turn at the same time.
THEOREM OneWriter == Spec => []OnlyLeaseHolderRuns
<1>1. IInv => OnlyLeaseHolderRuns
  BY DEF IInv, PlacesAgree, OnlyLeaseHolderRuns
<1> QED BY <1>1, Invariance, PTL

\* No stale generator consumes the tally of the turn that runs.
THEOREM TallyIsOwn == Spec => []TallyBelongsToTurn
<1>1. IInv => TallyBelongsToTurn
  BY DEF IInv, LeaseCoupled, TallyBelongsToTurn
<1> QED BY <1>1, Invariance, PTL

\* The rows of a running turn are the end of the transcript, from its user
\* message on.
THEOREM TailIsOwned == Spec => []TurnOwnsTail
<1>1. IInv => TurnOwnsTail
  BY DEF IInv, LogInv
<1> QED BY <1>1, Invariance, PTL

\* One turn runs at a time: body, tally and tail belong to the lease holder.
THEOREM TurnsAreAlone == Spec => []TurnIsAlone
  BY OneWriter, TallyIsOwn, TailIsOwned, PTL DEF TurnIsAlone

\* Statistics are only ever at the user message of the turn they measured.
THEOREM StatsAreAttributed == Spec => []StatsAtOwnUserMessage
<1>1. IInv => StatsAtOwnUserMessage
  BY DEF IInv, LogInv
<1> QED BY <1>1, Invariance, PTL

-----------------------------------------------------------------------------
(* What a step may do *)

\* A rollback or an abandoned lease removes rows from the turn's own user
\* message on.
LEMMA VoidRemovesOneTail ==
  ASSUME IInv, lease # NoGen, NEW ok \in BOOLEAN,
         Len(log') = IF msgSeq # 0 /\ ok THEN msgSeq ELSE Len(log),
         \A i \in 1 .. Len(log') : i # msgSeq => log'[i] = log[i]
  PROVE  RemovesOneTail /\ AppendsBehindSettled
<1>1. Len(log) \in Nat /\ (msgSeq # 0 => msgSeq \in 1 .. Len(log))
  BY HeldLease
<1>2. AppendsBehindSettled
  BY <1>1 DEF AppendsBehindSettled
<1>3. CASE ~(msgSeq # 0 /\ ok)
  BY <1>1, <1>2, <1>3 DEF RemovesOneTail
<1>4. CASE msgSeq # 0 /\ ok
  <2>1. /\ Len(log') = msgSeq /\ msgSeq \in 1 .. Len(log)
        /\ log[msgSeq].msg.role = "user"
    BY <1>4, HeldLease
  <2>2. \A i \in 1 .. Len(log) : i >= msgSeq => log[i].msg.t = turn
    BY <1>4, HeldLease
  <2>3. \A i \in 1 .. Len(log) : i < msgSeq => log'[i] = log[i]
    BY <1>1, <2>1
  <2> QED BY <1>1, <1>2, <2>1, <2>2, <2>3 DEF RemovesOneTail
<1> QED BY <1>3, <1>4

\* Rows are neither added nor removed.
LEMMA SameLength ==
  ASSUME IInv, Len(log') = Len(log)
  PROVE  RemovesOneTail /\ AppendsBehindSettled
<1>1. Len(log) \in Nat
  BY LenProperties DEF IInv, TypeOK
<1> QED BY <1>1 DEF RemovesOneTail, AppendsBehindSettled

\* Rows are added by the holder of the lease only.
LEMMA HolderAppends ==
  ASSUME IInv, lease # NoGen, Len(log') >= Len(log), pending' = pending,
         Len(log') \in Nat
  PROVE  RemovesOneTail /\ AppendsBehindSettled
  BY HeldLease DEF RemovesOneTail, AppendsBehindSettled

LEMMA RollbackTail ==
  ASSUME IInv, lease # NoGen, Rollback
  PROVE  RemovesOneTail /\ AppendsBehindSettled
<1>1. PICK ok \in BOOLEAN, saved \in BOOLEAN :
        FinishStats(TruncatedLog(ok), saved)
  BY DEF Rollback
<1> QED BY <1>1, TallyRows, VoidRemovesOneTail

LEMMA TallyTail ==
  ASSUME IInv, lease # NoGen, NEW saved \in BOOLEAN, FinishStats(log, saved)
  PROVE  Len(log') = Len(log)
<1>1. TruncatedLog(FALSE) = log
  BY DEF TruncatedLog
<1> QED BY <1>1, TallyRows

LEMMA StepTail ==
  ASSUME IInv, [Next]_vars
  PROVE  RemovesOneTail /\ AppendsBehindSettled
<1>1. /\ log \in Seq(Row) /\ Len(log) \in Nat /\ DOMAIN log = 1 .. Len(log)
      /\ turn \in Nat
  BY LenProperties DEF IInv, TypeOK
<1>2. /\ IInv' /\ Len(log') \in Nat
  BY StepHolds, LenProperties DEF IInv, TypeOK
<1>3. CASE log' = log
  BY <1>3, SameLength
<1>4. ASSUME NEW g \in Gens, Acquire(g)
      PROVE  RemovesOneTail /\ AppendsBehindSettled
  <2>1. CASE pending = 0
    BY <1>4, <2>1, SameLength DEF Acquire, RetryCleanup
  <2>2. CASE pending # 0
    <3>1. /\ pending \in 1 .. Len(log) /\ log' = Truncate(log, pending)
          /\ log[pending].msg.role = "user"
          /\ \A i \in pending .. Len(log) :
               log[i].msg.t = log[pending].msg.t
      BY <1>4, <2>2 DEF Acquire, RetryCleanup, IInv, LogInv, PendingTail
    <3>2. /\ Len(log') = pending
          /\ \A i \in 1 .. pending : i < pending => log'[i] = log[i]
      BY <1>1, <3>1, TruncateRows
    <3> QED BY <1>1, <3>1, <3>2 DEF RemovesOneTail, AppendsBehindSettled
  <2> QED BY <2>1, <2>2
<1>5. ASSUME NEW g \in Gens, SubmitUser(g) \/ Reply(g) \/ ReplyWithCalls(g)
                             \/ ToolResult(g)
      PROVE  RemovesOneTail /\ AppendsBehindSettled
  <2>1. lease # NoGen /\ pending' = pending
    BY <1>5, InsideHolds
       DEF SubmitUser, Reply, ReplyWithCalls, ToolResult, Runs
  <2>2. PICK role \in Roles, calls \in Nat :
          log' = Append(log, RowOf(Message(log, role, calls)))
    BY <1>5, BoundAssumption
       DEF SubmitUser, Reply, ReplyWithCalls, ToolResult, AppendMessage, Roles
  <2>3. Len(log') = Len(log) + 1
    BY <1>1, <2>2, AppendRow
  <2> QED BY <1>1, <1>2, <2>1, <2>3, HolderAppends
<1>6. ASSUME NEW g \in Gens, Compact(g)
      PROVE  RemovesOneTail /\ AppendsBehindSettled
  <2>1. CASE log' # log
    <3>1. PICK tail \in Tails \ {mem} :
            /\ mem' = tail \cup {Summary}
            /\ log' = SaveSnapshot([mem |-> mem', idx |-> turnIndex])
      BY <1>6, <2>1 DEF Compact
    <3>2. mem' \in SUBSET Msg
      BY <1>2 DEF IInv, TypeOK
    <3>3. [mem |-> mem', idx |-> turnIndex] \in Snap
      BY <3>2 DEF Snap, IInv, TypeOK
    <3> QED BY <1>1, <3>1, <3>3, SnapshotRows, SameLength
  <2> QED BY <2>1, <1>3
<1>7. ASSUME NEW g \in Gens, FinishBatch(g)
      PROVE  RemovesOneTail /\ AppendsBehindSettled
  <2>1. lease # NoGen /\ pending' = pending
    BY <1>7, InsideHolds DEF FinishBatch, Runs
  <2>2. PICK media \in BOOLEAN :
          LET m == Message(log, "media", 0)
              l == IF media THEN Append(log, RowOf(m)) ELSE log
          IN  log' = IF side = before THEN l
                     ELSE [l EXCEPT ![Len(l)].side = side]
    BY <1>7 DEF FinishBatch
  <2> DEFINE m == Message(log, "media", 0)
             l == IF media THEN Append(log, RowOf(m)) ELSE log
  <2>3. l \in Seq(Row) /\ Len(l) >= Len(log)
    BY <1>1, AppendRow DEF Roles
  <2>4. log' = IF side = before THEN l ELSE [l EXCEPT ![Len(l)].side = side]
    BY <2>2
  <2> HIDE DEF l
  <2>5. Len(log') = Len(l)
    <3>1. DOMAIN (log') = DOMAIN l
      BY <2>4
    <3>2. DOMAIN (log') = 1 .. Len(log') /\ DOMAIN l = 1 .. Len(l)
      BY <1>2, <2>3, LenProperties DEF IInv, TypeOK
    <3>3. Len(l) \in Nat
      BY <2>3, LenProperties
    <3>4. 1 .. Len(log') = 1 .. Len(l) /\ Len(log') \in Nat
      BY <1>2, <3>1, <3>2
    <3> QED BY <3>3, <3>4
  <2> QED BY <1>2, <2>1, <2>3, <2>5, HolderAppends
<1>8. ASSUME NEW g \in Gens, Block(g) \/ Release(g)
      PROVE  RemovesOneTail /\ AppendsBehindSettled
  <2>1. lease # NoGen /\ \E saved \in BOOLEAN : FinishStats(log, saved)
    BY <1>8, InsideHolds, GenAssumption DEF Block, Release, Runs
  <2> QED BY <2>1, TallyTail, SameLength
<1>9. ASSUME NEW g \in Gens, Fail(g)
      PROVE  RemovesOneTail /\ AppendsBehindSettled
  BY <1>9, InsideHolds, RollbackTail DEF Fail
<1>10. ASSUME NEW g \in Gens, Abort(g)
       PROVE  RemovesOneTail /\ AppendsBehindSettled
  <2>1. lease # NoGen
    BY <1>10, InsideHolds DEF Abort
  <2>2. PICK ok \in BOOLEAN : log' = TruncatedLog(ok)
    BY <1>10 DEF Abort
  <2> QED BY <2>1, <2>2, TruncatedRows, VoidRemovesOneTail
<1>11. ASSUME NEW g \in Gens, Close(g)
       PROVE  RemovesOneTail /\ AppendsBehindSettled
  <2>1. log' = log \/ (lease # NoGen /\ Rollback)
    BY <1>11, GenAssumption DEF Close, StaleClose
  <2> QED BY <2>1, <1>3, RollbackTail
<1>12. CASE Finalize
  <2>1. lease # NoGen
    BY <1>12 DEF Finalize, CanFinalize, IInv, LeaseCoupled
  <2>2. Rollback \/ \E saved \in BOOLEAN : FinishStats(log, saved)
    BY <1>12 DEF Finalize
  <2> QED BY <2>1, <2>2, RollbackTail, TallyTail, SameLength
<1>13. ASSUME NEW g \in Gens,
              \/ Emit(g) \/ Interrupt(g) \/ Request(g) \/ ModelFails(g)
              \/ Dispatch(g) \/ ToolEffect(g) \/ MaxIterations(g)
              \/ GuardReply(g) \/ TurnEndNotices(g) \/ CancelledInside(g) \/ Resume(g)
              \/ TaskStops(g)
       PROVE  log' = log
  BY <1>13 DEF Emit, Interrupt, Request, ModelFails, Dispatch, ToolEffect,
               MaxIterations, GuardReply, TurnEndNotices, CancelledInside,
               Resume, TaskStops
<1>14. CASE CancelTurn \/ Crash \/ UNCHANGED vars
  BY <1>14, <1>3 DEF CancelTurn, Crash, vars
<1> QED
  BY <1>3, <1>4, <1>5, <1>6, <1>7, <1>8, <1>9, <1>10, <1>11, <1>12, <1>13,
     <1>14
     DEF Next, Body, Consumer

\* No row is appended while a voided tail waits to be truncated.
THEOREM AppendsAreSettled == Spec => NoAppendBehindVoidedTail
<1>1. IInv /\ [Next]_vars => [AppendsBehindSettled]_vars
  BY StepTail
<1> QED BY <1>1, Invariance, PTL DEF Spec, NoAppendBehindVoidedTail

\* A truncate takes the end of one turn and nothing of any other.
THEOREM RemovalsAreTails == Spec => RemovesOnlyOneTurnsTail
<1>1. IInv /\ [Next]_vars => [RemovesOneTail]_vars
  BY StepTail
<1> QED BY <1>1, Invariance, PTL DEF Spec, RemovesOnlyOneTurnsTail

\* What a step takes out of the transcript is the end of one turn, and what it
\* adds is never behind an end that should have gone.
THEOREM TranscriptSettled == Spec => TranscriptIsSettled
  BY AppendsAreSettled, RemovalsAreTails DEF TranscriptIsSettled

\* The lease is released before anybody else takes it, and nobody touches the
\* checkpoint in between.
THEOREM CheckpointStable == Spec => CheckpointIsStable
<1>1. ASSUME IInv, [Next]_vars
      PROVE  [KeepsCheckpoint]_vars
  <2>1. ASSUME NEW g \in Gens, Acquire(g)
        PROVE  KeepsCheckpoint
    BY <1>1, <2>1
       DEF Acquire, MayAcquire, IInv, LeaseCoupled, KeepsCheckpoint
  <2>2. ASSUME NEW g \in Gens,
               \/ Emit(g) \/ Interrupt(g) \/ SubmitUser(g) \/ Compact(g)
               \/ Request(g) \/ ModelFails(g) \/ Reply(g) \/ ReplyWithCalls(g)
               \/ Dispatch(g) \/ ToolEffect(g) \/ ToolResult(g)
               \/ FinishBatch(g) \/ MaxIterations(g) \/ GuardReply(g)
               \/ TurnEndNotices(g)
               \/ CancelledInside(g) \/ Resume(g) \/ TaskStops(g)
        PROVE  UNCHANGED <<lease, ckpt>>
    BY <2>2
       DEF Emit, Interrupt, SubmitUser, Compact, Request, ModelFails, Reply,
           ReplyWithCalls, Dispatch, ToolEffect, ToolResult, FinishBatch,
           MaxIterations, GuardReply, TurnEndNotices, CancelledInside, Resume,
           TaskStops,
           turnVars
  <2>3. ASSUME NEW g \in Gens,
               Block(g) \/ Release(g) \/ Fail(g) \/ Abort(g) \/ Close(g)
        PROVE  lease' = NoGen \/ UNCHANGED <<lease, ckpt>>
    BY <2>3 DEF Block, Release, Fail, Abort, Close, StaleClose, Rollback,
                ClearTurn, turnVars
  <2>4. CASE Finalize \/ Crash
    BY <2>4 DEF Finalize, Crash, Rollback, ClearTurn, KeepsCheckpoint
  <2>5. CASE CancelTurn \/ UNCHANGED vars
    BY <2>5 DEF CancelTurn, vars, turnVars, KeepsCheckpoint
  <2> QED
    BY <1>1, <2>1, <2>2, <2>3, <2>4, <2>5
       DEF Next, Body, Consumer, KeepsCheckpoint
<1> QED BY <1>1, Invariance, PTL DEF Spec, CheckpointIsStable

\* Once its outcome is committed, the generator of a turn is gone: only
\* finalize_cancelled_turn is left to act on it.
CommittedStopped ==
  committed => lease # NoGen /\ \A g \in Gens : lease = g => pc[g] = "none"

LEMMA CommittedStep ==
  ASSUME IInv, CommittedStopped, [Next]_vars
  PROVE  CommittedStopped' /\ [KeepsCommitted]_vars
<1> DEFINE Goal == CommittedStopped' /\ KeepsCommitted
<1>1. ASSUME NEW g \in Gens, at[g] = "in"
      PROVE  ~committed /\ lease = g /\ lease # NoGen
  BY <1>1, InsideHolds DEF IInv, PlacesAgree, CommittedStopped
<1>2. ASSUME NEW g \in Gens,
             \/ Emit(g) \/ SubmitUser(g) \/ Compact(g)
             \/ Request(g) \/ ModelFails(g) \/ Reply(g) \/ ReplyWithCalls(g)
             \/ Dispatch(g) \/ ToolEffect(g) \/ ToolResult(g)
             \/ FinishBatch(g) \/ MaxIterations(g) \/ GuardReply(g)
             \/ TurnEndNotices(g)
      PROVE  Goal
  <2>1. at[g] = "in" /\ committed' = committed
    BY <1>2
       DEF Emit, SubmitUser, Compact, Request, ModelFails, Reply,
           ReplyWithCalls, Dispatch, ToolEffect, ToolResult, FinishBatch,
           MaxIterations, GuardReply, TurnEndNotices, Runs, turnVars
  <2> QED BY <1>1, <2>1 DEF CommittedStopped, KeepsCommitted
<1>3. ASSUME NEW g \in Gens,
             Acquire(g) \/ Block(g) \/ Release(g) \/ Fail(g) \/ Abort(g)
      PROVE  Goal
  <2>1. committed' = FALSE
    BY <1>3 DEF Acquire, Block, Release, Fail, Abort, Rollback, ClearTurn
  <2>2. ~committed
    <3>1. CASE Acquire(g)
      BY <3>1 DEF Acquire, MayAcquire, CommittedStopped, IInv, LeaseCoupled
    <3>2. CASE Release(g)
      BY <3>2, <1>1 DEF Release, Runs, CommittedStopped
    <3>3. CASE Block(g) \/ Fail(g) \/ Abort(g)
      BY <3>3, <1>1 DEF Block, Fail, Abort, Runs
    <3> QED BY <1>3, <3>1, <3>2, <3>3
  <2> QED BY <2>1, <2>2 DEF CommittedStopped, KeepsCommitted
<1>4. ASSUME NEW g \in Gens, CancelledInside(g)
      PROVE  Goal
  <2>1. lease' = g /\ lease # NoGen /\ ~committed /\ pc'[g] = "none"
    BY <1>1, <1>4 DEF CancelledInside, Finish, IInv, TypeOK
  <2> QED BY <1>1, <1>4, <2>1
          DEF CancelledInside, HandOver, CommittedStopped, KeepsCommitted
<1>5. ASSUME NEW g \in Gens, Interrupt(g) \/ Resume(g) \/ TaskStops(g)
      PROVE  Goal
  <2>1. UNCHANGED <<lease, committed, mem, turnIndex, log>>
    BY <1>5 DEF Interrupt, Resume, TaskStops, turnVars, workVars
  <2>2. \A h \in Gens : pc[h] = "none" => pc'[h] = "none"
    BY <1>5 DEF Interrupt, Resume, TaskStops, Finish, IInv, TypeOK
  <2> QED BY <2>1, <2>2 DEF CommittedStopped, KeepsCommitted
<1>6. ASSUME NEW g \in Gens, Close(g)
      PROVE  Goal
  <2>1. CASE committed
    <3>1. lease # g
      BY <1>6, <2>1 DEF Close, CommittedStopped
    <3>2. UNCHANGED <<lease, committed, mem, turnIndex, log>>
      BY <1>6, <3>1 DEF Close, StaleClose, turnVars, workVars
    <3>3. \A h \in Gens : pc[h] = "none" => pc'[h] = "none"
      BY <1>6 DEF Close, Finish, IInv, TypeOK
    <3> QED BY <3>2, <3>3 DEF CommittedStopped, KeepsCommitted
  <2>2. CASE ~committed
    <3>1. ~committed'
      BY <1>6, <2>2 DEF Close, StaleClose, Rollback, ClearTurn, turnVars
    <3> QED BY <2>2, <3>1 DEF CommittedStopped, KeepsCommitted
  <2> QED BY <2>1, <2>2
<1>7. CASE Finalize
  <2>1. ~committed'
    BY <1>7 DEF Finalize, Rollback, ClearTurn
  <2>2. CASE committed
    <3>1. PICK saved \in BOOLEAN : FinishStats(log, saved)
      BY <1>7, <2>2 DEF Finalize
    <3>2. Len(log') = Len(log)
      BY <2>2, <3>1, TallyTail DEF CommittedStopped
    <3> QED BY <1>7, <2>1, <2>2, <3>2
            DEF Finalize, CommittedStopped, KeepsCommitted, workVars
  <2>3. CASE ~committed
    BY <2>1, <2>3 DEF CommittedStopped, KeepsCommitted
  <2> QED BY <2>2, <2>3
<1>8. CASE CancelTurn
  BY <1>8 DEF CancelTurn, CommittedStopped, KeepsCommitted, workVars
<1>9. CASE Crash
  <2>1. crashes' # crashes /\ ~committed'
    BY <1>9 DEF Crash, ClearTurn, IInv, TypeOK
  <2> QED BY <2>1 DEF CommittedStopped, KeepsCommitted
<1>10. CASE UNCHANGED vars
  BY <1>10 DEF vars, genVars, turnVars, workVars, CommittedStopped,
               KeepsCommitted
<1>11. ASSUME NEW g \in Gens, Body(g)
       PROVE  Goal
  BY <1>2, <1>3, <1>4, <1>11 DEF Body
<1>12. ASSUME NEW g \in Gens, Consumer(g)
       PROVE  Goal
  BY <1>5, <1>6, <1>12 DEF Consumer
<1>13. ASSUME NEW g \in Gens, Acquire(g) \/ Emit(g) \/ Interrupt(g)
       PROVE  Goal
  BY <1>2, <1>3, <1>5, <1>13
<1>14. CASE Next
  BY <1>7, <1>8, <1>9, <1>11, <1>12, <1>13, <1>14 DEF Next
<1> QED BY <1>10, <1>14

\* A turn whose terminal event was committed inside turn_end keeps all it
\* wrote, whoever stops, closes or finalizes afterwards.
THEOREM CommittedKept == Spec => CommittedIsKept
<1>1. Init => CommittedStopped
  BY DEF Init, CommittedStopped
<1>2. IInv /\ CommittedStopped /\ [Next]_vars
        => CommittedStopped' /\ [KeepsCommitted]_vars
  BY CommittedStep
<1> QED BY <1>1, <1>2, Invariance, PTL DEF Spec, CommittedIsKept

-----------------------------------------------------------------------------
(* Whole blocks and prefixes of a transcript *)

\* No block of calls and results reaches across the front of row n.
Cut(l, n) ==
  /\ n \in 1 .. Len(l) + 1
  /\ n <= Len(l) => l[n].msg.role # "tool"

\* Two transcripts tell the same up to row n, exclusive.
SameUpTo(l, k, n) ==
  /\ n - 1 <= Len(l) /\ n - 1 <= Len(k)
  /\ \A i \in 1 .. n - 1 : l[i].msg = k[i].msg

\* The calls of a row are a number.
LEMMA RowTyped ==
  ASSUME NEW l \in Seq(Row), NEW i \in 1 .. Len(l)
  PROVE  /\ l[i] \in Row /\ l[i].msg \in Msg
         /\ l[i].msg.calls \in Nat /\ l[i].msg.n \in Nat /\ l[i].msg.t \in Nat
         /\ l[i].side \in Sides \cup {NoSide}
         /\ l[i].snap \in Snap \cup {NoSnap}
<1>1. l[i] \in Row
  BY ElementOfSeq
<1> QED
  BY <1>1 DEF Row, Msg

LEMMA SameAnswered ==
  ASSUME NEW l \in Seq(Row), NEW k \in Seq(Row), NEW n \in Nat,
         Cut(l, n), Cut(k, n), SameUpTo(l, k, n),
         NEW a \in 1 .. n - 1, Answered(l, a)
  PROVE  Answered(k, a) /\ a + l[a].msg.calls <= n - 1
<1> DEFINE c == l[a].msg.calls
<1>1. /\ Len(l) \in Nat /\ Len(k) \in Nat /\ a \in 1 .. Len(l) /\ a \in Nat
      /\ n - 1 <= Len(l) /\ n - 1 <= Len(k) /\ n <= Len(l) + 1
  BY LenProperties DEF SameUpTo, Cut
<1>2. c \in Nat /\ k[a].msg.calls = c
  BY <1>1, RowTyped DEF SameUpTo
<1>3. a + c <= Len(l) /\ \A j \in a + 1 .. a + c : l[j].msg.role = "tool"
  BY DEF Answered
<1> HIDE DEF c
<1>4. a + c <= n - 1
  <2>1. SUFFICES ASSUME a + c >= n
                 PROVE  FALSE
    BY <1>1, <1>2
  <2>2. n \in a + 1 .. a + c /\ n <= Len(l)
    BY <1>1, <1>2, <1>3, <2>1
  <2> QED
    BY <1>3, <2>2 DEF Cut
<1>5. \A j \in a + 1 .. a + c : k[j].msg.role = "tool"
  BY <1>1, <1>2, <1>3, <1>4 DEF SameUpTo
<1>6. a + c <= Len(k)
  BY <1>1, <1>2, <1>4
<1> QED
  BY <1>2, <1>4, <1>5, <1>6 DEF Answered, c

LEMMA SameKept ==
  ASSUME NEW l \in Seq(Row), NEW k \in Seq(Row), NEW n \in Nat,
         Cut(l, n), Cut(k, n), SameUpTo(l, k, n),
         NEW i \in 1 .. n - 1, Kept(l, i)
  PROVE  Kept(k, i)
<1>1. /\ Len(l) \in Nat /\ i \in Nat /\ n - 1 <= Len(l)
      /\ l[i].msg = k[i].msg
  BY LenProperties DEF SameUpTo
<1>2. CASE l[i].msg.role = "assistant"
  BY <1>1, <1>2, SameAnswered DEF Kept
<1>3. CASE l[i].msg.role = "tool"
  <2>1. PICK a \in 1 .. i - 1 : /\ l[a].msg.role = "assistant"
                                /\ i <= a + l[a].msg.calls
                                /\ Answered(l, a)
    BY <1>3 DEF Kept
  <2>2. a \in 1 .. n - 1 /\ l[a].msg = k[a].msg
    BY <1>1 DEF SameUpTo
  <2>3. Answered(k, a)
    BY <2>1, <2>2, SameAnswered
  <2> QED
    BY <1>1, <1>3, <2>1, <2>2, <2>3 DEF Kept
<1>4. CASE l[i].msg.role \notin {"assistant", "tool"}
  BY <1>1, <1>4 DEF Kept
<1> QED
  BY <1>2, <1>3, <1>4

\* What is kept before a cut depends on nothing behind it.
LEMMA SameTrimmed ==
  ASSUME NEW l \in Seq(Row), NEW k \in Seq(Row), NEW n \in Nat,
         Cut(l, n), Cut(k, n), SameUpTo(l, k, n), NEW first \in Nat \ {0},
         NEW last \in Nat, last <= n - 1
  PROVE  Trimmed(l, first, last) = Trimmed(k, first, last)
<1>1. \A i \in first .. last : i \in 1 .. n - 1 /\ l[i].msg = k[i].msg
  BY DEF SameUpTo
<1>2. SameUpTo(k, l, n)
  BY DEF SameUpTo
<1>3. \A i \in first .. last : Kept(l, i) <=> Kept(k, i)
  BY <1>1, <1>2, SameKept
<1>4. ASSUME NEW m
      PROVE  m \in Trimmed(l, first, last) <=> m \in Trimmed(k, first, last)
  <2>1. m \in Trimmed(l, first, last) <=>
          \E i \in first .. last : Kept(l, i) /\ m = l[i].msg
    BY DEF Trimmed
  <2>2. m \in Trimmed(k, first, last) <=>
          \E i \in first .. last : Kept(k, i) /\ m = k[i].msg
    BY DEF Trimmed
  <2> QED
    BY <1>1, <1>3, <2>1, <2>2
<1> QED
  BY <1>4

LEMMA TrimmedMember ==
  ASSUME NEW l, NEW first, NEW last, NEW m
  PROVE  m \in Trimmed(l, first, last) <=>
           \E i \in first .. last : Kept(l, i) /\ m = l[i].msg
  BY DEF Trimmed

\* A trim can be done in two parts.
LEMMA TrimmedParts ==
  ASSUME NEW l, NEW first \in Nat, NEW mid \in Nat, NEW last \in Nat,
         first <= mid + 1, mid <= last
  PROVE  Trimmed(l, first, last) =
           Trimmed(l, first, mid) \cup Trimmed(l, mid + 1, last)
<1>1. \A i : i \in first .. last <=> i \in first .. mid \/ i \in mid + 1 .. last
  OBVIOUS
<1>2. ASSUME NEW m
      PROVE  m \in Trimmed(l, first, last) <=>
               m \in Trimmed(l, first, mid) \/ m \in Trimmed(l, mid + 1, last)
  BY <1>1, TrimmedMember
<1> QED
  BY <1>2

-----------------------------------------------------------------------------
(* Snapshots and saved state of a transcript *)

\* Memory without its summary.
Dialog(ms) == ms \ Summaries(ms)

\* Rows are numbered, and summaries are no rows.
Numbered(l) ==
  \A i \in 1 .. Len(l) : l[i].msg.n = i /\ l[i].msg.role # "summary"

\* The snapshot at row s is what the rows up to it give: the newest of their
\* whole blocks, behind at most a summary, and as many replies.
SnapGood(l, s) ==
  LET b == l[s].snap.mem
  IN  /\ l[s].msg.role = "user"
      /\ IsNewestOf(Dialog(b), Trimmed(l, 1, s))
      /\ l[s].msg \in b
      /\ \A m \in Summaries(b) : m.n = 0
      /\ \A m \in b : m.t <= l[s].msg.t
      /\ l[s].snap.idx = Assistants(Trimmed(l, 1, s))

SnapsGood(l) == \A s \in 1 .. Len(l) : l[s].snap # NoSnap => SnapGood(l, s)

Rows(l) == Numbered(l) /\ SnapsGood(l)

\* Row s holds the newest snapshot; 0 for none.
IsLatest(l, s) ==
  /\ s \in 0 .. Len(l)
  /\ s # 0 => l[s].snap # NoSnap
  /\ \A o \in 1 .. Len(l) : l[o].snap # NoSnap => o <= s

LEMMA LatestIs ==
  ASSUME NEW l \in Seq(Row), Rows(l), NEW s, IsLatest(l, s)
  PROVE  LatestSnap(l) = s
<1> DEFINE good == {o \in DOMAIN l : Usable(l, o)}
<1>1. DOMAIN l = 1 .. Len(l) /\ Len(l) \in Nat
  BY LenProperties
<1>2. \A o : o \in good <=> o \in 1 .. Len(l) /\ l[o].snap # NoSnap
  BY <1>1 DEF Usable, Rows, SnapsGood, SnapGood, Dialog
<1>3. LatestSnap(l) = IF good = {} THEN 0
                      ELSE CHOOSE o \in good : \A p \in good : p <= o
  BY DEF LatestSnap
<1> HIDE DEF good
<1>4. CASE s = 0
  <2>1. \A o \in 1 .. Len(l) : ~(o <= 0)
    OBVIOUS
  <2>2. good = {}
    BY <1>2, <1>4, <2>1 DEF IsLatest
  <2> QED
    BY <1>3, <1>4, <2>2
<1>5. CASE s # 0
  <2>1. s \in 1 .. Len(l) /\ s \in good
    BY <1>1, <1>2, <1>5 DEF IsLatest
  <2>2. \A p \in good : p \in Nat /\ p <= s
    BY <1>1, <1>2, <1>5 DEF IsLatest
  <2>3. \A o \in good : (\A p \in good : p <= o) => o = s
    BY <2>1, <2>2
  <2> QED
    BY <1>3, <2>1, <2>2, <2>3
<1> QED
  BY <1>4, <1>5

LEMMA LatestExists ==
  ASSUME NEW l \in Seq(Row), Rows(l)
  PROVE  IsLatest(l, LatestSnap(l))
<1> DEFINE S == {o \in 1 .. Len(l) : l[o].snap # NoSnap}
<1>1. Len(l) \in Nat
  BY LenProperties
<1>2. \E s : IsLatest(l, s)
  <2>1. CASE S = {}
    <3>1. IsLatest(l, 0)
      BY <1>1, <2>1 DEF IsLatest
    <3> QED
      BY <3>1
  <2>2. CASE S # {}
    <3>1. PICK s \in S : \A o \in S : o <= s
      BY <1>1, <2>2, GreatestIndex
    <3>2. IsLatest(l, s)
      BY <1>1, <3>1 DEF IsLatest
    <3> QED
      BY <3>2
  <2> QED
    BY <2>1, <2>2
<1> QED
  BY <1>2, LatestIs

\* The saved part of what a new process remembers.
SavedPart(l) == IF LatestSnap(l) = 0 THEN {} ELSE l[LatestSnap(l)].snap.mem

LEMMA ReplayMemory ==
  ASSUME NEW l
  PROVE  Replay(l).mem = SavedPart(l) \cup Trimmed(l, LatestSnap(l) + 1, Len(l))
  BY DEF Replay, SavedPart

\* The side state is what the newest saved row says.
LEMMA SameSide ==
  ASSUME NEW l \in Seq(Row), NEW k \in Seq(Row),
         \A i : i \in 1 .. Len(l) /\ l[i].side # NoSide <=>
                i \in 1 .. Len(k) /\ k[i].side # NoSide,
         \A i : i \in 1 .. Len(l) /\ l[i].side # NoSide => l[i].side = k[i].side
  PROVE  Replay(k).side = Replay(l).side
<1> DEFINE S(x) == {i \in DOMAIN x : x[i].side # NoSide}
<1>1. DOMAIN l = 1 .. Len(l) /\ DOMAIN k = 1 .. Len(k)
  BY LenProperties
<1>2. S(l) = S(k)
  BY <1>1
<1>3. Len(l) \in Nat
  BY LenProperties
<1>4. CASE S(l) = {}
  BY <1>2, <1>4 DEF Replay
<1>5. CASE S(l) # {}
  <2> DEFINE c == CHOOSE i \in S(l) : \A o \in S(l) : o <= i
  <2>1. \E i \in S(l) : \A o \in S(l) : o <= i
    BY <1>1, <1>3, <1>5, GreatestIndex
  <2>2. c \in S(l)
    BY <2>1
  <2>3. Replay(l).side = l[c].side
    BY <1>5 DEF Replay
  <2>4. Replay(k).side = k[c].side
    BY <1>2, <1>5 DEF Replay
  <2>5. l[c].side = k[c].side
    BY <1>1, <2>2
  <2> QED
    BY <2>3, <2>4, <2>5
<1> QED
  BY <1>4, <1>5

\* A state saved at the last row is the one a new process has.
LEMMA LastSide ==
  ASSUME NEW l \in Seq(Row), l # << >>, l[Len(l)].side # NoSide
  PROVE  Replay(l).side = l[Len(l)].side
<1> DEFINE S == {i \in DOMAIN l : l[i].side # NoSide}
           c == CHOOSE i \in S : \A o \in S : o <= i
<1>1. DOMAIN l = 1 .. Len(l) /\ Len(l) \in Nat /\ Len(l) # 0
  BY LenProperties, EmptySeq
<1>2. Len(l) \in S
  BY <1>1
<1>3. \A o \in S : o \in Nat /\ o <= Len(l)
  BY <1>1
<1>4. c = Len(l)
  BY <1>2, <1>3
<1>5. Replay(l).side = l[c].side
  BY <1>2 DEF Replay
<1> QED
  BY <1>4, <1>5

\* The messages that survive a trim are finitely many.
LEMMA TrimmedTyped ==
  ASSUME NEW l \in Seq(Row), NEW first \in Nat \ {0}, NEW last \in Nat,
         last <= Len(l)
  PROVE  /\ Trimmed(l, first, last) \in SUBSET Msg
         /\ IsFiniteSet(Trimmed(l, first, last))
<1>1. Len(l) \in Nat
  BY LenProperties
<1>2. Trimmed(l, first, last) \subseteq Trimmed(l, first, Len(l))
  <2>1. \A i \in first .. last : i \in first .. Len(l)
    BY <1>1
  <2> QED
    BY <2>1, TrimmedMember
<1> QED
  BY <1>2, TrimmedFinite, FS_Subset

\* A message before a row is not one behind it.
LEMMA TrimmedNumbers ==
  ASSUME NEW l \in Seq(Row), Numbered(l), NEW first \in Nat \ {0},
         NEW last \in Nat, last <= Len(l), NEW m \in Trimmed(l, first, last)
  PROVE  /\ m.n \in first .. last /\ m = l[m.n].msg /\ m.role # "summary"
         /\ Kept(l, m.n)
<1>1. PICK i \in first .. last : Kept(l, i) /\ m = l[i].msg
  BY TrimmedMember
<1>2. i \in 1 .. Len(l)
  BY <1>1, LenProperties
<1> QED
  BY <1>1, <1>2 DEF Numbered

LEMMA AssistantsUnion ==
  ASSUME NEW S, NEW T, IsFiniteSet(S), IsFiniteSet(T), S \cap T = {}
  PROVE  /\ Assistants(S \cup T) = Assistants(S) + Assistants(T)
         /\ Assistants(S) \in Nat /\ Assistants(T) \in Nat
<1> DEFINE A == {m \in S : m.role = "assistant"}
           B == {m \in T : m.role = "assistant"}
           C == {m \in S \cup T : m.role = "assistant"}
<1>1. IsFiniteSet(A) /\ IsFiniteSet(B)
  BY FS_Subset
<1>2. C = A \cup B /\ A \cap B = {}
  OBVIOUS
<1>3. /\ Assistants(S) = Cardinality(A) /\ Assistants(T) = Cardinality(B)
      /\ Assistants(S \cup T) = Cardinality(C)
  BY DEF Assistants
<1> HIDE DEF A, B, C
<1>4. Cardinality(A) \in Nat /\ Cardinality(B) \in Nat
  BY <1>1, FS_CardinalityType
<1>5. Cardinality(A \cap B) = 0
  BY <1>2, FS_EmptySet
<1>6. Cardinality(A \cup B) =
        Cardinality(A) + Cardinality(B) - Cardinality(A \cap B)
  BY <1>1, FS_Union
<1> QED
  BY <1>2, <1>3, <1>4, <1>5, <1>6

LEMMA AssistantsOne ==
  ASSUME NEW m
  PROVE  /\ IsFiniteSet({m})
         /\ m.role = "assistant" => Assistants({m}) = 1
         /\ m.role # "assistant" => Assistants({m}) = 0
<1>1. m.role = "assistant" => {x \in {m} : x.role = "assistant"} = {m}
  OBVIOUS
<1>2. m.role # "assistant" => {x \in {m} : x.role = "assistant"} = {}
  OBVIOUS
<1> QED
  BY <1>1, <1>2, FS_Singleton, FS_EmptySet DEF Assistants

\* Messages that are no replies do not count.
LEMMA AssistantsNone ==
  ASSUME NEW S, NEW T, \A m \in T : m.role # "assistant"
  PROVE  Assistants(S \cup T) = Assistants(S)
<1>1. {m \in S \cup T : m.role = "assistant"} = {m \in S : m.role = "assistant"}
  OBVIOUS
<1> QED
  BY <1>1 DEF Assistants

\* A row that is a block of its own is kept.
LEMMA KeptAlone ==
  ASSUME NEW l \in Seq(Row), NEW i \in 1 .. Len(l),
         \/ l[i].msg.role \notin {"assistant", "tool"}
         \/ l[i].msg.role = "assistant" /\ l[i].msg.calls = 0
  PROVE  /\ Kept(l, i) /\ Trimmed(l, i, i) = {l[i].msg}
         /\ Trimmed(l, 1, i) = Trimmed(l, 1, i - 1) \cup {l[i].msg}
<1>1. i \in Nat /\ i <= Len(l) /\ Len(l) \in Nat
  BY LenProperties
<1>2. Kept(l, i)
  BY <1>1 DEF Kept, Answered
<1>3. Trimmed(l, i, i) = {l[i].msg}
  <2>1. \A j : j \in i .. i <=> j = i
    BY <1>1
  <2>2. \A m : m \in Trimmed(l, i, i) <=> m = l[i].msg
    BY <1>2, <2>1, TrimmedMember
  <2> QED
    BY <2>2
<1>4. Trimmed(l, 1, i) = Trimmed(l, 1, i - 1) \cup Trimmed(l, (i - 1) + 1, i)
  BY <1>1, TrimmedParts
<1>5. (i - 1) + 1 = i
  BY <1>1
<1> QED
  BY <1>2, <1>3, <1>4, <1>5

\* A snapshot stays good as long as the rows up to it stay.
LEMMA SnapStays ==
  ASSUME NEW l \in Seq(Row), NEW k \in Seq(Row), NEW s \in 1 .. Len(l),
         s <= Len(k), \A i \in 1 .. s : l[i].msg = k[i].msg,
         l[s].snap = k[s].snap, SnapGood(l, s)
  PROVE  SnapGood(k, s)
<1>1. /\ Len(l) \in Nat /\ Len(k) \in Nat /\ s \in Nat /\ s \in 1 .. Len(k)
      /\ l[s].msg = k[s].msg /\ l[s].msg.role = "user"
  BY LenProperties DEF SnapGood
<1>2. Cut(l, s) /\ Cut(k, s) /\ SameUpTo(l, k, s)
  BY <1>1 DEF Cut, SameUpTo
<1>3. s - 1 \in Nat /\ s - 1 <= s - 1 /\ 1 \in Nat \ {0}
  BY <1>1
<1>4. Trimmed(l, 1, s - 1) = Trimmed(k, 1, s - 1)
  BY <1>1, <1>2, <1>3, SameTrimmed
<1>5. Trimmed(l, 1, s) = Trimmed(l, 1, s - 1) \cup {l[s].msg}
  BY <1>1, KeptAlone
<1>6. Trimmed(k, 1, s) = Trimmed(k, 1, s - 1) \cup {k[s].msg}
  BY <1>1, KeptAlone
<1>7. Trimmed(l, 1, s) = Trimmed(k, 1, s)
  BY <1>1, <1>4, <1>5, <1>6
<1> QED
  BY <1>1, <1>7 DEF SnapGood

-----------------------------------------------------------------------------
(* Memory and transcript *)

\* Memory ms, turn index idx and state sd are what transcript l gives: as many
\* iterations as replies, the saved state, and the newest of the messages.
Agrees(l, ms, idx, sd) ==
  /\ idx = Assistants(Trimmed(l, 1, Len(l)))
  /\ sd = Replay(l).side
  /\ IsNewestOf(ms, Replay(l).mem)
  /\ ms = {} => Replay(l).mem = {}

\* A message that needs no other one to be kept.
Alone(m) ==
  \/ m.role \in {"user", "media"}
  \/ m.role = "assistant" /\ m.calls = 0

\* A row as it is written, without events, behind the rows of l.
NewRow(l, r) ==
  /\ r \in Row /\ r.msg.n = Len(l) + 1 /\ r.msg.role # "summary"
  /\ r.side = NoSide /\ r.snap = NoSnap

LEMMA AppendedRows ==
  ASSUME NEW l \in Seq(Row), NEW r, NewRow(l, r)
  PROVE  /\ Append(l, r) \in Seq(Row) /\ Len(Append(l, r)) = Len(l) + 1
         /\ \A i \in 1 .. Len(l) : Append(l, r)[i] = l[i]
         /\ Append(l, r)[Len(l) + 1] = r
  BY AppendProperties DEF NewRow

LEMMA AppendKeepsRows ==
  ASSUME NEW l \in Seq(Row), Rows(l), NEW r, NewRow(l, r)
  PROVE  /\ Rows(Append(l, r))
         /\ LatestSnap(Append(l, r)) = LatestSnap(l)
         /\ SavedPart(Append(l, r)) = SavedPart(l)
         /\ Replay(Append(l, r)).side = Replay(l).side
<1> DEFINE k == Append(l, r)
<1>1. /\ k \in Seq(Row) /\ Len(k) = Len(l) + 1 /\ Len(l) \in Nat
      /\ \A i \in 1 .. Len(l) : k[i] = l[i]
      /\ k[Len(l) + 1] = r
  BY AppendedRows, LenProperties
<1> HIDE DEF k
<1>2. \A i \in 1 .. Len(k) : i \in 1 .. Len(l) \/ i = Len(l) + 1
  BY <1>1
<1>3. Numbered(k)
  BY <1>1, <1>2 DEF Numbered, Rows, NewRow
<1>4. \A s \in 1 .. Len(k) : k[s].snap # NoSnap => s \in 1 .. Len(l)
  BY <1>1, <1>2 DEF NewRow
<1>5. SnapsGood(k)
  <2> SUFFICES ASSUME NEW s \in 1 .. Len(k), k[s].snap # NoSnap
               PROVE  SnapGood(k, s)
    BY DEF SnapsGood
  <2>1. s \in 1 .. Len(l) /\ k[s] = l[s]
    BY <1>1, <1>4
  <2>2. SnapGood(l, s)
    BY <2>1 DEF Rows, SnapsGood
  <2>3. s <= Len(k) /\ \A i \in 1 .. s : l[i].msg = k[i].msg
    BY <1>1, <2>1
  <2> QED
    BY <1>1, <2>1, <2>2, <2>3, SnapStays
<1>6. Rows(k)
  BY <1>3, <1>5 DEF Rows
<1>7. IsLatest(l, LatestSnap(l))
  BY LatestExists
<1>8. IsLatest(k, LatestSnap(l))
  BY <1>1, <1>4, <1>7 DEF IsLatest
<1>9. LatestSnap(k) = LatestSnap(l)
  BY <1>1, <1>6, <1>8, LatestIs
<1>10. SavedPart(k) = SavedPart(l)
  BY <1>1, <1>7, <1>9 DEF SavedPart, IsLatest
<1>11. \A i : i \in 1 .. Len(l) /\ l[i].side # NoSide <=>
              i \in 1 .. Len(k) /\ k[i].side # NoSide
  BY <1>1, <1>2 DEF NewRow
<1>12. Replay(k).side = Replay(l).side
  BY <1>1, <1>11, SameSide
<1> QED
  BY <1>6, <1>9, <1>10, <1>12 DEF k

\* What is remembered are numbered rows and summaries.
LEMMA RememberedNumbers ==
  ASSUME NEW l \in Seq(Row), Rows(l), NEW m \in Replay(l).mem
  PROVE  \/ m.role = "summary" /\ m.n = 0
         \/ m.n \in 1 .. Len(l) /\ m = l[m.n].msg /\ m.role # "summary"
<1> DEFINE s == LatestSnap(l)
<1>1. IsLatest(l, s) /\ Len(l) \in Nat
  BY LatestExists, LenProperties
<1> HIDE DEF s
<1>2. CASE m \in Trimmed(l, s + 1, Len(l))
  <2>1. s + 1 \in Nat \ {0} /\ Len(l) <= Len(l)
    BY <1>1 DEF IsLatest
  <2>2. m.n \in s + 1 .. Len(l) /\ m = l[m.n].msg /\ m.role # "summary"
    BY <1>1, <1>2, <2>1, TrimmedNumbers DEF Rows
  <2> QED
    BY <1>1, <2>2 DEF IsLatest
<1>3. CASE s # 0 /\ m \in l[s].snap.mem
  <2>1. s \in 1 .. Len(l) /\ SnapGood(l, s)
    BY <1>1, <1>3 DEF IsLatest, Rows, SnapsGood
  <2>2. CASE m \in Summaries(l[s].snap.mem)
    BY <2>1, <2>2 DEF SnapGood, Summaries
  <2>3. CASE m \notin Summaries(l[s].snap.mem)
    <3>1. m \in Trimmed(l, 1, s)
      BY <1>3, <2>1, <2>3 DEF SnapGood, Dialog, IsNewestOf
    <3>2. s \in Nat /\ s <= Len(l) /\ 1 \in Nat \ {0}
      BY <1>1, <2>1
    <3>3. m.n \in 1 .. s /\ m = l[m.n].msg /\ m.role # "summary"
      BY <3>1, <3>2, TrimmedNumbers DEF Rows
    <3> QED
      BY <1>1, <3>2, <3>3
  <2> QED
    BY <2>2, <2>3
<1>4. m \in (IF s = 0 THEN {} ELSE l[s].snap.mem) \cup Trimmed(l, s + 1, Len(l))
  BY ReplayMemory DEF SavedPart, s
<1> QED
  BY <1>2, <1>3, <1>4

\* The same newest messages with one newer message.
LEMMA NewestGrows ==
  ASSUME NEW a, NEW b, NEW m, IsNewestOf(a, b),
         \A o \in b : o.n < m.n
  PROVE  IsNewestOf(a \cup {m}, b \cup {m})
  BY DEF IsNewestOf

LEMMA NewestOfNewest ==
  ASSUME NEW a, NEW b, NEW c, IsNewestOf(a, b), IsNewestOf(b, c)
  PROVE  IsNewestOf(a, c)
  BY DEF IsNewestOf

\* A message that stands alone is remembered as soon as it is written.
LEMMA AppendAlone ==
  ASSUME NEW l \in Seq(Row), Rows(l), NEW r, NewRow(l, r), Alone(r.msg)
  PROVE  /\ Replay(Append(l, r)).mem = Replay(l).mem \cup {r.msg}
         /\ Trimmed(Append(l, r), 1, Len(l) + 1) =
              Trimmed(l, 1, Len(l)) \cup {r.msg}
<1> DEFINE k == Append(l, r)
           n == Len(l) + 1
           s == LatestSnap(l)
<1>1. /\ k \in Seq(Row) /\ Len(k) = n /\ Len(l) \in Nat
      /\ \A i \in 1 .. Len(l) : k[i] = l[i]
      /\ k[n] = r
  BY AppendedRows, LenProperties
<1>2. LatestSnap(k) = s /\ SavedPart(k) = SavedPart(l)
  BY AppendKeepsRows
<1>3. s \in Nat /\ s <= Len(l)
  BY <1>1, LatestExists DEF IsLatest
<1> HIDE DEF k, s
<1>4. n \in Nat /\ n \in 1 .. Len(k) /\ n - 1 = Len(l)
  BY <1>1
<1>5. Cut(l, n) /\ Cut(k, n) /\ SameUpTo(l, k, n)
  BY <1>1, <1>4 DEF Cut, SameUpTo, Alone
<1>6. /\ Trimmed(k, n, n) = {r.msg}
      /\ Trimmed(k, 1, n) = Trimmed(k, 1, n - 1) \cup {r.msg}
  BY <1>1, <1>4, KeptAlone DEF Alone
<1> HIDE DEF n
<1>7. \A f \in Nat \ {0} : Trimmed(l, f, Len(l)) = Trimmed(k, f, Len(l))
  BY <1>1, <1>4, <1>5, SameTrimmed
<1>8. Trimmed(k, s + 1, n) = Trimmed(l, s + 1, Len(l)) \cup {r.msg}
  <2>1. s + 1 \in Nat \ {0} /\ s + 1 <= Len(l) + 1 /\ Len(l) <= n /\ s + 1 \in Nat
    BY <1>1, <1>3, <1>4
  <2>2. Trimmed(k, s + 1, n) =
          Trimmed(k, s + 1, Len(l)) \cup Trimmed(k, Len(l) + 1, n)
    BY <1>1, <1>4, <2>1, TrimmedParts
  <2>3. Len(l) + 1 = n
    BY DEF n
  <2> QED
    BY <1>6, <1>7, <2>1, <2>2, <2>3
<1>9. Trimmed(k, 1, n) = Trimmed(l, 1, Len(l)) \cup {r.msg}
  <2>1. 1 \in Nat \ {0}
    OBVIOUS
  <2> QED
    BY <1>4, <1>6, <1>7, <2>1
<1>10. Replay(k).mem = Replay(l).mem \cup {r.msg}
  <2>1. Replay(k).mem = SavedPart(k) \cup Trimmed(k, LatestSnap(k) + 1, Len(k))
    BY ReplayMemory
  <2>2. Replay(l).mem = SavedPart(l) \cup Trimmed(l, s + 1, Len(l))
    BY ReplayMemory DEF s
  <2> QED
    BY <1>1, <1>2, <1>8, <2>1, <2>2
<1> QED
  BY <1>9, <1>10 DEF k, n

LEMMA AppendAgrees ==
  ASSUME NEW l \in Seq(Row), Rows(l), NEW r, NewRow(l, r), Alone(r.msg),
         NEW ms, NEW idx, NEW sd, Agrees(l, ms, idx, sd)
  PROVE  Agrees(Append(l, r), ms \cup {r.msg},
                IF r.msg.role = "assistant" THEN idx + 1 ELSE idx, sd)
<1> DEFINE k == Append(l, r)
           T == Trimmed(l, 1, Len(l))
<1>1. Len(k) = Len(l) + 1 /\ Len(l) \in Nat
  BY AppendedRows, LenProperties
<1>2. /\ Replay(k).mem = Replay(l).mem \cup {r.msg}
      /\ Trimmed(k, 1, Len(k)) = T \cup {r.msg}
  BY <1>1, AppendAlone
<1>3. Replay(k).side = sd
  BY AppendKeepsRows DEF Agrees
<1>4. \A o \in Replay(l).mem : o.n < r.msg.n
  <2>1. \A o \in Replay(l).mem : o.n = 0 \/ o.n \in 1 .. Len(l)
    BY RememberedNumbers
  <2> QED
    BY <1>1, <2>1 DEF NewRow
<1>5. IsNewestOf(ms \cup {r.msg}, Replay(k).mem)
  <2> DEFINE R == Replay(l).mem
  <2>1. IsNewestOf(ms, R)
    BY DEF Agrees
  <2>2. \A o \in R : o.n < r.msg.n
    BY <1>4
  <2>3. Replay(k).mem = R \cup {r.msg}
    BY <1>2
  <2> HIDE DEF R
  <2>4. IsNewestOf(ms \cup {r.msg}, R \cup {r.msg})
    BY <2>1, <2>2, NewestGrows
  <2> QED
    BY <2>3, <2>4
<1>6. Assistants(T \cup {r.msg}) =
        IF r.msg.role = "assistant" THEN idx + 1 ELSE idx
  <2>1. 1 \in Nat \ {0} /\ Len(l) <= Len(l)
    BY <1>1
  <2>2. IsFiniteSet(T) /\ \A m \in T : m.n \in 1 .. Len(l)
    BY <1>1, <2>1, TrimmedTyped, TrimmedNumbers DEF Rows
  <2>3. T \cap {r.msg} = {}
    BY <1>1, <2>2 DEF NewRow
  <2>4. /\ Assistants(T \cup {r.msg}) = Assistants(T) + Assistants({r.msg})
        /\ Assistants(T) \in Nat
    BY <2>2, <2>3, AssistantsUnion, AssistantsOne
  <2>5. idx = Assistants(T)
    BY DEF Agrees
  <2>6. Assistants({r.msg}) = IF r.msg.role = "assistant" THEN 1 ELSE 0
    BY AssistantsOne
  <2> QED
    BY <2>4, <2>5, <2>6
<1> QED
  BY <1>2, <1>3, <1>5, <1>6 DEF Agrees

\* The same rows, whatever events hang at them.
SameRows(l, k) ==
  /\ Len(k) = Len(l)
  /\ \A i \in 1 .. Len(l) : l[i].msg = k[i].msg

LEMMA SameRowsTrimmed ==
  ASSUME NEW l \in Seq(Row), NEW k \in Seq(Row), SameRows(l, k),
         NEW first \in Nat \ {0}, NEW last \in Nat, last <= Len(l)
  PROVE  Trimmed(l, first, last) = Trimmed(k, first, last)
<1> DEFINE n == Len(l) + 1
<1>1. /\ Len(l) \in Nat /\ n \in Nat /\ n - 1 = Len(l) /\ last <= n - 1
      /\ n \in 1 .. n /\ ~(n <= Len(l))
  BY LenProperties
<1>2. Cut(l, n) /\ Cut(k, n) /\ SameUpTo(l, k, n)
  BY <1>1 DEF Cut, SameUpTo, SameRows
<1> HIDE DEF n
<1> QED
  BY <1>1, <1>2, SameTrimmed

\* Rows stay well formed when a snapshot is dropped or stays.
LEMMA FewerSnaps ==
  ASSUME NEW l \in Seq(Row), NEW k \in Seq(Row), Rows(l), SameRows(l, k),
         \A i \in 1 .. Len(l) : k[i].snap \in {NoSnap, l[i].snap}
  PROVE  Rows(k)
<1>1. Len(l) \in Nat /\ Len(k) = Len(l)
  BY LenProperties DEF SameRows
<1>2. Numbered(k)
  BY <1>1 DEF Numbered, Rows, SameRows
<1>3. SnapsGood(k)
  <2> SUFFICES ASSUME NEW s \in 1 .. Len(k), k[s].snap # NoSnap
               PROVE  SnapGood(k, s)
    BY DEF SnapsGood
  <2>1. s \in 1 .. Len(l) /\ k[s].snap = l[s].snap
    BY <1>1
  <2>2. SnapGood(l, s)
    BY <2>1 DEF Rows, SnapsGood
  <2>3. s <= Len(k) /\ \A i \in 1 .. s : l[i].msg = k[i].msg
    BY <1>1, <2>1 DEF SameRows
  <2> QED
    BY <2>1, <2>2, <2>3, SnapStays
<1> QED
  BY <1>2, <1>3 DEF Rows

\* What a new process remembers depends on the newest snapshot only.
LEMMA SameMemory ==
  ASSUME NEW l \in Seq(Row), NEW k \in Seq(Row), Rows(l), SameRows(l, k),
         LatestSnap(k) = LatestSnap(l), SavedPart(k) = SavedPart(l)
  PROVE  /\ Replay(k).mem = Replay(l).mem
         /\ Trimmed(k, 1, Len(k)) = Trimmed(l, 1, Len(l))
<1> DEFINE s == LatestSnap(l)
<1>1. /\ Len(l) \in Nat /\ Len(k) = Len(l) /\ s + 1 \in Nat \ {0}
      /\ Len(l) <= Len(l) /\ 1 \in Nat \ {0}
  BY LenProperties, LatestExists DEF IsLatest, SameRows
<1>2. /\ Replay(k).mem = SavedPart(k) \cup Trimmed(k, s + 1, Len(k))
      /\ Replay(l).mem = SavedPart(l) \cup Trimmed(l, s + 1, Len(l))
  BY ReplayMemory
<1> HIDE DEF s
<1>3. Trimmed(k, s + 1, Len(k)) = Trimmed(l, s + 1, Len(l))
  BY <1>1, SameRowsTrimmed
<1>4. Trimmed(k, 1, Len(k)) = Trimmed(l, 1, Len(l))
  BY <1>1, SameRowsTrimmed
<1> QED
  BY <1>2, <1>3, <1>4

LEMMA SameSnaps ==
  ASSUME NEW l \in Seq(Row), NEW k \in Seq(Row), Rows(l), SameRows(l, k),
         \A i \in 1 .. Len(l) : k[i].snap = l[i].snap
  PROVE  Rows(k) /\ LatestSnap(k) = LatestSnap(l) /\ SavedPart(k) = SavedPart(l)
<1>1. Rows(k)
  BY FewerSnaps
<1>2. Len(k) = Len(l)
  BY DEF SameRows
<1>3. IsLatest(l, LatestSnap(l))
  BY LatestExists
<1>4. IsLatest(k, LatestSnap(l))
  BY <1>2, <1>3 DEF IsLatest
<1>5. LatestSnap(k) = LatestSnap(l)
  BY <1>1, <1>4, LatestIs
<1> QED
  BY <1>1, <1>3, <1>5 DEF SavedPart, IsLatest

\* A row of statistics changes nothing that is remembered.
LEMMA StatsAgree ==
  ASSUME NEW l \in Seq(Row), NEW k \in Seq(Row), Rows(l), SameRows(l, k),
         \A i \in 1 .. Len(l) : k[i].snap = l[i].snap /\ k[i].side = l[i].side
  PROVE  /\ Rows(k) /\ Replay(k).mem = Replay(l).mem
         /\ \A ms, idx, sd : Agrees(l, ms, idx, sd) => Agrees(k, ms, idx, sd)
<1>1. Rows(k) /\ LatestSnap(k) = LatestSnap(l) /\ SavedPart(k) = SavedPart(l)
  BY SameSnaps
<1>2. /\ Replay(k).mem = Replay(l).mem
      /\ Trimmed(k, 1, Len(k)) = Trimmed(l, 1, Len(l))
  BY <1>1, SameMemory
<1>3. Replay(k).side = Replay(l).side
  <2>1. Len(k) = Len(l)
    BY DEF SameRows
  <2> QED
    BY <2>1, SameSide
<1> QED
  BY <1>1, <1>2, <1>3 DEF Agrees

\* The state saved at the last row is the one that is remembered.
LEMMA SideAgrees ==
  ASSUME NEW l \in Seq(Row), Rows(l), Len(l) # 0, NEW sd \in Sides
  PROVE  LET k == [l EXCEPT ![Len(l)].side = sd]
         IN  /\ Rows(k) /\ Replay(k).mem = Replay(l).mem
             /\ \A ms, idx, old : Agrees(l, ms, idx, old) => Agrees(k, ms, idx, sd)
<1> DEFINE k == [l EXCEPT ![Len(l)].side = sd]
           n == Len(l)
<1>1. n \in Nat /\ n \in 1 .. n /\ DOMAIN l = 1 .. n
  BY LenProperties
<1>2. /\ k \in Seq(Row) /\ Len(k) = n
      /\ \A i \in 1 .. n : k[i].msg = l[i].msg
      /\ k[n].side = sd /\ \A i \in 1 .. n : k[i].snap = l[i].snap
  BY <1>1, SideRow
<1> HIDE DEF k
<1>4. SameRows(l, k)
  BY <1>2 DEF SameRows
<1>5. Rows(k) /\ LatestSnap(k) = LatestSnap(l) /\ SavedPart(k) = SavedPart(l)
  BY <1>2, <1>4, SameSnaps
<1>6. /\ Replay(k).mem = Replay(l).mem
      /\ Trimmed(k, 1, Len(k)) = Trimmed(l, 1, Len(l))
  BY <1>2, <1>4, <1>5, SameMemory
<1>7. Replay(k).side = sd
  <2>1. k # << >>
    BY <1>1, <1>2, EmptySeq
  <2>2. sd # NoSide
    BY SideAssumption
  <2> QED
    BY <1>2, <2>1, <2>2, LastSide
<1>8. \A ms, idx, old : Agrees(l, ms, idx, old) => Agrees(k, ms, idx, sd)
  BY <1>6, <1>7 DEF Agrees
<1> QED
  BY <1>5, <1>6, <1>8 DEF k

\* What is left of a transcript cut behind a user message is well formed.
LEMMA TruncateKeepsRows ==
  ASSUME NEW l \in Seq(Row), Rows(l), NEW seq \in 1 .. Len(l),
         l[seq].msg.role = "user"
  PROVE  Rows(Truncate(l, seq))
<1> DEFINE k == Truncate(l, seq)
<1>1. /\ k \in Seq(Row) /\ Len(k) = seq
      /\ \A i \in 1 .. seq : k[i].msg = l[i].msg
      /\ \A i \in 1 .. seq : i < seq => k[i] = l[i]
      /\ Len(l) \in Nat /\ seq \in Nat /\ seq <= Len(l)
  BY TruncateRows, LenProperties
<1>2. k[seq].snap = NoSnap
  BY <1>1 DEF Truncate, RowOf
<1> HIDE DEF k
<1>3. Numbered(k)
  BY <1>1 DEF Rows, Numbered
<1>4. SnapsGood(k)
  <2> SUFFICES ASSUME NEW s \in 1 .. Len(k), k[s].snap # NoSnap
               PROVE  SnapGood(k, s)
    BY DEF SnapsGood
  <2>1. s \in 1 .. Len(l) /\ s < seq /\ k[s] = l[s] /\ s <= Len(k)
    BY <1>1, <1>2
  <2>2. SnapGood(l, s)
    BY <2>1 DEF Rows, SnapsGood
  <2>3. \A i \in 1 .. s : l[i].msg = k[i].msg
    BY <1>1, <2>1
  <2> QED
    BY <1>1, <2>1, <2>2, <2>3, SnapStays
<1> QED
  BY <1>3, <1>4 DEF Rows, k

-----------------------------------------------------------------------------
(* Compaction *)

\* save_compaction anchors its snapshot at the last row, and of the others the
\* newest stays.
LEMMA SnapshotShape ==
  ASSUME log \in Seq(Row), NEW snap \in Snap, Len(log) # 0
  PROVE  LET k == SaveSnapshot(snap)
             n == Len(log)
         IN  /\ k \in Seq(Row) /\ SameRows(log, k)
             /\ \A i \in 1 .. n : k[i].side = log[i].side
             /\ \A i \in 1 .. n : i # n => k[i].snap \in {NoSnap, log[i].snap}
             /\ k[n].snap = snap
             /\ \A i \in 1 .. n :
                  /\ i # n
                  /\ \A o \in 1 .. n : log[o].snap # NoSnap => o = n \/ o <= i
                  => k[i].snap = log[i].snap
<1> DEFINE k == SaveSnapshot(snap)
           n == Len(log)
           bodies == {i \in DOMAIN log : log[i].snap # NoSnap} \ {n}
<1>1. DOMAIN log = 1 .. n /\ n \in Nat /\ n \in 1 .. n
  BY LenProperties
<1>2. k \in Seq(Row) /\ SameRows(log, k)
  BY SnapshotRows DEF SameRows
<1>3. \A i \in 1 .. n :
        k[i] = IF i = n THEN [log[i] EXCEPT !.snap = snap]
               ELSE IF \E o \in bodies : i < o THEN [log[i] EXCEPT !.snap = NoSnap]
               ELSE log[i]
  BY <1>1 DEF SaveSnapshot
<1>4. \A o \in bodies : /\ o \in 1 .. n /\ o # n /\ log[o].snap # NoSnap
                        /\ o \in Nat
  BY <1>1
<1> HIDE DEF k, bodies
<1>5. ASSUME NEW i \in 1 .. n
      PROVE  /\ k[i].side = log[i].side
             /\ i # n => k[i].snap \in {NoSnap, log[i].snap}
             /\ i = n => k[i].snap = snap
             /\ i # n /\ ~(\E o \in bodies : i < o) => k[i].snap = log[i].snap
  <2>1. log[i] \in Row
    BY ElementOfSeq
  <2>2. \A s \in Snap \cup {NoSnap} :
          LET r == [log[i] EXCEPT !.snap = s]
          IN  r.side = log[i].side /\ r.snap = s
    BY <2>1 DEF Row
  <2>3. CASE i = n
    <3>1. k[i] = [log[i] EXCEPT !.snap = snap]
      BY <1>3, <2>3
    <3>2. k[i].side = log[i].side /\ k[i].snap = snap
      BY <2>2, <3>1
    <3> QED
      BY <2>3, <3>2
  <2>4. CASE i # n /\ \E o \in bodies : i < o
    BY <1>3, <2>2, <2>4
  <2>5. CASE i # n /\ ~(\E o \in bodies : i < o)
    BY <1>3, <2>5
  <2> QED
    BY <2>3, <2>4, <2>5
<1>6. \A i \in 1 .. n : i \in Nat
  OBVIOUS
<1>7. ASSUME NEW i \in 1 .. n, i # n,
             \A o \in 1 .. n : log[o].snap # NoSnap => o = n \/ o <= i
      PROVE  k[i].snap = log[i].snap
  <2>1. ASSUME NEW o \in bodies, i < o
        PROVE  FALSE
    <3>1. o \in 1 .. n /\ o # n /\ o <= i
      BY <1>4, <1>7
    <3>2. i \in Nat /\ o \in Nat
      BY <1>4, <1>6
    <3> QED
      BY <2>1, <3>1, <3>2
  <2> QED
    BY <1>5, <1>7, <2>1
<1>8. k[n].snap = snap
  BY <1>1, <1>5
<1> QED
  BY <1>2, <1>5, <1>7, <1>8 DEF k

\* The working set a compaction leaves at the user message of a turn.
CompactSet(tail) ==
  /\ tail # {}
  /\ IsNewestOf(tail, Trimmed(log, 1, Len(log)))
  /\ \A m \in tail : m.t <= turn
  /\ turnIndex = Assistants(Trimmed(log, 1, Len(log)))
  /\ log[Len(log)].msg.role = "user" /\ log[Len(log)].msg.t = turn

LEMMA CompactRows ==
  ASSUME log \in Seq(Row), Rows(log), Len(log) # 0, turn \in Nat,
         turnIndex \in Nat, NEW tail, CompactSet(tail)
  PROVE  LET k == SaveSnapshot([mem |-> tail \cup {Summary}, idx |-> turnIndex])
         IN  /\ k \in Seq(Row) /\ SameRows(log, k) /\ Rows(k)
             /\ Replay(k).mem = tail \cup {Summary}
             /\ Trimmed(k, 1, Len(k)) = Trimmed(log, 1, Len(log))
             /\ Replay(k).side = Replay(log).side
<1> DEFINE n == Len(log)
           body == tail \cup {Summary}
           snap == [mem |-> body, idx |-> turnIndex]
           k == SaveSnapshot(snap)
           All == Trimmed(log, 1, n)
<1>1. n \in Nat /\ n \in 1 .. n /\ n <= n /\ 1 \in Nat \ {0} /\ n # 0
  BY LenProperties
<1>2. All \in SUBSET Msg /\ \A m \in All : m.n \in 1 .. n /\ m.role # "summary"
  BY <1>1, TrimmedTyped, TrimmedNumbers DEF Rows
<1>3. /\ Summary \in Msg /\ Summary.role = "summary" /\ Summary.n = 0
      /\ Summary.t = turn
  BY DEF Summary, Msg, Roles
<1> HIDE DEF All
<1>4. tail \subseteq All /\ \A m \in tail, o \in All \ tail : o.n < m.n
  BY DEF CompactSet, IsNewestOf, All
<1>5. snap \in Snap /\ snap.mem = body /\ snap.idx = turnIndex
  <2>1. body \in SUBSET Msg
    BY <1>2, <1>3, <1>4
  <2> HIDE DEF body
  <2> QED
    BY <2>1 DEF Snap
<1> HIDE DEF snap
<1>6. /\ k \in Seq(Row) /\ SameRows(log, k)
      /\ \A i \in 1 .. n : k[i].side = log[i].side
      /\ \A i \in 1 .. n : i # n => k[i].snap \in {NoSnap, log[i].snap}
      /\ k[n].snap = snap
  BY <1>1, <1>5, SnapshotShape
<1> HIDE DEF k
<1>7. Len(k) = n /\ \A i \in 1 .. n : log[i].msg = k[i].msg
  BY <1>6 DEF SameRows
<1>8. Summaries(body) = {Summary} /\ Dialog(body) = tail
  <2>1. \A m \in tail : m.role # "summary"
    BY <1>2, <1>4
  <2> QED
    BY <1>3, <2>1 DEF Summaries, Dialog
<1>9. log[n].msg \in tail
  <2>1. log[n].msg \in All /\ log[n].msg.n = n
    <3>1. Trimmed(log, 1, n) = Trimmed(log, 1, n - 1) \cup {log[n].msg}
      BY <1>1, KeptAlone DEF CompactSet
    <3> QED
      BY <1>1, <3>1 DEF All, Rows, Numbered
  <2>2. PICK m \in tail : TRUE
    BY DEF CompactSet
  <2>3. m.n \in 1 .. n
    BY <1>2, <1>4, <2>2
  <2>4. ~(n < m.n)
    BY <1>1, <2>3
  <2> QED
    BY <1>4, <2>1, <2>2, <2>4
<1>10. SnapGood(k, n)
  <2>1. k[n].msg = log[n].msg
    BY <1>1, <1>7
  <2>2. Trimmed(k, 1, n) = All
    BY <1>1, <1>6, SameRowsTrimmed DEF All
  <2>3. \A m \in body : m.t <= turn
    BY <1>3 DEF CompactSet
  <2>4. IsNewestOf(tail, All) /\ turnIndex = Assistants(All)
    BY DEF CompactSet, All
  <2>5. k[n].msg.role = "user" /\ k[n].msg.t = turn
    BY <2>1 DEF CompactSet
  <2>6. k[n].msg \in body
    BY <1>9, <2>1
  <2>7. \A m \in Summaries(body) : m.n = 0
    BY <1>3, <1>8
  <2>8. k[n].snap.mem = body /\ k[n].snap.idx = turnIndex
    BY <1>5, <1>6
  <2> HIDE DEF body
  <2> QED
    BY <1>8, <2>2, <2>3, <2>4, <2>5, <2>6, <2>7, <2>8 DEF SnapGood
<1>11. Rows(k)
  <2>1. Numbered(k)
    BY <1>7 DEF Rows, Numbered
  <2>2. SnapsGood(k)
    <3> SUFFICES ASSUME NEW s \in 1 .. n, k[s].snap # NoSnap
                 PROVE  SnapGood(k, s)
      BY <1>7 DEF SnapsGood
    <3>1. CASE s = n
      BY <1>10, <3>1
    <3>2. CASE s # n
      <4>1. log[s].snap = k[s].snap
        BY <1>6, <3>2
      <4>2. SnapGood(log, s)
        BY <4>1 DEF Rows, SnapsGood
      <4>3. s <= Len(k) /\ \A i \in 1 .. s : log[i].msg = k[i].msg
        BY <1>1, <1>7
      <4> QED
        BY <1>6, <4>1, <4>2, <4>3, SnapStays
    <3> QED
      BY <3>1, <3>2
  <2> QED
    BY <2>1, <2>2 DEF Rows
<1>12. LatestSnap(k) = n
  <2>1. snap # NoSnap
    BY <1>5, SentinelAssumption
  <2>2. IsLatest(k, n)
    BY <1>1, <1>6, <1>7, <2>1 DEF IsLatest
  <2> QED
    BY <1>6, <1>11, <2>2, LatestIs
<1>13. Replay(k).mem = body
  <2>1. Replay(k).mem = SavedPart(k) \cup Trimmed(k, n + 1, n)
    BY <1>7, <1>12, ReplayMemory
  <2>2. SavedPart(k) = body
    BY <1>1, <1>5, <1>6, <1>12 DEF SavedPart
  <2>3. Trimmed(k, n + 1, n) = {}
    <3>1. \A i \in n + 1 .. n : FALSE
      BY <1>1
    <3> QED
      BY <3>1, TrimmedMember
  <2> QED
    BY <2>1, <2>2, <2>3
<1>14. Trimmed(k, 1, Len(k)) = Trimmed(log, 1, n)
  BY <1>1, <1>6, <1>7, SameRowsTrimmed
<1>15. Replay(k).side = Replay(log).side
  BY <1>6, <1>7, SameSide
<1> QED
  BY <1>6, <1>11, <1>13, <1>14, <1>15 DEF k, snap, body

-----------------------------------------------------------------------------
(* The block of a reply with calls *)

\* The rows from a on are a reply with calls and the results so far.
LastBlock(l, a) ==
  /\ a \in 1 .. Len(l)
  /\ l[a].msg.role = "assistant" /\ l[a].msg.calls # 0
  /\ Len(l) <= a + l[a].msg.calls
  /\ \A j \in a + 1 .. Len(l) : l[j].msg.role = "tool"

BlockOf(l, a) == {l[i].msg : i \in a .. Len(l)}

\* What a new process would remember of the rows before a.
Before(l, a) == SavedPart(l) \cup Trimmed(l, LatestSnap(l) + 1, a - 1)

LEMMA BlockMember ==
  ASSUME NEW l, NEW a, NEW m
  PROVE  m \in BlockOf(l, a) <=> \E i \in a .. Len(l) : m = l[i].msg
  BY DEF BlockOf

\* No snapshot hangs at a block.
LEMMA BlockCut ==
  ASSUME NEW l \in Seq(Row), Rows(l), NEW a, LastBlock(l, a)
  PROVE  /\ Cut(l, a) /\ a \in Nat /\ a # 0 /\ a - 1 \in Nat /\ a <= Len(l)
         /\ LatestSnap(l) \in Nat /\ LatestSnap(l) + 1 <= a
         /\ LatestSnap(l) + 1 \in Nat \ {0}
<1> DEFINE s == LatestSnap(l)
<1>1. Len(l) \in Nat /\ a \in 1 .. Len(l) /\ l[a].msg.role = "assistant"
  BY LenProperties DEF LastBlock
<1>2. Cut(l, a)
  BY <1>1 DEF Cut
<1>3. IsLatest(l, s)
  BY LatestExists
<1> HIDE DEF s
<1>4. s \in Nat /\ s <= Len(l)
  BY <1>1, <1>3 DEF IsLatest
<1>5. s < a
  <2>1. CASE s = 0
    BY <1>1, <2>1
  <2>2. CASE s # 0
    <3>1. s \in 1 .. Len(l) /\ l[s].msg.role = "user"
      BY <1>1, <1>3, <2>2 DEF IsLatest, Rows, SnapsGood, SnapGood
    <3>2. s # a
      BY <1>1, <3>1
    <3>3. ~(s > a)
      <4>1. SUFFICES ASSUME s > a PROVE FALSE
        OBVIOUS
      <4>2. s \in a + 1 .. Len(l)
        BY <1>1, <3>1, <4>1
      <4> QED
        BY <3>1, <4>2 DEF LastBlock
    <3> QED
      BY <1>1, <1>4, <3>2, <3>3
  <2> QED
    BY <2>1, <2>2
<1>6. a \in Nat /\ a # 0 /\ a - 1 \in Nat /\ a <= Len(l) /\ s + 1 <= a /\ s + 1 \in Nat \ {0}
  BY <1>1, <1>4, <1>5
<1> QED
  BY <1>2, <1>4, <1>6 DEF s

\* What is kept of the block is behind what was kept before it.
LEMMA BlockParts ==
  ASSUME NEW l \in Seq(Row), Rows(l), NEW a, LastBlock(l, a)
  PROVE  /\ Replay(l).mem = Before(l, a) \cup Trimmed(l, a, Len(l))
         /\ Trimmed(l, 1, Len(l)) =
              Trimmed(l, 1, a - 1) \cup Trimmed(l, a, Len(l))
         /\ Trimmed(l, a, Len(l)) \subseteq BlockOf(l, a)
<1> DEFINE s == LatestSnap(l)
<1>1. /\ a \in Nat /\ a - 1 \in Nat /\ a <= Len(l) /\ a # 0
      /\ s + 1 <= a /\ s + 1 \in Nat /\ Len(l) \in Nat
  BY BlockCut, LenProperties
<1>2. Replay(l).mem = SavedPart(l) \cup Trimmed(l, s + 1, Len(l))
  BY ReplayMemory
<1> HIDE DEF s
<1>3. (a - 1) + 1 = a /\ s + 1 <= (a - 1) + 1 /\ a - 1 <= Len(l) /\ 1 <= (a - 1) + 1
  BY <1>1
<1>4. Trimmed(l, s + 1, Len(l)) =
        Trimmed(l, s + 1, a - 1) \cup Trimmed(l, (a - 1) + 1, Len(l))
  <2> DEFINE f == s + 1
             e == a - 1
  <2>1. f \in Nat /\ e \in Nat /\ Len(l) \in Nat /\ f <= e + 1 /\ e <= Len(l)
    BY <1>1, <1>3
  <2> HIDE DEF f, e
  <2>2. Trimmed(l, f, Len(l)) = Trimmed(l, f, e) \cup Trimmed(l, e + 1, Len(l))
    BY <2>1, TrimmedParts
  <2> QED
    BY <2>2 DEF f, e
<1>5. Trimmed(l, 1, Len(l)) =
        Trimmed(l, 1, a - 1) \cup Trimmed(l, (a - 1) + 1, Len(l))
  <2> 1 \in Nat /\ Len(l) \in Nat /\ a - 1 \in Nat
    BY <1>1
  <2> QED
    BY <1>3, TrimmedParts
<1>6. Trimmed(l, a, Len(l)) \subseteq BlockOf(l, a)
  BY TrimmedMember, BlockMember
<1>7. Before(l, a) = SavedPart(l) \cup Trimmed(l, s + 1, a - 1)
  BY DEF Before, s
<1> QED
  BY <1>2, <1>3, <1>4, <1>5, <1>6, <1>7

\* A complete block is kept, and is one reply.
LEMMA BlockCloses ==
  ASSUME NEW l \in Seq(Row), Rows(l), NEW a, LastBlock(l, a),
         Len(l) = a + l[a].msg.calls
  PROVE  /\ Replay(l).mem = Before(l, a) \cup BlockOf(l, a)
         /\ Assistants(Trimmed(l, 1, Len(l))) =
              Assistants(Trimmed(l, 1, a - 1)) + 1
<1>1. /\ a \in Nat /\ a - 1 \in Nat /\ a <= Len(l) /\ a # 0
      /\ Len(l) \in Nat /\ a \in 1 .. Len(l)
  BY BlockCut, LenProperties DEF LastBlock
<1>2. l[a].msg.role = "assistant" /\ Answered(l, a)
  BY DEF LastBlock, Answered
<1>3. \A i \in a .. Len(l) : Kept(l, i)
  <2> SUFFICES ASSUME NEW i \in a .. Len(l)
               PROVE  Kept(l, i)
    OBVIOUS
  <2>1. CASE i = a
    BY <1>2, <2>1 DEF Kept
  <2>2. CASE i # a
    <3>1. i \in a + 1 .. Len(l) /\ a \in 1 .. i - 1 /\ i <= a + l[a].msg.calls
      BY <1>1, <2>2
    <3>2. l[i].msg.role = "tool"
      BY <3>1 DEF LastBlock
    <3> QED
      BY <1>2, <3>1, <3>2 DEF Kept
  <2> QED
    BY <2>1, <2>2
<1>4. Trimmed(l, a, Len(l)) = BlockOf(l, a)
  <2>1. \A m : m \in Trimmed(l, a, Len(l)) <=> m \in BlockOf(l, a)
    BY <1>3, TrimmedMember, BlockMember
  <2> QED
    BY <2>1
<1> DEFINE T == Trimmed(l, 1, a - 1)
           tools == BlockOf(l, a) \ {l[a].msg}
<1>5. /\ Replay(l).mem = Before(l, a) \cup BlockOf(l, a)
      /\ Trimmed(l, 1, Len(l)) = T \cup BlockOf(l, a)
  BY <1>4, BlockParts
<1>6. l[a].msg \in BlockOf(l, a)
  BY <1>1, BlockMember
<1>7. \A m \in tools : m.role # "assistant"
  <2> SUFFICES ASSUME NEW m \in tools
               PROVE  m.role # "assistant"
    OBVIOUS
  <2>1. PICK i \in a .. Len(l) : m = l[i].msg
    BY BlockMember
  <2>2. i # a
    BY <2>1
  <2>3. i \in a + 1 .. Len(l)
    BY <1>1, <2>1, <2>2
  <2> QED
    BY <2>1, <2>3 DEF LastBlock
<1>8. Trimmed(l, 1, Len(l)) = (T \cup {l[a].msg}) \cup tools
  BY <1>5, <1>6
<1> HIDE DEF tools
<1>9. Assistants(Trimmed(l, 1, Len(l))) = Assistants(T \cup {l[a].msg})
  BY <1>7, <1>8, AssistantsNone
<1>10. IsFiniteSet(T) /\ T \cap {l[a].msg} = {}
  <2>1. a - 1 <= Len(l) /\ 1 \in Nat \ {0}
    BY <1>1
  <2>2. IsFiniteSet(T) /\ \A m \in T : m.n \in 1 .. a - 1
    BY <1>1, <2>1, TrimmedTyped, TrimmedNumbers DEF Rows
  <2>3. l[a].msg.n = a
    BY <1>1 DEF Rows, Numbered
  <2>4. a \notin 1 .. a - 1
    BY <1>1
  <2> QED
    BY <2>2, <2>3, <2>4
<1> HIDE DEF T
<1>11. Assistants(T \cup {l[a].msg}) = Assistants(T) + Assistants({l[a].msg})
  BY <1>10, AssistantsUnion, AssistantsOne
<1>12. Assistants({l[a].msg}) = 1
  BY <1>2, AssistantsOne
<1> QED
  BY <1>5, <1>9, <1>11, <1>12 DEF T

\* Rows written behind keep what is kept.
LEMMA KeptGrows ==
  ASSUME NEW l \in Seq(Row), NEW r, NewRow(l, r), NEW i \in 1 .. Len(l),
         Kept(l, i)
  PROVE  Kept(Append(l, r), i)
<1> DEFINE k == Append(l, r)
<1>1. /\ k \in Seq(Row) /\ Len(k) = Len(l) + 1 /\ Len(l) \in Nat
      /\ \A j \in 1 .. Len(l) : k[j] = l[j]
  BY AppendedRows, LenProperties
<1> HIDE DEF k
<1>2. ASSUME NEW a \in 1 .. Len(l), Answered(l, a)
      PROVE  Answered(k, a)
  <2> DEFINE c == l[a].msg.calls
  <2>1. c \in Nat /\ k[a].msg.calls = c /\ a \in Nat
    BY <1>1, RowTyped
  <2>2. a + c <= Len(l) /\ \A j \in a + 1 .. a + c : l[j].msg.role = "tool"
    BY <1>2 DEF Answered
  <2> HIDE DEF c
  <2>3. \A j \in a + 1 .. a + c : j \in 1 .. Len(l)
    BY <1>1, <2>1, <2>2
  <2>4. a + c <= Len(k)
    BY <1>1, <2>1, <2>2
  <2>5. \A j \in a + 1 .. a + c : k[j].msg.role = "tool"
    BY <1>1, <2>2, <2>3
  <2> QED
    BY <2>1, <2>4, <2>5 DEF Answered
<1>3. k[i] = l[i] /\ \A a \in 1 .. i - 1 : a \in 1 .. Len(l) /\ k[a] = l[a]
  BY <1>1
<1>4. Kept(k, i)
  BY <1>2, <1>3 DEF Kept
<1> QED
  BY <1>4 DEF k

\* The newest block is all in memory, and memory is the newest of what was
\* kept before it and of the block.
BlockHeld(l, a, ms, idx) ==
  /\ LastBlock(l, a)
  /\ BlockOf(l, a) \subseteq ms
  /\ IsNewestOf(ms, Before(l, a) \cup BlockOf(l, a))
  /\ idx = Assistants(Trimmed(l, 1, a - 1)) + 1

\* What was kept before row a of a longer transcript.
LEMMA BeforeSame ==
  ASSUME NEW l \in Seq(Row), Rows(l), NEW r, NewRow(l, r),
         NEW a \in 1 .. Len(l) + 1, Append(l, r)[a].msg.role = "assistant",
         LatestSnap(l) + 1 <= a
  PROVE  /\ Before(Append(l, r), a) = Before(l, a)
         /\ Trimmed(Append(l, r), 1, a - 1) = Trimmed(l, 1, a - 1)
<1> DEFINE k == Append(l, r)
           s == LatestSnap(l)
<1>1. /\ k \in Seq(Row) /\ Len(k) = Len(l) + 1 /\ Len(l) \in Nat
      /\ \A i \in 1 .. Len(l) : k[i] = l[i]
  BY AppendedRows, LenProperties
<1>2. LatestSnap(k) = s /\ SavedPart(k) = SavedPart(l)
  BY AppendKeepsRows
<1>3. s \in Nat
  BY <1>1, LatestExists DEF IsLatest
<1>4. k[a].msg.role = "assistant" /\ s + 1 <= a
  OBVIOUS
<1> HIDE DEF k, s
<1>5. a \in Nat /\ a - 1 \in Nat /\ a - 1 <= a - 1 /\ s + 1 \in Nat \ {0} /\ 1 \in Nat \ {0}
  BY <1>1, <1>3
<1>6. Cut(l, a) /\ Cut(k, a) /\ SameUpTo(l, k, a)
  BY <1>1, <1>4 DEF Cut, SameUpTo
<1>7. Trimmed(l, s + 1, a - 1) = Trimmed(k, s + 1, a - 1)
  BY <1>1, <1>5, <1>6, SameTrimmed
<1>8. Trimmed(l, 1, a - 1) = Trimmed(k, 1, a - 1)
  BY <1>1, <1>5, <1>6, SameTrimmed
<1>9. Before(k, a) = Before(l, a)
  BY <1>2, <1>7 DEF Before, s
<1> QED
  BY <1>8, <1>9 DEF k

\* A reply with calls opens a block.
LEMMA BlockOpens ==
  ASSUME NEW l \in Seq(Row), Rows(l), NEW r, NewRow(l, r),
         r.msg.role = "assistant", r.msg.calls \in Nat \ {0},
         NEW ms, NEW idx, NEW sd, Agrees(l, ms, idx, sd)
  PROVE  BlockHeld(Append(l, r), Len(l) + 1, ms \cup {r.msg}, idx + 1)
<1> DEFINE k == Append(l, r)
           a == Len(l) + 1
           R == Replay(l).mem
<1>1. /\ k \in Seq(Row) /\ Len(k) = a /\ Len(l) \in Nat /\ k[a] = r
      /\ a \in 1 .. a /\ a - 1 = Len(l) /\ LatestSnap(l) <= Len(l)
      /\ LatestSnap(l) \in Nat
  BY AppendedRows, LenProperties, LatestExists DEF IsLatest
<1>2. LatestSnap(l) + 1 <= a
  BY <1>1
<1>3. Before(k, a) = Before(l, a) /\ Trimmed(k, 1, a - 1) = Trimmed(l, 1, a - 1)
  BY <1>1, <1>2, BeforeSame
<1>4. Before(l, a) = R
  BY <1>1, ReplayMemory DEF Before
<1>5. LastBlock(k, a)
  BY <1>1 DEF LastBlock
<1>6. BlockOf(k, a) = {r.msg}
  <2> HIDE DEF k
  <2>1. \A i : i \in a .. Len(k) <=> i = a
    BY <1>1
  <2> HIDE DEF a
  <2>2. \A m : m \in BlockOf(k, a) <=> m = r.msg
    BY <1>1, <2>1, BlockMember
  <2> QED
    BY <2>2
<1>7. \A o \in R : o.n < r.msg.n
  <2>1. \A o \in R : o.n = 0 \/ o.n \in 1 .. Len(l)
    BY RememberedNumbers
  <2> QED
    BY <1>1, <2>1 DEF NewRow
<1>8. IsNewestOf(ms, R) /\ idx = Assistants(Trimmed(l, 1, Len(l)))
  BY DEF Agrees
<1> HIDE DEF R, k, a
<1>9. IsNewestOf(ms \cup {r.msg}, R \cup {r.msg})
  BY <1>7, <1>8, NewestGrows
<1> QED
  BY <1>1, <1>3, <1>4, <1>5, <1>6, <1>8, <1>9 DEF BlockHeld, k, a

\* A result joins the block.
LEMMA BlockGrows ==
  ASSUME NEW l \in Seq(Row), Rows(l), NEW r, NewRow(l, r), r.msg.role = "tool",
         NEW a, NEW ms, NEW idx, BlockHeld(l, a, ms, idx),
         Len(l) < a + l[a].msg.calls
  PROVE  BlockHeld(Append(l, r), a, ms \cup {r.msg}, idx)
<1> DEFINE k == Append(l, r)
           P == Before(l, a)
           B == BlockOf(l, a)
<1>1. /\ k \in Seq(Row) /\ Len(k) = Len(l) + 1 /\ Len(l) \in Nat
      /\ \A i \in 1 .. Len(l) : k[i] = l[i]
      /\ k[Len(l) + 1] = r
  BY AppendedRows, LenProperties
<1>2. LastBlock(l, a) /\ B \subseteq ms /\ IsNewestOf(ms, P \cup B)
  BY DEF BlockHeld
<1>3. /\ a \in Nat /\ a <= Len(l) /\ a \in 1 .. Len(l) /\ LatestSnap(l) + 1 <= a
      /\ l[a].msg.role = "assistant" /\ l[a].msg.calls \in Nat
  BY <1>2, BlockCut, RowTyped DEF LastBlock
<1>4. k[a] = l[a] /\ a \in 1 .. Len(l) + 1
  BY <1>1, <1>3
<1>5. Before(k, a) = P /\ Trimmed(k, 1, a - 1) = Trimmed(l, 1, a - 1)
  BY <1>3, <1>4, BeforeSame
<1> HIDE DEF k
<1>6. LastBlock(k, a)
  <2>1. \A j \in a + 1 .. Len(k) : j \in a + 1 .. Len(l) \/ j = Len(l) + 1
    BY <1>1, <1>3
  <2>2. \A j \in a + 1 .. Len(l) : j \in 1 .. Len(l)
    BY <1>3
  <2>3. \A j \in a + 1 .. Len(k) : k[j].msg.role = "tool"
    BY <1>1, <1>2, <2>1, <2>2 DEF LastBlock
  <2>4. Len(k) <= a + k[a].msg.calls
    BY <1>1, <1>3, <1>4
  <2> QED
    BY <1>1, <1>2, <1>4, <2>3, <2>4 DEF LastBlock
<1>7. BlockOf(k, a) = B \cup {r.msg}
  <2>1. \A i : i \in a .. Len(k) <=> i \in a .. Len(l) \/ i = Len(l) + 1
    BY <1>1, <1>3
  <2>2. \A i \in a .. Len(l) : k[i] = l[i]
    BY <1>1, <1>3
  <2>3. \A m : m \in BlockOf(k, a) <=> m \in B \/ m = r.msg
    BY <1>1, <2>1, <2>2, BlockMember
  <2> QED
    BY <2>3
<1>8. \A o \in P \cup B : o.n < r.msg.n
  <2>1. \A o \in B : o.n \in a .. Len(l)
    <3>1. \A i \in a .. Len(l) : l[i].msg.n = i
      BY <1>3 DEF Rows, Numbered
    <3> QED
      BY <3>1, BlockMember
  <2>2. \A o \in P : o \in Replay(l).mem
    BY <1>2, BlockParts
  <2>3. \A o \in Replay(l).mem : o.n = 0 \/ o.n \in 1 .. Len(l)
    BY RememberedNumbers
  <2>4. \A o \in P \cup B : o.n = 0 \/ o.n \in 1 .. Len(l)
    BY <1>3, <2>1, <2>2, <2>3
  <2> QED
    BY <1>1, <2>4 DEF NewRow
<1> HIDE DEF P, B
<1>9. IsNewestOf(ms \cup {r.msg}, (P \cup B) \cup {r.msg})
  <2> DEFINE Q == P \cup B
  <2>1. IsNewestOf(ms, Q) /\ \A o \in Q : o.n < r.msg.n
    BY <1>2, <1>8
  <2> HIDE DEF Q
  <2>2. IsNewestOf(ms \cup {r.msg}, Q \cup {r.msg})
    BY <2>1, NewestGrows
  <2> QED
    BY <2>2 DEF Q
<1>10. (P \cup B) \cup {r.msg} = P \cup (B \cup {r.msg})
  OBVIOUS
<1>11. B \cup {r.msg} \subseteq ms \cup {r.msg}
  BY <1>2
<1>12. idx = Assistants(Trimmed(l, 1, a - 1)) + 1
  BY DEF BlockHeld
<1> QED
  BY <1>5, <1>6, <1>7, <1>9, <1>10, <1>11, <1>12 DEF BlockHeld, k

\* With its last result the block is part of what agrees.
LEMMA BlockAgrees ==
  ASSUME NEW l \in Seq(Row), Rows(l), NEW a, NEW ms, NEW idx,
         BlockHeld(l, a, ms, idx), Len(l) = a + l[a].msg.calls
  PROVE  Agrees(l, ms, idx, Replay(l).side)
<1>1. LastBlock(l, a)
  BY DEF BlockHeld
<1>2. /\ Replay(l).mem = Before(l, a) \cup BlockOf(l, a)
      /\ Assistants(Trimmed(l, 1, Len(l))) = Assistants(Trimmed(l, 1, a - 1)) + 1
  BY <1>1, BlockCloses
<1>3. ms # {}
  <2>1. a \in a .. Len(l)
    BY <1>1, BlockCut, LenProperties
  <2>2. l[a].msg \in BlockOf(l, a)
    BY <2>1, BlockMember
  <2> QED
    BY <2>2 DEF BlockHeld
<1> QED
  BY <1>2, <1>3 DEF Agrees, BlockHeld

\* Writing into a block adds nothing to what a new process would remember but
\* messages of that block.
LEMMA MemoryGrows ==
  ASSUME NEW l \in Seq(Row), Rows(l), NEW r, NewRow(l, r), NEW a,
         LastBlock(Append(l, r), a)
  PROVE  /\ Replay(l).mem \subseteq Replay(Append(l, r)).mem
         /\ Replay(Append(l, r)).mem \subseteq
              Replay(l).mem \cup BlockOf(Append(l, r), a)
<1> DEFINE k == Append(l, r)
           s == LatestSnap(l)
<1>1. /\ k \in Seq(Row) /\ Len(k) = Len(l) + 1 /\ Len(l) \in Nat
      /\ \A i \in 1 .. Len(l) : k[i] = l[i]
  BY AppendedRows, LenProperties
<1>2. Rows(k) /\ LatestSnap(k) = s /\ SavedPart(k) = SavedPart(l)
  BY AppendKeepsRows
<1>3. /\ a \in Nat /\ a - 1 \in Nat /\ a <= Len(k) /\ s + 1 <= a /\ s + 1 \in Nat \ {0}
      /\ a # 0
  BY <1>1, <1>2, BlockCut
<1>4. /\ Replay(l).mem = SavedPart(l) \cup Trimmed(l, s + 1, Len(l))
      /\ Replay(k).mem = SavedPart(l) \cup Trimmed(k, s + 1, Len(k))
  BY <1>2, ReplayMemory
<1>5. k[a].msg.role = "assistant" /\ a \in 1 .. Len(l) + 1
  BY <1>1 DEF LastBlock
<1>6. Before(k, a) = Before(l, a)
  BY <1>3, <1>5, BeforeSame
<1>7. Replay(k).mem \subseteq Before(k, a) \cup BlockOf(k, a)
  BY <1>1, <1>2, BlockParts
<1>8. \A i \in 1 .. Len(l) : Kept(l, i) => Kept(k, i)
  BY KeptGrows
<1> HIDE DEF k
<1>9. Trimmed(l, s + 1, Len(l)) \subseteq Trimmed(k, s + 1, Len(k))
  <2>1. \A i \in s + 1 .. Len(l) : i \in s + 1 .. Len(k) /\ i \in 1 .. Len(l)
    BY <1>1, <1>3
  <2> QED
    BY <1>1, <1>8, <2>1, TrimmedMember
<1>10. Before(l, a) \subseteq Replay(l).mem
  <2>1. \A i \in s + 1 .. a - 1 : i \in s + 1 .. Len(l)
    BY <1>1, <1>3
  <2>2. Trimmed(l, s + 1, a - 1) \subseteq Trimmed(l, s + 1, Len(l))
    BY <2>1, TrimmedMember
  <2> QED
    BY <1>4, <2>2 DEF Before
<1>11. Replay(l).mem \subseteq Replay(k).mem
  BY <1>4, <1>9
<1>12. Replay(k).mem \subseteq Replay(l).mem \cup BlockOf(k, a)
  BY <1>6, <1>7, <1>10
<1> QED
  BY <1>11, <1>12 DEF k

-----------------------------------------------------------------------------
(* Memory and transcript through a turn *)

\* What is missing of the old messages is older than what is left of them.
Forgets(old, new) ==
  \A m \in Dialog(old) \cap new, o \in Dialog(old) \ new : o.n < m.n

\* m is from before the messages ms began.
Older(m, ms) == ms # {} /\ \A o \in Dialog(ms) : m.n < o.n

\* What a new process would add to the messages old: older ones, or messages
\* of the newest turn.
Restarts(l, old) ==
  /\ Forgets(old, Replay(l).mem)
  /\ \A m \in Replay(l).mem \ old : m.t = turn \/ Older(m, old)

\* Between turns memory is what the settled transcript gives.
IdleAgrees ==
  ckpt = NoCkpt =>
    /\ Agrees(Settled, mem, turnIndex, side)
    /\ \A m \in mem : m.t <= turn
    /\ pending # 0 => told = "voided" /\ Restarts(log, mem)

\* What a rollback restores is what transcript l cut at the user message gives.
Undoable(l) ==
  IF msgSeq = 0 THEN Agrees(l, ckpt.mem, ckpt.idx, ckpt.side)
  ELSE Agrees(Truncate(l, msgSeq), ckpt.mem \cup {l[msgSeq].msg},
              ckpt.idx, ckpt.side)

\* A running turn adds messages of its own and forgets the oldest.
Adds(ms) ==
  /\ \A m \in ms : m \in ckpt.mem \/ m.t = turn
  /\ Forgets(ckpt.mem, ms)
  /\ ckpt.mem # {} => ms # {}
  /\ \A o \in ckpt.mem : o.t < turn

UserKept(l) == msgSeq # 0 => l[msgSeq].msg \in Replay(l).mem

\* A turn that wrote l and has the messages ms in memory can be kept, voided
\* and restarted.
TurnOK(l, ms) ==
  Rows(l) /\ Undoable(l) /\ Adds(ms) /\ Restarts(l, ckpt.mem) /\ UserKept(l)

Current == Agrees(log, mem, turnIndex, side)

Begins ==
  mem = ckpt.mem /\ turnIndex = ckpt.idx /\ side = ckpt.side /\ told = "none"

Submitted ==
  /\ Len(log) = msgSeq
  /\ mem = ckpt.mem \cup {log[msgSeq].msg}
  /\ turnIndex = ckpt.idx

InBlock == \E a \in 1 .. Len(log) : a > msgSeq /\ BlockHeld(log, a, mem, turnIndex)

\* What memory is at each place of the turn.
PlaceOK(p) ==
  /\ p \in {"compact", "iter", "replied", "ending", "notices"} => Current
  /\ p = "pre" => Begins
  /\ p = "compact" => Submitted
  /\ p = "stream" => Agrees(log, mem, turnIndex - 1, side)
  /\ p \in {"calls", "tools", "results"} => InBlock
  /\ p = "calls" => side = Replay(log).side
  /\ p \in {"tools", "results"} => before = Replay(log).side

MemInv ==
  /\ Rows(log) /\ IdleAgrees
  /\ ckpt # NoCkpt => TurnOK(log, mem)
  /\ committed => Current
  /\ \A g \in Gens : lease = g => PlaceOK(pc[g])

\* All that is known of a state.
Known == IInv /\ CommittedStopped /\ MemInv

\* What is known while the lease is held.
LEMMA HeldKnows ==
  ASSUME Known, lease # NoGen
  PROVE  /\ IInv /\ ckpt # NoCkpt /\ ckpt \in Ckpt /\ pending = 0
         /\ statsSeq = msgSeq /\ Rows(log) /\ TurnOK(log, mem)
         /\ log \in Seq(Row) /\ Len(log) \in Nat /\ turn \in Nat /\ msgSeq \in Nat
         /\ turnIndex \in Nat /\ mem \in SUBSET Msg
         /\ side \in Sides
         /\ msgSeq # 0 => /\ msgSeq \in 1 .. Len(log)
                          /\ log[msgSeq].msg.role = "user"
                          /\ log[msgSeq].msg.t = turn
<1>1. IInv
  BY DEF Known
<1>2. ckpt # NoCkpt /\ ckpt \in Ckpt /\ pending = 0 /\ statsSeq = msgSeq
  BY <1>1, HeldLease, SentinelAssumption
<1>3. log \in Seq(Row) /\ Len(log) \in Nat
  BY <1>1, HeldLease
<1>4. turn \in Nat /\ msgSeq \in Nat /\ turnIndex \in Nat /\ mem \in SUBSET Msg
      /\ side \in Sides
  BY <1>1 DEF IInv, TypeOK
<1>5. msgSeq # 0 => /\ msgSeq \in 1 .. Len(log)
                    /\ log[msgSeq].msg.role = "user"
                    /\ log[msgSeq].msg.t = turn
  <2>1. msgSeq >= msgSeq
    BY <1>4
  <2> QED
    BY <1>1, <2>1, HeldLease
<1> QED
  BY <1>1, <1>2, <1>3, <1>4, <1>5 DEF Known, MemInv, TurnOK

\* What the generator inside its body knows.
LEMMA InsideKnows ==
  ASSUME Known, NEW g \in Gens, at[g] = "in"
  PROVE  lease = g /\ lease # NoGen /\ ~committed /\ PlaceOK(pc[g])
         /\ (pc[g] \in Committing => msgSeq # 0) /\ (pc[g] = "pre" => msgSeq = 0)
<1>1. lease = g /\ lease # NoGen /\ pc[g] # "none"
      /\ (pc[g] \in Committing => msgSeq # 0) /\ (pc[g] = "pre" => msgSeq = 0)
  BY InsideHolds DEF Known, IInv, PlacesAgree
<1>2. ~committed
  BY <1>1 DEF Known, CommittedStopped
<1> QED
  BY <1>1, <1>2 DEF Known, MemInv

\* A step of the generator that holds the lease and goes on in its turn.
LEMMA TurnStep ==
  ASSUME Known, NEW g \in Gens, at[g] = "in",
         lease' = lease, ckpt' = ckpt, turn' = turn, committed' = committed,
         NEW where, pc' = [pc EXCEPT ![g] = where], PlaceOK(where)',
         TurnOK(log, mem)'
  PROVE  MemInv'
<1>1. lease = g /\ ckpt # NoCkpt /\ ~committed
  BY InsideKnows, HeldKnows
<1>2. pc'[g] = where
  BY DEF Known, IInv, TypeOK
<1>3. Rows(log)'
  BY DEF TurnOK
<1>4. IdleAgrees' /\ ~committed' /\ (ckpt # NoCkpt => TurnOK(log, mem))'
  BY <1>1 DEF IdleAgrees
<1>5. \A h \in Gens : lease' = h => h = g
  BY <1>1
<1>6. (\A h \in Gens : lease = h => PlaceOK(pc[h]))'
  BY <1>2, <1>5
<1> QED
  BY <1>3, <1>4, <1>6 DEF MemInv

\* A step that neither writes the transcript nor touches the checkpoint keeps
\* the turn as it is as long as memory loses its oldest messages only.
LEMMA TurnStays ==
  ASSUME Known, lease # NoGen, ckpt' = ckpt, turn' = turn, msgSeq' = msgSeq,
         log' = log, Adds(mem')
  PROVE  TurnOK(log, mem)'
<1>1. TurnOK(log, mem)
  BY HeldKnows
<1>2. Rows(log') /\ Undoable(log)' /\ Restarts(log, ckpt.mem)' /\ UserKept(log)'
  BY <1>1 DEF TurnOK, Undoable, Restarts, UserKept
<1>3. Adds(mem)'
  BY DEF Adds
<1> QED
  BY <1>2, <1>3 DEF TurnOK

\* A place stays what it is when nothing it speaks of changes.
LEMMA SamePlace ==
  ASSUME NEW p, PlaceOK(p),
         UNCHANGED <<log, mem, turnIndex, side, before, ckpt, msgSeq, told>>
  PROVE  PlaceOK(p)'
  BY DEF PlaceOK, Current, Begins, Submitted, InBlock

\* The transcript cut at the user message keeps its rows up to there.
LEMMA SameCut ==
  ASSUME NEW l \in Seq(Row), NEW k \in Seq(Row), NEW seq \in Nat,
         \A i \in 1 .. seq : l[i].msg = k[i].msg,
         \A i \in 1 .. seq : i # seq => l[i] = k[i]
  PROVE  Truncate(l, seq) = Truncate(k, seq)
  BY DEF Truncate

\* A transcript that gains messages of the newest turn.
LEMMA RestartsGrow ==
  ASSUME NEW l, NEW k, NEW old, Restarts(l, old),
         Replay(l).mem \subseteq Replay(k).mem,
         \A m \in Replay(k).mem \ Replay(l).mem : m.t = turn,
         \A o \in old : o.t # turn
  PROVE  Restarts(k, old)
<1> DEFINE a == Replay(l).mem
           b == Replay(k).mem
<1>1. /\ Forgets(old, a) /\ a \subseteq b
      /\ \A m \in b : m \in a \/ m.t = turn
      /\ \A m \in a \ old : m.t = turn \/ Older(m, old)
  BY DEF Restarts
<1> HIDE DEF a, b
<1>2. \A o \in old : o \in b => o \in a
  BY <1>1
<1>3. Forgets(old, b)
  BY <1>1, <1>2 DEF Forgets, Dialog
<1>4. ASSUME NEW m \in b, m \notin old
      PROVE  m.t = turn \/ Older(m, old)
  <2>1. CASE m \in a
    BY <1>1, <1>4, <2>1
  <2> QED
    BY <1>1, <1>4, <2>1
<1> QED
  BY <1>3, <1>4 DEF Restarts, a, b

\* A message of the turn written behind its user message, and remembered.
LEMMA AppendTurn ==
  ASSUME Known, lease # NoGen, msgSeq # 0, NEW role \in Roles \ {"summary"},
         NEW calls \in Nat, NEW k, k = Append(log, RowOf(Message(log, role, calls))),
         Replay(log).mem \subseteq Replay(k).mem,
         \A m \in Replay(k).mem \ Replay(log).mem : m.t = turn
  PROVE  TurnOK(k, mem \cup {Message(log, role, calls)})
<1> DEFINE m == Message(log, role, calls)
           r == RowOf(m)
<1>1. /\ log \in Seq(Row) /\ Len(log) \in Nat /\ msgSeq \in 1 .. Len(log)
      /\ turn \in Nat /\ IInv /\ TurnOK(log, mem)
  BY HeldKnows
<1>2. m \in Msg /\ r \in Row /\ m.t = turn /\ m.n = Len(log) + 1 /\ m.role = role
  BY <1>1, AppendRow DEF Message, IInv, TypeOK
<1>3. NewRow(log, r)
  BY <1>2 DEF NewRow, RowOf
<1>4. /\ Rows(log) /\ Adds(mem) /\ Restarts(log, ckpt.mem) /\ UserKept(log)
      /\ Undoable(log)
  BY <1>1 DEF TurnOK
<1>5. k = Append(log, r)
  OBVIOUS
<1> HIDE DEF m, r
<1>6. Rows(k)
  BY <1>1, <1>3, <1>4, <1>5, AppendKeepsRows
<1>7. /\ k \in Seq(Row)
      /\ \A i \in 1 .. Len(log) : k[i] = log[i]
  BY <1>1, <1>3, <1>5, AppendedRows
<1>8. msgSeq \in Nat /\ \A i \in 1 .. msgSeq : log[i] = k[i]
  BY <1>1, <1>7
<1>9. k[msgSeq].msg = log[msgSeq].msg
  BY <1>1, <1>8
<1>10. Undoable(k)
  <2>1. Truncate(log, msgSeq) = Truncate(k, msgSeq)
    BY <1>1, <1>7, <1>8, SameCut
  <2> QED
    BY <1>1, <1>4, <1>9, <2>1 DEF Undoable
<1>11. \A o \in ckpt.mem : o.t # turn
  BY <1>1, <1>4 DEF Adds
<1>12. Adds(mem \cup {m})
  <2>1. m \notin ckpt.mem
    BY <1>2, <1>11
  <2>2. Forgets(ckpt.mem, mem \cup {m})
    BY <1>4, <2>1 DEF Adds, Forgets, Dialog
  <2> QED
    BY <1>2, <1>4, <2>2 DEF Adds
<1>13. Restarts(k, ckpt.mem)
  BY <1>4, <1>11, RestartsGrow
<1>14. UserKept(k)
  BY <1>4, <1>9 DEF UserKept
<1> QED
  BY <1>6, <1>10, <1>12, <1>13, <1>14 DEF TurnOK, m

\* State saved behind the user message takes nothing from the turn.
LEMMA SideTurn ==
  ASSUME NEW l \in Seq(Row), NEW ms, TurnOK(l, ms), msgSeq \in Nat,
         msgSeq # 0, msgSeq < Len(l), NEW sd \in Sides, NEW k,
         k = [l EXCEPT ![Len(l)].side = sd]
  PROVE  TurnOK(k, ms)
<1>1. Len(l) \in Nat /\ Len(l) # 0 /\ Len(l) \in 1 .. Len(l) /\ DOMAIN l = 1 .. Len(l)
  BY LenProperties
<1>2. Rows(l)
  BY DEF TurnOK
<1>3. Rows(k) /\ Replay(k).mem = Replay(l).mem
  BY <1>1, <1>2, SideAgrees
<1>4. k \in Seq(Row) /\ \A i \in 1 .. Len(l) : i # Len(l) => k[i] = l[i]
  <2>1. k \in Seq(Row)
    BY <1>1, SideRow
  <2> QED
    BY <1>1, <2>1
<1>5. \A i \in 1 .. msgSeq : i \in 1 .. Len(l) /\ i # Len(l)
  BY <1>1
<1>6. \A i \in 1 .. msgSeq : k[i] = l[i]
  BY <1>4, <1>5
<1>7. Truncate(k, msgSeq) = Truncate(l, msgSeq) /\ k[msgSeq] = l[msgSeq]
  <2>1. /\ \A i \in 1 .. msgSeq : k[i].msg = l[i].msg
        /\ \A i \in 1 .. msgSeq : i # msgSeq => k[i] = l[i]
    BY <1>6
  <2>2. msgSeq \in 1 .. msgSeq
    OBVIOUS
  <2>3. Truncate(k, msgSeq) = Truncate(l, msgSeq)
    BY <1>4, <2>1, SameCut
  <2> QED
    BY <1>6, <2>2, <2>3
<1> QED
  BY <1>3, <1>7 DEF TurnOK, Undoable, Restarts, UserKept

-----------------------------------------------------------------------------
(* Steps inside the turn *)

\* Events are yielded and hooks run: nothing that is remembered changes.
LEMMA QuietMemory ==
  ASSUME Known, NEW g \in Gens,
         Emit(g) \/ GuardReply(g) \/ MaxIterations(g) \/ TurnEndNotices(g)
         \/ Dispatch(g)
  PROVE  MemInv'
<1>1. /\ at[g] = "in"
      /\ UNCHANGED <<lease, ckpt, turn, committed, log, mem, msgSeq, turnIndex, side>>
  BY DEF Emit, GuardReply, MaxIterations, TurnEndNotices, Dispatch, Runs,
         turnVars, statVars, workVars, EnterTurnEnd, Goto
<1>2. lease # NoGen /\ PlaceOK(pc[g])
  BY <1>1, InsideKnows
<1>3. TurnOK(log, mem) /\ Adds(mem')
  BY <1>1, <1>2, HeldKnows DEF TurnOK
<1>4. TurnOK(log, mem)'
  BY <1>1, <1>2, <1>3, TurnStays
<1>5. CASE Emit(g)
  <2>1. /\ pc' = [pc EXCEPT ![g] = IF pc[g] = "tools" THEN "results" ELSE pc[g]]
        /\ UNCHANGED <<before, told>>
    BY <1>5 DEF Emit, Goto, workVars
  <2>2. PlaceOK(IF pc[g] = "tools" THEN "results" ELSE pc[g])'
    BY <1>1, <1>2, <2>1 DEF PlaceOK, Current, Begins, Submitted, InBlock
  <2> QED
    BY <1>1, <1>4, <2>1, <2>2, TurnStep
<1>6. CASE GuardReply(g) \/ MaxIterations(g) \/ TurnEndNotices(g)
  <2>1. PICK where \in {"ending", "notices"} : pc' = [pc EXCEPT ![g] = where]
    BY <1>6 DEF GuardReply, MaxIterations, TurnEndNotices, EnterTurnEnd, Goto
  <2>2. Current
    BY <1>2, <1>6 DEF GuardReply, MaxIterations, TurnEndNotices, Runs, PlaceOK
  <2>3. PlaceOK(where)'
    BY <1>1, <2>2 DEF PlaceOK, Current
  <2> QED
    BY <1>1, <1>4, <2>1, <2>3, TurnStep
<1>7. CASE Dispatch(g)
  <2>1. pc' = [pc EXCEPT ![g] = "tools"] /\ before' = side
    BY <1>7 DEF Dispatch, Goto
  <2>2. InBlock /\ side = Replay(log).side
    BY <1>2, <1>7 DEF Dispatch, Runs, PlaceOK
  <2>3. PlaceOK("tools")'
    BY <1>1, <2>1, <2>2 DEF PlaceOK, InBlock
  <2> QED
    BY <1>1, <1>4, <2>1, <2>3, TurnStep
<1> QED
  BY <1>5, <1>6, <1>7

\* A tool changes side state; what was before the batch stays known.
LEMMA EffectMemory ==
  ASSUME Known, NEW g \in Gens, ToolEffect(g)
  PROVE  MemInv'
<1>1. /\ at[g] = "in" /\ pc[g] = "tools" /\ pc' = pc
      /\ UNCHANGED <<lease, ckpt, turn, committed, log, mem, msgSeq, turnIndex, before>>
  BY DEF ToolEffect, Runs, turnVars, statVars, genVars
<1>2. lease # NoGen /\ PlaceOK("tools")
  BY <1>1, InsideKnows
<1>3. TurnOK(log, mem) /\ Adds(mem')
  BY <1>1, <1>2, HeldKnows DEF TurnOK
<1>4. TurnOK(log, mem)'
  BY <1>1, <1>2, <1>3, TurnStays
<1>5. PlaceOK("tools")'
  BY <1>1, <1>2 DEF PlaceOK, InBlock
<1>6. pc' = [pc EXCEPT ![g] = "tools"]
  BY <1>1 DEF Known, IInv, TypeOK
<1> QED
  BY <1>1, <1>4, <1>5, <1>6, TurnStep

\* A failed request leaves the iterations that were answered.
LEMMA FailedRequestMemory ==
  ASSUME Known, NEW g \in Gens, ModelFails(g)
  PROVE  MemInv'
<1>1. /\ at[g] = "in" /\ pc[g] = "stream" /\ pc' = [pc EXCEPT ![g] = "ending"]
      /\ UNCHANGED <<lease, ckpt, turn, committed, log, mem, msgSeq, side>>
      /\ turnIndex' = turnIndex - 1
  BY DEF ModelFails, Runs, turnVars, statVars, EnterTurnEnd, Goto, AnsweredIterations
<1>2. lease # NoGen /\ PlaceOK("stream")
  BY <1>1, InsideKnows
<1>3. TurnOK(log, mem) /\ Adds(mem')
  BY <1>1, <1>2, HeldKnows DEF TurnOK
<1>4. TurnOK(log, mem)'
  BY <1>1, <1>2, <1>3, TurnStays
<1>5. PlaceOK("ending")'
  BY <1>1, <1>2 DEF PlaceOK, Current
<1> QED
  BY <1>1, <1>4, <1>5, TurnStep

\* Memory that loses its oldest messages is still what the turn may have.
LEMMA EvictedAdds ==
  ASSUME NEW ms, Adds(ms), NEW less, IsNewestOf(less, ms), less # {}
  PROVE  Adds(less)
<1>1. \A m \in less : m \in ms
  BY DEF IsNewestOf
<1>2. Forgets(ckpt.mem, less)
  <2>1. SUFFICES ASSUME NEW m \in Dialog(ckpt.mem), m \in less,
                        NEW o \in Dialog(ckpt.mem), o \notin less
                 PROVE  o.n < m.n
    BY DEF Forgets
  <2>2. CASE o \in ms
    BY <2>1, <2>2 DEF IsNewestOf
  <2>3. CASE o \notin ms
    BY <1>1, <2>1, <2>3 DEF Adds, Forgets
  <2> QED
    BY <2>2, <2>3
<1> QED
  BY <1>1, <1>2 DEF Adds

\* A request may evict the oldest messages and counts as an iteration that is
\* not answered yet.
LEMMA RequestMemory ==
  ASSUME Known, NEW g \in Gens, Request(g)
  PROVE  MemInv'
<1>1. /\ at[g] = "in" /\ pc[g] = "iter" /\ pc' = [pc EXCEPT ![g] = "stream"]
      /\ UNCHANGED <<lease, ckpt, turn, committed, log, msgSeq, side>>
      /\ turnIndex' = turnIndex + 1
      /\ mem' = mem \/ mem' \in Tails
  BY DEF Request, Runs, turnVars, statVars, Goto
<1>2. lease # NoGen /\ PlaceOK("iter")
  BY <1>1, InsideKnows
<1>3. TurnOK(log, mem) /\ Adds(mem) /\ turnIndex \in Nat
  BY <1>1, <1>2, HeldKnows DEF TurnOK
<1>4. mem' = mem \/ (IsNewestOf(mem', mem) /\ mem' # {})
  BY <1>1 DEF Tails
<1>5. Adds(mem')
  BY <1>3, <1>4, EvictedAdds
<1>6. TurnOK(log, mem)'
  BY <1>1, <1>2, <1>5, TurnStays
<1>7. Agrees(log, mem, turnIndex, side)
  BY <1>2 DEF PlaceOK, Current
<1>8. Agrees(log, mem', turnIndex, side)
  BY <1>4, <1>7, NewestOfNewest DEF Agrees
<1>9. turnIndex' - 1 = turnIndex
  BY <1>1, <1>3
<1>10. PlaceOK("stream")'
  BY <1>1, <1>8, <1>9 DEF PlaceOK
<1> QED
  BY <1>1, <1>6, <1>10, TurnStep

\* What a message of the turn is as a row.
LEMMA TurnRow ==
  ASSUME Known, lease # NoGen, NEW role \in Roles \ {"summary"}, NEW calls \in Nat
  PROVE  LET m == Message(log, role, calls)
         IN  /\ NewRow(log, RowOf(m)) /\ RowOf(m).msg = m
             /\ m.role = role /\ m.calls = calls /\ m.t = turn
<1>1. log \in Seq(Row) /\ Len(log) \in Nat /\ IInv
  BY HeldKnows
<1>2. RowOf(Message(log, role, calls)) \in Row
  BY <1>1, AppendRow DEF IInv, TypeOK
<1> QED
  BY <1>2 DEF NewRow, RowOf, Message

\* A reply without calls is one more message and one more iteration.
LEMMA ReplyMemory ==
  ASSUME Known, NEW g \in Gens, Reply(g)
  PROVE  MemInv'
<1> DEFINE m == Message(log, "assistant", 0)
           r == RowOf(m)
<1>1. /\ at[g] = "in" /\ pc[g] = "stream"
      /\ UNCHANGED <<lease, ckpt, turn, committed, msgSeq, side, turnIndex>>
      /\ log' = Append(log, r) /\ mem' = mem \cup {m}
  BY DEF Reply, Runs, turnVars, statVars, AppendMessage
<1>2. PICK where \in {"ending", "replied"} : pc' = [pc EXCEPT ![g] = where]
  BY DEF Reply, EnterTurnEnd, Goto
<1>3. lease # NoGen /\ PlaceOK("stream") /\ msgSeq # 0
  BY <1>1, InsideKnows DEF Committing
<1>4. log \in Seq(Row) /\ Rows(log) /\ turnIndex \in Nat
  BY <1>3, HeldKnows
<1>5. "assistant" \in Roles \ {"summary"} /\ 0 \in Nat
  BY DEF Roles
<1>6. NewRow(log, r) /\ r.msg = m /\ m.role = "assistant" /\ m.calls = 0 /\ m.t = turn
  BY <1>3, <1>5, TurnRow
<1>7. Alone(r.msg)
  BY <1>6 DEF Alone
<1> HIDE DEF r
<1>8. Replay(log').mem = Replay(log).mem \cup {m}
  BY <1>1, <1>4, <1>6, <1>7, AppendAlone
<1>9. /\ Replay(log).mem \subseteq Replay(log').mem
      /\ \A x \in Replay(log').mem \ Replay(log).mem : x.t = turn
  BY <1>6, <1>8
<1>10. TurnOK(log', mem')
  BY <1>1, <1>3, <1>5, <1>9, AppendTurn DEF r
<1>11. TurnOK(log, mem)'
  BY <1>1, <1>10 DEF TurnOK, Undoable, Adds, Restarts, UserKept
<1>12. Agrees(log, mem, turnIndex - 1, side)
  BY <1>3 DEF PlaceOK
<1>13. Agrees(log', mem', (turnIndex - 1) + 1, side)
  <2>1. Agrees(Append(log, r), mem \cup {r.msg},
               IF r.msg.role = "assistant" THEN (turnIndex - 1) + 1
               ELSE turnIndex - 1, side)
    BY <1>4, <1>6, <1>7, <1>12, AppendAgrees
  <2> QED
    BY <1>1, <1>6, <2>1
<1>14. (turnIndex - 1) + 1 = turnIndex'
  BY <1>1, <1>4
<1>15. PlaceOK(where)'
  BY <1>1, <1>13, <1>14 DEF PlaceOK, Current
<1> QED
  BY <1>1, <1>2, <1>11, <1>15, TurnStep

\* A row written into a block of the turn.
LEMMA BlockTurn ==
  ASSUME Known, IInv', NEW g \in Gens, at[g] = "in", msgSeq # 0,
         NEW role \in Roles \ {"summary"}, NEW calls \in Nat,
         UNCHANGED <<lease, ckpt, turn, msgSeq>>,
         log' = Append(log, RowOf(Message(log, role, calls))),
         mem' = mem \cup {Message(log, role, calls)},
         NEW a, a \in Nat, a > msgSeq, LastBlock(log', a)
  PROVE  TurnOK(log, mem)' /\ Replay(log').side = Replay(log).side
<1> DEFINE r == RowOf(Message(log, role, calls))
<1>1. lease # NoGen
  BY InsideKnows
<1>2. log \in Seq(Row) /\ Rows(log)
  BY <1>1, HeldKnows
<1>3. NewRow(log, r)
  BY <1>1, TurnRow
<1> HIDE DEF r
<1>4. log' = Append(log, r)
  BY DEF r
<1>5. /\ Replay(log).mem \subseteq Replay(log').mem
      /\ Replay(log').mem \subseteq Replay(log).mem \cup BlockOf(log', a)
  BY <1>2, <1>3, <1>4, MemoryGrows
<1>6. \A x \in BlockOf(log', a) : x.t = turn
  <2>1. log' \in Seq(Row) /\ Len(log') \in Nat /\ DOMAIN (log') = 1 .. Len(log')
    BY LenProperties DEF IInv, TypeOK
  <2>2. ckpt' # NoCkpt
    BY <1>1, HeldKnows
  <2>3. \A i \in 1 .. Len(log') : i >= msgSeq => log'[i].msg.t = turn
    BY <2>1, <2>2 DEF IInv, LogInv, TurnOwnsTail
  <2>4. SUFFICES ASSUME NEW x \in BlockOf(log', a)
                 PROVE  x.t = turn
    OBVIOUS
  <2>5. PICK i \in a .. Len(log') : x = log'[i].msg
    BY <2>4 DEF BlockOf
  <2>6. msgSeq \in Nat
    BY <1>1, HeldKnows
  <2>7. i \in 1 .. Len(log') /\ i >= msgSeq
    BY <2>1, <2>5, <2>6
  <2> QED
    BY <2>3, <2>5, <2>7
<1>7. \A x \in Replay(log').mem \ Replay(log).mem : x.t = turn
  BY <1>5, <1>6
<1>8. TurnOK(log', mem')
  BY <1>1, <1>4, <1>5, <1>7, AppendTurn DEF r
<1>9. TurnOK(log, mem)'
  BY <1>8 DEF TurnOK, Undoable, Adds, Restarts, UserKept
<1>10. Replay(log').side = Replay(log).side
  BY <1>2, <1>3, <1>4, AppendKeepsRows
<1> QED
  BY <1>9, <1>10

\* A reply with calls opens a block.
LEMMA CallsMemory ==
  ASSUME Known, IInv', NEW g \in Gens, ReplyWithCalls(g)
  PROVE  MemInv'
<1>1. /\ at[g] = "in" /\ pc[g] = "stream" /\ pc' = [pc EXCEPT ![g] = "calls"]
      /\ UNCHANGED <<lease, ckpt, turn, committed, msgSeq, side, turnIndex>>
  BY DEF ReplyWithCalls, Runs, turnVars, statVars, Goto
<1>2. PICK c \in 1 .. MaxCalls : AppendMessage("assistant", c)
  BY DEF ReplyWithCalls
<1> DEFINE m == Message(log, "assistant", c)
           r == RowOf(m)
           a == Len(log) + 1
<1>3. log' = Append(log, r) /\ mem' = mem \cup {m}
  BY <1>2 DEF AppendMessage
<1>4. lease # NoGen /\ PlaceOK("stream") /\ msgSeq # 0
  BY <1>1, InsideKnows DEF Committing
<1>5. /\ log \in Seq(Row) /\ Rows(log) /\ turnIndex \in Nat /\ Len(log) \in Nat
      /\ msgSeq \in 1 .. Len(log)
  BY <1>4, HeldKnows
<1>6. "assistant" \in Roles \ {"summary"} /\ c \in Nat /\ c \in Nat \ {0}
  BY BoundAssumption DEF Roles
<1>7. NewRow(log, r) /\ r.msg = m /\ m.role = "assistant" /\ m.calls = c
  BY <1>4, <1>6, TurnRow
<1> HIDE DEF r
<1>8. Agrees(log, mem, turnIndex - 1, side)
  BY <1>4 DEF PlaceOK
<1>9. BlockHeld(log', a, mem', turnIndex)
  <2>1. BlockHeld(Append(log, r), Len(log) + 1, mem \cup {r.msg}, (turnIndex - 1) + 1)
    BY <1>5, <1>6, <1>7, <1>8, BlockOpens
  <2>2. (turnIndex - 1) + 1 = turnIndex
    BY <1>5
  <2> QED
    BY <1>3, <1>7, <2>1, <2>2
<1>10. a \in Nat /\ a > msgSeq /\ LastBlock(log', a) /\ a \in 1 .. Len(log')
  <2>1. LastBlock(log', a)
    BY <1>9 DEF BlockHeld
  <2> QED
    BY <1>5, <2>1 DEF LastBlock
<1> HIDE DEF a
<1>11. TurnOK(log, mem)' /\ Replay(log').side = Replay(log).side
  BY <1>1, <1>3, <1>4, <1>6, <1>10, BlockTurn DEF r
<1>12. side' = Replay(log').side
  BY <1>1, <1>8, <1>11 DEF Agrees
<1>13. InBlock'
  BY <1>1, <1>9, <1>10 DEF InBlock
<1>14. PlaceOK("calls")'
  BY <1>12, <1>13 DEF PlaceOK
<1> QED
  BY <1>1, <1>11, <1>14, TurnStep

\* Whether calls are open is what the block of the turn says.
LEMMA OpenBlock ==
  ASSUME log \in Seq(Row), NEW a, LastBlock(log, a)
  PROVE  OpenCalls <=> Len(log) < a + log[a].msg.calls
<1>1. /\ DOMAIN log = 1 .. Len(log) /\ Len(log) \in Nat /\ a \in 1 .. Len(log)
      /\ log[a].msg.role = "assistant" /\ log[a].msg.calls \in Nat
  BY LenProperties, RowTyped DEF LastBlock
<1>2. \A o \in 1 .. Len(log) : log[o].msg.role = "assistant" => o <= a
  <2>1. SUFFICES ASSUME NEW o \in 1 .. Len(log), o > a
                 PROVE  log[o].msg.role # "assistant"
    BY <1>1
  <2>2. o \in a + 1 .. Len(log)
    BY <1>1, <2>1
  <2> QED
    BY <2>2 DEF LastBlock
<1>3. ASSUME OpenCalls
      PROVE  Len(log) < a + log[a].msg.calls
  <2>1. PICK b \in 1 .. Len(log) :
          /\ log[b].msg.role = "assistant"
          /\ b + log[b].msg.calls > Len(log)
          /\ \A o \in 1 .. Len(log) : log[o].msg.role = "assistant" => o <= b
    BY <1>1, <1>3 DEF OpenCalls
  <2>2. b = a
    BY <1>1, <1>2, <2>1
  <2> QED
    BY <1>1, <2>1, <2>2
<1>4. ASSUME Len(log) < a + log[a].msg.calls
      PROVE  OpenCalls
  <2>1. a + log[a].msg.calls > Len(log)
    BY <1>1, <1>4
  <2> QED
    BY <1>1, <1>2, <2>1 DEF OpenCalls
<1> QED
  BY <1>3, <1>4

\* A result joins the block.
LEMMA ResultMemory ==
  ASSUME Known, IInv', NEW g \in Gens, ToolResult(g)
  PROVE  MemInv'
<1> DEFINE m == Message(log, "tool", 0)
           r == RowOf(m)
<1>1. /\ at[g] = "in" /\ pc[g] \in {"tools", "results"}
      /\ pc' = [pc EXCEPT ![g] = "results"] /\ OpenCalls
      /\ UNCHANGED <<lease, ckpt, turn, committed, msgSeq, side, turnIndex, before>>
      /\ log' = Append(log, r) /\ mem' = mem \cup {m}
  BY DEF ToolResult, Runs, turnVars, statVars, Goto, AppendMessage
<1>2. lease # NoGen /\ InBlock /\ before = Replay(log).side /\ msgSeq # 0
  BY <1>1, InsideKnows DEF Committing, PlaceOK
<1>3. /\ log \in Seq(Row) /\ Rows(log) /\ Len(log) \in Nat
      /\ msgSeq \in 1 .. Len(log)
  BY <1>2, HeldKnows
<1>4. "tool" \in Roles \ {"summary"} /\ 0 \in Nat
  BY DEF Roles
<1>5. NewRow(log, r) /\ r.msg = m /\ m.role = "tool"
  BY <1>2, <1>4, TurnRow
<1>6. PICK a \in 1 .. Len(log) : a > msgSeq /\ BlockHeld(log, a, mem, turnIndex)
  BY <1>2 DEF InBlock
<1> HIDE DEF r
<1>7. LastBlock(log, a)
  BY <1>6 DEF BlockHeld
<1>8. Len(log) < a + log[a].msg.calls
  BY <1>1, <1>3, <1>7, OpenBlock
<1>9. BlockHeld(log', a, mem', turnIndex)
  <2>1. BlockHeld(Append(log, r), a, mem \cup {r.msg}, turnIndex)
    BY <1>3, <1>5, <1>6, <1>8, BlockGrows
  <2> QED
    BY <1>1, <1>5, <2>1
<1>10. a \in Nat /\ LastBlock(log', a) /\ a \in 1 .. Len(log')
  BY <1>9 DEF BlockHeld, LastBlock
<1>11. TurnOK(log, mem)' /\ Replay(log').side = Replay(log).side
  BY <1>1, <1>2, <1>4, <1>6, <1>10, BlockTurn DEF r
<1>12. InBlock'
  BY <1>1, <1>6, <1>9, <1>10 DEF InBlock
<1>13. PlaceOK("results")'
  BY <1>1, <1>2, <1>11, <1>12 DEF PlaceOK
<1> QED
  BY <1>1, <1>11, <1>13, TurnStep

\* The batch is complete: media is one more message, changed state is saved.
LEMMA BatchMemory ==
  ASSUME Known, NEW g \in Gens, FinishBatch(g)
  PROVE  MemInv'
<1> DEFINE m == Message(log, "media", 0)
           r == RowOf(m)
<1>1. /\ at[g] = "in" /\ pc[g] = "results" /\ ~OpenCalls
      /\ pc' = [pc EXCEPT ![g] = "iter"]
      /\ UNCHANGED <<lease, ckpt, turn, committed, msgSeq, side, turnIndex>>
  BY DEF FinishBatch, Runs, turnVars, statVars, Goto
<1>2. PICK media \in BOOLEAN :
        /\ mem' = IF media THEN mem \cup {m} ELSE mem
        /\ log' = LET l == IF media THEN Append(log, r) ELSE log
                  IN  IF side = before THEN l ELSE [l EXCEPT ![Len(l)].side = side]
  BY DEF FinishBatch
<1> DEFINE l == IF media THEN Append(log, r) ELSE log
<1>3. lease # NoGen /\ InBlock /\ before = Replay(log).side /\ msgSeq # 0
  BY <1>1, InsideKnows DEF Committing, PlaceOK
<1>4. /\ log \in Seq(Row) /\ Rows(log) /\ Len(log) \in Nat /\ TurnOK(log, mem)
      /\ msgSeq \in 1 .. Len(log) /\ side \in Sides /\ msgSeq \in Nat
  BY <1>3, HeldKnows
<1>5. "media" \in Roles \ {"summary"} /\ 0 \in Nat
  BY DEF Roles
<1>6. NewRow(log, r) /\ r.msg = m /\ m.role = "media" /\ m.t = turn
  BY <1>3, <1>5, TurnRow
<1>7. PICK a \in 1 .. Len(log) : a > msgSeq /\ BlockHeld(log, a, mem, turnIndex)
  BY <1>3 DEF InBlock
<1>8. Len(log) = a + log[a].msg.calls
  <2>1. LastBlock(log, a)
    BY <1>7 DEF BlockHeld
  <2>2. ~(Len(log) < a + log[a].msg.calls)
    BY <1>1, <1>4, <2>1, OpenBlock
  <2>3. Len(log) <= a + log[a].msg.calls /\ log[a].msg.calls \in Nat
    BY <1>4, <2>1, RowTyped DEF LastBlock
  <2> QED
    BY <1>4, <2>2, <2>3
<1>9. Agrees(log, mem, turnIndex, before)
  BY <1>3, <1>4, <1>7, <1>8, BlockAgrees
<1> HIDE DEF r
<1>10. /\ l \in Seq(Row) /\ TurnOK(l, mem') /\ Agrees(l, mem', turnIndex, before)
       /\ msgSeq < Len(l)
  <2>1. CASE media
    <3>1. Alone(r.msg) /\ l = Append(log, r) /\ mem' = mem \cup {m}
      BY <1>2, <1>6, <2>1 DEF Alone
    <3>2. l \in Seq(Row) /\ Len(l) = Len(log) + 1
      BY <1>4, <1>6, <3>1, AppendedRows
    <3>3. Replay(l).mem = Replay(log).mem \cup {m}
      BY <1>4, <1>6, <3>1, AppendAlone
    <3>4. /\ Replay(log).mem \subseteq Replay(l).mem
          /\ \A x \in Replay(l).mem \ Replay(log).mem : x.t = turn
      BY <1>6, <3>3
    <3>5. TurnOK(l, mem')
      BY <1>3, <1>5, <3>1, <3>4, AppendTurn DEF r
    <3>6. Agrees(Append(log, r), mem \cup {r.msg},
                 IF r.msg.role = "assistant" THEN turnIndex + 1 ELSE turnIndex,
                 before)
      BY <1>4, <1>6, <1>9, <3>1, AppendAgrees
    <3> QED
      BY <1>4, <1>6, <3>1, <3>2, <3>5, <3>6
  <2>2. CASE ~media
    <3>1. l = log /\ mem' = mem
      BY <1>2, <2>2
    <3>2. msgSeq < Len(log)
      BY <1>4, <1>7
    <3> QED
      BY <1>4, <1>9, <3>1, <3>2
  <2> QED
    BY <2>1, <2>2
<1>11. log' = IF side = before THEN l ELSE [l EXCEPT ![Len(l)].side = side]
  BY <1>2
<1> HIDE DEF l
<1>12. TurnOK(log', mem') /\ Agrees(log', mem', turnIndex, side)
  <2>1. CASE side = before
    BY <1>10, <1>11, <2>1
  <2>2. CASE side # before
    <3>1. log' = [l EXCEPT ![Len(l)].side = side]
      BY <1>11, <2>2
    <3>2. TurnOK(log', mem')
      BY <1>3, <1>4, <1>10, <3>1, SideTurn
    <3>3. Len(l) # 0 /\ Rows(l)
      BY <1>4, <1>10 DEF TurnOK
    <3>4. Agrees(log', mem', turnIndex, side)
      BY <1>4, <1>10, <3>1, <3>3, SideAgrees
    <3> QED
      BY <3>2, <3>4
  <2> QED
    BY <2>1, <2>2
<1>13. TurnOK(log, mem)'
  BY <1>1, <1>12 DEF TurnOK, Undoable, Adds, Restarts, UserKept
<1>14. PlaceOK("iter")'
  BY <1>1, <1>12 DEF PlaceOK, Current
<1> QED
  BY <1>1, <1>13, <1>14, TurnStep

\* Cut at its user message a transcript gives what it gave before, whatever
\* was cut behind.
LEMMA CutAgrees ==
  ASSUME NEW l \in Seq(Row), Rows(l), NEW k \in Seq(Row), Rows(k),
         NEW seq \in 1 .. Len(l), seq <= Len(k), l[seq].msg.role = "user",
         \A i \in 1 .. seq : l[i].msg = k[i].msg,
         \A i \in 1 .. seq : i # seq => l[i].side = k[i].side,
         \A i \in 1 .. seq : i # seq => k[i].snap \in {NoSnap, l[i].snap},
         \A i \in 1 .. seq :
           /\ i # seq
           /\ \A o \in 1 .. seq : l[o].snap # NoSnap => o = seq \/ o <= i
           => k[i].snap = l[i].snap,
         NEW ms, NEW idx, NEW sd, Agrees(Truncate(l, seq), ms, idx, sd)
  PROVE  Agrees(Truncate(k, seq), ms, idx, sd)
<1> DEFINE p == Truncate(l, seq)
           q == Truncate(k, seq)
<1>1. seq \in Nat /\ seq \in 1 .. Len(k) /\ seq \in 1 .. seq /\ Len(l) \in Nat
      /\ k[seq].msg.role = "user"
  BY LenProperties
<1>2. /\ p \in Seq(Row) /\ Len(p) = seq
      /\ \A i \in 1 .. seq : p[i].msg = l[i].msg
      /\ \A i \in 1 .. seq : i < seq => p[i] = l[i]
      /\ Rows(p)
  BY TruncateRows, TruncateKeepsRows
<1>3. /\ q \in Seq(Row) /\ Len(q) = seq
      /\ \A i \in 1 .. seq : q[i].msg = k[i].msg
      /\ \A i \in 1 .. seq : i < seq => q[i] = k[i]
      /\ Rows(q)
  BY <1>1, TruncateRows, TruncateKeepsRows
<1>4. p[seq].snap = NoSnap /\ q[seq].snap = NoSnap
      /\ p[seq].side = NoSide /\ q[seq].side = NoSide
  BY <1>1 DEF Truncate, RowOf
<1>5. \A i \in 1 .. seq : i < seq \/ i = seq
  BY <1>1
<1>6. Agrees(p, ms, idx, sd)
  OBVIOUS
<1> HIDE DEF p, q
<1>7. SameRows(p, q)
  BY <1>2, <1>3 DEF SameRows
<1>8. \A i \in 1 .. seq : q[i].side = p[i].side
  BY <1>2, <1>3, <1>4, <1>5
<1>9. Replay(q).side = Replay(p).side
  <2>1. \A i : i \in 1 .. Len(p) /\ p[i].side # NoSide <=>
              i \in 1 .. Len(q) /\ q[i].side # NoSide
    BY <1>2, <1>3, <1>8
  <2>2. \A i : i \in 1 .. Len(p) /\ p[i].side # NoSide => p[i].side = q[i].side
    BY <1>2, <1>8
  <2> QED
    BY <1>2, <1>3, <2>1, <2>2, SameSide
<1> DEFINE s == LatestSnap(p)
<1>10. IsLatest(p, s)
  BY <1>2, LatestExists
<1> HIDE DEF s
<1>11. \A i \in 1 .. seq : q[i].snap \in {NoSnap, p[i].snap}
  BY <1>2, <1>3, <1>4, <1>5
<1>12. s # 0 => q[s].snap = p[s].snap
  <2>1. SUFFICES ASSUME s # 0
                 PROVE  q[s].snap = p[s].snap
    OBVIOUS
  <2>2. s \in 1 .. seq /\ p[s].snap # NoSnap
    BY <1>2, <1>10, <2>1 DEF IsLatest
  <2>3. s # seq /\ s < seq
    BY <1>4, <1>5, <2>2
  <2>4. \A o \in 1 .. seq : l[o].snap # NoSnap => o = seq \/ o <= s
    <3>1. SUFFICES ASSUME NEW o \in 1 .. seq, l[o].snap # NoSnap, o # seq
                   PROVE  o <= s
      OBVIOUS
    <3>2. p[o].snap # NoSnap
      BY <1>2, <1>5, <3>1
    <3> QED
      BY <1>2, <1>10, <3>2 DEF IsLatest
  <2>5. k[s].snap = l[s].snap
    BY <2>2, <2>3, <2>4
  <2> QED
    BY <1>2, <1>3, <2>2, <2>3, <2>5
<1>13. IsLatest(q, s)
  <2>1. s \in 0 .. seq /\ (s # 0 => p[s].snap # NoSnap)
    BY <1>2, <1>10 DEF IsLatest
  <2>2. \A o \in 1 .. seq : q[o].snap # NoSnap => o <= s
    BY <1>2, <1>10, <1>11 DEF IsLatest
  <2> QED
    BY <1>3, <1>12, <2>1, <2>2 DEF IsLatest
<1>14. LatestSnap(q) = s
  BY <1>3, <1>13, LatestIs
<1>15. SavedPart(q) = SavedPart(p)
  BY <1>12, <1>14 DEF SavedPart, s
<1>16. Replay(q).mem = Replay(p).mem /\ Trimmed(q, 1, Len(q)) = Trimmed(p, 1, Len(p))
  BY <1>2, <1>3, <1>7, <1>14, <1>15, SameMemory DEF s
<1> QED
  BY <1>6, <1>9, <1>16 DEF Agrees, q

\* Compaction replaces all but a tail by a summary, in memory and transcript.
LEMMA CompactMemory ==
  ASSUME Known, NEW g \in Gens, Compact(g)
  PROVE  MemInv'
<1>1. /\ at[g] = "in" /\ pc[g] = "compact" /\ pc' = [pc EXCEPT ![g] = "iter"]
      /\ UNCHANGED <<lease, ckpt, turn, committed, msgSeq, side, turnIndex>>
  BY DEF Compact, Runs, turnVars, statVars, Goto
<1>2. lease # NoGen /\ Current /\ Submitted /\ msgSeq # 0
  BY <1>1, InsideKnows DEF Committing, PlaceOK
<1>3. /\ log \in Seq(Row) /\ Rows(log) /\ Len(log) \in Nat /\ TurnOK(log, mem)
      /\ msgSeq \in 1 .. Len(log) /\ side \in Sides /\ msgSeq \in Nat
      /\ log[msgSeq].msg.role = "user" /\ log[msgSeq].msg.t = turn
      /\ turn \in Nat /\ turnIndex \in Nat /\ mem \in SUBSET Msg
  BY <1>2, HeldKnows
<1>4. Adds(mem) /\ Undoable(log) /\ Restarts(log, ckpt.mem)
  BY <1>3 DEF TurnOK
<1>5. CASE UNCHANGED <<mem, log>>
  <2>1. TurnOK(log, mem)'
    BY <1>1, <1>2, <1>4, <1>5, TurnStays
  <2>2. PlaceOK("iter")'
    BY <1>1, <1>2, <1>5 DEF PlaceOK, Current
  <2> QED
    BY <1>1, <2>1, <2>2, TurnStep
<1>6. ASSUME NEW tail \in Tails \ {mem},
             IsNewestOf(tail, Trimmed(log, 1, Len(log))),
             mem' = tail \cup {Summary},
             log' = SaveSnapshot([mem |-> mem', idx |-> turnIndex])
      PROVE  MemInv'
  <2> DEFINE k == SaveSnapshot([mem |-> tail \cup {Summary}, idx |-> turnIndex])
             n == Len(log)
  <2>1. tail # {} /\ IsNewestOf(tail, mem)
    BY DEF Tails
  <2>2. \A m \in mem : m.t <= turn
    <3>1. \A m \in mem : m.t \in Nat
      BY <1>3 DEF Msg
    <3> QED
      BY <1>3, <1>4, <3>1 DEF Adds
  <2>3. CompactSet(tail)
    <3>1. \A m \in tail : m.t <= turn
      BY <2>1, <2>2 DEF IsNewestOf
    <3>2. turnIndex = Assistants(Trimmed(log, 1, n)) /\ msgSeq = n
      BY <1>2 DEF Current, Agrees, Submitted
    <3> QED
      BY <1>3, <1>6, <2>1, <3>1, <3>2 DEF CompactSet
  <2>4. n # 0 /\ msgSeq = n /\ n \in 1 .. n
    BY <1>2, <1>3 DEF Submitted
  <2>5. /\ k \in Seq(Row) /\ SameRows(log, k) /\ Rows(k)
        /\ Replay(k).mem = tail \cup {Summary}
        /\ Trimmed(k, 1, Len(k)) = Trimmed(log, 1, Len(log))
        /\ Replay(k).side = Replay(log).side
    BY <1>3, <2>3, <2>4, CompactRows
  <2>6. [mem |-> tail \cup {Summary}, idx |-> turnIndex] \in Snap
    <3>1. tail \cup {Summary} \in SUBSET Msg
      BY <1>3, <2>1 DEF IsNewestOf, Summary, Msg, Roles
    <3> DEFINE b == tail \cup {Summary}
    <3> HIDE DEF b
    <3>2. b \in SUBSET Msg
      BY <3>1 DEF b
    <3>3. [mem |-> b, idx |-> turnIndex] \in Snap
      BY <1>3, <3>2 DEF Snap
    <3> QED
      BY <3>3 DEF b
  <2>7. /\ \A i \in 1 .. n : k[i].side = log[i].side
        /\ \A i \in 1 .. n : i # n => k[i].snap \in {NoSnap, log[i].snap}
        /\ \A i \in 1 .. n :
             /\ i # n
             /\ \A o \in 1 .. n : log[o].snap # NoSnap => o = n \/ o <= i
             => k[i].snap = log[i].snap
    BY <1>3, <2>4, <2>6, SnapshotShape
  <2>8. k[n].snap # NoSnap /\ k[n].snap.mem = tail \cup {Summary}
    <3> DEFINE b == tail \cup {Summary}
               snap == [mem |-> b, idx |-> turnIndex]
    <3>1. k[n].snap = snap /\ snap # NoSnap
      BY <1>3, <2>4, <2>6, SnapshotShape, SentinelAssumption
    <3> HIDE DEF b
    <3>2. snap.mem = b
      OBVIOUS
    <3> HIDE DEF k, snap
    <3> QED
      BY <3>1, <3>2 DEF b
  <2>9. log' = k /\ mem' = tail \cup {Summary}
    BY <1>6
  <2> HIDE DEF k, n
  <2>10. Len(k) = n /\ \A i \in 1 .. n : k[i].msg = log[i].msg
    BY <2>5 DEF SameRows, n
  <2>11. k[n].msg \in mem'
    <3>1. SnapGood(k, n)
      BY <2>4, <2>5, <2>8, <2>10 DEF Rows, SnapsGood
    <3> QED
      BY <2>8, <2>9, <3>1 DEF SnapGood
  <2>12. Undoable(k)
    <3>1. Agrees(Truncate(log, n), ckpt.mem \cup {log[n].msg}, ckpt.idx, ckpt.side)
      BY <1>2, <1>4, <2>4 DEF Undoable
    <3>2. n \in 1 .. Len(log) /\ n <= Len(k) /\ log[n].msg.role = "user"
      BY <1>3, <2>4, <2>10 DEF n
    <3>3. \A i \in 1 .. n : i # n => log[i].side = k[i].side
      BY <2>7
    <3>4. \A i \in 1 .. n : log[i].msg = k[i].msg
      BY <2>10
    <3>5. Agrees(Truncate(k, n), ckpt.mem \cup {log[n].msg}, ckpt.idx, ckpt.side)
      BY <1>3, <2>5, <2>7, <3>1, <3>2, <3>3, <3>4, CutAgrees
    <3> QED
      BY <1>2, <2>4, <2>10, <3>5 DEF Undoable
  <2>13. Adds(mem')
    <3>1. Adds(tail)
      BY <1>4, <2>1, EvictedAdds
    <3>2. Summary.t = turn /\ Summary.role = "summary"
      BY DEF Summary
    <3>3. Forgets(ckpt.mem, tail \cup {Summary})
      BY <3>1, <3>2 DEF Adds, Forgets, Dialog, Summaries
    <3> QED
      BY <2>9, <3>1, <3>2, <3>3 DEF Adds
  <2>14. Restarts(k, ckpt.mem)
    <3>1. Replay(k).mem = mem'
      BY <2>5, <2>9
    <3> QED
      BY <2>13, <3>1 DEF Restarts, Adds
  <2>15. UserKept(k)
    BY <2>4, <2>5, <2>9, <2>11 DEF UserKept
  <2>16. TurnOK(k, mem')
    BY <2>5, <2>12, <2>13, <2>14, <2>15 DEF TurnOK
  <2>17. TurnOK(log, mem)'
    BY <1>1, <2>9, <2>16 DEF TurnOK, Undoable, Adds, Restarts, UserKept
  <2>18. Agrees(k, mem', turnIndex, side)
    <3>1. IsNewestOf(mem', Replay(k).mem) /\ mem' # {}
      BY <2>5, <2>9 DEF IsNewestOf
    <3> QED
      BY <1>2, <2>5, <3>1 DEF Agrees, Current
  <2>19. PlaceOK("iter")'
    BY <1>1, <2>9, <2>18 DEF PlaceOK, Current
  <2> QED
    BY <1>1, <2>17, <2>19, TurnStep
<1> QED
  BY <1>5, <1>6 DEF Compact

\* The user message opens the transcript's new tail.
LEMMA SubmitMemory ==
  ASSUME Known, NEW g \in Gens, SubmitUser(g)
  PROVE  MemInv'
<1> DEFINE m == Message(log, "user", 0)
           r == RowOf(m)
           n == Len(log) + 1
<1>1. /\ at[g] = "in" /\ pc[g] = "pre" /\ pc' = [pc EXCEPT ![g] = "compact"]
      /\ UNCHANGED <<lease, ckpt, turn, committed, side, turnIndex>>
      /\ log' = Append(log, r) /\ mem' = mem \cup {m} /\ msgSeq' = n
  BY DEF SubmitUser, Runs, Goto, UserSequence
<1>2. lease # NoGen /\ Begins /\ msgSeq = 0
  BY <1>1, InsideKnows DEF PlaceOK
<1>3. /\ log \in Seq(Row) /\ Rows(log) /\ Len(log) \in Nat /\ TurnOK(log, mem)
      /\ turn \in Nat
  BY <1>2, HeldKnows
<1>4. "user" \in Roles \ {"summary"} /\ 0 \in Nat
  BY DEF Roles
<1>5. NewRow(log, r) /\ r.msg = m /\ m.role = "user" /\ m.t = turn
  BY <1>2, <1>4, TurnRow
<1>6. Alone(r.msg) /\ r = RowOf(r.msg)
  BY <1>5 DEF Alone
<1>7. /\ Undoable(log) /\ Adds(mem) /\ Restarts(log, ckpt.mem)
      /\ \A o \in ckpt.mem : o.t # turn
  BY <1>3 DEF TurnOK, Adds
<1>8. /\ log' \in Seq(Row) /\ Len(log') = n /\ log'[n] = r
  BY <1>1, <1>3, <1>5, AppendedRows
<1> HIDE DEF r
<1>9. /\ Rows(log') /\ Replay(log').mem = Replay(log).mem \cup {m}
  BY <1>1, <1>3, <1>5, <1>6, AppendKeepsRows, AppendAlone
<1>10. Agrees(log', mem', turnIndex, side)
  <2>1. Agrees(log, mem, turnIndex, side)
    BY <1>2, <1>7 DEF Undoable, Begins
  <2>2. Agrees(Append(log, r), mem \cup {r.msg},
               IF r.msg.role = "assistant" THEN turnIndex + 1 ELSE turnIndex, side)
    BY <1>3, <1>5, <1>6, <2>1, AppendAgrees
  <2> QED
    BY <1>1, <1>5, <2>2
<1>11. Agrees(Truncate(log', n), mem', turnIndex, side)
  <2>1. /\ Truncate(log', n) \in Seq(Row) /\ Len(Truncate(log', n)) = n
        /\ \A i \in 1 .. n : i < n => Truncate(log', n)[i] = log'[i]
        /\ n \in 1 .. Len(log') /\ n \in Nat
    <3>1. n \in 1 .. Len(log') /\ n \in Nat
      BY <1>3, <1>8
    <3> HIDE DEF n
    <3> QED
      BY <1>8, <3>1, TruncateRows
  <2>2. Truncate(log', n)[n] = r
    BY <1>5, <1>6, <1>8, <2>1 DEF Truncate
  <2> DEFINE k == Truncate(log', n)
  <2>3. \A i \in 1 .. n : k[i] = log'[i]
    BY <1>8, <2>1, <2>2
  <2> HIDE DEF k, n
  <2>4. SameRows(log', k)
    BY <1>8, <2>1, <2>3 DEF SameRows, k
  <2> QED
    BY <1>8, <1>9, <1>10, <2>1, <2>3, <2>4, StatsAgree DEF k
<1>12. n # 0 /\ log'[n].msg = m
  BY <1>3, <1>5, <1>8
<1> HIDE DEF n
<1>13. Undoable(log)'
  BY <1>1, <1>2, <1>11, <1>12 DEF Undoable, Begins
<1>14. Adds(mem)'
  <2>1. mem' = ckpt.mem \cup {m}
    BY <1>1, <1>2 DEF Begins
  <2>2. Forgets(ckpt.mem, mem')
    BY <2>1 DEF Forgets, Dialog
  <2> QED
    BY <1>1, <1>5, <1>7, <2>1, <2>2 DEF Adds
<1>15. Restarts(log', ckpt.mem)
  <2>1. /\ Replay(log).mem \subseteq Replay(log').mem
        /\ \A x \in Replay(log').mem \ Replay(log).mem : x.t = turn
    BY <1>5, <1>9
  <2> QED
    BY <1>7, <2>1, RestartsGrow
<1>16. UserKept(log)'
  BY <1>1, <1>9, <1>12 DEF UserKept
<1>17. TurnOK(log, mem)'
  BY <1>1, <1>9, <1>13, <1>14, <1>15, <1>16 DEF TurnOK, Restarts
<1>18. PlaceOK("compact")'
  <2>1. Submitted'
    BY <1>1, <1>2, <1>8, <1>12 DEF Submitted, Begins
  <2> QED
    BY <1>1, <1>10, <2>1 DEF PlaceOK, Current
<1> QED
  BY <1>1, <1>17, <1>18, TurnStep

-----------------------------------------------------------------------------
(* Taking and giving up the lease *)

\* What has to hold when no turn is active.
LEMMA Idles ==
  ASSUME ckpt' = NoCkpt, lease' = NoGen, ~committed', Rows(log'),
         Agrees(Settled', mem', turnIndex', side'),
         \A m \in mem' : m.t <= turn', turn' = turn,
         pending' # 0 => told' = "voided" /\ Restarts(log', mem')
  PROVE  MemInv'
<1>1. IdleAgrees'
  BY DEF IdleAgrees, Restarts
<1> QED
  BY <1>1, GenAssumption DEF MemInv

\* The transcript a new turn starts from is settled.
LEMMA AcquireMemory ==
  ASSUME Known, NEW g \in Gens, Acquire(g)
  PROVE  MemInv'
<1>1. /\ ckpt = NoCkpt /\ lease' = g /\ ~committed' /\ msgSeq' = 0
      /\ ckpt' = [mem |-> mem, idx |-> turnIndex, side |-> side]
      /\ UNCHANGED <<mem, turnIndex, side>> /\ turn' = turn + 1 /\ told' = "none"
      /\ pc' = [pc EXCEPT ![g] = "pre"] /\ log' = Settled /\ pending' = 0
  BY DEF Acquire, MayAcquire, RetryCleanup, Settled, workVars
<1>2. /\ IInv /\ log \in Seq(Row) /\ turn \in Nat /\ pending \in Nat /\ Rows(log)
      /\ mem \in SUBSET Msg /\ IdleAgrees
  BY DEF Known, IInv, TypeOK, MemInv
<1>3. Agrees(log', mem, turnIndex, side) /\ \A m \in mem : m.t <= turn
  BY <1>1, <1>2 DEF IdleAgrees
<1>4. Rows(log')
  <2>1. CASE pending = 0
    BY <1>1, <1>2, <2>1 DEF Settled
  <2>2. CASE pending # 0
    BY <1>1, <1>2, <2>2, TruncateKeepsRows DEF Settled, IInv, LogInv, PendingTail
  <2> QED
    BY <2>1, <2>2
<1>5. ckpt'.mem = mem /\ ckpt'.idx = turnIndex /\ ckpt'.side = side
  BY <1>1
<1>6. ckpt' # NoCkpt
  <2>1. ckpt' \in Ckpt
    BY <1>1 DEF Ckpt, Known, IInv, TypeOK
  <2> QED
    BY <2>1, SentinelAssumption
<1>7. Undoable(log)'
  BY <1>1, <1>3, <1>5 DEF Undoable
<1>8. Adds(mem)'
  <2>1. \A m \in mem : m.t < turn'
    <3>1. \A m \in mem : m.t \in Nat
      BY <1>2 DEF Msg
    <3> QED
      BY <1>1, <1>2, <1>3, <3>1
  <2>2. Forgets(mem, mem)
    BY DEF Forgets, Dialog
  <2> QED
    BY <1>1, <1>5, <2>1, <2>2 DEF Adds
<1>9. Restarts(log, ckpt.mem)'
  <2> DEFINE R == Replay(log').mem
  <2>1. IsNewestOf(mem, R) /\ (mem = {} => R = {})
    BY <1>3 DEF Agrees
  <2> HIDE DEF R
  <2>2. Forgets(mem, R)
    BY <2>1 DEF Forgets, Dialog, IsNewestOf
  <2>3. \A m \in R \ mem : Older(m, mem)
    BY <2>1 DEF Older, Dialog, IsNewestOf
  <2> QED
    BY <1>5, <2>2, <2>3 DEF Restarts, R
<1>10. UserKept(log)'
  BY <1>1 DEF UserKept
<1>11. TurnOK(log, mem)'
  BY <1>4, <1>7, <1>8, <1>9, <1>10 DEF TurnOK
<1>12. pc'[g] = "pre"
  BY <1>1 DEF Known, IInv, TypeOK
<1>13. PlaceOK("pre")'
  BY <1>1, <1>5 DEF PlaceOK, Begins
<1>14. IdleAgrees'
  BY <1>6 DEF IdleAgrees
<1> QED
  BY <1>1, <1>4, <1>11, <1>12, <1>13, <1>14 DEF MemInv

\* The row of the tally changes nothing that is remembered.
LEMMA TallyAgrees ==
  ASSUME NEW l \in Seq(Row), Rows(l), NEW saved \in BOOLEAN, turn \in Nat,
         statsSeq # 0 => statsSeq \in 1 .. Len(l), FinishStats(l, saved)
  PROVE  /\ log' \in Seq(Row) /\ Rows(log')
         /\ \A ms, idx, sd : Agrees(l, ms, idx, sd) => Agrees(log', ms, idx, sd)
<1>1. log' = IF statsSeq # 0 /\ saved THEN [l EXCEPT ![statsSeq].stats = turn] ELSE l
  BY DEF FinishStats
<1>2. CASE ~(statsSeq # 0 /\ saved)
  BY <1>1, <1>2
<1>3. CASE statsSeq # 0 /\ saved
  <2> DEFINE k == [l EXCEPT ![statsSeq].stats = turn]
  <2>1. /\ k \in Seq(Row) /\ Len(k) = Len(l)
        /\ \A i \in 1 .. Len(l) : k[i].msg = l[i].msg
        /\ \A i \in 1 .. Len(l) : k[i].snap = l[i].snap
        /\ \A i \in 1 .. Len(l) : k[i].side = l[i].side
    BY <1>3, StatsRow
  <2>2. log' = k
    BY <1>1, <1>3
  <2> HIDE DEF k
  <2>3. SameRows(l, k)
    BY <2>1 DEF SameRows
  <2> QED
    BY <2>1, <2>2, <2>3, StatsAgree
<1> QED
  BY <1>2, <1>3

\* A turn that is kept leaves memory and transcript as they agree.
LEMMA KeptMemory ==
  ASSUME Known, lease # NoGen, Current, ClearTurn, NEW saved \in BOOLEAN,
         FinishStats(log, saved), UNCHANGED <<workVars, pending, turn>>
  PROVE  MemInv'
<1>1. /\ ckpt' = NoCkpt /\ lease' = NoGen /\ ~committed'
      /\ UNCHANGED <<mem, turnIndex, side, pending, turn>>
  BY DEF ClearTurn, workVars
<1>2. /\ log \in Seq(Row) /\ Rows(log) /\ TurnOK(log, mem) /\ turn \in Nat
      /\ pending = 0 /\ statsSeq = msgSeq /\ mem \in SUBSET Msg
      /\ (msgSeq # 0 => msgSeq \in 1 .. Len(log))
  BY HeldKnows
<1>3. /\ Rows(log')
      /\ \A ms, idx, sd : Agrees(log, ms, idx, sd) => Agrees(log', ms, idx, sd)
  BY <1>2, TallyAgrees
<1>4. Settled' = log'
  BY <1>1, <1>2 DEF Settled
<1>5. Agrees(Settled', mem', turnIndex', side')
  BY <1>1, <1>3, <1>4 DEF Current
<1>6. \A m \in mem' : m.t <= turn'
  <2>1. \A m \in mem : m.t \in Nat /\ (m.t < turn \/ m.t = turn)
    BY <1>2 DEF TurnOK, Adds, Msg
  <2> QED
    BY <1>1, <1>2, <2>1
<1> QED
  BY <1>1, <1>2, <1>3, <1>5, <1>6, Idles

\* The user message whose tail is still to be removed is one more that the
\* memory goes back to.
LEMMA VoidedRestarts ==
  ASSUME Known, lease # NoGen, msgSeq # 0
  PROVE  Restarts(log, ckpt.mem \cup {log[msgSeq].msg})
<1> DEFINE u == log[msgSeq].msg
           old == ckpt.mem
           R == Replay(log).mem
           cut == Truncate(log, msgSeq)
<1>1. /\ log \in Seq(Row) /\ Rows(log) /\ TurnOK(log, mem) /\ turn \in Nat
      /\ msgSeq \in Nat /\ msgSeq \in 1 .. Len(log) /\ u.t = turn
      /\ u.role = "user" /\ IInv
  BY HeldKnows
<1>2. u.n = msgSeq /\ \A i \in 1 .. Len(log) : i >= msgSeq => log[i].msg.t = turn
  BY <1>1, HeldLease DEF Rows, Numbered
<1>3. /\ Restarts(log, old) /\ u \in R /\ IsNewestOf(old \cup {u}, Replay(cut).mem)
      /\ \A o \in old : o.t # turn
  BY <1>1 DEF TurnOK, UserKept, Undoable, Agrees, Adds
<1>4. \A o \in old : o.n < u.n
  <2>1. SUFFICES ASSUME NEW o \in old
                 PROVE  o.n < msgSeq
    BY <1>2
  <2>2. /\ cut \in Seq(Row) /\ Len(cut) = msgSeq /\ Rows(cut)
        /\ cut[msgSeq].msg = u
    BY <1>1, TruncateRows, TruncateKeepsRows
  <2>3. o \in Replay(cut).mem
    BY <1>3 DEF IsNewestOf
  <2> HIDE DEF cut
  <2>4. o.n = 0 \/ (o.n \in 1 .. msgSeq /\ o = cut[o.n].msg)
    BY <2>2, <2>3, RememberedNumbers
  <2>5. o.n # msgSeq
    BY <1>1, <1>3, <2>2, <2>4
  <2> QED
    BY <1>1, <2>4, <2>5
<1>5. \A m \in R : m.t = turn \/ m.n < u.n
  <2>1. \A m \in R : m.n = 0 \/ (m.n \in 1 .. Len(log) /\ m = log[m.n].msg)
    BY <1>1, RememberedNumbers
  <2>2. SUFFICES ASSUME NEW m \in R, ~(m.n < msgSeq)
                 PROVE  m.t = turn
    BY <1>2
  <2>3. m.n \in 1 .. Len(log) /\ m = log[m.n].msg /\ m.n >= msgSeq
    BY <1>1, <2>1, <2>2
  <2> QED
    BY <1>2, <2>3
<1>6. Forgets(old, R) /\ \A m \in R \ old : m.t = turn \/ Older(m, old)
  BY <1>3 DEF Restarts
<1> HIDE DEF u, old, R
<1>7. Forgets(old \cup {u}, R)
  BY <1>3, <1>4, <1>6 DEF Forgets, Dialog, Summaries
<1>8. ASSUME NEW m \in R, m \notin old \cup {u}
      PROVE  m.t = turn \/ Older(m, old \cup {u})
  BY <1>5, <1>6, <1>8 DEF Older, Dialog, Summaries
<1> QED
  BY <1>7, <1>8 DEF Restarts, u, old, R

\* _rollback_turn: memory goes back to the checkpoint and the transcript to the
\* user message, or, when its repair failed, keeps the tail as a pending one.
LEMMA VoidedMemory ==
  ASSUME Known, lease # NoGen, NEW ok \in BOOLEAN, RestoreMemory, ClearTurn,
         pending' = PendingAfter(ok), told' = "voided", turn' = turn,
         Rows(TruncatedLog(ok)) => Rows(log'),
         \A ms, idx, sd : Agrees(TruncatedLog(ok), ms, idx, sd)
                            => Agrees(log', ms, idx, sd),
         ~ok => log' = log
  PROVE  MemInv'
<1> DEFINE u == log[msgSeq].msg
<1>1. /\ log \in Seq(Row) /\ Rows(log) /\ TurnOK(log, mem) /\ turn \in Nat
      /\ pending = 0 /\ msgSeq \in Nat
      /\ (msgSeq # 0 => /\ msgSeq \in 1 .. Len(log) /\ u.t = turn
                        /\ u.role = "user")
      /\ ckpt \in Ckpt
  BY HeldKnows
<1>2. Undoable(log) /\ \A o \in ckpt.mem : o.t <= turn
  <2>1. \A o \in ckpt.mem : o.t \in Nat /\ o.t < turn
    BY <1>1 DEF TurnOK, Adds, Ckpt, Msg
  <2> QED
    BY <1>1, <2>1 DEF TurnOK
<1>3. /\ ckpt' = NoCkpt /\ lease' = NoGen /\ ~committed'
      /\ mem' = IF msgSeq = 0 THEN ckpt.mem ELSE ckpt.mem \cup {u}
      /\ turnIndex' = ckpt.idx /\ side' = ckpt.side
  BY DEF ClearTurn, RestoreMemory
<1>4. \A m \in mem' : m.t <= turn'
  BY <1>1, <1>2, <1>3
<1>5. Rows(log')
  <2>1. Rows(TruncatedLog(ok))
    BY <1>1, TruncateKeepsRows DEF TruncatedLog
  <2> QED
    BY <2>1
<1>6. CASE msgSeq = 0
  <2>1. pending' = 0 /\ TruncatedLog(ok) = log
    BY <1>1, <1>6 DEF PendingAfter, TruncatedLog
  <2>2. Settled' = log'
    BY <2>1 DEF Settled
  <2>3. Agrees(Settled', mem', turnIndex', side')
    BY <1>2, <1>3, <1>6, <2>1, <2>2 DEF Undoable
  <2> QED
    BY <1>3, <1>4, <1>5, <2>1, <2>3, Idles
<1>7. CASE msgSeq # 0 /\ ok
  <2>1. pending' = 0 /\ TruncatedLog(ok) = Truncate(log, msgSeq)
    BY <1>7 DEF PendingAfter, TruncatedLog
  <2>2. Settled' = log'
    BY <2>1 DEF Settled
  <2>3. Agrees(Settled', mem', turnIndex', side')
    BY <1>2, <1>3, <1>7, <2>1, <2>2 DEF Undoable
  <2> QED
    BY <1>3, <1>4, <1>5, <2>1, <2>3, Idles
<1>8. CASE msgSeq # 0 /\ ~ok
  <2>1. pending' = msgSeq /\ log' = log
    BY <1>8 DEF PendingAfter
  <2>2. Settled' = Truncate(log, msgSeq)
    BY <1>8, <2>1 DEF Settled
  <2>3. Agrees(Settled', mem', turnIndex', side')
    BY <1>2, <1>3, <1>8, <2>2 DEF Undoable
  <2>4. Restarts(log', mem')
    BY <1>3, <1>8, <2>1, VoidedRestarts
  <2> QED
    BY <1>3, <1>4, <1>5, <2>3, <2>4, Idles
<1> QED
  BY <1>6, <1>7, <1>8

LEMMA RollbackMemory ==
  ASSUME Known, lease # NoGen, Rollback
  PROVE  MemInv'
<1>1. PICK ok \in BOOLEAN, saved \in BOOLEAN :
        /\ saved => ok
        /\ RestoreMemory /\ pending' = PendingAfter(ok) /\ told' = "voided"
        /\ ClearTurn /\ FinishStats(TruncatedLog(ok), saved) /\ turn' = turn
  BY DEF Rollback
<1>2. /\ log \in Seq(Row) /\ Rows(log) /\ turn \in Nat /\ msgSeq \in Nat
      /\ statsSeq = msgSeq
      /\ (msgSeq # 0 => /\ msgSeq \in 1 .. Len(log)
                        /\ log[msgSeq].msg.role = "user")
  BY HeldKnows
<1>3. /\ TruncatedLog(ok) \in Seq(Row) /\ Rows(TruncatedLog(ok))
      /\ (statsSeq # 0 => statsSeq \in 1 .. Len(TruncatedLog(ok)))
  <2>1. CASE msgSeq # 0 /\ ok
    <3>1. TruncatedLog(ok) = Truncate(log, msgSeq)
      BY <2>1 DEF TruncatedLog
    <3>2. Len(Truncate(log, msgSeq)) = msgSeq /\ Truncate(log, msgSeq) \in Seq(Row)
      BY <1>2, <2>1, TruncateRows
    <3>3. Rows(Truncate(log, msgSeq))
      BY <1>2, <2>1, TruncateKeepsRows
    <3> QED
      BY <1>2, <3>1, <3>2, <3>3
  <2>2. CASE ~(msgSeq # 0 /\ ok)
    BY <1>2, <2>2 DEF TruncatedLog
  <2> QED
    BY <2>1, <2>2
<1>4. /\ Rows(log')
      /\ \A ms, idx, sd : Agrees(TruncatedLog(ok), ms, idx, sd)
                            => Agrees(log', ms, idx, sd)
  BY <1>1, <1>2, <1>3, TallyAgrees
<1>5. ~ok => log' = log
  BY <1>1 DEF FinishStats, TruncatedLog
<1> QED
  BY <1>1, <1>4, <1>5, VoidedMemory

LEMMA AbortMemory ==
  ASSUME Known, NEW g \in Gens, Abort(g)
  PROVE  MemInv'
<1>1. PICK ok \in BOOLEAN :
        RestoreMemory /\ pending' = PendingAfter(ok) /\ log' = TruncatedLog(ok)
  BY DEF Abort
<1>2. at[g] = "in" /\ told' = "voided" /\ ClearTurn /\ turn' = turn
  BY DEF Abort
<1>3. lease # NoGen
  BY <1>2, InsideKnows
<1>4. ~ok => log' = log
  BY <1>1 DEF TruncatedLog
<1> QED
  BY <1>1, <1>2, <1>3, <1>4, VoidedMemory

\* The three ways to give up the lease.
LEMMA ReleaseMemory ==
  ASSUME Known, NEW g \in Gens, Block(g) \/ Release(g)
  PROVE  MemInv'
<1>1. CASE Block(g)
  <2>1. at[g] = "in" /\ pc[g] = "pre" /\ ClearTurn /\ FinishStats(log, FALSE)
        /\ UNCHANGED <<workVars, pending, turn>>
    BY <1>1 DEF Block, Runs
  <2>2. lease # NoGen /\ Begins /\ msgSeq = 0
    BY <2>1, InsideKnows DEF PlaceOK
  <2>3. Current
    BY <2>2, HeldKnows DEF Current, TurnOK, Undoable, Begins
  <2> DEFINE no == FALSE
  <2>4. no \in BOOLEAN /\ FinishStats(log, no)
    BY <2>1
  <2> HIDE DEF no
  <2> QED
    BY <2>1, <2>2, <2>3, <2>4, KeptMemory
<1>2. CASE Release(g)
  <2>1. PICK saved \in BOOLEAN : FinishStats(log, saved)
    BY <1>2 DEF Release
  <2>2. ClearTurn /\ UNCHANGED <<workVars, pending, turn>>
    BY <1>2 DEF Release
  <2>3. lease = g /\ pc[g] \in {"ending", "notices"}
    BY <1>2, InsideKnows DEF Release, Runs
  <2>4. lease # NoGen /\ Current
    BY <2>3, GenAssumption DEF Known, MemInv, PlaceOK
  <2> QED
    BY <2>1, <2>2, <2>4, KeptMemory
<1> QED
  BY <1>1, <1>2

LEMMA FinalizeMemory ==
  ASSUME Known, Finalize
  PROVE  MemInv'
<1>1. lease # NoGen
  BY DEF Finalize, CanFinalize, Known, IInv, LeaseCoupled
<1>2. CASE committed
  <2>1. PICK saved \in BOOLEAN : FinishStats(log, saved)
    BY <1>2 DEF Finalize
  <2>2. ClearTurn /\ UNCHANGED <<workVars, pending, turn>> /\ Current
    BY <1>2 DEF Finalize, Known, MemInv
  <2> QED
    BY <1>1, <2>1, <2>2, KeptMemory
<1>3. CASE ~committed
  BY <1>1, <1>3, RollbackMemory DEF Finalize
<1> QED
  BY <1>2, <1>3

-----------------------------------------------------------------------------
(* Steps outside the turn *)

\* Whoever resumes, stops or closes a generator without a rollback leaves
\* memory and transcript alone.
LEMMA OutsideMemory ==
  ASSUME Known,
         UNCHANGED <<lease, ckpt, msgSeq, mem, turnIndex, side, before, log,
                     pending, turn, told>>,
         \A h \in Gens : lease = h => pc'[h] = pc[h] \/ pc'[h] = "none",
         committed' => Current
  PROVE  MemInv'
<1>1. Settled' = Settled
  BY DEF Settled
<1>2. IdleAgrees'
  BY <1>1 DEF Known, MemInv, IdleAgrees, Restarts
<1>3. Rows(log)' /\ (ckpt # NoCkpt => TurnOK(log, mem))'
  BY DEF Known, MemInv, TurnOK, Undoable, Adds, Restarts, UserKept
<1>4. (committed => Current)'
  BY DEF Current
<1>5. ASSUME NEW h \in Gens, lease' = h
      PROVE  PlaceOK(pc[h])'
  <2>1. PlaceOK(pc[h])
    BY <1>5 DEF Known, MemInv
  <2>2. CASE pc'[h] = pc[h]
    BY <2>1, <2>2 DEF PlaceOK, Current, Begins, Submitted, InBlock
  <2>3. CASE pc'[h] = "none"
    BY <2>3 DEF PlaceOK
  <2> QED
    BY <1>5, <2>2, <2>3
<1> QED
  BY <1>2, <1>3, <1>4, <1>5 DEF MemInv

LEMMA ConsumerMemory ==
  ASSUME Known,
         CancelTurn \/ \E g \in Gens : Interrupt(g) \/ TaskStops(g) \/ Resume(g)
  PROVE  MemInv'
<1>1. UNCHANGED <<lease, ckpt, msgSeq, mem, turnIndex, side, before, log,
                  pending, turn, told, committed>>
  BY DEF CancelTurn, Interrupt, TaskStops, Resume, turnVars, workVars
<1>2. \A h \in Gens : lease = h => pc'[h] = pc[h] \/ pc'[h] = "none"
  BY DEF CancelTurn, Interrupt, TaskStops, Resume, Finish, Known, IInv, TypeOK
<1>3. committed' => Current
  BY <1>1 DEF Known, MemInv
<1> QED
  BY <1>1, <1>2, <1>3, OutsideMemory

LEMMA CancelledMemory ==
  ASSUME Known, NEW g \in Gens, CancelledInside(g)
  PROVE  MemInv'
<1>1. UNCHANGED <<lease, ckpt, msgSeq, mem, turnIndex, side, before, log,
                  pending, turn, told>>
  BY DEF CancelledInside, workVars
<1>2. at[g] = "in" /\ pc' = [pc EXCEPT ![g] = "none"]
  BY DEF CancelledInside, Finish
<1>3. lease = g /\ ~committed /\ PlaceOK(pc[g])
  BY <1>2, InsideKnows
<1>4. committed' => Current
  BY <1>3 DEF CancelledInside, HandOver, PlaceOK
<1>5. \A h \in Gens : lease = h => pc'[h] = pc[h] \/ pc'[h] = "none"
  BY <1>2 DEF Known, IInv, TypeOK
<1> QED
  BY <1>1, <1>4, <1>5, OutsideMemory

LEMMA CloseMemory ==
  ASSUME Known, NEW g \in Gens, Close(g)
  PROVE  MemInv'
<1>1. \A h \in Gens : lease = h => pc'[h] = pc[h] \/ pc'[h] = "none"
  BY DEF Close, Finish, Known, IInv, TypeOK
<1>2. CASE \/ lease # g /\ StaleClose
           \/ UNCHANGED <<lease, ckpt, msgSeq, committed, statVars, told,
                          workVars, pending, log, turn, crashes>>
  <2>1. UNCHANGED <<lease, ckpt, msgSeq, mem, turnIndex, side, before, log,
                    pending, turn, told, committed>>
    BY <1>2 DEF StaleClose, turnVars, workVars
  <2>2. committed' => Current
    BY <2>1 DEF Known, MemInv
  <2> QED
    BY <1>1, <2>1, <2>2, OutsideMemory
<1>3. CASE lease = g /\ Rollback
  <2>1. lease # NoGen
    BY <1>3, GenAssumption
  <2> QED
    BY <1>3, <2>1, RollbackMemory
<1> QED
  BY <1>2, <1>3 DEF Close

\* Nothing that is remembered is newer than the rows.
LEMMA RememberedTurns ==
  ASSUME NEW l \in Seq(Row), Rows(l), NEW t \in Nat,
         \A i \in 1 .. Len(l) : l[i].msg.t <= t, NEW m \in Replay(l).mem
  PROVE  m.t <= t
<1> DEFINE s == LatestSnap(l)
<1>1. IsLatest(l, s) /\ Len(l) \in Nat
  BY LatestExists, LenProperties
<1>2. m \in SavedPart(l) \/ m \in Trimmed(l, s + 1, Len(l))
  BY ReplayMemory
<1> HIDE DEF s
<1>3. CASE m \in Trimmed(l, s + 1, Len(l))
  <2>1. s \in Nat /\ s + 1 \in Nat \ {0} /\ Len(l) \in Nat /\ Len(l) <= Len(l)
    BY <1>1 DEF IsLatest
  <2>2. m.n \in s + 1 .. Len(l) /\ m = l[m.n].msg
    BY <1>3, <2>1, TrimmedNumbers DEF Rows
  <2>3. m.n \in 1 .. Len(l)
    BY <2>1, <2>2
  <2> QED
    BY <2>2, <2>3
<1>4. CASE m \in SavedPart(l)
  <2>1. s # 0 /\ m \in l[s].snap.mem
    BY <1>4 DEF SavedPart, s
  <2>2. s \in 1 .. Len(l) /\ SnapGood(l, s)
    BY <1>1, <2>1 DEF IsLatest, Rows, SnapsGood
  <2>3. m.t <= l[s].msg.t /\ l[s].msg.t <= t
    BY <2>1, <2>2 DEF SnapGood
  <2>4. l[s] \in Row /\ l[s].snap \in Snap
    <3>1. l[s] \in Row
      BY <2>2, ElementOfSeq
    <3> QED
      BY <1>1, <2>1, <3>1 DEF Row, IsLatest
  <2>5. m \in Msg /\ l[s].msg \in Msg
    BY <2>1, <2>4 DEF Snap, Row
  <2>6. m.t \in Nat /\ l[s].msg.t \in Nat
    BY <2>5 DEF Msg
  <2> QED
    BY <2>3, <2>6
<1> QED
  BY <1>2, <1>3, <1>4

\* A new process counts the replies that are kept.
LEMMA ReplayIndex ==
  ASSUME NEW l \in Seq(Row), Rows(l)
  PROVE  Replay(l).idx = Assistants(Trimmed(l, 1, Len(l)))
<1> DEFINE s == LatestSnap(l)
           tail == Trimmed(l, s + 1, Len(l))
<1>1. /\ IsLatest(l, s) /\ Len(l) \in Nat
      /\ Replay(l).idx = Assistants(tail) + (IF s = 0 THEN 0 ELSE l[s].snap.idx)
  BY LatestExists, LenProperties DEF Replay
<1>2. s \in Nat /\ s <= Len(l) /\ s + 1 \in Nat \ {0} /\ Len(l) <= Len(l)
      /\ 1 \in Nat \ {0}
  BY <1>1 DEF IsLatest
<1> HIDE DEF s
<1>3. IsFiniteSet(tail) /\ \A m \in tail : m.n \in s + 1 .. Len(l)
  BY <1>1, <1>2, TrimmedTyped, TrimmedNumbers DEF Rows
<1>4. CASE s = 0
  <2>1. tail = Trimmed(l, 1, Len(l))
    BY <1>4
  <2>2. Assistants(tail) \in Nat
    <3>1. IsFiniteSet({}) /\ tail \cap {} = {}
      BY FS_EmptySet
    <3> QED
      BY <1>3, <3>1, AssistantsUnion
  <2> QED
    BY <1>1, <1>4, <2>1, <2>2
<1>5. CASE s # 0
  <2> DEFINE head == Trimmed(l, 1, s)
  <2>1. IsFiniteSet(head) /\ \A m \in head : m.n \in 1 .. s
    BY <1>2, TrimmedTyped, TrimmedNumbers DEF Rows
  <2>2. Trimmed(l, 1, Len(l)) = head \cup tail
    <3>1. 1 <= s + 1
      BY <1>2
    <3> QED
      BY <1>1, <1>2, <3>1, TrimmedParts
  <2>3. s \in 1 .. Len(l) /\ SnapGood(l, s)
    BY <1>1, <1>5 DEF IsLatest, Rows, SnapsGood
  <2>4. l[s].snap.idx = Assistants(head)
    BY <2>3 DEF SnapGood
  <2> HIDE DEF tail, head
  <2>5. head \cap tail = {}
    <3>1. SUFFICES ASSUME NEW m \in head, m \in tail
                   PROVE  FALSE
      OBVIOUS
    <3>2. m.n \in 1 .. s /\ m.n \in s + 1 .. Len(l)
      BY <1>3, <2>1, <3>1
    <3> QED
      BY <1>2, <3>2
  <2>6. /\ Assistants(head \cup tail) = Assistants(head) + Assistants(tail)
        /\ Assistants(head) \in Nat /\ Assistants(tail) \in Nat
    BY <1>3, <2>1, <2>5, AssistantsUnion
  <2>7. Replay(l).idx = Assistants(tail) + l[s].snap.idx
    BY <1>1, <1>5
  <2>8. Replay(l).idx = Assistants(head \cup tail)
    BY <2>4, <2>6, <2>7
  <2> QED
    BY <2>2, <2>8
<1> QED
  BY <1>4, <1>5

\* A new process has what the transcript gives.
LEMMA CrashMemory ==
  ASSUME Known, Crash
  PROVE  MemInv'
<1>1. /\ log \in Seq(Row) /\ Rows(log) /\ turn \in Nat
      /\ \A i \in 1 .. Len(log) : log[i].msg.t <= turn
  BY DEF Known, MemInv, IInv, TypeOK, LogInv, RowsOfThePast
<1>2. /\ ckpt' = NoCkpt /\ lease' = NoGen /\ ~committed' /\ pending' = 0
      /\ mem' = Replay(log).mem /\ turnIndex' = Replay(log).idx
      /\ side' = Replay(log).side /\ log' = log /\ turn' = turn
  BY DEF Crash, ClearTurn
<1>3. Settled' = log
  BY <1>2 DEF Settled
<1>4. Agrees(log, Replay(log).mem, Replay(log).idx, Replay(log).side)
  BY <1>1, ReplayIndex DEF Agrees, IsNewestOf
<1>5. \A m \in Replay(log).mem : m.t <= turn
  BY <1>1, RememberedTurns
<1> QED
  BY <1>1, <1>2, <1>3, <1>4, <1>5, Idles

-----------------------------------------------------------------------------
(* Memory and transcript agree *)

LEMMA EmptyAgrees ==
  ASSUME NEW l \in Seq(Row), Len(l) = 0, NEW ms, ms = {}
  PROVE  Rows(l) /\ Agrees(l, ms, 0, InitSide)
<1>1. DOMAIN l = 1 .. Len(l) /\ \A i \in 1 .. Len(l) : FALSE
  BY LenProperties
<1>2. Rows(l)
  BY <1>1 DEF Rows, Numbered, SnapsGood
<1>3. IsLatest(l, 0)
  BY <1>1 DEF IsLatest
<1>4. LatestSnap(l) = 0
  BY <1>2, <1>3, LatestIs
<1>5. Trimmed(l, 1, Len(l)) = ms
  <2>1. 1 \in Nat \ {0} /\ Len(l) \in Nat /\ Len(l) <= Len(l)
    BY LenProperties
  <2>2. \A m : m \notin Trimmed(l, 1, Len(l))
    BY <1>1, <2>1, TrimmedMember
  <2> QED
    BY <2>2
<1>6. Replay(l).mem = ms
  <2>1. SavedPart(l) = ms
    BY <1>4 DEF SavedPart
  <2>2. LatestSnap(l) + 1 = 1
    BY <1>4
  <2> QED
    BY <1>5, <2>1, <2>2, ReplayMemory
<1>7. Assistants(ms) = 0
  <2>1. {m \in ms : m.role = "assistant"} = {}
    OBVIOUS
  <2> QED
    BY <2>1, FS_EmptySet DEF Assistants
<1>8. Replay(l).side = InitSide
  <2>1. {i \in DOMAIN l : l[i].side # NoSide} = {}
    BY <1>1
  <2> QED
    BY <2>1 DEF Replay
<1> QED
  BY <1>2, <1>5, <1>6, <1>7, <1>8 DEF Agrees, IsNewestOf

LEMMA MemoryInit == Init => MemInv
<1> SUFFICES ASSUME Init
             PROVE  MemInv
  OBVIOUS
<1>1. log \in Seq(Row) /\ Len(log) = 0
  BY EmptySeq DEF Init
<1>2. /\ ckpt = NoCkpt /\ lease = NoGen /\ ~committed /\ pending = 0 /\ mem = {}
      /\ turnIndex = 0 /\ side = InitSide
  BY DEF Init
<1>3. Settled = log
  BY <1>2 DEF Settled
<1>4. Rows(log) /\ Agrees(log, mem, turnIndex, side)
  BY <1>1, <1>2, EmptyAgrees
<1>5. IdleAgrees
  BY <1>2, <1>3, <1>4 DEF IdleAgrees
<1> QED
  BY <1>2, <1>4, <1>5, GenAssumption DEF MemInv

\* Nothing changes.
LEMMA MemoryStutters ==
  ASSUME Known, UNCHANGED vars
  PROVE  MemInv'
<1>1. UNCHANGED <<lease, ckpt, msgSeq, mem, turnIndex, side, before, log,
                  pending, turn, told, committed, pc>>
  BY DEF vars, genVars, turnVars, statVars, workVars
<1>2. committed' => Current
  BY <1>1 DEF Known, MemInv
<1>3. \A h \in Gens : lease = h => pc'[h] = pc[h] \/ pc'[h] = "none"
  BY <1>1
<1> QED
  BY <1>1, <1>2, <1>3, OutsideMemory

LEMMA MemoryStep ==
  ASSUME Known, [Next]_vars
  PROVE  Known'
<1>1. IInv' /\ CommittedStopped'
  BY StepHolds, CommittedStep DEF Known
<1>2. ASSUME NEW g \in Gens, Acquire(g) \/ Emit(g) \/ Interrupt(g)
      PROVE  MemInv'
  BY <1>2, AcquireMemory, QuietMemory, ConsumerMemory
<1>3. ASSUME NEW g \in Gens, Body(g)
      PROVE  MemInv'
  BY <1>1, <1>3, ReleaseMemory, SubmitMemory, CompactMemory, RequestMemory,
     FailedRequestMemory, ReplyMemory, QuietMemory, CallsMemory, EffectMemory,
     ResultMemory, BatchMemory, AbortMemory, CancelledMemory, InsideKnows,
     RollbackMemory
     DEF Body, Fail
<1>4. ASSUME NEW g \in Gens, Consumer(g)
      PROVE  MemInv'
  BY <1>4, ConsumerMemory, CloseMemory DEF Consumer
<1>5. ASSUME CancelTurn \/ Finalize \/ Crash
      PROVE  MemInv'
  BY <1>5, ConsumerMemory, FinalizeMemory, CrashMemory
<1>6. MemInv'
  <2>1. CASE Next
    BY <1>2, <1>3, <1>4, <1>5, <2>1 DEF Next
  <2>2. CASE UNCHANGED vars
    BY <2>2, MemoryStutters
  <2> QED
    BY <2>1, <2>2
<1> QED
  BY <1>1, <1>6 DEF Known

\* What is known of a state is inductive: memory, checkpoint, pending repair and
\* transcript agree with each other at every place of a turn and between turns.
THEOREM MemoryInvariance == Spec => []Known
<1>1. Init => Known
  BY InitHolds, MemoryInit DEF Known, Init, CommittedStopped
<1>2. Known /\ [Next]_vars => Known'
  BY MemoryStep
<1> QED
  BY <1>1, <1>2, PTL DEF Spec

\* The settled transcript is well formed.
LEMMA SettledRows ==
  ASSUME Known
  PROVE  Settled \in Seq(Row) /\ Rows(Settled)
<1>1. log \in Seq(Row) /\ Rows(log)
  BY DEF Known, IInv, TypeOK, MemInv
<1>2. CASE pending = 0
  BY <1>1, <1>2 DEF Settled
<1>3. CASE pending # 0
  <2>1. pending \in 1 .. Len(log) /\ log[pending].msg.role = "user"
    BY <1>3 DEF Known, IInv, LogInv, PendingTail
  <2>2. Truncate(log, pending) \in Seq(Row)
    BY <1>1, <2>1, TruncateRows
  <2>3. Rows(Truncate(log, pending))
    BY <1>1, <2>1, TruncateKeepsRows
  <2> QED
    BY <1>3, <2>2, <2>3 DEF Settled
<1> QED
  BY <1>2, <1>3

\* Between turns the working memory, the turn index and the side state of this
\* process are those a restart on the settled transcript would give, but for
\* messages the window has already evicted.
THEOREM ReplayAgrees == Spec => []ReplayAgreement
<1>1. Known => ReplayAgreement
  <2> SUFFICES ASSUME Known, ckpt = NoCkpt
               PROVE  /\ turnIndex = Replay(Settled).idx
                      /\ side = Replay(Settled).side
                      /\ IsNewestOf(mem, Replay(Settled).mem)
    BY DEF ReplayAgreement
  <2>1. Agrees(Settled, mem, turnIndex, side)
    BY DEF Known, MemInv, IdleAgrees
  <2>2. Replay(Settled).idx = Assistants(Trimmed(Settled, 1, Len(Settled)))
    BY SettledRows, ReplayIndex
  <2> QED
    BY <2>1, <2>2 DEF Agrees
<1> QED
  BY <1>1, MemoryInvariance, PTL

\* What a new process remembers of dialog is the newest of the whole blocks.
LEMMA ReplayIsNewest ==
  ASSUME NEW l \in Seq(Row), Rows(l)
  PROVE  IsNewestOf(Dialog(Replay(l).mem), Trimmed(l, 1, Len(l)))
<1> DEFINE s == LatestSnap(l)
           tail == Trimmed(l, s + 1, Len(l))
           R == Replay(l).mem
<1>1. /\ IsLatest(l, s) /\ Len(l) \in Nat /\ R = SavedPart(l) \cup tail
  BY LatestExists, LenProperties, ReplayMemory
<1>2. s \in Nat /\ s <= Len(l) /\ s + 1 \in Nat \ {0} /\ Len(l) <= Len(l)
      /\ 1 \in Nat \ {0}
  BY <1>1 DEF IsLatest
<1>3. SavedPart(l) = IF s = 0 THEN {} ELSE l[s].snap.mem
  BY DEF SavedPart
<1> HIDE DEF s, R
<1>4. \A m \in tail : m.n \in s + 1 .. Len(l) /\ m.role # "summary"
  BY <1>1, <1>2, TrimmedNumbers DEF Rows
<1>5. CASE s = 0
  <2>1. R = Trimmed(l, 1, Len(l))
    BY <1>1, <1>3, <1>5
  <2>2. \A m \in R : m.role # "summary"
    BY <1>1, <1>3, <1>4, <1>5
  <2> QED
    BY <2>1, <2>2 DEF IsNewestOf, Dialog, Summaries, R
<1>6. CASE s # 0
  <2> DEFINE head == Trimmed(l, 1, s)
             b == l[s].snap.mem
  <2>1. \A m \in head : m.n \in 1 .. s
    BY <1>2, TrimmedNumbers DEF Rows
  <2>2. Trimmed(l, 1, Len(l)) = head \cup tail
    <3>1. 1 <= s + 1
      BY <1>2
    <3> QED
      BY <1>1, <1>2, <3>1, TrimmedParts
  <2>3. s \in 1 .. Len(l) /\ SnapGood(l, s)
    BY <1>1, <1>6 DEF IsLatest, Rows, SnapsGood
  <2>4. IsNewestOf(Dialog(b), head)
    BY <2>3 DEF SnapGood
  <2>5. R = b \cup tail
    BY <1>1, <1>3, <1>6
  <2> HIDE DEF tail, head, b
  <2>6. Dialog(R) = Dialog(b) \cup tail
    BY <1>4, <2>5 DEF Dialog, Summaries
  <2>7. \A o \in head, m \in tail : o.n < m.n
    BY <1>2, <1>4, <2>1
  <2>8. IsNewestOf(Dialog(b) \cup tail, head \cup tail)
    BY <2>4, <2>7 DEF IsNewestOf
  <2> QED
    BY <2>2, <2>6, <2>8 DEF R
<1> QED
  BY <1>5, <1>6

\* Between turns the working set can be saved as a compaction: it is the
\* newest of the whole blocks the settled transcript holds.
THEOREM WorkingSetIsSavable == Spec => []CompactionSavable
<1>1. Known => CompactionSavable
  <2> SUFFICES ASSUME Known, ckpt = NoCkpt
               PROVE  IsNewestOf(Dialog(mem), Trimmed(Settled, 1, Len(Settled)))
    BY DEF CompactionSavable, Dialog
  <2>1. IsNewestOf(mem, Replay(Settled).mem)
    BY DEF Known, MemInv, IdleAgrees, Agrees
  <2> DEFINE R == Replay(Settled).mem
  <2>2. IsNewestOf(Dialog(R), Trimmed(Settled, 1, Len(Settled)))
    BY SettledRows, ReplayIsNewest
  <2>3. IsNewestOf(mem, R)
    BY <2>1
  <2> HIDE DEF R
  <2>4. IsNewestOf(Dialog(mem), Dialog(R))
    BY <2>3 DEF IsNewestOf, Dialog, Summaries
  <2> QED
    BY <2>2, <2>4, NewestOfNewest
<1> QED
  BY <1>1, MemoryInvariance, PTL

-----------------------------------------------------------------------------
(* Turns are atomic *)

\* The conversation and its phase, as Contract has them.
Conv == IF ckpt = NoCkpt THEN mem ELSE ckpt.mem

Phase == CASE ckpt # NoCkpt -> "running"
           [] ckpt = NoCkpt /\ told = "voided" -> "voided"
           [] OTHER -> "open"

LEMMA Phases ==
  /\ ckpt # NoCkpt => Phase = "running"
  /\ ckpt = NoCkpt /\ told = "voided" => Phase = "voided"
  /\ ckpt = NoCkpt /\ told # "voided" => Phase = "open"
  BY DEF Phase

\* The steps of Conversation, in terms of Conv and Phase.
Refines ==
  [Contract!Next]_<<Conv, Phase>>

LEMMA Stutters ==
  ASSUME ckpt' = ckpt, ckpt # NoCkpt \/ UNCHANGED <<mem, told>>
  PROVE  Refines
  BY DEF Refines, Conv, Phase

\* What Conversation says of messages, in the words used here.
LEMMA ContractTerms ==
  ASSUME NEW old, NEW new
  PROVE  /\ Contract!Dialog(old) = Dialog(old)
         /\ Contract!ForgetsOldestOnly(old, new) <=> Forgets(old, new)
  BY DEF Contract!Dialog, Contract!ForgetsOldestOnly, Forgets, Dialog, Summaries

\* Messages of the newest turn only.
LEMMA OneTurn ==
  ASSUME NEW old, NEW new, old \in SUBSET Msg, new \in SUBSET Msg, turn \in Nat,
         \A m \in new \ old : m.t = turn \/ Older(m, old)
  PROVE  /\ \A m \in Contract!Gained(old, new) : m.t = turn
         /\ (\A o \in old : o.t < turn) => Contract!OneNewTurn(old, new)
<1>1. ASSUME NEW m \in Contract!Gained(old, new)
      PROVE  m.t = turn
  <2>1. m \in new \ old /\ (old = {} \/ \E o \in Dialog(old) : o.n <= m.n)
    BY <1>1, ContractTerms DEF Contract!Gained
  <2>2. m.n \in Nat /\ \A o \in Dialog(old) : o.n \in Nat
    BY <2>1 DEF Msg, Dialog
  <2>3. ~Older(m, old)
    BY <2>1, <2>2 DEF Older
  <2> QED
    BY <2>1, <2>3
<1> QED
  BY <1>1 DEF Contract!OneNewTurn

LEMMA ContractSteps ==
  /\ Contract!Begin <=> Phase # "running" /\ Phase' = "running" /\ Conv' = Conv
  /\ Contract!Keep <=>
       /\ Phase = "running" /\ Phase' = "open"
       /\ Contract!OneNewTurn(Conv, Conv')
       /\ Contract!ForgetsOldestOnly(Conv, Conv')
       /\ Conv # {} => Conv' # {}
  /\ Contract!Void <=>
       /\ Phase = "running" /\ Phase' = "voided"
       /\ \/ Conv' = Conv
          \/ \E m \in Conv' : /\ Conv' = Conv \cup {m}
                              /\ m.role = "user"
                              /\ Contract!OneNewTurn(Conv, Conv')
<1>1. Contract!Begin <=> Phase # "running" /\ Phase' = "running" /\ Conv' = Conv
  BY DEF Contract!Begin, Phase, Conv
<1>2. Contract!Keep <=>
       /\ Phase = "running" /\ Phase' = "open"
       /\ Contract!OneNewTurn(Conv, Conv')
       /\ Contract!ForgetsOldestOnly(Conv, Conv')
       /\ Conv # {} => Conv' # {}
  BY DEF Contract!Keep, Phase, Conv
<1>3. Contract!Void <=>
       /\ Phase = "running" /\ Phase' = "voided"
       /\ \/ Conv' = Conv
          \/ \E m \in Conv' : /\ Conv' = Conv \cup {m}
                              /\ m.role = "user"
                              /\ Contract!OneNewTurn(Conv, Conv')
  BY DEF Contract!Void, Phase, Conv
<1> QED
  BY <1>1, <1>2, <1>3

\* A restart, for each of the phases it may happen in.
LEMMA ContractRestart ==
  /\ Phase = "open" /\ Phase' = "open" /\ Contract!Dialog(Conv) \subseteq Conv'
       /\ Contract!Gained(Conv, Conv') = {} => Contract!Restart
  /\ Phase = "running" /\ Phase' = "open" /\ Contract!OneNewTurn(Conv, Conv')
       /\ Contract!ForgetsOldestOnly(Conv, Conv') => Contract!Restart
  /\ Phase = "voided" /\ Phase' = "open"
       /\ Contract!ForgetsOldestOnly(Conv, Conv')
       /\ (\A m, k \in Contract!Gained(Conv, Conv') : k.t = m.t)
       /\ (\A m \in Contract!Gained(Conv, Conv'), o \in Conv : o.t <= m.t)
       => Contract!Restart
  BY DEF Contract!Restart, Phase, Conv

LEMMA ContractNext ==
  Contract!Begin \/ Contract!Keep \/ Contract!Void \/ Contract!Restart => Refines
  BY DEF Contract!Next, Refines

LEMMA BeginRefines ==
  ASSUME Known, NEW g \in Gens, Acquire(g)
  PROVE  Refines
<1>1. ckpt = NoCkpt /\ mem' = mem
      /\ ckpt' = [mem |-> mem, idx |-> turnIndex, side |-> side]
  BY DEF Acquire, MayAcquire, workVars
<1>2. ckpt' # NoCkpt /\ ckpt'.mem = mem
  <2>1. ckpt' \in Ckpt
    BY <1>1 DEF Ckpt, Known, IInv, TypeOK
  <2> QED
    BY <1>1, <2>1, SentinelAssumption
<1>3. Conv' = Conv
  BY <1>1, <1>2 DEF Conv
<1>4. Phase # "running" /\ Phase' = "running"
  BY <1>1, <1>2 DEF Phase
<1> QED
  BY <1>3, <1>4, ContractSteps, ContractNext

\* A turn that is kept adds messages of its own.
LEMMA KeepRefines ==
  ASSUME Known, lease # NoGen, ckpt' = NoCkpt, mem' = mem, told' # "voided"
  PROVE  Refines
<1>1. /\ TurnOK(log, mem) /\ turn \in Nat /\ mem \in SUBSET Msg /\ ckpt # NoCkpt
      /\ ckpt \in Ckpt
  BY HeldKnows
<1>2. Adds(mem) /\ ckpt.mem \in SUBSET Msg
  BY <1>1 DEF TurnOK, Ckpt
<1>3. Conv = ckpt.mem /\ Conv' = mem /\ Phase = "running" /\ Phase' = "open"
  BY <1>1 DEF Conv, Phase
<1>4. Contract!OneNewTurn(ckpt.mem, mem)
  <2>1. /\ \A m \in mem \ ckpt.mem : m.t = turn \/ Older(m, ckpt.mem)
        /\ \A o \in ckpt.mem : o.t < turn
    BY <1>2 DEF Adds
  <2> QED
    BY <1>1, <1>2, <2>1, OneTurn
<1>5. Contract!ForgetsOldestOnly(ckpt.mem, mem) /\ (ckpt.mem # {} => mem # {})
  BY <1>2, ContractTerms DEF Adds
<1> QED
  BY <1>3, <1>4, <1>5, ContractSteps, ContractNext

\* A turn that is voided leaves at most its user message.
LEMMA VoidRefines ==
  ASSUME Known, lease # NoGen, ckpt' = NoCkpt, RestoreMemory, told' = "voided"
  PROVE  Refines
<1> DEFINE u == log[msgSeq].msg
<1>1. /\ TurnOK(log, mem) /\ turn \in Nat /\ ckpt # NoCkpt /\ ckpt \in Ckpt
      /\ log \in Seq(Row)
      /\ (msgSeq # 0 => /\ msgSeq \in 1 .. Len(log) /\ u.t = turn
                        /\ u.role = "user")
  BY HeldKnows
<1>2. /\ ckpt.mem \in SUBSET Msg /\ \A o \in ckpt.mem : o.t < turn
  BY <1>1 DEF TurnOK, Adds, Ckpt
<1>3. Conv = ckpt.mem /\ Conv' = mem' /\ Phase = "running" /\ Phase' = "voided"
  BY <1>1 DEF Conv, Phase
<1>4. CASE msgSeq = 0
  <2>1. mem' = ckpt.mem
    BY <1>4 DEF RestoreMemory
  <2> QED
    BY <1>3, <2>1, ContractSteps, ContractNext
<1>5. CASE msgSeq # 0
  <2>1. mem' = ckpt.mem \cup {u}
    BY <1>5 DEF RestoreMemory
  <2>2. u \in Msg
    <3>1. log[msgSeq] \in Row
      BY <1>1, <1>5, ElementOfSeq
    <3> QED
      BY <3>1 DEF Row
  <2>3. Contract!OneNewTurn(ckpt.mem, mem')
    <3>1. mem' \in SUBSET Msg
      BY <1>2, <2>1, <2>2
    <3>2. \A m \in mem' \ ckpt.mem : m.t = turn \/ Older(m, ckpt.mem)
      BY <1>1, <1>5, <2>1
    <3> QED
      BY <1>1, <1>2, <3>1, <3>2, OneTurn
  <2>4. u \in mem' /\ u.role = "user"
    BY <1>1, <1>5, <2>1
  <2> HIDE DEF u
  <2> QED
    BY <1>3, <2>1, <2>3, <2>4, ContractSteps, ContractNext
<1> QED
  BY <1>4, <1>5

\* A restart between turns, inside one, and after one was voided.
LEMMA RestartRefines ==
  ASSUME Known, Crash
  PROVE  Refines
<1> DEFINE R == Replay(log).mem
<1>1. mem' = R /\ ckpt' = NoCkpt /\ told' = "none"
  BY DEF Crash, ClearTurn
<1>2. Conv' = R /\ Phase' = "open"
  BY <1>1 DEF Conv, Phase
<1>3. /\ R \in SUBSET Msg /\ turn \in Nat /\ mem \in SUBSET Msg
  BY ReplayTyped DEF Known, IInv, TypeOK
<1>4. CASE ckpt # NoCkpt
  <2>1. lease # NoGen
    BY <1>4 DEF Known, IInv, LeaseCoupled
  <2>2. TurnOK(log, mem) /\ ckpt \in Ckpt
    BY <2>1, HeldKnows
  <2>3. /\ ckpt.mem \in SUBSET Msg /\ (\A o \in ckpt.mem : o.t < turn)
        /\ Forgets(ckpt.mem, R)
        /\ \A m \in R \ ckpt.mem : m.t = turn \/ Older(m, ckpt.mem)
    BY <2>2 DEF TurnOK, Adds, Restarts, Ckpt
  <2> HIDE DEF R
  <2>4. Contract!OneNewTurn(ckpt.mem, R) /\ Contract!ForgetsOldestOnly(ckpt.mem, R)
    BY <1>3, <2>3, OneTurn, ContractTerms
  <2>5. Conv = ckpt.mem /\ Phase = "running"
    BY <1>4 DEF Conv, Phase
  <2> QED
    BY <1>2, <2>4, <2>5, ContractRestart, ContractNext
<1>5. CASE ckpt = NoCkpt /\ pending = 0
  <2>1. IsNewestOf(mem, R) /\ (mem = {} => R = {})
    BY <1>5 DEF Known, MemInv, IdleAgrees, Settled, Agrees
  <2> HIDE DEF R
  <2>2. Conv = mem
    BY <1>5 DEF Conv
  <2>3. Contract!Dialog(mem) \subseteq R /\ Contract!ForgetsOldestOnly(mem, R)
    BY <2>1, ContractTerms DEF IsNewestOf, Dialog, Forgets
  <2>4. Contract!Gained(mem, R) = {}
    <3>1. ASSUME NEW m \in Contract!Gained(mem, R)
          PROVE  FALSE
      <4>1. m \in R \ mem /\ (mem = {} \/ \E o \in Dialog(mem) : o.n <= m.n)
        BY <3>1, ContractTerms DEF Contract!Gained
      <4>2. PICK o \in mem : o.n <= m.n
        BY <2>1, <4>1 DEF Dialog
      <4>3. m.n < o.n
        BY <2>1, <4>1, <4>2 DEF IsNewestOf
      <4>4. m.n \in Nat /\ o.n \in Nat
        BY <1>3, <4>1, <4>2 DEF Msg
      <4> QED
        BY <4>2, <4>3, <4>4
    <3> QED
      BY <3>1
  <2>5. Phase = "open" \/ Phase = "voided"
    BY <1>5 DEF Phase
  <2> QED
    BY <1>2, <2>2, <2>3, <2>4, <2>5, ContractRestart, ContractNext
<1>6. CASE ckpt = NoCkpt /\ pending # 0
  <2>1. told = "voided" /\ Restarts(log, mem) /\ \A o \in mem : o.t <= turn
    BY <1>6 DEF Known, MemInv, IdleAgrees
  <2>2. Conv = mem /\ Phase = "voided"
    BY <1>6, <2>1 DEF Conv, Phase
  <2>3. /\ Forgets(mem, R)
        /\ \A m \in R \ mem : m.t = turn \/ Older(m, mem)
    BY <2>1 DEF Restarts
  <2> HIDE DEF R
  <2>4. \A m \in Contract!Gained(mem, R) : m.t = turn
    BY <1>3, <2>3, OneTurn
  <2>5. Contract!ForgetsOldestOnly(mem, R)
    BY <2>3, ContractTerms
  <2>6. /\ \A m, k \in Contract!Gained(mem, R) : k.t = m.t
        /\ \A m \in Contract!Gained(mem, R), o \in mem : o.t <= m.t
    BY <2>1, <2>4
  <2> QED
    BY <1>2, <2>2, <2>5, <2>6, ContractRestart, ContractNext
<1> QED
  BY <1>4, <1>5, <1>6

LEMMA StepRefines ==
  ASSUME Known, [Next]_vars
  PROVE  Refines
<1>1. ASSUME NEW g \in Gens, at[g] = "in", ckpt' = ckpt
      PROVE  Refines
  <2>1. lease # NoGen
    BY <1>1, InsideKnows
  <2>2. ckpt # NoCkpt
    BY <2>1, HeldKnows
  <2> QED
    BY <1>1, <2>2, Stutters
<1>2. ASSUME NEW g \in Gens,
             \/ Emit(g) \/ SubmitUser(g) \/ Compact(g)
             \/ Request(g) \/ ModelFails(g) \/ Reply(g) \/ ReplyWithCalls(g)
             \/ Dispatch(g) \/ ToolEffect(g) \/ ToolResult(g)
             \/ FinishBatch(g) \/ MaxIterations(g) \/ GuardReply(g)
             \/ TurnEndNotices(g) \/ CancelledInside(g)
      PROVE  Refines
  <2>1. at[g] = "in" /\ ckpt' = ckpt
    BY <1>2
       DEF Emit, SubmitUser, Compact, Request, ModelFails, Reply,
           ReplyWithCalls, Dispatch, ToolEffect, ToolResult, FinishBatch,
           MaxIterations, GuardReply, TurnEndNotices, CancelledInside, Runs,
           turnVars
  <2> QED
    BY <1>1, <2>1
<1>3. ASSUME NEW g \in Gens, Interrupt(g) \/ Resume(g) \/ TaskStops(g)
      PROVE  Refines
  <2>1. UNCHANGED <<ckpt, mem, told>>
    BY <1>3 DEF Interrupt, Resume, TaskStops, turnVars, workVars
  <2> QED
    BY <2>1, Stutters
<1>4. ASSUME NEW g \in Gens, Block(g)
      PROVE  Refines
  <2>1. /\ at[g] = "in" /\ pc[g] = "pre" /\ ckpt' = NoCkpt
        /\ mem' = mem /\ told' = told
    BY <1>4 DEF Block, Runs, ClearTurn, workVars
  <2>2. lease # NoGen /\ told = "none"
    BY <2>1, InsideKnows DEF PlaceOK, Begins
  <2> QED
    BY <2>1, <2>2, KeepRefines
<1>5. ASSUME NEW g \in Gens, Release(g)
      PROVE  Refines
  <2>1. /\ ckpt' = NoCkpt /\ mem' = mem /\ told' = "none"
    BY <1>5 DEF Release, ClearTurn, workVars
  <2>2. lease # NoGen
    BY <1>5, InsideKnows, GenAssumption DEF Release, Runs
  <2> QED
    BY <2>1, <2>2, KeepRefines
<1>6. ASSUME Rollback, lease # NoGen
      PROVE  Refines
  BY <1>6, VoidRefines DEF Rollback, ClearTurn
<1>7. ASSUME NEW g \in Gens, Fail(g) \/ Abort(g)
      PROVE  Refines
  <2>1. at[g] = "in"
    BY <1>7 DEF Fail, Abort
  <2>2. lease # NoGen
    BY <2>1, InsideKnows
  <2>3. CASE Abort(g)
    <3>1. RestoreMemory /\ ckpt' = NoCkpt /\ told' = "voided"
      BY <2>3 DEF Abort, ClearTurn
    <3> QED
      BY <2>2, <3>1, VoidRefines
  <2> QED
    BY <1>6, <1>7, <2>2, <2>3 DEF Fail
<1>8. ASSUME NEW g \in Gens, Close(g)
      PROVE  Refines
  <2>1. CASE UNCHANGED <<ckpt, mem, told>>
    BY <2>1, Stutters
  <2>2. CASE lease = g /\ Rollback
    BY <1>6, <2>2, GenAssumption
  <2> QED
    BY <1>8, <2>1, <2>2 DEF Close, StaleClose, turnVars, workVars
<1>9. ASSUME Finalize
      PROVE  Refines
  <2>1. lease # NoGen
    BY <1>9 DEF Finalize, CanFinalize, Known, IInv, LeaseCoupled
  <2>2. CASE committed
    <3>1. ckpt' = NoCkpt /\ mem' = mem /\ told' = "none"
      BY <1>9, <2>2 DEF Finalize, ClearTurn, workVars
    <3> QED
      BY <2>1, <3>1, KeepRefines
  <2>3. CASE ~committed
    BY <1>6, <1>9, <2>1, <2>3 DEF Finalize
  <2> QED
    BY <2>2, <2>3
<1>10. ASSUME CancelTurn \/ UNCHANGED vars
       PROVE  Refines
  <2>1. UNCHANGED <<ckpt, mem, told>>
    BY <1>10 DEF CancelTurn, vars, turnVars, workVars
  <2> QED
    BY <2>1, Stutters
<1>11. ASSUME NEW g \in Gens, Body(g)
       PROVE  Refines
  BY <1>2, <1>4, <1>5, <1>7, <1>11 DEF Body
<1>12. ASSUME NEW g \in Gens, Consumer(g)
       PROVE  Refines
  BY <1>3, <1>8, <1>12 DEF Consumer
<1>13. ASSUME NEW g \in Gens, Acquire(g) \/ Emit(g) \/ Interrupt(g)
       PROVE  Refines
  BY <1>2, <1>3, <1>13, BeginRefines
<1>14. ASSUME Next
       PROVE  Refines
  BY <1>9, <1>10, <1>11, <1>12, <1>13, <1>14, RestartRefines DEF Next
<1> QED
  BY <1>10, <1>14

\* Every turn happens as a whole or not at all: between turns the agent is a
\* Conversation, whatever stops, errors, failed repairs and crashes happen.
THEOREM TurnsHappenAtomically == Spec => TurnsAreAtomic
<1>1. Init => Contract!Init
  BY DEF Init, Contract!Init
<1>2. Known /\ [Next]_vars =>
        [Contract!Next]_<<IF ckpt = NoCkpt THEN mem ELSE ckpt.mem,
                          CASE ckpt # NoCkpt -> "running"
                            [] ckpt = NoCkpt /\ told = "voided" -> "voided"
                            [] OTHER -> "open">>
  BY StepRefines DEF Refines, Conv, Phase
<1> QED
  BY <1>1, <1>2, MemoryInvariance, PTL DEF Spec, TurnsAreAtomic, Contract!Spec

=============================================================================
