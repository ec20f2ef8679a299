---------------------------- MODULE SessionStore ----------------------------
(***************************************************************************)
(* The transcripts of a profile (sessions.py): message rows in order, and  *)
(* runtime events - compaction snapshots, skill states, todo lists -       *)
(* anchored at rows and numbered by one cursor for the whole file.         *)
(*                                                                         *)
(* A session is written by one agent, stopped, edited (rewound), renamed   *)
(* and deleted by its frontend, and forked from any boundary while the     *)
(* agent works.  Every operation is one SQLite transaction.  Derived rows  *)
(* may be damaged; readers must then fall back, and never revive a skill.  *)
(*                                                                         *)
(* truth and hurt record what the agent saved at each row and whether an   *)
(* event of the branch was damaged; no action reads them.                  *)
(***************************************************************************)
EXTENDS Naturals, FiniteSets, Sequences, Functions, Subsequences

CONSTANTS
  Ids,        \* session ids, fresh ones included
  Skills,
  Texts,      \* first lines of prompts
  Lists,      \* todo lists, among them NoTodos
  NoTodos,
  LostAnchors,  \* anchors of no row that damage may leave
  Named,      \* a title the user gave; not a text
  MaxRows,    \* bound: rows of a session
  MaxTail,    \* bound: messages a snapshot keeps behind its summary
  MaxEdits,   \* bound: stops, edits, renames and deletions
  MaxEvents,  \* bound: event number of a save; copies of a fork may exceed it
  MaxDamage   \* bound: damaged events

ASSUME StoreAssumption ==
  /\ \A a \in LostAnchors : a \notin 1 .. MaxRows
  /\ NoTodos \in Lists /\ Named \notin Texts \cup {""} /\ "" \notin Texts
  /\ MaxTail \in Nat /\ MaxRows \in Nat /\ MaxEdits \in Nat /\ MaxEvents \in Nat /\ MaxDamage \in Nat

VARIABLES
  live,     \* sessions with a row in the sessions table
  born,     \* ids handed out, in order
  rows,     \* id -> messages in sequence order
  title,    \* id -> "", a text or Named
  origin,   \* id -> root of its lineage; itself when it is no fork
  events,   \* the session_events table
  cursor,   \* the last event number handed out
  damage,   \* damaged events so far
  edits,    \* edits so far
  truth, hurt

sessions == <<live, born, title, origin>>
derived == <<events, cursor, damage>>
vars == <<sessions, rows, derived, edits, truth, hurt>>

Titles == Texts \cup {"", Named}
\* A reply is a call here, followed by its result; a plain answer would be one
\* more message that is whole by itself.
Roles == {"user", "call", "tool"}
Messages == [role : Roles, text : Texts \cup {""}]

-----------------------------------------------------------------------------
(* Reading *)

\* trim_dangling: a call counts with its result, a result behind its call.
Whole(q) ==
  {i \in DOMAIN q :
     /\ q[i].role = "call" => i < Len(q) /\ q[i + 1].role = "tool"
     /\ q[i].role = "tool" => i > 1 /\ q[i - 1].role = "call"}

Trim(q) == Subsequence(q, Whole(q))

Assistants(q) == Cardinality({i \in DOMAIN q : q[i].role = "call"})

Prefix(s, n) == SubSeq(rows[s], 1, n)

Last(q, n) == SubSeq(q, Len(q) - n + 1, Len(q))

\* _canonical_message_suffix: the newest count whole messages up to a row.
Canonical(s, n, count) ==
  LET q == Trim(Prefix(s, n))
  IN  IF n \in DOMAIN rows[s] /\ count <= Len(q) THEN Last(q, count) ELSE << >>

Anchored(e) == e.anchor \in DOMAIN rows[e.session]
Of(s, kind) == {e \in events : e.session = s /\ e.kind = kind}
Newest(E) == {e \in E : \A f \in E : f.seq <= e.seq}

\* Rows whose payload still carries a working set, readable or not.
Bodies(s) == {e \in Of(s, "compaction") : e.body # "superseded"}

Fits(e) ==
  e.sound /\ e.body = "full" /\ Canonical(e.session, e.anchor, Len(e.tail)) = e.tail

\* latest_compaction goes on to an older one when it does not fit.
Snapshot(s) == Newest({e \in Bodies(s) : Fits(e)})

\* active_skill_state reads the newest row only.
ActiveSkills(s) ==
  LET E == {e \in Newest(Of(s, "skill")) : Anchored(e) /\ e.sound}
  IN  UNION {e.skills : e \in E}

\* latest_todos: an unanchored row is passed over, a damaged one is empty.
LatestTodos(s) ==
  LET E == {e \in Newest({f \in Of(s, "todo") : Anchored(f)}) : e.sound}
  IN  IF E = {} THEN NoTodos ELSE (CHOOSE e \in E : TRUE).todos

\* attach_session: the snapshot and the whole messages behind it, or all.
Behind(s, e) == Trim(SubSeq(rows[s], e.anchor + 1, Len(rows[s])))

Resume(s) ==
  LET S == Snapshot(s)
      e == CHOOSE e \in S : TRUE
      whole == IF S = {} THEN Trim(rows[s]) ELSE Behind(s, e)
  IN  IF S = {}
      THEN [messages |-> whole, turn |-> Assistants(whole)]
      ELSE [messages |-> e.tail \o whole, turn |-> e.turn + Assistants(whole)]

-----------------------------------------------------------------------------
(* Writing events *)

\* AUTOINCREMENT.
NextSeq == cursor + 1

Event(s, kind) ==
  [seq |-> NextSeq, session |-> s, anchor |-> Len(rows[s]), kind |-> kind,
   body |-> "none", tail |-> << >>, turn |-> 0, skills |-> {},
   todos |-> NoTodos, sound |-> TRUE]

\* The two newest bodies of a session stay.
Keeps(e, E) == Cardinality({f \in E : f.seq > e.seq}) < 2

Prune(E, s) ==
  LET B == {e \in E : e.session = s /\ e.kind = "compaction"
                                    /\ e.body # "superseded"}
      Old == {e \in B : ~Keeps(e, B)}
  IN  (E \ Old) \cup {[e EXCEPT !.body = "superseded", !.tail = << >>,
                                !.turn = 0] : e \in Old}

\* Bound: one conversation, continued on its newest branch; sessions share
\* nothing but the event cursor.
Continued(s) == s \in live /\ s = born[Len(born)]

\* A session's row appears with its first message.
MayStart == born = << >>

Present(s) ==
  /\ live' = live \cup {s}
  /\ born' = IF s \in live THEN born ELSE Append(born, s)
  /\ UNCHANGED origin

Follows(role, s) ==
  LET last == IF rows[s] = << >> THEN "none" ELSE rows[s][Len(rows[s])].role
  IN  CASE role = "user" -> TRUE
        [] role = "tool" -> last = "call"
        [] role = "call" -> last \in {"user", "tool"}

AddMessage(s, m) ==
  /\ Continued(s) \/ MayStart
  /\ Len(rows[s]) < MaxRows
  /\ Follows(m.role, s)
  /\ (m.text = "") = (m.role # "user")
  /\ rows' = [rows EXCEPT ![s] = Append(@, m)]
  /\ title' = [title EXCEPT ![s] =
                 IF m.role = "user" /\ @ = "" THEN m.text ELSE @]
  /\ Present(s)
  /\ truth' = [truth EXCEPT ![s] = Append(@,
                 IF @ = << >> THEN [skills |-> {}, todos |-> NoTodos]
                              ELSE @[Len(@)])]
  /\ UNCHANGED <<edits, derived, hurt>>

\* The tool batch is over: its skill state goes to the last row.
Saves(s) ==
  /\ Continued(s) /\ cursor < MaxEvents
  /\ rows[s] # << >> /\ rows[s][Len(rows[s])].role = "tool"

SaveSkills(s, active) ==
  /\ Saves(s)
  /\ events' = events \cup {[Event(s, "skill") EXCEPT !.skills = active]}
  /\ cursor' = NextSeq
  /\ truth' = [truth EXCEPT ![s][Len(rows[s])].skills = active]
  /\ UNCHANGED <<edits, sessions, rows, damage, hurt>>

SaveTodos(s, list) ==
  /\ Saves(s)
  /\ events' = events \cup {[Event(s, "todo") EXCEPT !.todos = list]}
  /\ cursor' = NextSeq
  /\ truth' = [truth EXCEPT ![s][Len(rows[s])].todos = list]
  /\ UNCHANGED <<edits, sessions, rows, damage, hurt>>

\* Mutant: dangling replies of a crashed turn are counted.
TurnIndexRaw(s) == Assistants(rows[s])

TurnIndex(s) == Assistants(Trim(rows[s]))

\* At the start of an iteration: a summary and the newest count messages.
SaveCompaction(s, count) ==
  LET tail == Canonical(s, Len(rows[s]), count)
  IN  /\ Continued(s) /\ cursor < MaxEvents
      /\ rows[s] # << >> /\ rows[s][Len(rows[s])].role \in {"user", "tool"}
      /\ tail # << >> /\ Trim(tail) = tail
      /\ events' = Prune(events \cup
           {[Event(s, "compaction") EXCEPT !.body = "full", !.tail = tail,
                                           !.turn = TurnIndex(s)]}, s)
      /\ cursor' = NextSeq
      /\ UNCHANGED <<edits, sessions, rows, damage, truth, hurt>>

-----------------------------------------------------------------------------
(* Branches *)

\* Events anchored behind the kept rows, or at the row of the cut.
Uncut(s, n) == {e \in events : e.session # s \/ e.anchor < n}

\* Mutant: the todo lists of the old branch stay.
TodosKept(s, n) ==
  {e \in events : e.session # s \/ e.anchor < n \/ e.kind = "todo"}

\* rewind_to_user_message deletes the events of the old branch as well.
BeforePrompt(s, n) == Uncut(s, n)

Edits == edits < MaxEdits /\ edits' = edits + 1

\* Stop: the running turn's prompt stays, with none of its events.
Truncate(s, n) ==
  /\ Edits
  /\ s \in live /\ n \in DOMAIN rows[s] /\ rows[s][n].role = "user"
  /\ \A i \in n + 1 .. Len(rows[s]) : rows[s][i].role # "user"
  /\ rows' = [rows EXCEPT ![s] = Prefix(s, n)]
  /\ events' = Uncut(s, n)
  /\ truth' = [truth EXCEPT ![s] = SubSeq(@, 1, n)]
  /\ UNCHANGED <<sessions, cursor, damage, hurt>>

\* Mutant: the title of the removed prompt stays.
TitleKept(s, n) == title[s]

TitleAfter(s, n) ==
  IF title[s] = rows[s][n].text /\ \A i \in 1 .. n - 1 : rows[s][i].role # "user"
  THEN "" ELSE title[s]

\* Edit: the prompt and everything behind it go.
Rewind(s, n) ==
  /\ Edits
  /\ s \in live /\ n \in DOMAIN rows[s] /\ rows[s][n].role = "user"
  /\ rows' = [rows EXCEPT ![s] = Prefix(s, n - 1)]
  /\ events' = BeforePrompt(s, n)
  /\ title' = [title EXCEPT ![s] = TitleAfter(s, n)]
  /\ truth' = [truth EXCEPT ![s] = SubSeq(@, 1, n - 1)]
  /\ UNCHANGED <<live, born, origin, cursor, damage, hurt>>

\* Mutant: a damaged skill row is dropped like the others.
TombstoneDropped(e, n) == FALSE

\* A damaged skill row is carried as an empty state.
Tombstone(e, n) ==
  /\ e.kind = "skill"
  /\ (e.anchor <= n /\ ~e.sound) \/ ~Anchored(e)

\* Other rows are carried when they are sound and belong to the prefix.
Carried(e, n) ==
  /\ e.anchor <= n
  /\ e.sound
  /\ e.kind = "compaction" => e.body = "superseded" \/ Fits(e)

Copied(s, n) == {e \in events : e.session = s /\ (Tombstone(e, n) \/ Carried(e, n))}

\* Copies get numbers of their own, in the order of the originals.
Copy(e, d, n, C) ==
  [e EXCEPT !.seq = NextSeq - 1 + Cardinality({f \in C : f.seq <= e.seq}),
            !.session = d,
            !.anchor = IF Anchored(e) THEN @ ELSE n,
            !.skills = IF Tombstone(e, n) THEN {} ELSE @, !.sound = TRUE]

\* The lineage's root: that of a source that is a fork itself.
Root(s) == origin[s]

Fork(s, d, n) ==
  LET C == Copied(s, n)
  IN  /\ s \in live /\ d \notin Range(born)
      /\ n \in DOMAIN rows[s] /\ Trim(Prefix(s, n)) = Prefix(s, n)
      /\ live' = live \cup {d} /\ born' = Append(born, d)
      /\ origin' = [origin EXCEPT ![d] = Root(s)]
      /\ title' = [title EXCEPT ![d] = Named]
      /\ rows' = [rows EXCEPT ![d] = Prefix(s, n)]
      /\ events' = Prune(events \cup {Copy(e, d, n, C) : e \in C}, d)
      /\ cursor' = NextSeq - 1 + Cardinality(C)
      /\ truth' = [truth EXCEPT ![d] = SubSeq(truth[s], 1, n)]
      /\ hurt' = [hurt EXCEPT ![d] = hurt[s]]
      /\ UNCHANGED <<edits, damage>>

Rename(s) ==
  /\ Edits
  /\ s \in live
  /\ title' = [title EXCEPT ![s] = Named]
  /\ UNCHANGED <<live, born, origin, rows, derived, truth, hurt>>

\* ON DELETE CASCADE.
Cascade(s) == {e \in events : e.session # s}

\* Rows and events go with the session.
Delete(s) ==
  /\ Edits
  /\ s \in live
  /\ live' = live \ {s}
  /\ rows' = [rows EXCEPT ![s] = << >>]
  /\ title' = [title EXCEPT ![s] = ""]
  /\ events' = Cascade(s)
  /\ truth' = [truth EXCEPT ![s] = << >>]
  /\ UNCHANGED <<born, origin, cursor, damage, hurt>>

-----------------------------------------------------------------------------
(* Damage *)

Damaged(e) ==
  {[e EXCEPT !.sound = FALSE]} \cup {[e EXCEPT !.anchor = a] : a \in LostAnchors}

\* A row of another release, or one whose payload no longer parses.
Damage ==
  /\ damage < MaxDamage
  /\ \E e \in events : \E f \in Damaged(e) :
       /\ e.body # "superseded"
       /\ events' = (events \ {e}) \cup {f}
       /\ hurt' = [hurt EXCEPT ![e.session] = TRUE]
  /\ damage' = damage + 1
  /\ UNCHANGED <<edits, sessions, rows, cursor, truth>>

-----------------------------------------------------------------------------

Init ==
  /\ live = {} /\ born = << >>
  /\ rows = [s \in Ids |-> << >>] /\ title = [s \in Ids |-> ""]
  /\ origin = [s \in Ids |-> s]
  /\ events = {} /\ cursor = 0 /\ damage = 0 /\ edits = 0
  /\ truth = [s \in Ids |-> << >>] /\ hurt = [s \in Ids |-> FALSE]

Next ==
  \E s \in Ids :
    \/ \E m \in Messages : AddMessage(s, m)
    \/ \E active \in SUBSET Skills : SaveSkills(s, active)
    \/ \E list \in Lists : SaveTodos(s, list)
    \/ \E count \in 1 .. MaxTail : SaveCompaction(s, count)
    \/ \E n \in 1 .. MaxRows : Truncate(s, n) \/ Rewind(s, n)
    \/ \E d \in Ids, n \in 1 .. MaxRows : Fork(s, d, n)
    \/ Rename(s) \/ Delete(s) \/ Damage

Spec == Init /\ [][Next]_vars

-----------------------------------------------------------------------------
(* Properties *)

\* What is read back as active was saved as active at the newest row of the
\* branch: no damage, rewind, fork or fork of a fork revives a skill.
SkillsNeverRevived ==
  \A s \in live :
    rows[s] # << >> => ActiveSkills(s) \subseteq truth[s][Len(rows[s])].skills

\* What is derived from a branch belongs to it: an automatic title is that of its
\* first prompt, and without damage skills and todos are those the agent had at
\* its newest row.
BranchStateIsRestored ==
  \A s \in live :
    /\ title[s] # Named => title[s] = IF rows[s] = << >> THEN "" ELSE rows[s][1].text
    /\ rows[s] # << >> /\ ~hurt[s] =>
         /\ ActiveSkills(s) = truth[s][Len(rows[s])].skills
         /\ LatestTodos(s) = truth[s][Len(rows[s])].todos

\* Resuming gives the newest whole messages of the transcript and the turn
\* index of the whole one, with or without a snapshot.
ResumeAgrees ==
  \A s \in live :
    LET whole == Trim(rows[s])
        resumed == Resume(s)
    IN  /\ Len(resumed.messages) <= Len(whole)
        /\ resumed.messages = Last(whole, Len(resumed.messages))
        /\ resumed.turn = Assistants(whole)

\* All forks of a lineage name the same root, and it is no fork.
LineageHasOneRoot ==
  \A s \in Ids : origin[origin[s]] = origin[s]
=============================================================================
