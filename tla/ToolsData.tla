------------------------------ MODULE ToolsData ------------------------------
(* Small inputs: calendars and edits of them, what an index is made of, and   *)
(* what a memory file may hold.                                               *)
EXTENDS Naturals, Sequences, FiniteSets

(* Calendar. A change of the clock makes one local time (4) happen twice and   *)
(* one (10) never; days are three instants long.                              *)

D(n) == [form |-> "date", at |-> n]
W(n) == [form |-> "wall", at |-> n]
I(n) == [form |-> "instant", at |-> n]

Once == [every |-> 0, count |-> 0, until |-> {}]
Times(n) == [every |-> 1, count |-> n, until |-> {}]
UntilDay(d) == [every |-> 1, count |-> 0, until |-> {d}]

NewEvent(start, end, repeat) ==
  [title |-> "a", start |-> start, end |-> end, minutes |-> {}, repeat |-> repeat]

NoChange == [title |-> {}, start |-> {}, end |-> {}, minutes |-> {}, repeat |-> {}]

Added(events) == [op |-> "add", events |-> events]

Additions ==
  {Added({NewEvent(W(1), {}, Times(3))}),          \* meets the repeated time
   Added({NewEvent(I(4), {}, Times(3))}),          \* starts at its second reading
   Added({NewEvent(I(4), {}, Once)}),
   Added({NewEvent(W(7), {}, Times(2))}),          \* meets the time that never is
   Added({NewEvent(D(1), {}, UntilDay(3))}),
   Added({NewEvent(W(3), {W(5)}, UntilDay(2)), NewEvent(D(0), {D(1)}, Once)})}

Change(uid, scope, occurrence, ch) ==
  [op |-> "update", id |-> uid, scope |-> scope, occurrence |-> occurrence, changes |-> ch]

Changed ==
  {[NoChange EXCEPT !.title = {"b"}],
   [NoChange EXCEPT !.start = {W(4)}],
   [NoChange EXCEPT !.start = {I(4)}],
   [NoChange EXCEPT !.start = {W(7)}, !.minutes = {2}],
   [NoChange EXCEPT !.end = {I(4)}],
   [NoChange EXCEPT !.start = {D(2)}],
   [NoChange EXCEPT !.repeat = {Times(2)}],
   [NoChange EXCEPT !.repeat = {Once}]}

Changes(uids) ==
  {Change(u, sc, {}, ch) : u \in uids, sc \in {"none", "series"}, ch \in Changed}
  \cup {Change(u, "occurrence", {g}, ch) :
          u \in uids, g \in {W(4), I(4), W(5), D(2)},
          ch \in {ch \in Changed : ch.repeat = {}}}

CalendarCalls(uids) ==
  Additions \cup Changes(uids) \cup {[op |-> "remove", ids |-> {u}] : u \in uids}

\* A series of another application: two hours or a whole day of the clock
\* long, with one occurrence moved and, in one case, one cancelled.
Imported(u, nominal, opaque) ==
  [uid |-> u, of |-> {}, start |-> [form |-> "local", at |-> 1],
   span |-> [nominal |-> nominal, n |-> IF nominal THEN 1 ELSE 2], title |-> "i",
   rule |-> [every |-> 1, count |-> 4, until |-> {}], rdates |-> {}, exdates |-> {},
   cancelled |-> FALSE, opaque |-> opaque, ranged |-> FALSE]

Moved(c, v, cancelled, ranged) ==
  [c EXCEPT !.of = {v}, !.start = [v EXCEPT !.at = @ + 1], !.rule = Once,
            !.cancelled = cancelled, !.ranged = ranged]

CalendarFiles(u) ==
  LET c == Imported(u, TRUE, FALSE)
  IN {{}, {c}, {c, Moved(c, [form |-> "local", at |-> 5], FALSE, FALSE)},
      {c, Moved(c, [form |-> "utc", at |-> 1], TRUE, FALSE)},
      {c, Moved(c, [form |-> "local", at |-> 5], FALSE, TRUE)},
      {Imported(u, FALSE, TRUE)},
      {[c EXCEPT !.cancelled = TRUE]}}

SomeCalendars == CalendarFiles(1)
AllCalendars == SomeCalendars
SomeEdits == CalendarCalls({1, 2})
AllEdits == SomeEdits

(* KnowledgeIndex: two texts that share a chunk.                              *)

ChunksOf == [t \in {"x", "y"} |-> IF t = "x" THEN {1, 2} ELSE {2, 3}]

(* MemoryFile: plain contents and one that holds a heading; files as written   *)
(* by the tool and by hand; summaries that are of use and that are not.       *)

MarkdownLines == {"k1", "k2", "p", "s", "t", "u", "v"}
SomeContents == {<<>>, <<"t">>, <<"u", "k2", "v">>}
SomeMemories == {<<>>, <<"k1", "t">>, <<"p", "k2", "u", "k1">>}
SomeSummaries ==
  {<<>>, <<"t">>, <<"p", "k1", "s">>, <<"k1", "k2", "k1", "s", "s">>,
   <<"k1", "k2", "t", "t", "t", "t">>}

==============================================================================
