------------------------------ MODULE Calendar ------------------------------
(***************************************************************************)
(* The calendar plugin (bundled_plugins/calendar/calendar_tools.py): one   *)
(* iCalendar file that every session of a profile adds to, edits and       *)
(* lists. A call waits for the lock of the file, reads the file, edits the *)
(* components in memory, writes a staging file and renames it over the     *)
(* calendar; it can be cancelled while it waits, fail, or die between any  *)
(* two of these. Listing takes no lock.                                    *)
(*                                                                         *)
(* Time is counted in instants (UTC); the local clock runs one instant     *)
(* ahead except between FallBack and SpringForward, so that one local time *)
(* happens twice and one never. A part of a value that may be absent is a  *)
(* set of at most one element, and an edit the code refuses (ToolError)    *)
(* is an empty set of results. Frequencies are a number of days.           *)
(***************************************************************************)
EXTENDS Integers, FiniteSets, Functions

CONSTANTS
  Sessions,       \* calls in progress, each of some process that shares the file
  Uids,           \* ids _new_uid may draw
  Day,            \* instants in a day of the clock
  FallBack,       \* the instant at which the clock is put back by one ...
  SpringForward,  \* ... and the one at which it is put forward again
  MaxSteps,       \* periods a series is expanded over
  Files,          \* calendars the profile may start with
  Calls,          \* arguments of calls
  MaxCalls        \* bound on the calls of one behaviour

VARIABLES
  file,   \* the components of the published calendar
  parts,  \* staging files on disk, by the call that made them
  lock,   \* who holds the lock file
  pc,     \* session -> "idle" | "waiting" | "writing"
  call,   \* session -> the arguments of its call
  draft,  \* session -> the edited calendar it is about to publish
  calls   \* calls so far

vars == <<file, parts, lock, pc, call, draft, calls>>

NoCall == [op |-> "none"]
NoRule == [every |-> 0, count |-> 0, until |-> {}]

\* ---- the clock of the zone ---------------------------------------------

Wall(u) == IF FallBack <= u /\ u < SpringForward THEN u ELSE u + 1
InstantsOf(w) == {u \in {w - 1, w} : Wall(u) = w}

\* The first instant that reads w; in the gap, the offset before the change.
First(w) == IF InstantsOf(w) = {w} THEN w
            ELSE IF InstantsOf(w) = {} THEN w ELSE w - 1

\* The second reading of an ambiguous local time (fold).
Fold(u) == Cardinality(InstantsOf(Wall(u))) = 2 /\ u # First(Wall(u))

DayOf(u) == Wall(u) \div Day

Timed(v) == v.form # "date"
Key(v) == IF Timed(v) THEN v.at ELSE First(Day * v.at)
FirstDay(v) == IF Timed(v) THEN DayOf(v.at) ELSE v.at

\* What a caller wrote: a date, a local time, or a time with its offset.
Parse(g) ==
  CASE g.form = "date" -> {g}
    [] g.form = "wall" -> {[form |-> "local", at |-> First(w)] :
                             w \in {w \in {g.at} : InstantsOf(w) # {}}}
    [] g.form = "instant" -> {[form |-> "local", at |-> g.at]}

Parsed(gs) == UNION {Parse(g) : g \in gs}

\* Elapsed length, in instants or in days; the last day given is inclusive.
Between(s, e) == IF Timed(s) THEN e.at - s.at ELSE e.at + 1 - s.at

Elapsed(n) == [nominal |-> FALSE, n |-> n]

\* ---- writing components -------------------------------------------------

\* A TZID time reads as its first instant, so the second one is written in UTC.
Local(u) == [form |-> "local", at |-> First(Wall(u))]
Utc(u) == [form |-> "utc", at |-> u]
WrittenLocal(u, zone) == IF zone = "utc" THEN Utc(u) ELSE Local(u)
Written(u, zone) == IF zone = "utc" \/ Fold(u) THEN Utc(u) ELSE Local(u)

\* UNTIL, at the clock time of the series' start; a date lasts its whole day.
Until(start, zone, d) ==
  IF ~Timed(start) THEN First(Day * (d + 1)) - 1
  ELSE IF zone = "utc" THEN (Day * d) + (start.at % Day)
  ELSE LET w == (Day * d) + (Wall(start.at) % Day)
       IN IF Fold(start.at) /\ Cardinality(InstantsOf(w)) = 2
          THEN First(w) + 1 ELSE First(w)

RRule(repeat, start, zone) ==
  [every |-> repeat.every, count |-> repeat.count,
   until |-> {Until(start, zone, d) : d \in repeat.until}]

\* DTSTART with its EXDATE and RDATE: a series that starts in the second
\* reading keeps its rule in local time and replaces its first occurrence.
Begins(start, zone, repeats) ==
  LET u == start.at
  IN IF ~Timed(start)
     THEN [start |-> start, rdates |-> {}, exdates |-> {}]
     ELSE IF repeats /\ zone = "local" /\ Fold(u)
     THEN [start |-> Local(u), rdates |-> {Utc(u)}, exdates |-> {Utc(Local(u).at)}]
     ELSE [start |-> Written(u, zone), rdates |-> {}, exdates |-> {}]

VEvent(event, uid) ==
  LET b == Begins(event.start, "local", event.repeat # NoRule)
  IN [uid |-> uid, of |-> {}, start |-> b.start, span |-> Elapsed(event.n),
      title |-> event.title, rule |-> RRule(event.repeat, event.start, "local"),
      rdates |-> b.rdates, exdates |-> b.exdates,
      cancelled |-> FALSE, opaque |-> FALSE, ranged |-> FALSE]

\* ---- reading components -------------------------------------------------

IsOverride(c) == c.of # {}
Recurring(c) == c.rule # NoRule \/ c.rdates # {} \/ c.exdates # {}
SavedZone(c) == IF c.start.form = "utc" THEN "utc" ELSE "local"
Uid(cal) == {c.uid : c \in cal}
Of(cal, uid) == {c \in cal : c.uid = uid}
Overrides(cal, uid) == {c \in Of(cal, uid) : IsOverride(c)}

\* The n-th period after the start, without the local times that never happen.
Shift(v, n) ==
  CASE v.form = "date" -> {First(Day * (v.at + n))}
    [] v.form = "utc" -> {v.at + n * Day}
    [] v.form = "local" -> {First(w) : w \in {w \in {Wall(v.at) + n * Day} :
                                                InstantsOf(w) # {}}}

Periods(c) == {n \in 0 .. MaxSteps : Shift(c.start, n * c.rule.every) # {}}

Expanded(c) ==
  UNION {Shift(c.start, n * c.rule.every) :
           n \in {n \in Periods(c) :
                    c.rule.count = 0
                    \/ Cardinality({m \in Periods(c) : m <= n}) <= c.rule.count}}

\* The instants at which the event starts.
Occurrences(c) ==
  LET ruled == IF c.rule = NoRule THEN {Key(c.start)}
               ELSE {k \in Expanded(c) : \A u \in c.rule.until : k <= u}
  IN IF Recurring(c) /\ c.opaque THEN {}
     ELSE (ruled \cup {Key(v) : v \in c.rdates}) \ {Key(v) : v \in c.exdates}

\* DTEND is elapsed time; a DURATION of days follows the clock.
EndOf(c, k) ==
  IF ~Timed(c.start) \/ (c.span.nominal /\ c.start.form = "local")
  THEN First(Wall(k) + c.span.n * Day)
  ELSE k + c.span.n * (IF c.span.nominal THEN Day ELSE 1)

\* Overrides take the place of the occurrences they were made for.
Listed(cal, c) ==
  LET changed == IF Recurring(c) THEN Overrides(cal, c.uid) ELSE {}
  IN IF \E o \in changed : o.ranged \/ \E v \in o.of : Timed(v) # Timed(c.start)
     THEN [c EXCEPT !.opaque = TRUE]
     ELSE [c EXCEPT !.exdates = @ \cup UNION {o.of : o \in changed}]

Listable(cal) == {Listed(cal, c) : c \in {c \in cal : ~c.cancelled}}

\* What calendar_list shows: each arrangement with the start it originally had.
Arrangements(cal) ==
  UNION {{[uid |-> c.uid, start |-> k, end |-> EndOf(c, k), title |-> c.title,
           orig |-> IF IsOverride(c) THEN {Key(v) : v \in c.of} ELSE {k}] :
             k \in Occurrences(c)} : c \in Listable(cal)}

\* ---- edits ----------------------------------------------------------------

\* The length a new event gets from its arguments.
Lengths(e, start) ==
  IF e.end # {}
  THEN {Between(start, v) : v \in {v \in Parsed(e.end) : Timed(v) = Timed(start)}}
  ELSE IF e.minutes # {} THEN {m \in e.minutes : Timed(start)} ELSE {1}

Resolved(e) ==
  UNION {{[title |-> e.title, start |-> s, n |-> n, repeat |-> e.repeat] :
            n \in {n \in Lengths(e, s) :
                     n > 0 /\ \A d \in e.repeat.until : d >= FirstDay(s)}} :
         s \in Parse(e.start)}

Add(cal, q) ==
  {cal \cup {VEvent(CHOOSE ev \in Resolved(e) : TRUE, uid[e]) : e \in q.events} :
     uid \in {f \in [q.events -> Uids \ Uid(cal)] : IsInjective(f)}}

\* Start and length after the changes; nothing when they do not fit together.
Retimed(c, ch) ==
  LET starts == IF ch.start = {} THEN {c.start} ELSE Parsed(ch.start)
      spans(s) ==
        IF ch.end # {}
        THEN {sp \in {Elapsed(Between(s, v)) :
                        v \in {v \in Parsed(ch.end) : Timed(v) = Timed(s)}} : sp.n > 0}
        ELSE IF ch.minutes # {} THEN {Elapsed(m) : m \in {m \in ch.minutes : Timed(s)}}
        ELSE {sp \in {c.span} : Timed(s) = Timed(c.start)}
  IN UNION {{[start |-> s, span |-> sp] : sp \in spans(s)} :
              s \in {s \in starts :
                       \A r \in ch.repeat : \A d \in r.until : d >= FirstDay(s)}}

Patched(c, ch) ==
  LET rules == ch.repeat \ {NoRule}
      adding == rules # {} /\ ~Recurring(c)
      anew == ch.start # {} \/ adding
      zone == IF anew THEN "local" ELSE SavedZone(c)
      repeats == rules # {} \/ (Recurring(c) /\ ch.repeat = {})
      component(p) ==
        LET b == Begins(p.start, zone, repeats)
        IN [c EXCEPT
             !.start = b.start, !.span = p.span,
             !.title = IF ch.title = {} THEN @ ELSE CHOOSE t \in ch.title : TRUE,
             !.rdates = IF anew THEN b.rdates ELSE @,
             !.exdates = IF anew THEN b.exdates ELSE @,
             !.rule = IF ch.repeat = {} THEN @
                      ELSE RRule(CHOOSE r \in ch.repeat : TRUE, p.start, zone)]
  IN {component(p) : p \in Retimed(c, ch)}

\* The occurrence the caller names, as a component of its own.
Occurrence(master, g) ==
  LET named == {Key(v) : v \in {v \in Parse(g) : Timed(v) = Timed(master.start)}}
      at(k) == IF Timed(master.start) THEN Written(k, SavedZone(master))
               ELSE [form |-> "date", at |-> DayOf(k)]
  IN {[master EXCEPT !.start = at(k), !.of = {at(k)}, !.rule = NoRule,
                     !.rdates = {}, !.exdates = {}] :
        k \in IF master.opaque THEN {} ELSE named \cap Occurrences(master)}

SameKeys(a, b) == {Key(v) : v \in a.of} = {Key(v) : v \in b.of}

UpdateOccurrence(cal, master, q) ==
  LET overrides == Overrides(cal, q.id)
      previous(o) == {p \in overrides : SameKeys(p, o)}
      baseline(o) == IF previous(o) = {} THEN {o}
                     ELSE {p \in previous(o) : Cardinality(previous(o)) = 1}
      fits == /\ \A o \in overrides : ~o.ranged
              /\ \A v \in Parsed(q.changes.start) : Timed(v) = Timed(master.start)
  IN UNION {{(cal \ previous(o)) \cup {p} :
               p \in UNION {Patched(b, q.changes) : b \in {b \in baseline(o) : ~b.cancelled}}} :
            o \in {o \in UNION {Occurrence(master, g) : g \in q.occurrence} : fits}}

Retimes(ch) == ch.start # {} \/ ch.end # {} \/ ch.minutes # {} \/ ch.repeat # {}

UpdateSeries(cal, master, q) ==
  LET all == Of(cal, q.id)
      repeating == Recurring(master) \/ Cardinality(all) > 1
      unsafe == \/ master.opaque
                \/ master.rdates # {} \/ master.exdates # {}
                \/ Cardinality(all) > 1
  IN IF \/ repeating /\ Retimes(q.changes) /\ unsafe
        \/ \E c \in all : Patched(c, q.changes) = {}
     THEN {}
     ELSE {(cal \ all) \cup UNION {Patched(c, q.changes) : c \in all}}

Update(cal, q) ==
  LET masters == Of(cal, q.id) \ Overrides(cal, q.id)
      repeating(m) == Recurring(m) \/ Cardinality(Of(cal, q.id)) > 1
  IN UNION {IF q.scope = "occurrence" THEN UpdateOccurrence(cal, m, q)
            ELSE UpdateSeries(cal, m, q) :
              m \in {m \in masters :
                       /\ Cardinality(masters) = 1 /\ ~m.cancelled
                       /\ repeating(m) => q.scope # "none"
                       /\ q.scope = "occurrence" => repeating(m)}}

Remove(cal, q) ==
  {{c \in cal : c.uid \notin q.ids} : x \in {x \in {0} : q.ids \subseteq Uid(cal)}}

\* The calendars an edit may leave; none when it is refused.
Edited(cal, q) ==
  CASE q.op = "add" -> Add(cal, q)
    [] q.op = "update" -> Update(cal, q)
    [] q.op = "remove" -> Remove(cal, q)

\* ---- actions ---------------------------------------------------------------

Begin(s, q) ==
  /\ pc[s] = "idle" /\ calls < MaxCalls
  /\ q.op = "add" => \A e \in q.events : Resolved(e) # {}
  /\ pc' = [pc EXCEPT ![s] = "waiting"]
  /\ call' = [call EXCEPT ![s] = q]
  /\ calls' = calls + 1
  /\ UNCHANGED <<file, parts, lock, draft>>

LocksAnyway(s) == s \notin lock
MayLock(s) == lock = {}

\* The lock is taken, the file read and edited, the staging file written.
Edit(s) ==
  /\ pc[s] = "waiting" /\ MayLock(s)
  /\ \E new \in Edited(file, call[s]) : draft' = [draft EXCEPT ![s] = new]
  /\ lock' = lock \cup {s}
  /\ parts' = parts \cup {s}
  /\ pc' = [pc EXCEPT ![s] = "writing"]
  /\ UNCHANGED <<file, call, calls>>

\* The call gives up its lock and ends.
Leave(s) ==
  /\ pc' = [pc EXCEPT ![s] = "idle"]
  /\ call' = [call EXCEPT ![s] = NoCall]
  /\ draft' = [draft EXCEPT ![s] = {}]
  /\ lock' = lock \ {s}
  /\ UNCHANGED calls

Refuse(s) ==
  /\ pc[s] = "waiting" /\ MayLock(s) /\ Edited(file, call[s]) = {}
  /\ Leave(s) /\ UNCHANGED <<file, parts>>

Publish(s) ==
  /\ pc[s] = "writing"
  /\ file' = draft[s]
  /\ parts' = parts \ {s}
  /\ Leave(s)

\* The calendar is too large, or the disk refuses the write or the rename.
FailToPublish(s) ==
  /\ pc[s] = "writing"
  /\ parts' = parts \ {s}
  /\ Leave(s) /\ UNCHANGED file

\* A Stop while the call sleeps between two attempts at the lock.
Cancel(s) ==
  /\ pc[s] = "waiting"
  /\ Leave(s) /\ UNCHANGED <<file, parts>>

\* The process dies; the system drops its lock, the staging file stays.
Crash(s) ==
  /\ pc[s] = "writing"
  /\ Leave(s) /\ UNCHANGED <<file, parts>>

Init ==
  /\ file \in Files
  /\ parts = {} /\ lock = {} /\ calls = 0
  /\ pc = [s \in Sessions |-> "idle"]
  /\ call = [s \in Sessions |-> NoCall]
  /\ draft = [s \in Sessions |-> {}]

Next ==
  \E s \in Sessions :
    \/ \E q \in Calls : Begin(s, q)
    \/ Edit(s) \/ Refuse(s) \/ Publish(s) \/ FailToPublish(s)
    \/ Cancel(s) \/ Crash(s)

Spec == Init /\ [][Next]_vars

\* ---- properties ------------------------------------------------------------

Publishes(s) == pc[s] = "writing" /\ file' # file /\ pc'[s] = "idle"

\* The arrangements the arguments of a call speak of.
Named(q, a) ==
  CASE q.op = "add" -> a.uid \notin Uid(file)
    [] q.op = "remove" -> a.uid \in q.ids
    [] q.op = "update" ->
         /\ a.uid = q.id
         /\ q.scope = "occurrence" => a.orig = {Key(v) : v \in Parsed(q.occurrence)}

Others(cal, q) == {a \in Arrangements(cal) : ~Named(q, a)}

\* A publication changes the arrangements its call names and no other one: not
\* the other occurrences of a series, of which one is edited (EXDATE, RDATE and
\* overrides around a change of the clock), and not what another session
\* published since this one was called (_change, calendar_update).
EditsStayInScope ==
  [][\A s \in Sessions : Publishes(s) =>
       Others(file, call[s]) = Others(file', call[s])]_vars

\* Same elapsed time, or for a DURATION of days the same time on the clock.
SameLength(a, b) ==
  \/ b.end - b.start = a.end - a.start
  \/ b.end = First(Wall(b.start) + Wall(a.end) - Wall(a.start))

Wanted(gs, b) == gs = {} \/ b.start \in {Key(v) : v \in Parsed(gs)}

Ours(cal, q) == {a \in Arrangements(cal) : Named(q, a)}

\* Series whose saved UNTIL a move leaves as it is are not promised anything.
Bounded(cal, q) == \E c \in cal : c.uid = q.id /\ c.rule.until # {}

\* What is published is what was asked for: a new event starts at the instant
\* its caller named, the second reading of an ambiguous time included, and
\* happens as often as it counts; an edited occurrence stays one arrangement,
\* moved to the instant given and as long as before unless an end was given; a
\* series moved by its start begins there and keeps its lengths (_vevent,
\* _patch_component, occurrences).
EditIsExact ==
  [][\A s \in Sessions : Publishes(s) =>
       LET q == call[s]
           old == Ours(file, q)
           new == Ours(file', q)
           kept(b) == \/ q.changes.end # {} \/ q.changes.minutes # {}
                      \/ \E a \in old : SameLength(a, b)
       IN /\ q.op = "add" => \A e \in q.events :
               /\ \E a \in new : Wanted({e.start}, a) /\ a.title = e.title
               /\ Cardinality(q.events) = 1 /\ e.repeat.count > 0
                    => Cardinality(new) = e.repeat.count
          /\ q.op = "update" /\ q.scope = "occurrence" =>
               \E b \in new : new = {b} /\ Wanted(q.changes.start, b) /\ kept(b)
          /\ q.op = "update" /\ q.scope = "series" /\ ~Bounded(file, q) =>
               \/ old = {}
               \/ /\ \E b \in new : Wanted(q.changes.start, b)
                  /\ \A b \in new : kept(b)]_vars

\* An edit changes what it names, as it was asked for, and nothing else, however
\* the edits of several sessions interleave (_change, calendar_update).
EditsAreExact == EditsStayInScope /\ EditIsExact

\* docs/plugins.md:497 says that an update takes only the fields to change and
\* calendar_tools.py:140 that "until" is the last date an occurrence may fall
\* on: a series moved to another time of its first day keeps its dates.
MovedSeriesKeepsItsDates ==
  [][\A s \in Sessions : Publishes(s) =>
       LET q == call[s]
           days(cal) == {DayOf(a.start) : a \in Ours(cal, q)}
           sameDay == \E a \in Ours(file, q), v \in Parsed(q.changes.start) :
                        /\ DayOf(a.start) = FirstDay(v)
                        /\ \A x \in Ours(file, q) : a.start <= x.start
       IN q.op = "update" /\ q.scope = "series" /\ q.changes.repeat = {} /\ sameDay
          => days(file) \subseteq days(file')]_vars

=============================================================================
