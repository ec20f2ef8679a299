------------------------------ MODULE Requests ------------------------------
(***************************************************************************)
(* The model requests of an agent: the two provider clients (llm.py,       *)
(* llm_anthropic.py) under the instrumented client (tracing/requests.py)   *)
(* with its ledger and the execution budget (execution.py). A turn sends   *)
(* one request after the other, but the images of a message are described  *)
(* by as many requests at a time (MediaAdapter.prepare gathers them), on   *)
(* the same ledger and budget and perhaps another provider; a refused one  *)
(* leaves its siblings running. A stream can break, end without a finish   *)
(* reason or be stopped at any of its awaits, the closing of its transport *)
(* included; usage is reported by the provider somewhere within it.        *)
(*                                                                         *)
(* Of a response we keep at most one tool call, its thinking, whether it   *)
(* has text, and which of its two token counts - one token each - came.    *)
(***************************************************************************)
EXTENDS Naturals, Sequences, FiniteSets

CONSTANTS
  Limits,      \* limits a run may have: [requests, tokens, strict]
  Loads,       \* [width, content]: requests at a time; more in them than counts
  MaxRequests  \* bound on the requests of a run

VARIABLES
  limits,     \* of this run; strict: usage_missing is "stop"
  load,       \* of this run
  reqs,       \* the requests that were admitted
  exhausted,  \* the budget's latch
  spent,      \* tokens the budget counted
  known,      \* usage_complete
  meter,      \* tokens the usage meter recorded
  ledger      \* a record per finished request: [id, tokens, available]

run == <<limits, load>>
budget == <<exhausted, spent, known>>
vars == <<run, reqs, budget, meter, ledger>>

Nothing == [call |-> "none", finish |-> "none", thinking |-> "none", text |-> FALSE, usage |-> {}]
NoChunk == [call |-> "none", thinking |-> "none"]
Counts == {"input", "output"}

\* One request; intent is the tool call the model makes.
Fresh(provider, intent) ==
  [provider |-> provider, intent |-> intent,
   pc |-> "opening",       \* then "streaming", "closing", "delivered", "settled"
   got |-> Nothing,        \* what the stream has brought
   ending |-> "none",      \* "end" | "broken" | "stop"
   observed |-> {},        \* counts it reported to the meter
   given |-> NoChunk,      \* the terminal chunk
   transport |-> "none",   \* "open" | "background" (being closed) | "closed"
   cut |-> FALSE]          \* a Stop hit the close before the report

Settled == {n \in DOMAIN reqs : reqs[n].pc = "settled"}
InFlight == DOMAIN reqs \ Settled

Becomes(n, r) == reqs' = [reqs EXCEPT ![n] = r]

\* ---- ExecutionBudget.reserve_request -------------------------------------------

WithinRequests == ~exhausted /\ (limits.strict => known) /\ Len(reqs) < limits.requests
Within ==
  /\ ~exhausted
  /\ limits.strict => known
  /\ Len(reqs) < limits.requests
  /\ spent < limits.tokens

\* The siblings of a refused request go on.
Refuse ==
  /\ ~Within /\ exhausted' = TRUE
  /\ UNCHANGED <<run, reqs, spent, known, meter, ledger>>

\* The model answers with a call or without.
Admit ==
  /\ Within /\ Len(reqs) < MaxRequests /\ Cardinality(InFlight) < load.width
  /\ \E p \in {"openai", "anthropic"},
        i \in IF load.content THEN {"none", "bare", "full"} ELSE {"none"} :
       reqs' = Append(reqs, Fresh(p, i))
  /\ UNCHANGED <<run, budget, meter, ledger>>

\* ---- the stream ------------------------------------------------------------------

Opens(n) ==
  /\ reqs[n].pc = "opening"
  /\ Becomes(n, [reqs[n] EXCEPT !.pc = "streaming", !.transport = "open"])
  /\ UNCHANGED <<run, budget, meter, ledger>>

\* The calls of the API without arguments, some of whose JSON, all of it.
NextCall(r) ==
  {c \in {"empty", "part", "whole"} :
     CASE r.got.call = "none"  -> c = "empty" /\ r.intent # "none"
       [] r.got.call = "empty" -> c = (IF r.intent = "full" THEN "part" ELSE "whole")
       [] r.got.call = "part"  -> c = "whole"
       [] r.got.call = "whole" -> FALSE}

Complete(r) ==
  r.intent = "none" \/ r.got.call = "whole" \/ (r.intent = "bare" /\ r.got.call = "empty")

\* A response that is cut off says so, or ends without a finish reason.
Finishes(r) ==
  {f \in {"stop", "length"} : f = "stop" => Complete(r) /\ r.got.thinking # "open"}

\* OpenAI sends its counts once, after the rest; Anthropic as it goes, and
\* message_delta adds to message_start.
NextUsage(r) ==
  {u \in (SUBSET Counts) \ {r.got.usage} :
     /\ r.got.usage \subseteq u
     /\ r.provider = "openai" => r.got.finish # "none" /\ r.got.usage = {}}

\* What may arrive before the finish reason beside the counts and the call.
Content(r) ==
  {g \in {[r.got EXCEPT !.text = TRUE]} : g # r.got}
  \cup {[r.got EXCEPT !.thinking = t] :
          t \in {t \in {"open", "signed"} :
                   /\ r.provider = "anthropic"
                   /\ r.got.thinking = (IF t = "open" THEN "none" ELSE "open")}}

Arrivals(r) ==
  {[r.got EXCEPT !.usage = u] : u \in NextUsage(r)}
  \cup (IF r.got.finish # "none" THEN {}
        ELSE {[r.got EXCEPT !.call = c] : c \in NextCall(r)}
             \cup {[r.got EXCEPT !.finish = f] : f \in Finishes(r)}
             \cup (IF load.content THEN Content(r) ELSE {}))

Event(n) ==
  /\ reqs[n].pc = "streaming"
  /\ \E g \in Arrivals(reqs[n]) : Becomes(n, [reqs[n] EXCEPT !.got = g])
  /\ UNCHANGED <<run, budget, meter, ledger>>

\* The usage sink: the meter, and the observer of this request.
Reported(r) == [r EXCEPT !.observed = r.got.usage]
Metered(r) == meter' = meter + Cardinality(r.got.usage)

ReportsLate(r) == FALSE
ReportsFirst(r) == r.provider = "openai"

\* The end of the stream, an error in it, or a Stop while it is read; OpenAI's
\* client reports before it awaits the close.
Ends(n) ==
  /\ reqs[n].pc = "streaming"
  /\ \E e \in {"end", "broken", "stop"} :
       LET r == [reqs[n] EXCEPT !.pc = "closing", !.ending = e]
       IN IF ReportsFirst(r) THEN Becomes(n, Reported(r)) /\ Metered(r)
          ELSE Becomes(n, r) /\ UNCHANGED meter
  /\ UNCHANGED <<run, budget, ledger>>

\* ---- the terminal chunk --------------------------------------------------------------

BuiltAsIs(g) == IF g.call \in {"whole", "empty"} THEN "valid" ELSE "invalid"
Built(g) ==
  IF g.call = "whole" \/ (g.call = "empty" /\ g.finish # "length") THEN "valid" ELSE "invalid"

\* The Anthropic client rejects what a limit cut off or what it cannot replay.
Rejects(r) ==
  LET g == r.got
  IN /\ r.provider = "anthropic"
     /\ \/ g.thinking = "open"
        \/ g.thinking # "none" /\ ~g.text /\ g.call = "none" /\ g.finish = "length"
        \/ g.call # "none" /\ g.finish = "length"

Delivers(r) == r.ending = "end" /\ r.got.finish # "none" /\ ~Rejects(r)

Chunk(g) == [call |-> IF g.call = "none" THEN "none" ELSE Built(g), thinking |-> g.thinking]

NeverMissing(counts) == IF counts \in {{}, Counts} THEN "reported" ELSE "partial"
Availability(counts) ==
  IF counts = {} THEN "missing" ELSE IF counts = Counts THEN "reported" ELSE "partial"

\* What is left of a request that is over.
Over(r) ==
  [r EXCEPT !.pc = "settled", !.intent = "none", !.ending = "none", !.given = NoChunk,
            !.got = [Nothing EXCEPT !.usage = r.got.usage]]

\* InstrumentedClient.stream's finally, with the counts seen by its observers.
Tally(n, r) ==
  LET record == [id |-> n, tokens |-> Cardinality(r.observed),
                 available |-> Availability(r.observed)]
  IN /\ Becomes(n, Over(r))
     /\ ledger' = Append(ledger, record)
     /\ spent' = spent + record.tokens
     /\ known' = (known /\ record.available = "reported")
     /\ UNCHANGED <<run, exhausted>>

\* Refused, timed out or stopped before there was a stream.
OpenFails(n) == reqs[n].pc = "opening" /\ Tally(n, reqs[n]) /\ UNCHANGED meter

\* The transport is closed; the request has its terminal chunk or an error.
Answers(n, r) ==
  IF Delivers(r)
  THEN /\ Becomes(n, [r EXCEPT !.pc = "delivered", !.given = Chunk(r.got)])
       /\ UNCHANGED <<run, budget, ledger>>
  ELSE Tally(n, r)

Closed(n) ==
  /\ reqs[n].pc = "closing"
  /\ LET r == [reqs[n] EXCEPT !.transport = "closed"]
     IN IF ReportsFirst(r) THEN Answers(n, r) /\ UNCHANGED meter
        ELSE Answers(n, Reported(r)) /\ Metered(r)

CancelsClose(r) == FALSE
Shields(r) == r.provider = "openai"

\* A Stop while the close is awaited: OpenAI's goes on in the background,
\* Anthropic's is cancelled with it, and nothing is reported any more.
StopClosing(n) ==
  /\ reqs[n].pc = "closing"
  /\ \E t \in IF Shields(reqs[n]) THEN {"background"} ELSE {"open", "closed"} :
       Tally(n, [reqs[n] EXCEPT !.transport = t, !.cut = reqs[n].provider = "anthropic"])
  /\ UNCHANGED meter

\* The consumer took the chunk, or was stopped over it.
Settle(n) == reqs[n].pc = "delivered" /\ Tally(n, reqs[n]) /\ UNCHANGED meter

BackgroundClose(n) ==
  /\ reqs[n].transport = "background"
  /\ Becomes(n, [reqs[n] EXCEPT !.transport = "closed"])
  /\ UNCHANGED <<run, budget, meter, ledger>>

Init ==
  /\ limits \in Limits /\ load \in Loads
  /\ reqs = <<>> /\ ledger = <<>>
  /\ exhausted = FALSE /\ spent = 0 /\ known = TRUE /\ meter = 0

Next ==
  \/ Refuse \/ Admit
  \/ \E n \in DOMAIN reqs :
       \/ Opens(n) \/ OpenFails(n) \/ Event(n) \/ Ends(n)
       \/ Closed(n) \/ StopClosing(n) \/ Settle(n) \/ BackgroundClose(n)

Spec == Init /\ [][Next]_vars

\* ---- properties --------------------------------------------------------------------

\* One pair for each count of a request that the meter was told of.
Reports(n) == {n} \X reqs[n].observed
ReportsOf(ns) == UNION {Reports(n) : n \in ns}

\* A request's counts as its stream has shown them, or a close that a Stop cut
\* short before the report, which then is on record as missing.
RecordIsHonest(rec) ==
  LET r == reqs[rec.id]
  IN \/ /\ r.observed = r.got.usage /\ rec.tokens = Cardinality(r.got.usage)
        /\ rec.available = "reported" <=> r.got.usage = Counts
     \/ r.cut /\ rec.tokens = 0 /\ rec.available = "missing"

\* At every moment, however many requests are on the way: each one that is over
\* has one ledger record, and only those; the budget has the sum of these and
\* the meter also what the others have reported; no record claims counts that
\* its stream did not show, or is silent about a loss
\* (InstrumentedClient.stream, ExecutionBudget.record_usage).
RequestsAreAccounted ==
  /\ \A i, j \in DOMAIN ledger : ledger[i].id = ledger[j].id => i = j
  /\ {ledger[i].id : i \in DOMAIN ledger} = Settled
  /\ spent = Cardinality(ReportsOf(Settled))
  /\ meter = Cardinality(ReportsOf(DOMAIN reqs))
  /\ \A i \in DOMAIN ledger : RecordIsHonest(ledger[i])

\* A request is sent only while the requests that are over - not those on the
\* way, whose counts nobody knows yet - have shown fewer tokens than the limit,
\* those of a cut close excepted; a strict run sends none when a count of an
\* earlier one was not reported (ExecutionBudget.reserve_request).
SpendsWithinLimits ==
  [][Len(reqs') # Len(reqs) =>
       /\ Len(reqs) < limits.requests
       /\ Cardinality(UNION {{n} \X reqs[n].got.usage : n \in {n \in Settled : ~reqs[n].cut}})
            < limits.tokens
       /\ limits.strict => \A n \in Settled : reqs[n].observed = Counts]_vars

\* The transport of a request that is over is closed or being closed, so that
\* retries and siblings do not pile up connections (close_stream); Anthropic's
\* is left as it is when a Stop cancels its close.
TransportsAreFreed ==
  \A n \in Settled : reqs[n].transport = "open" => reqs[n].cut

\* The loop runs a tool only on arguments the model has finished, a call
\* without any included, and replays only thinking that was signed, whatever
\* limit cut the response off and wherever (_ToolCallAccumulator.build,
\* AnthropicLLMClient.stream).
OnlyWholeIsGiven ==
  \A n \in DOMAIN reqs :
    /\ reqs[n].given.call = "valid" => Complete(reqs[n])
    /\ reqs[n].given.thinking # "open"

\* Admission, accounts and transports agree about every request, whichever are
\* on the way beside it (InstrumentedClient, LLMClient, ExecutionBudget).
RequestsAreSettled == []RequestsAreAccounted /\ []TransportsAreFreed /\ SpendsWithinLimits

\* What a stream has shown is counted once its request is over (usage.py:15-17
\* calls only a request absent that failed before its usage block). It does not
\* hold: a Stop in the close of an Anthropic stream drops the counts.
ShownIsCounted == \A n \in Settled : reqs[n].observed = reqs[n].got.usage

=============================================================================
