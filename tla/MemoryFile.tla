----------------------------- MODULE MemoryFile ------------------------------
(***************************************************************************)
(* The memory tool (tools/builtin/memory.py): calls that remember, modify, *)
(* forget and read entries of one Markdown file. A call holds the lock of  *)
(* the file in its event loop from the read to the write, also while it    *)
(* awaits the model that condenses a file that has grown too long.         *)
(*                                                                         *)
(* The file is a sequence of lines: a member of Keys is the heading of an  *)
(* entry, any other line is text. Content a call stores may hold headings. *)
(***************************************************************************)
EXTENDS Naturals, Sequences, FiniteSets, SequencesExt, Subsequences

CONSTANTS
  Calls,      \* tool calls of the session
  Keys,       \* headings
  Contents,   \* sequences of lines that a call may store
  Files,      \* what may be found in the file at first
  Summaries,  \* what the model may answer
  CompactAt,  \* length from which a file is condensed
  MaxLines    \* length a file may not exceed

VARIABLES
  memory,  \* the file
  lock,    \* set of at most one call: who holds the lock
  call     \* call -> [pc, args, asked]

vars == <<memory, lock, call>>

NoCall == [pc |-> "none", args |-> <<>>, asked |-> <<>>]

\* ---- sections -------------------------------------------------------------------

Heads(f) == {i \in DOMAIN f : f[i] \in Keys}

Body(f, i) ==
  LET stop == CHOOSE j \in i + 1 .. Len(f) + 1 :
                /\ j \in Heads(f) \cup {Len(f) + 1}
                /\ \A k \in i + 1 .. j - 1 : k \notin Heads(f)
  IN SubSeq(f, i + 1, stop - 1)

\* A repeated heading keeps its first place and its last body; lines before the
\* first heading are not part of an entry.
Parse(f) ==
  LET firsts == {i \in Heads(f) : \A j \in Heads(f) : f[j] = f[i] => i <= j}
      order == InOrder(firsts)
      final(k) == CHOOSE i \in Heads(f) :
                    f[i] = k /\ \A j \in Heads(f) : f[j] = k => j <= i
  IN [n \in DOMAIN order |->
        [key |-> f[order[n]], body |-> Body(f, final(f[order[n]]))]]

Serialise(entries) ==
  FlattenSeq([n \in DOMAIN entries |-> <<entries[n].key>> \o entries[n].body])

Named(entries) == {entries[n].key : n \in DOMAIN entries}

\* ---- the call --------------------------------------------------------------------

Args ==
  [action : {"remember", "modify"}, key : Keys, content : Contents]
  \cup [action : {"forget"}, key : Keys, content : {<<>>}]

Valid(entries, a) == (a.key \in Named(entries)) <=> (a.action # "remember")

Updated(entries, a) ==
  CASE a.action = "remember" -> Append(entries, [key |-> a.key, body |-> a.content])
    [] a.action = "modify" -> [n \in DOMAIN entries |->
         IF entries[n].key = a.key THEN [entries[n] EXCEPT !.body = a.content] ELSE entries[n]]
    [] a.action = "forget" -> Subsequence(entries, {n \in DOMAIN entries : entries[n].key # a.key})

Begin(c) ==
  /\ call[c].pc = "none"
  /\ \E a \in Args : call' = [call EXCEPT ![c].pc = "waiting", ![c].args = a]
  /\ UNCHANGED <<memory, lock>>

EntersAnyway == TRUE
Enters == lock = {}

Turn(c) == call[c].pc = "waiting" /\ Enters

Wanted(c) == Serialise(Updated(Parse(memory), call[c].args))

Refuse(c) ==
  /\ Turn(c) /\ ~Valid(Parse(memory), call[c].args)
  /\ call' = [call EXCEPT ![c].pc = "refused"]
  /\ UNCHANGED <<memory, lock>>

\* No model is asked, or the one asked gave nothing of use.
Settle(c, text) ==
  IF Len(text) > MaxLines
  THEN call' = [call EXCEPT ![c].pc = "refused"] /\ UNCHANGED memory
  ELSE call' = [call EXCEPT ![c].pc = "written"] /\ memory' = text

Write(c) ==
  /\ Turn(c) /\ Valid(Parse(memory), call[c].args)
  /\ Len(Wanted(c)) <= CompactAt
  /\ Settle(c, Wanted(c))
  /\ UNCHANGED lock

\* The call awaits the answer and keeps the lock.
Compact(c) ==
  /\ Turn(c) /\ Valid(Parse(memory), call[c].args)
  /\ Len(Wanted(c)) > CompactAt
  /\ lock' = lock \cup {c}
  /\ call' = [call EXCEPT ![c].pc = "awaiting", ![c].asked = Wanted(c)]
  /\ UNCHANGED memory

Usable(reply) == Parse(reply) # <<>> /\ Len(Serialise(Parse(reply))) <= MaxLines

Condensed(c) ==
  /\ call[c].pc = "awaiting"
  /\ \E reply \in Summaries :
       Settle(c, IF Usable(reply) THEN Serialise(Parse(reply)) ELSE call[c].asked)
  /\ lock' = lock \ {c}

Cancel(c) ==
  /\ call[c].pc \in {"waiting", "awaiting"}
  /\ call' = [call EXCEPT ![c].pc = "cancelled"]
  /\ lock' = lock \ {c}
  /\ UNCHANGED memory

Init == memory \in Files /\ lock = {} /\ call = [c \in Calls |-> NoCall]

Next ==
  \E c \in Calls :
    Begin(c) \/ Refuse(c) \/ Write(c) \/ Compact(c) \/ Condensed(c) \/ Cancel(c)

Spec == Init /\ [][Next]_vars

\* ---- properties --------------------------------------------------------------------

Plain(a) == \A i \in DOMAIN a.content : a.content[i] \notin Keys

\* The update of c on the file as it is now, condensed or not.
UpdateOf(c) ==
  LET entries == Parse(memory)
      updated == Updated(entries, call[c].args)
  IN /\ Valid(entries, call[c].args)
     /\ IF call[c].pc = "awaiting"
        THEN /\ call[c].asked = Serialise(updated)
             /\ memory' \in {call[c].asked} \cup {Serialise(Parse(r)) : r \in Summaries}
        ELSE memory' = Serialise(updated)
     /\ Plain(call[c].args) /\ call[c].pc # "awaiting" => Parse(memory') = updated

\* The file takes one update at a time: what a call writes - or has condensed
\* while other calls wait - is its own update of the file as it stands at the
\* write, the entries of other keys as they were; a refused or stopped call
\* writes nothing, and the file stays within its limit (memory.py,
\* _memory_locked, _memory_lock).
MemoryIsSerial ==
  [][\A c \in Calls : call'[c].pc # call[c].pc =>
       IF call'[c].pc = "written"
       THEN UpdateOf(c) /\ Len(memory') <= MaxLines
       ELSE memory' = memory]_vars

=============================================================================
