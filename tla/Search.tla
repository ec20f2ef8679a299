------------------------------- MODULE Search -------------------------------
(***************************************************************************)
(* The search tool (tools/builtin/fs.py): one bounded walk of the          *)
(* workspace. A directory's entries are visited in the order of their      *)
(* names; caps on hits, hits per file, files, entries and depth and a time *)
(* budget cut the walk, and links, unreadable and unsuitable files are     *)
(* passed over. The footer of the result says which of this happened.      *)
(*                                                                         *)
(* A tree maps its nodes 1 .. n, numbered in the order of the walk, to     *)
(* [in: the directories above, is: a kind, fits: the glob matches,         *)
(*  lines: the lines that match the query].                                *)
(***************************************************************************)
EXTENDS Naturals, Sequences, FiniteSets, SequencesExt, Subsequences

CONSTANTS
  Trees,    \* workspaces
  Options   \* [hits, perFile, files, entries, depth]

VARIABLES
  tree, options,
  mode,     \* "content" | "files" with a query | "names" without
  todo,     \* nodes still to be visited
  hits,     \* <<node, line>>; line 0 for a whole file
  omitted,  \* node -> hits counted but not shown
  scanned,  \* files
  skipped,  \* kind -> how many were passed over
  notes,    \* "pruned" | "entries" | "depth" | "matches" | "files" | "time"
  done

input == <<tree, options, mode>>
found == <<hits, omitted>>
vars == <<input, todo, found, scanned, skipped, notes, done>>

Skips == {"large", "binary", "unreadable", "special", "link"}
Directories == {"dir", "locked", "excluded", "runtime"}
FileKinds == {"text", "large", "binary", "unreadable"}

\* What may be given: along the path of a node each lies in the one before.
IsTree(t) ==
  /\ t \in Seq([in : Seq(1 .. Len(t)), is : Skips \cup Directories \cup FileKinds,
               fits : BOOLEAN, lines : SUBSET Nat])
  /\ \A n \in DOMAIN t :
       LET path == Append(t[n].in, n)
       IN  /\ IsFiniteSet(t[n].lines)
           /\ t[path[1]].in = <<>>
           /\ \A k \in 1 .. Len(path) - 1 :
                /\ t[path[k]].is \in Directories
                /\ t[path[k + 1]].in = Append(t[path[k]].in, path[k])

Here == Head(todo)
At(kinds) == ~done /\ todo # <<>> /\ tree[Here].is \in kinds

\* ---- _bounded_entries, _walk_search ---------------------------------------------

Entries(in) == {n \in DOMAIN tree : tree[n].in = in}

Listed(in) == InOrder(Lowest(Entries(in), options.entries))

BarelyOver(in) == Cardinality(Entries(in)) > options.entries + 1
Over(in) == Cardinality(Entries(in)) > options.entries

Pass == todo' = Tail(todo) /\ UNCHANGED done
Skip(kind) == skipped' = [skipped EXCEPT ![kind] = @ + 1]

\* A link is never followed; what is no file cannot be read.
PassOver ==
  /\ At({"link", "special"}) /\ Pass
  /\ IF tree[Here].fits THEN Skip(tree[Here].is) ELSE UNCHANGED skipped
  /\ UNCHANGED <<input, found, scanned, notes>>

\* The agent's own directory is left out without a note.
Prune ==
  /\ At({"excluded", "runtime"}) /\ Pass
  /\ notes' = notes \cup {x \in {"pruned"} : tree[Here].is = "excluded"}
  /\ UNCHANGED <<input, found, scanned, skipped>>

TooDeep == Len(tree[Here].in) >= options.depth

StopDescending ==
  /\ At({"dir", "locked"}) /\ TooDeep /\ Pass
  /\ notes' = notes \cup {"depth"}
  /\ UNCHANGED <<input, found, scanned, skipped>>

Descend ==
  /\ At({"dir"}) /\ ~TooDeep
  /\ LET in == Append(tree[Here].in, Here)
     IN /\ todo' = Listed(in) \o Tail(todo)
        /\ notes' = notes \cup {x \in {"entries"} : Over(in)}
  /\ UNCHANGED <<input, found, scanned, skipped, done>>

CannotDescend ==
  /\ At({"locked"}) /\ ~TooDeep /\ Pass /\ Skip("unreadable")
  /\ UNCHANGED <<input, found, scanned, notes>>

\* ---- _scan_file --------------------------------------------------------------------

AtFile(kinds) == At(kinds) /\ tree[Here].fits /\ scanned < options.files
Count == scanned' = scanned + 1
Stop(note) == done' = TRUE /\ notes' = notes \cup {note} /\ UNCHANGED todo

PassByFile ==
  /\ At(FileKinds) /\ ~tree[Here].fits /\ Pass
  /\ UNCHANGED <<input, found, scanned, skipped, notes>>

TooManyFiles ==
  /\ At(FileKinds) /\ tree[Here].fits /\ scanned >= options.files
  /\ Stop("files")
  /\ UNCHANGED <<input, found, scanned, skipped>>

ReadFails ==
  /\ mode # "names" /\ AtFile(FileKinds \ {"text"}) /\ Count
  /\ Pass /\ Skip(tree[Here].is)
  /\ UNCHANGED <<input, found, notes>>

Full == Cardinality(hits) >= options.hits

\* A hit for the file as a whole, by its name or by its first match.
AddFile ==
  IF Full THEN Stop("matches") /\ UNCHANGED hits
  ELSE Pass /\ hits' = hits \cup {<<Here, 0>>} /\ UNCHANGED notes

FindName ==
  /\ mode = "names" /\ AtFile(FileKinds) /\ Count /\ AddFile
  /\ UNCHANGED <<input, omitted, skipped>>

FindFile ==
  /\ mode = "files" /\ AtFile({"text"}) /\ Count
  /\ IF tree[Here].lines # {} THEN AddFile ELSE Pass /\ UNCHANGED <<hits, notes>>
  /\ UNCHANGED <<input, omitted, skipped>>

Room == options.hits - Cardinality(hits)
Take(k) == hits' = hits \cup ({Here} \X Lowest(tree[Here].lines, k))

LeftOver == Cardinality(tree[Here].lines) - options.perFile

\* Beyond its own cap a file is read on for the number of its other matches.
FindLines ==
  /\ mode = "content" /\ AtFile({"text"}) /\ Count
  /\ LET matching == Cardinality(tree[Here].lines)
     IN CASE matching <= Room /\ matching <= options.perFile ->
               Take(matching) /\ Pass /\ UNCHANGED <<omitted, notes>>
          [] matching > options.perFile /\ options.perFile <= Room ->
               /\ Take(options.perFile) /\ Pass /\ UNCHANGED notes
               /\ omitted' = [omitted EXCEPT ![Here] = LeftOver]
          [] OTHER -> Take(Room) /\ Stop("matches") /\ UNCHANGED omitted
  /\ UNCHANGED <<input, skipped>>

\* The time is up within a file, or an expression took all of it.
TimeOutInFile ==
  /\ mode # "names" /\ AtFile({"text"}) /\ Count /\ Stop("time")
  /\ IF mode = "files" THEN UNCHANGED hits
     ELSE \E k \in 0 .. options.perFile : k <= Room /\ Take(k)
  /\ UNCHANGED <<input, omitted, skipped>>

TimeOut ==
  /\ ~done /\ todo # <<>> /\ Stop("time")
  /\ UNCHANGED <<input, found, scanned, skipped>>

Finish ==
  /\ ~done /\ todo = <<>> /\ done' = TRUE
  /\ UNCHANGED <<input, todo, found, scanned, skipped, notes>>

Init ==
  /\ tree \in Trees /\ options \in Options /\ mode \in {"content", "files", "names"}
  /\ todo = Listed(<<>>) /\ hits = {} /\ omitted = [n \in DOMAIN tree |-> 0]
  /\ scanned = 0 /\ skipped = [k \in Skips |-> 0]
  /\ notes = {x \in {"entries"} : Over(<<>>)} /\ done = FALSE

Walk == PassOver \/ Prune \/ StopDescending \/ Descend \/ CannotDescend
Scan == \/ PassByFile \/ TooManyFiles \/ ReadFails \/ FindName \/ FindFile \/ FindLines
        \/ TimeOutInFile

Next == Walk \/ Scan \/ TimeOut \/ Finish

Spec == Init /\ [][Next]_vars

\* ---- properties ---------------------------------------------------------------------

Above(n) == ToSet(tree[n].in)

Wanted ==
  LET files == {n \in DOMAIN tree : /\ tree[n].is \in FileKinds /\ tree[n].fits
                                    /\ \A a \in Above(n) : tree[a].is # "runtime"}
  IN CASE mode = "names"   -> files \X {0}
       [] mode = "files"   -> {n \in files : tree[n].lines # {}} \X {0}
       [] mode = "content" -> UNION {{n} \X tree[n].lines : n \in files}

\* What the footer, or the line about its file, says of a match that is not shown.
Explained(n) ==
  \/ notes \cap {"matches", "files", "time"} # {}
  \/ omitted[n] > 0 /\ omitted[n] = Cardinality({w \in Wanted \ hits : w[1] = n})
  \/ tree[n].is \in Skips /\ skipped[tree[n].is] > 0
  \/ \E a \in Above(n) : \/ tree[a].is = "excluded" /\ "pruned" \in notes
                         \/ tree[a].is = "locked" /\ skipped["unreadable"] > 0
                         \/ Len(tree[a].in) >= options.depth /\ "depth" \in notes
  \/ "entries" \in notes /\ \E d \in {<<>>} \cup {Append(tree[a].in, a) : a \in Above(n)} :
                               Cardinality(Entries(d)) > options.entries

\* A search that comes back without a match that is there says why: whatever
\* combination of caps, skipped files and directories and lack of time kept it
\* out, and the number of matches a file is said to have beyond those shown is
\* right. And it shows nothing that is not a match (search's description,
\* _coverage_footer).
FooterIsHonest ==
  /\ hits \subseteq Wanted
  /\ done => \A w \in Wanted \ hits : Explained(w[1])

=============================================================================
