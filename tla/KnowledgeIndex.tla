--------------------------- MODULE KnowledgeIndex ---------------------------
(***************************************************************************)
(* The knowledge tool (tools/builtin/knowledge.py): an index of the        *)
(* workspace's files, kept as one SQLite file. An indexing call takes the  *)
(* lock of the index, copies the index into memory, reads the files it was *)
(* asked for, awaits the embedding provider with the lock held, checks     *)
(* that its lock file is still there and then publishes its copy by a      *)
(* rename. A query takes no lock: it copies the index, compares it with    *)
(* the files, awaits the provider and answers from its copy. Meanwhile     *)
(* files are edited by anyone, and anyone may delete the lock file.        *)
(*                                                                         *)
(* The text of a file stands for its hash; a stamp stands for size and     *)
(* modification time, which an edit may leave as they were.                *)
(***************************************************************************)
EXTENDS Naturals, FiniteSets, Functions

CONSTANTS
  Procs,      \* processes that use the workspace
  Paths,
  Texts,      \* texts of readable files
  Pieces,     \* text -> the chunks it is cut into
  Identity,   \* process -> identity of its embedding provider
  Config,     \* process -> fingerprint of its chunking options
  MaxEdits,   \* bound on the edits of files
  MaxCalls    \* bound on the calls of one behaviour

VARIABLES
  files,   \* path -> text and stamp, with text Gone or Unreadable
  index,   \* the published index: path -> document, or NoDoc
  lock,    \* processes that hold the lock file that is on disk ...
  adrift,  \* ... and those whose lock file was taken away
  exposed, \* runs hit by the loss of a lock file between check and rename
  pc,      \* process -> "idle" | "waiting" | "embedding" | "publishing" | "asking"
  wants,   \* process -> the paths its indexing call selects
  copy,    \* process -> its in-memory index
  snaps,   \* process -> the files it read
  cited,   \* process -> chunks its last answer cites
  edits, calls

vars == <<files, index, lock, adrift, exposed, pc, wants, copy, snaps, cited, edits, calls>>

Gone == "gone"
Unreadable == "unreadable"
NoDoc == [text |-> "none"]
Empty == [p \in Paths |-> NoDoc]
Absent == [p \in Paths |-> [text |-> Gone, stamp |-> 0]]

Docs(ix) == {p \in Paths : ix[p] # NoDoc}
Readable(fs) == {p \in Paths : fs[p].text \in Texts}
Present(fs) == {p \in Paths : fs[p].text # Gone}

\* What an indexing call does to the document of a file it read.
Changed(ix, fs, p, s) ==
  ix[p] = NoDoc \/ ix[p].text # fs[p].text \/ ix[p].config # Config[s]

Chunks(ix) == UNION {{[path |-> p, piece |-> x, vec |-> ix[p].vecs[x]] :
                        x \in DOMAIN ix[p].vecs} : p \in Docs(ix)}

\* Vectors of this provider, by the hash of the text they were made from.
ReusableOfAny(ix, x, s) == {c.vec : c \in {c \in Chunks(ix) : c.vec.id = Identity[s]}}
Reusable(ix, x, s) ==
  {c.vec : c \in {c \in Chunks(ix) : c.piece = x /\ c.vec.id = Identity[s]}}

Kept(ix, p, x, s) ==
  IF ix[p].vecs[x].id = Identity[s] THEN {ix[p].vecs[x]} ELSE {}

\* Vectors the copy already has for the chunks of a file.
Owned(ix, fs, p, x, s) ==
  IF Changed(ix, fs, p, s) THEN Reusable(ix, x, s) ELSE Kept(ix, p, x, s)

Selected(s) == wants[s] \cap Readable(snaps[s])

Targets(s) ==
  {x \in UNION {Pieces[t] : t \in Texts} :
     \E p \in Selected(s) :
       x \in Pieces[snaps[s][p].text] /\ Owned(copy[s], snaps[s], p, x, s) = {}}

Encoded(x, s) == [id |-> Identity[s], of |-> x]

Document(s, p) ==
  LET f == snaps[s][p]
  IN [text |-> f.text, stamp |-> f.stamp, config |-> Config[s],
      vecs |-> [x \in Pieces[f.text] |->
                  IF Owned(copy[s], snaps[s], p, x, s) = {} THEN Encoded(x, s)
                  ELSE CHOOSE v \in Owned(copy[s], snaps[s], p, x, s) : TRUE]]

\* Files that were selected and could not be read leave the index.
Rebuilt(s) ==
  [p \in Paths |-> IF p \in Selected(s) THEN Document(s, p)
                   ELSE IF p \in wants[s] THEN NoDoc
                   ELSE copy[s][p]]

\* The documents a query must not cite (_stale_state): not only by their stamps.
StaleByStamp(ix, fs, s) ==
  {p \in Docs(ix) : p \notin Present(fs) \/ ix[p].stamp # fs[p].stamp
                    \/ ix[p].config # Config[s]}
Stale(ix, fs, s) ==
  {p \in Docs(ix) :
     \/ p \notin Present(fs)
     \/ ix[p].stamp # fs[p].stamp
     \/ ix[p].config # Config[s]
     \/ ix[p].text # fs[p].text}

\* Chunks a query may find: of the provider's own vectors, and by words too
\* when the backend is hybrid.
Hits(s, hybrid) ==
  {c \in Chunks(copy[s]) :
     /\ c.path \notin Stale(copy[s], snaps[s], s)
     /\ hybrid \/ c.vec.id = Identity[s]}

Usable(s) ==
  \/ Chunks(copy[s]) = {}
  \/ \E c \in Chunks(copy[s]) : c.vec.id = Identity[s]

\* ---- actions ---------------------------------------------------------------

Write(p) ==
  /\ edits < MaxEdits /\ edits' = edits + 1
  /\ \E t \in Texts \cup {Gone, Unreadable} : \E n \in {files[p].stamp, edits + 1} :
       files' = [files EXCEPT ![p] = [text |-> t, stamp |-> n]]
  /\ UNCHANGED <<index, lock, adrift, exposed, pc, wants, copy, snaps, cited, calls>>

\* Somebody deletes the lock file: its holder goes on without it, and one that
\* has checked it already does not notice any more.
LoseLock ==
  /\ lock # {}
  /\ adrift' = adrift \cup lock /\ lock' = {}
  /\ exposed' = exposed \cup {s \in lock : pc[s] = "publishing"}
  /\ UNCHANGED <<files, index, pc, wants, copy, snaps, cited, edits, calls>>

Begin(s, paths) ==
  /\ pc[s] = "idle" /\ calls < MaxCalls
  /\ pc' = [pc EXCEPT ![s] = "waiting"]
  /\ wants' = [wants EXCEPT ![s] = paths]
  /\ calls' = calls + 1
  /\ UNCHANGED <<files, index, lock, adrift, exposed, copy, snaps, cited, edits>>

Locks(s) == lock = {}

\* The lock is taken, the index copied, the files read.
Load(s) ==
  /\ pc[s] = "waiting" /\ Locks(s)
  /\ lock' = lock \cup {s}
  /\ copy' = [copy EXCEPT ![s] = index]
  /\ snaps' = [snaps EXCEPT ![s] = files]
  /\ pc' = [pc EXCEPT ![s] = "embedding"]
  /\ UNCHANGED <<files, index, adrift, exposed, wants, cited, edits, calls>>

\* The connection is closed and the lock released.
Close(s) ==
  /\ lock' = lock \ {s} /\ adrift' = adrift \ {s}
  /\ pc' = [pc EXCEPT ![s] = "idle"]
  /\ wants' = [wants EXCEPT ![s] = {}]
  /\ copy' = [copy EXCEPT ![s] = Empty]
  /\ snaps' = [snaps EXCEPT ![s] = Absent]
  /\ UNCHANGED <<files, edits, calls>>

AnchoredOrNot(s) == TRUE
Anchored(s) == s \notin adrift

\* The vectors are there, if any were asked for, and so is the lock file
\* (ensure_anchored) ...
Check(s) ==
  /\ pc[s] = "embedding" /\ Anchored(s)
  /\ pc' = [pc EXCEPT ![s] = "publishing"]
  /\ UNCHANGED <<files, index, lock, adrift, exposed, wants, copy, snaps, cited, edits, calls>>

Loaded == {s \in Procs : pc[s] \in {"embedding", "publishing"}}

\* ... so that the copy is serialised, written aside and renamed (_save_index).
\* One that lost its lock file since the check publishes beside whoever has
\* the lock now.
Publish(s) ==
  /\ pc[s] = "publishing"
  /\ index' = Rebuilt(s)
  /\ exposed' = (IF s \in exposed THEN Loaded ELSE exposed) \ {s}
  /\ Close(s) /\ UNCHANGED cited

\* The provider fails (only asked when there is something to embed), the lock
\* was lost, the file cannot be written; a Stop; or the process dies.
GiveUp(s) ==
  /\ \/ pc[s] = "embedding" /\ (Targets(s) # {} \/ ~Anchored(s))
     \/ pc[s] \in {"waiting", "publishing", "asking"}
  /\ exposed' = exposed \ {s}
  /\ Close(s) /\ UNCHANGED <<index, cited>>

\* A query compares its copy of the index with the files ...
Ask(s) ==
  /\ pc[s] = "idle" /\ calls < MaxCalls
  /\ Docs(index) # {}
  /\ copy' = [copy EXCEPT ![s] = index]
  /\ snaps' = [snaps EXCEPT ![s] = files]
  /\ pc' = [pc EXCEPT ![s] = "asking"]
  /\ cited' = [cited EXCEPT ![s] = {}]
  /\ calls' = calls + 1
  /\ UNCHANGED <<files, index, lock, adrift, exposed, wants, edits>>

\* ... and answers when the provider has embedded its words. Ranking, reranking
\* and the limits only leave some of the hits out.
Answer(s) ==
  /\ pc[s] = "asking" /\ Usable(s)
  /\ \E hybrid \in BOOLEAN :
       cited' = [cited EXCEPT ![s] =
                   {[path |-> c.path, piece |-> c.piece, vec |-> c.vec, hybrid |-> hybrid,
                     file |-> snaps[s][c.path].text] : c \in Hits(s, hybrid)}]
  /\ Close(s) /\ UNCHANGED <<index, exposed>>

Init ==
  /\ files \in [Paths -> [text : Texts, stamp : {0}]]
  /\ index = Empty /\ lock = {} /\ adrift = {} /\ exposed = {} /\ edits = 0 /\ calls = 0
  /\ pc = [s \in Procs |-> "idle"]
  /\ wants = [s \in Procs |-> {}]
  /\ copy = [s \in Procs |-> Empty]
  /\ snaps = [s \in Procs |-> Absent]
  /\ cited = [s \in Procs |-> {}]

Next ==
  \/ LoseLock
  \/ \E p \in Paths : Write(p)
  \/ \E s \in Procs :
       \/ \E paths \in (SUBSET Paths) \ {{}} : Begin(s, paths)
       \/ Load(s) \/ Check(s) \/ Publish(s) \/ GiveUp(s) \/ Ask(s) \/ Answer(s)

Spec == Init /\ [][Next]_vars

\* ---- properties ------------------------------------------------------------

\* What an answer cites was in the file when the query compared the index with
\* the workspace, though the index is older, the files changed since, their
\* times were preserved, and the provider was awaited in between
\* (_stale_state, _query_index).
CitationsWereTrue ==
  \A s \in Procs : \A c \in cited[s] : c.file \in Texts /\ c.piece \in Pieces[c.file]

\* A vector stays with the text and the provider it was made for, however often
\* it is taken over from other files, other runs and other providers' indexes;
\* the query's own vector is compared with no other provider's
\* (reusable_by_hash, _semantic_hits).
VectorsMatchTexts ==
  /\ \A c \in Chunks(index) : c.vec.of = c.piece
  /\ \A s \in Procs : \A c \in cited[s] :
       c.hybrid \/ (c.vec.id = Identity[s] /\ c.vec.of = c.piece)

\* A published update leaves alone what it was not asked for: in particular it
\* never undoes what another process published while the provider was awaited,
\* when the lock file was deleted in the meantime and another run got its own
\* (ensure_anchored). What the check cannot see is a lock file that goes between
\* the check and the rename; then that run, or one that loaded the index before
\* that run published beside it, may take back what the other has published.
UpdatesAreKept ==
  [][\A p \in Paths : index'[p] # index[p] =>
       \E s \in Procs :
         /\ pc[s] = "publishing" /\ pc'[s] = "idle"
         /\ \/ p \in wants[s] /\ \A q \in Paths \ wants[s] : index'[q] = index[q]
            \/ s \in exposed]_vars

\* An answer cites what the files said when they were read, and was found with
\* vectors of the text and the provider it is about (knowledge.py).
AnswersAreTrue == CitationsWereTrue /\ VectorsMatchTexts

=============================================================================
