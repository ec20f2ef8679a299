------------------------------ MODULE MCMachine ------------------------------
(* What the agent does to the machine it runs on: the commands it starts, and  *)
(* the tools that search, read and patch files. The parts share no state: *)
(* which of them moves is chosen at first (part), and every other one stays in  *)
(* an initial state. Fairness is asked of the part that moves.                 *)
EXTENDS Processes, FilesData, Subsequences

CONSTANTS
  Trees, SearchCaps,                     \* of Search
  LargeFiles, Chunks, Widths, Windows,   \* of Paging
  Words, PatchedFiles, Diffs             \* of Patch

VARIABLES
  part,
  seTree, seOptions, seMode, seTodo, seHits, seOmitted, seScanned,
  seSkipped, seNotes, seDone,
  pgFile, pgChunk, pgWidth, pgWindow, pgRead, pgPos, pgEof, pgLine,
  pgStarted, pgTotal, pgPage, pgStatus,
  paFile, paDiff, paLines, paLeft, paStatus

Se == INSTANCE Search WITH
  tree <- seTree, options <- seOptions, mode <- seMode, todo <- seTodo,
  hits <- seHits, omitted <- seOmitted, scanned <- seScanned,
  skipped <- seSkipped, notes <- seNotes, done <- seDone,
  Options <- SearchCaps
seVars ==
  <<seTree, seOptions, seMode, seTodo, seHits, seOmitted, seScanned,
    seSkipped, seNotes, seDone>>

\* Search is given trees.
ASSUME SearchAssumption ==
  /\ \A t \in Trees : Se!IsTree(t)
  /\ SearchCaps \subseteq [hits : Nat, perFile : Nat, files : Nat, entries : Nat, depth : Nat]

Pg == INSTANCE Paging WITH
  file <- pgFile, chunk <- pgChunk, width <- pgWidth, window <- pgWindow,
  read <- pgRead, pos <- pgPos, eof <- pgEof, line <- pgLine,
  started <- pgStarted, total <- pgTotal, page <- pgPage,
  status <- pgStatus, Files <- LargeFiles
pgVars ==
  <<pgFile, pgChunk, pgWidth, pgWindow, pgRead, pgPos, pgEof, pgLine,
    pgStarted, pgTotal, pgPage, pgStatus>>

\* A window begins at a line and is not empty.
ASSUME PagingAssumption ==
  /\ LargeFiles \subseteq Seq({"x", "r", "n"}) /\ Chunks \subseteq Nat /\ Widths \subseteq Nat
  /\ Windows \subseteq {w \in [first : Nat, last : Nat] : 1 <= w.first /\ w.first <= w.last}

Pa == INSTANCE Patch WITH
  file <- paFile, diff <- paDiff, lines <- paLines, left <- paLeft,
  status <- paStatus, Files <- PatchedFiles
paVars ==
  <<paFile, paDiff, paLines, paLeft, paStatus>>

TextLine == [text : Words, end : {"lf", "crlf", "none"}]

\* In a file only the last line may have no end.
ASSUME PatchAssumption ==
  /\ PatchedFiles \subseteq Seq(TextLine)
  /\ \A f \in PatchedFiles : \A i \in 1 .. Len(f) - 1 : f[i].end # "none"
  /\ Diffs \subseteq Seq([start : Nat, old : Seq(TextLine), new : Seq(TextLine)])

allVars == <<part, vars, seVars, pgVars, paVars>>

Parts == {"processes", "search", "paging", "patch"}

\* A part that does not move is in one of its initial states.
Some(S) == CHOOSE x \in S : TRUE
At(name, v, S) == IF part = name THEN v \in S ELSE v = Some(S)

MCInit ==
  /\ part \in Parts
  /\ Init
  /\ At("search", seTree, Trees) /\ At("search", seOptions, SearchCaps)
  /\ At("search", seMode, {"content", "files", "names"}) /\ Se!Init
  /\ At("paging", pgFile, LargeFiles) /\ At("paging", pgChunk, Chunks)
  /\ At("paging", pgWidth, Widths) /\ At("paging", pgWindow, Windows) /\ Pg!Init
  /\ At("patch", paFile, PatchedFiles) /\ At("patch", paDiff, Diffs) /\ Pa!Init

MCNext ==
  \/ /\ part = "processes" /\ Next
     /\ UNCHANGED <<part, seVars, pgVars, paVars>>
  \/ /\ part = "search" /\ Se!Next
     /\ UNCHANGED <<part, vars, pgVars, paVars>>
  \/ /\ part = "paging" /\ Pg!Next
     /\ UNCHANGED <<part, vars, seVars, paVars>>
  \/ /\ part = "patch" /\ Pa!Next
     /\ UNCHANGED <<part, vars, seVars, pgVars>>

MCSpec == MCInit /\ [][MCNext]_allVars

\* Tasks of the process plugin go on, as in Processes.
MCFairness ==
  /\ \A p \in Procs : /\ WF_vars(part = "processes" /\ Supervise(p))
                      /\ WF_vars(part = "processes" /\ StopTask(p))
  /\ \A t \in 1 .. MaxTurns : WF_vars(part = "processes" /\ ReapNext(t))
  /\ WF_vars(part = "processes" /\ CloseNext)
  /\ \A c \in Calls : /\ WF_vars(part = "processes" /\ Scan(c))
                      /\ WF_vars(part = "processes" /\ CancelCall(c))

MCFairSpec == MCSpec /\ MCFairness

FooterIsHonest == Se!FooterIsHonest
PagesMatchTheText == Pg!PagesMatchTheText
PatchIsExact == Pa!PatchIsExact
=============================================================================
