------------------------------- MODULE MCTools -------------------------------
(* The tool batch, a turn with its tools and compaction, the calendar, the     *)
(* knowledge index and the memory file. The parts share no state: which of them *)
(* moves is chosen at first (part), and every other one stays in an initial     *)
(* state, so that one run checks each of them over all of its behaviours.      *)
EXTENDS MCToolBatch, ToolsData, Subsequences

CONSTANTS
  Gens, NoGen, Sides, InitSide, NoSide, NoSnap, NoCkpt,  \* of AgentTurn
  MaxIters, Shrinks, MaxCrashes,
  CalSessions, CalUids, CalDay, FallBack, SpringForward, \* of Calendar
  MaxSteps, CalFiles, CalCalls,
  Procs, Paths, Texts, Pieces, Identity, Config,         \* of KnowledgeIndex
  MaxEdits, MaxIndexCalls,
  MemoryCalls, TextLines, Headings,                      \* of MemoryFile
  MemoryFiles, Contents, Replies, CompactAt, MaxLines

Providers == [p |-> "m", q |-> "n"]
Chunking == [p |-> "c", q |-> "c"]

VARIABLES
  part,
  turnPc, turnAt, turnDrv, turnLease, turnActive, turnCkpt, turnMsgSeq,
  turnCancelReq, turnCommitted, turnTold, turnStatsLease, turnStatsSeq,
  turnPending, turnTurnIndex, turnBefore, turnSide, turnMem, turnLog,
  turnTurn, turnCrashes,
  calFile, calParts, calLock, calPc, calCall, calDraft, calCalls,
  knFiles, knIndex, knLock, knAdrift, knExposed, knPc, knWants, knCopy,
  knSnaps, knCited, knEdits, knCalls,
  meMemory, meLock, meCall

Turn == INSTANCE AgentTurnProofs WITH
  pc <- turnPc, at <- turnAt, drv <- turnDrv, lease <- turnLease,
  active <- turnActive, ckpt <- turnCkpt, msgSeq <- turnMsgSeq,
  cancelReq <- turnCancelReq, committed <- turnCommitted, told <- turnTold,
  statsLease <- turnStatsLease, statsSeq <- turnStatsSeq,
  pending <- turnPending, turnIndex <- turnTurnIndex, before <- turnBefore,
  side <- turnSide, mem <- turnMem, log <- turnLog, turn <- turnTurn,
  crashes <- turnCrashes
turnVars ==
  <<turnPc, turnAt, turnDrv, turnLease, turnActive, turnCkpt, turnMsgSeq,
    turnCancelReq, turnCommitted, turnTold, turnStatsLease,
    turnStatsSeq, turnPending, turnTurnIndex, turnBefore, turnSide,
    turnMem, turnLog, turnTurn, turnCrashes>>

\* The constants of this module are constants AgentTurn is meant for.
ASSUME TurnAssumption ==
  /\ Turn!GenAssumption /\ Turn!SideAssumption
  /\ Turn!BoundAssumption /\ Turn!SentinelAssumption

Cal == INSTANCE Calendar WITH
  file <- calFile, parts <- calParts, lock <- calLock, pc <- calPc,
  call <- calCall, draft <- calDraft, calls <- calCalls,
  Sessions <- CalSessions, Uids <- CalUids, Day <- CalDay, FallBack <- FallBack,
  SpringForward <- SpringForward, MaxSteps <- MaxSteps, Files <- CalFiles,
  Calls <- CalCalls
calVars ==
  <<calFile, calParts, calLock, calPc, calCall, calDraft, calCalls>>

OneAtMost(S) == \A x, y \in S : x = y

EventFields == {"uid", "of", "start", "span", "title", "rule", "rdates", "exdates",
                "cancelled", "opaque", "ranged"}

IsEvent(c) == c = [f \in EventFields |-> c[f]]

\* A component that is no override of a series is none of a range of it, and an
\* override is no series of its own (RFC 5545, 3.8.4.4).
IsCalendar(cal) ==
  /\ IsFiniteSet(cal)
  /\ \A c \in cal : /\ IsEvent(c)
                    /\ IF Cal!IsOverride(c) THEN ~Cal!Recurring(c) ELSE ~c.ranged

AreTimes(S) == \A g \in S : g.at \in Int /\ g.form \in {"date", "wall", "instant"}

\* A part of a call that may be absent is a set of at most one element; one
\* occurrence is named when one is to be changed, and does not get a rule.
IsEdit(q) ==
  /\ q.op \in {"add", "remove", "update"}
  /\ q.op = "add" => IsFiniteSet(q.events)
  /\ q.op = "update" =>
       /\ OneAtMost(q.changes.start) /\ AreTimes(q.changes.start)
       /\ OneAtMost(q.changes.end) /\ AreTimes(q.changes.end)
       /\ OneAtMost(q.changes.minutes)
       /\ OneAtMost(q.occurrence) /\ AreTimes(q.occurrence)
       /\ q.scope = "occurrence" => q.changes.repeat = {}

ASSUME CalendarAssumption ==
  /\ CalDay \in Nat /\ CalDay > 1 /\ FallBack \in Int /\ SpringForward \in Int
  /\ \A cal \in CalFiles : IsCalendar(cal)
  /\ \A q \in CalCalls : IsEdit(q)

Kn == INSTANCE KnowledgeIndex WITH
  files <- knFiles, index <- knIndex, lock <- knLock, adrift <- knAdrift,
  exposed <- knExposed,
  pc <- knPc, wants <- knWants, copy <- knCopy, snaps <- knSnaps,
  cited <- knCited, edits <- knEdits, calls <- knCalls, Procs <- Procs,
  Paths <- Paths, Texts <- Texts, Pieces <- Pieces, Identity <- Identity,
  Config <- Config, MaxEdits <- MaxEdits, MaxCalls <- MaxIndexCalls
knVars ==
  <<knFiles, knIndex, knLock, knAdrift, knExposed, knPc, knWants, knCopy,
    knSnaps, knCited, knEdits, knCalls>>

Me == INSTANCE MemoryFile WITH
  memory <- meMemory, lock <- meLock, call <- meCall, Calls <- MemoryCalls,
  Keys <- Headings, Files <- MemoryFiles, Summaries <- Replies
meVars ==
  <<meMemory, meLock, meCall>>

\* A file, what is stored in it and what a model answers are made of lines.
ASSUME MemoryAssumption ==
  /\ CompactAt \in Nat /\ MaxLines \in Nat
  /\ Headings \subseteq TextLines
  /\ MemoryFiles \cup Contents \cup Replies \subseteq Seq(TextLines)

allVars == <<part, vars, turnVars, calVars, knVars, meVars>>

Parts == {"batch", "turn", "calendar", "knowledge", "memory"}

\* A part that does not move is in one of its initial states.
Some(S) == CHOOSE x \in S : TRUE
At(name, v, S) == IF part = name THEN v \in S ELSE v = Some(S)

MCInit ==
  /\ part \in Parts
  /\ At("batch", prof, Profiles) /\ Init
  /\ Turn!Init
  /\ At("calendar", calFile, CalFiles) /\ Cal!Init
  /\ At("knowledge", knFiles, [Paths -> [text : Texts, stamp : {0}]]) /\ Kn!Init
  /\ At("memory", meMemory, MemoryFiles) /\ Me!Init

MCNext ==
  \/ /\ part = "batch" /\ Next
     /\ UNCHANGED <<part, turnVars, calVars, knVars, meVars>>
  \/ /\ part = "turn" /\ Turn!Next
     /\ UNCHANGED <<part, vars, calVars, knVars, meVars>>
  \/ /\ part = "calendar" /\ Cal!Next
     /\ UNCHANGED <<part, vars, turnVars, knVars, meVars>>
  \/ /\ part = "knowledge" /\ Kn!Next
     /\ UNCHANGED <<part, vars, turnVars, calVars, meVars>>
  \/ /\ part = "memory" /\ Me!Next
     /\ UNCHANGED <<part, vars, turnVars, calVars, knVars>>

MCSpec == MCInit /\ [][MCNext]_allVars

ReplayAgreement == Turn!ReplayAgreement
CompactionSavable == Turn!CompactionSavable
TurnsAreAtomic == Turn!TurnsAreAtomic
EditsAreExact == Cal!EditsAreExact
AnswersAreTrue == Kn!AnswersAreTrue
UpdatesAreKept == Kn!UpdatesAreKept
MemoryIsSerial == Me!MemoryIsSerial
=============================================================================
