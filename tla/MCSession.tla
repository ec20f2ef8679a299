------------------------------ MODULE MCSession ------------------------------
(* The session driver with its inbox, a sandboxed command, the trace of a run   *)
(* and a headless run. The parts share no state: which of them moves is chosen  *)
(* at first (part), and every other one stays in an initial state, so that one  *)
(* run checks each of them over all of its behaviours. Fairness is asked of     *)
(* the part that moves only.                                                   *)
EXTENDS MCSessionLoop

CONSTANTS
  Capacity, MaxPayload, MaxRecords, MaxFlushes,  \* of Trace
  Turns, MaxCancels                              \* of Headless

ASSUME ScriptAssumption == Turns \in Nat

VARIABLES
  part,
  sbRuntime, sbSecrets, sbPc, sbCleanup, sbContainer, sbClient, sbEnvFile,
  sbWatchdog, sbUnstaged, sbRefused,
  trSeq, trSpans, trCaptured, trQueue, trClosed, trSealed, trHealth,
  trJournal, trFlushed, trArtifacts, trSummary, trWriter, trLast, trFlusher,
  trStrays, trCloser, trFlushes, trDead,
  hlLeft, hlGood, hlSess, hlUnwinding, hlPending, hlOutcome, hlTimer,
  hlDrv, hlHit, hlCancels, hlInterrupted, hlFailure, hlRaising, hlResult,
  hlClosed, hlSkipped

Sb == INSTANCE Sandbox WITH
  runtime <- sbRuntime, secrets <- sbSecrets, pc <- sbPc,
  cleanup <- sbCleanup, container <- sbContainer, client <- sbClient,
  envFile <- sbEnvFile, watchdog <- sbWatchdog, unstaged <- sbUnstaged,
  refused <- sbRefused
sbVars ==
  <<sbRuntime, sbSecrets, sbPc, sbCleanup, sbContainer, sbClient, sbEnvFile,
    sbWatchdog, sbUnstaged, sbRefused>>

Tr == INSTANCE Trace WITH
  seq <- trSeq, spans <- trSpans, captured <- trCaptured, queue <- trQueue,
  closed <- trClosed, sealed <- trSealed, health <- trHealth,
  journal <- trJournal, flushed <- trFlushed, artifacts <- trArtifacts,
  summary <- trSummary, writer <- trWriter, last <- trLast,
  flusher <- trFlusher, strays <- trStrays,
  closer <- trCloser, flushes <- trFlushes, dead <- trDead,
  Capacity <- Capacity, MaxPayload <- MaxPayload, MaxRecords <- MaxRecords,
  MaxFlushes <- MaxFlushes
trVars ==
  <<trSeq, trSpans, trCaptured, trQueue, trClosed, trSealed, trHealth,
    trJournal, trFlushed, trArtifacts, trSummary, trWriter, trLast, trFlusher,
    trStrays, trCloser, trFlushes, trDead>>

Hl == INSTANCE Headless WITH
  left <- hlLeft, good <- hlGood, sess <- hlSess, unwinding <- hlUnwinding,
  pending <- hlPending, outcome <- hlOutcome, timer <- hlTimer,
  drv <- hlDrv, hit <- hlHit, cancels <- hlCancels,
  interrupted <- hlInterrupted, failure <- hlFailure, raising <- hlRaising,
  result <- hlResult, closed <- hlClosed, skipped <- hlSkipped, Turns <- Turns,
  MaxCancels <- MaxCancels
hlVars ==
  <<hlLeft, hlGood, hlSess, hlUnwinding, hlPending, hlOutcome, hlTimer,
    hlDrv, hlHit, hlCancels, hlInterrupted, hlFailure, hlRaising,
    hlResult, hlClosed, hlSkipped>>

allVars == <<part, vars, sbVars, trVars, hlVars>>

MCInit ==
  /\ part \in {"loop", "sandbox", "trace", "headless"}
  /\ Init /\ (part = "loop" \/ enabled)
  /\ Sb!Init /\ (part = "sandbox" \/ (sbRuntime = "strict" /\ ~sbSecrets))
  /\ Tr!Init
  /\ Hl!Init /\ (part = "headless" \/ hlTimer = "none")

MCNext ==
  \/ part = "loop" /\ Next /\ UNCHANGED <<part, sbVars, trVars, hlVars>>
  \/ part = "sandbox" /\ Sb!Next /\ UNCHANGED <<part, vars, trVars, hlVars>>
  \/ part = "trace" /\ Tr!Next /\ UNCHANGED <<part, vars, sbVars, hlVars>>
  \/ part = "headless" /\ Hl!Next /\ UNCHANGED <<part, vars, sbVars, trVars>>

MCFairness ==
  /\ WF_vars(part = "loop" /\ Session) /\ WF_vars(part = "loop" /\ TurnEnds)
  /\ WF_sbVars(part = "sandbox" /\ Sb!Runtime)
  /\ WF_sbVars(part = "sandbox" /\ Sb!Owner)
  /\ WF_sbVars(part = "sandbox" /\ Sb!Cleanup)
  /\ WF_sbVars(part = "sandbox" /\ Sb!Watchdog)
  /\ WF_trVars(part = "trace" /\ Tr!Writer)
  /\ WF_hlVars(part = "headless" /\ Hl!Settles)

MCSpec == MCInit /\ [][MCNext]_allVars /\ MCFairness

CommandsLeaveNothing == Sb!CommandsLeaveNothing
TraceIsTruthful == Tr!TraceIsTruthful
RunsEndProperly == Hl!RunsEndProperly
=============================================================================
