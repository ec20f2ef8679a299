------------------------------ MODULE MCWorkers ------------------------------
(* An evaluation job, the browser plugin, the requests of a run and the plugin *)
(* hooks. The parts share no state: which of them moves is chosen at first      *)
(* (part), and every other one stays in an initial state, so that one run       *)
(* checks each of them over all of its behaviours.                             *)
EXTENDS Hooks

CONSTANTS
  MaxRequests,    \* of Requests ...
  RequestLimits, TokenLimits,
  Plain, Rich,    \* ... how many at a time, with counts only and in full
  NTrials,        \* of EvalJobs ...
  Retries,
  MaxExecutions,
  MaxInvocations,
  BrowserCalls,   \* of Browser
  Hosts, Bridged,
  MaxLaunches, MaxBrowserCalls, MaxTunnels, MaxTabs

ASSUME RetriesAssumption == Retries \in Nat

ASSUME RequestsAssumption ==
  RequestLimits \subseteq Nat /\ TokenLimits \subseteq Nat

Limits == [requests : RequestLimits, tokens : TokenLimits, strict : BOOLEAN]
Loads == [width : Plain, content : {FALSE}] \cup [width : Rich, content : {TRUE}]

VARIABLES
  part,
  jbExecs, jbPc, jbInv, jbTrial, jbAssigned, jbFinished, jbRestartable,
  jbOutcome, jbUnclean, jbCancelled,
  brAttached, brPc, brOp, brLock, brClosed, brEnded, brSession,
  brCloseTask, brHeld, brLive, brStage, brApproved, brTunnels, brTabs,
  brPages, brOpened, brPopups, brConsents, brReached, brCutShort,
  brLaunches, brSessions, brCalls,
  rqLimits, rqLoad, rqReqs, rqExhausted, rqSpent, rqKnown, rqMeter, rqLedger

Jb == INSTANCE EvalJobsProofs WITH
  execs <- jbExecs, pc <- jbPc, inv <- jbInv, trial <- jbTrial,
  assigned <- jbAssigned, finished <- jbFinished,
  restartable <- jbRestartable, outcome <- jbOutcome, unclean <- jbUnclean,
  cancelled <- jbCancelled, NTrials <- NTrials, Retries <- Retries,
  Flaky <- FALSE, MaxExecutions <- MaxExecutions,
  MaxInvocations <- MaxInvocations
jbVars ==
  <<jbExecs, jbPc, jbInv, jbTrial, jbAssigned, jbFinished, jbRestartable,
    jbOutcome, jbUnclean, jbCancelled>>

Br == INSTANCE Browser WITH
  attached <- brAttached, pc <- brPc, op <- brOp, lock <- brLock,
  closed <- brClosed, ended <- brEnded, session <- brSession,
  closeTask <- brCloseTask, held <- brHeld, live <- brLive,
  stage <- brStage, approved <- brApproved, tunnels <- brTunnels,
  tabs <- brTabs, pages <- brPages, opened <- brOpened, popups <- brPopups,
  consents <- brConsents, reached <- brReached, cutShort <- brCutShort,
  launches <- brLaunches, sessions <- brSessions, calls <- brCalls,
  Calls <- BrowserCalls, Hosts <- Hosts, Bridged <- Bridged,
  MaxLaunches <- MaxLaunches, MaxCalls <- MaxBrowserCalls,
  MaxTunnels <- MaxTunnels, MaxTabs <- MaxTabs
brVars ==
  <<brAttached, brPc, brOp, brLock, brClosed, brEnded, brSession,
    brCloseTask, brHeld, brLive, brStage, brApproved, brTunnels, brTabs,
    brPages, brOpened, brPopups, brConsents, brReached, brCutShort,
    brLaunches, brSessions, brCalls>>

Rq == INSTANCE Requests WITH
  limits <- rqLimits, load <- rqLoad, reqs <- rqReqs,
  exhausted <- rqExhausted, spent <- rqSpent, known <- rqKnown,
  meter <- rqMeter, ledger <- rqLedger, MaxRequests <- MaxRequests
rqVars ==
  <<rqLimits, rqLoad, rqReqs, rqExhausted, rqSpent, rqKnown, rqMeter, rqLedger>>

allVars == <<part, vars, jbVars, brVars, rqVars>>

MCInit ==
  /\ part \in {"job", "browser", "requests", "hooks"}
  /\ (IF part = "hooks" THEN blocks \in SUBSET All ELSE blocks = {}) /\ Init
  /\ Jb!Init
  /\ (IF part = "browser" THEN brAttached \in BOOLEAN ELSE brAttached = FALSE) /\ Br!Init
  /\ (IF part = "requests" THEN rqLimits \in Limits
      ELSE rqLimits = CHOOSE l \in Limits : TRUE)
  /\ (IF part = "requests" THEN rqLoad \in Loads ELSE rqLoad = CHOOSE l \in Loads : TRUE)
  /\ Rq!Init

MCNext ==
  \/ part = "job" /\ Jb!Next /\ UNCHANGED <<part, vars, brVars, rqVars>>
  \/ part = "browser" /\ Br!Next /\ UNCHANGED <<part, vars, jbVars, rqVars>>
  \/ part = "requests" /\ Rq!Next /\ UNCHANGED <<part, vars, jbVars, brVars>>
  \/ part = "hooks" /\ Next /\ UNCHANGED <<part, jbVars, brVars, rqVars>>

MCSpec == MCInit /\ [][MCNext]_allVars

AttemptsAreUnique == Jb!AttemptsAreUnique
LedgerIsSound == Jb!LedgerIsSound
SessionsAreSound == Br!SessionsAreSound
RequestsAreSettled == Rq!RequestsAreSettled
OnlyWholeIsGiven == Rq!OnlyWholeIsGiven
=============================================================================
