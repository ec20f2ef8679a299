------------------------------ MODULE ToolBatch ------------------------------
(***************************************************************************)
(* The tool calls of one assistant message and the skills they switch      *)
(* (Agent._dispatch, tools/builtin/skill.py, SkillState, and the durable   *)
(* skill_state event).                                                     *)
(*                                                                         *)
(* The calls of a batch run one after the other, or as concurrent tasks.   *)
(* Each waits for plugin hooks, and an activation that asks for high-risk  *)
(* tools waits for the user as well; what it read before that wait may be  *)
(* stale after it.  When the turn is stopped, or one call raises through,  *)
(* the other tasks are cancelled and awaited before the turn is voided.    *)
(* Plugin and frontend code may answer a cancellation by going on.  A      *)
(* restart restores the saved skills under a profile edited meanwhile.     *)
(*                                                                         *)
(* The tool activate_skill is taken to be enabled and a session attached.  *)
(* The durable repair of a voided turn succeeds (its failure is part of    *)
(* AgentTurn).                                                             *)
(***************************************************************************)
EXTENDS Naturals, FiniteSets, SequencesExt, Subsequences

CONSTANTS
  Skills,       \* names of loaded skills
  Tools,        \* tools of the registry
  Profiles,     \* profiles the process may be started with
  MaxCalls,     \* bound: calls of one assistant message
  MaxBatches,   \* bound: batches
  MaxTurns,     \* bound: turns
  MaxRestarts   \* bound: restarts

Profile == [ceiling : SUBSET Tools, initial : SUBSET Tools,
            risky : SUBSET Tools, requested : [Skills -> SUBSET Tools],
            concurrent : BOOLEAN, parallel : BOOLEAN, confirms : BOOLEAN]

ASSUME ProfileAssumption ==
  /\ Profiles \subseteq Profile
  /\ \A p \in Profiles : p.initial \subseteq p.ceiling

VARIABLES
  prof,       \* the running process's profile
  phase,      \* "idle", "turn" between batches, "batch", or "unwinding"
  calls,      \* the batch
  st,         \* where each call is
  cancelled,  \* calls whose task has a CancelledError coming
  authorized, \* _dispatch's snapshot of the tools the request could name
  used,       \* tools this batch ran
  active,     \* SkillState.active
  approved,   \* SkillState.approved_high_risk
  before,     \* active and approved before the batch
  ckpt,       \* active and approved before the turn
  saved,      \* the newest skill_state event
  base,       \* the newest skill_state event before the turn
  accepted,   \* high-risk tools the user ever granted each skill
  count       \* turns, batches and restarts so far

skillVars == <<active, approved>>
batchVars == <<calls, st, cancelled, authorized, used, before>>
durableVars == <<saved, base>>
vars == <<prof, phase, batchVars, skillVars, ckpt, durableVars, accepted,
          count>>

-----------------------------------------------------------------------------
(* Permissions *)

State == [active |-> active, approved |-> approved]

\* SkillState.effective_tools and the part that needs consent.
Effective(p, s) == p.ceiling \cap p.requested[s]
Risky(p, s) == Effective(p, s) \cap p.risky

\* from_profile offers a skill only when it can grant something.
Offerable(p, s) == p.requested[s] = {} \/ Effective(p, s) # {}

\* active_effective_tools: risky grants are limited to recorded consent.
Grants(p, x) ==
  UNION {(Effective(p, s) \ p.risky) \cup (Risky(p, s) \cap x.approved[s]) :
           s \in {n \in Skills : n \in ToSet(x.active) /\ Offerable(p, n)}}

\* _authorized_tool_names
Authorized == (prof.initial \cup Grants(prof, State)) \cap prof.ceiling

\* dict.fromkeys
Distinct(q) == Subsequence(q, {i \in DOMAIN q : \A j \in 1 .. i - 1 : q[j] # q[i]})

\* save_skill_state: names once, approvals of active names only.
Payload ==
  [active |-> Distinct(active),
   approved |-> [s \in Skills |->
                   IF Contains(active, s) THEN approved[s] ELSE {}]]

\* Mutant: a saved name is consent enough.
RestoredByName(p, x) ==
  LET names == Subsequence(x.active, {i \in DOMAIN x.active : Offerable(p, x.active[i])})
      kept == IF p.concurrent \/ names = << >> THEN names ELSE <<Last(names)>>
  IN  [active |-> kept,
       approved |-> [s \in Skills |->
                       IF Contains(kept, s) THEN Risky(p, s) ELSE {}]]

\* Saved consent still covers what the skill would be granted now.
Covered(p, x, s) ==
  Offerable(p, s) /\ Risky(p, s) \subseteq (x.approved[s] \cap p.risky)

StillCovered(p, x) ==
  Subsequence(x.active, {i \in DOMAIN x.active : Covered(p, x, x.active[i])})

\* Mutant: several skills stay active in a profile that allows one.
RestoredAll(p, x) ==
  LET kept == StillCovered(p, x)
  IN  [active |-> kept,
       approved |-> [s \in Skills |->
           IF Contains(kept, s) THEN x.approved[s] \cap p.risky ELSE {}]]

\* from_profile: saved skills come back when their consent still covers them.
Restored(p, x) ==
  LET names == StillCovered(p, x)
      kept == IF p.concurrent \/ names = << >> THEN names ELSE <<Last(names)>>
  IN  [active |-> kept,
       approved |-> [s \in Skills |->
           IF Contains(kept, s) THEN x.approved[s] \cap p.risky ELSE {}]]

-----------------------------------------------------------------------------
(* The turn around the batch *)

Call == [op : {"use"}, arg : Tools] \cup [op : {"on", "off"}, arg : Skills]

Nothing == [active |-> << >>, approved |-> [s \in Skills |-> {}]]

Init ==
  /\ prof \in Profiles
  /\ phase = "idle"
  /\ calls = << >> /\ st = << >> /\ cancelled = {}
  /\ authorized = {} /\ used = {}
  /\ active = << >> /\ approved = [s \in Skills |-> {}]
  /\ before = Nothing /\ ckpt = Nothing
  /\ saved = Nothing /\ base = Nothing
  /\ accepted = [s \in Skills |-> {}]
  /\ count = [turns |-> 0, batches |-> 0, restarts |-> 0]

StartTurn ==
  /\ phase = "idle" /\ count.turns < MaxTurns
  /\ count' = [count EXCEPT !.turns = @ + 1]
  /\ phase' = "turn"
  /\ ckpt' = State
  /\ base' = saved
  /\ UNCHANGED <<prof, batchVars, skillVars, saved, accepted>>

EndTurn ==
  /\ phase = "turn"
  /\ phase' = "idle"
  /\ UNCHANGED <<prof, batchVars, skillVars, ckpt, durableVars, accepted,
                 count>>

\* _rollback_turn: skills, approvals and the events of the turn.
Rollback ==
  /\ phase' = "idle"
  /\ active' = ckpt.active /\ approved' = ckpt.approved
  /\ saved' = base
  /\ UNCHANGED <<prof, batchVars, ckpt, base, accepted, count>>

\* The turn is stopped or fails between two batches.
VoidTurn == phase = "turn" /\ Rollback

\* The assistant message asks for tools: _dispatch takes its snapshot.
Dispatch ==
  /\ phase = "turn" /\ count.batches < MaxBatches
  /\ count' = [count EXCEPT !.batches = @ + 1]
  /\ phase' = "batch"
  /\ \E n \in 1 .. MaxCalls : calls' \in [1 .. n -> Call]
  /\ st' = [i \in DOMAIN calls' |-> "new"]
  /\ cancelled' = {}
  /\ authorized' = Authorized
  /\ used' = {}
  /\ before' = State
  /\ UNCHANGED <<prof, skillVars, ckpt, durableVars, accepted>>

\* The results are in: a changed skill state is saved at the last row.
EndBatch ==
  /\ phase = "batch" /\ \A i \in DOMAIN st : st[i] = "done"
  /\ phase' = "turn"
  /\ saved' = IF State = before THEN saved ELSE Payload
  /\ UNCHANGED <<prof, batchVars, skillVars, ckpt, base, accepted, count>>

-----------------------------------------------------------------------------
(* One call: run_one *)

Parallel == prof.parallel /\ Len(calls) > 1

\* The task of call i can take a step.
Runnable(i, where) ==
  /\ st[i] = where /\ i \notin cancelled
  /\ Parallel \/ \A j \in 1 .. i - 1 : st[j] = "done"

Reach(i, where) ==
  /\ st' = [st EXCEPT ![i] = where]
  /\ UNCHANGED <<prof, phase, calls, cancelled, authorized, before, ckpt,
                 durableVars, count>>

\* Mutant: what siblings activated meanwhile counts.
ResolvesNow(c) == c.op = "use" => c.arg \in Authorized

\* _resolve_tool, with the batch's snapshot.
Resolves(c) == c.op = "use" => c.arg \in authorized

\* The call is admitted and its before_tool hooks start, or it is refused.
Begin(i) ==
  /\ Runnable(i, "new")
  /\ Reach(i, IF Resolves(calls[i]) THEN "hook" ELSE "done")
  /\ UNCHANGED <<used, skillVars, accepted>>

\* The budget is exhausted (BudgetExceeded): it leaves run_one.
RaiseOut(i) ==
  /\ Runnable(i, "new")
  /\ Reach(i, "gone")
  /\ UNCHANGED <<used, skillVars, accepted>>

\* A hook denies the call, or the user it asked does.
Deny(i) ==
  /\ Runnable(i, "hook")
  /\ Reach(i, "done")
  /\ UNCHANGED <<used, skillVars, accepted>>

UseTool(i) ==
  /\ Runnable(i, "hook") /\ calls[i].op = "use"
  /\ used' = used \cup {calls[i].arg}
  /\ Reach(i, "done")
  /\ UNCHANGED <<skillVars, accepted>>

\* activate_skill(active = False): list.remove takes one occurrence.
Deactivate(i) ==
  /\ Runnable(i, "hook") /\ calls[i].op = "off"
  /\ IF Contains(active, calls[i].arg)
     THEN /\ active' = RemoveFirst(active, calls[i].arg)
          /\ approved' = [approved EXCEPT ![calls[i].arg] = {}]
     ELSE UNCHANGED skillVars
  /\ Reach(i, "done")
  /\ UNCHANGED <<used, accepted>>

\* The tail of activate_skill: no check is repeated.
Engage(s) ==
  IF prof.concurrent
  THEN /\ active' = Append(active, s)
       /\ approved' = [approved EXCEPT ![s] = Risky(prof, s)]
  ELSE /\ active' = <<s>>
       /\ approved' = [n \in Skills |->
                         IF n = s THEN Risky(prof, s) ELSE {}]

\* activate_skill up to its confirmation: a skill that is unknown, active
\* already, or risky without anybody to ask, changes nothing.
Activate(i) ==
  LET s == calls[i].arg
      nothing == \/ ~Offerable(prof, s) \/ Contains(active, s)
                 \/ Risky(prof, s) # {} /\ ~prof.confirms
      asks == ~nothing /\ Risky(prof, s) # {}
  IN  /\ Runnable(i, "hook") /\ calls[i].op = "on"
      /\ IF nothing \/ asks THEN UNCHANGED skillVars ELSE Engage(s)
      /\ Reach(i, IF asks THEN "ask" ELSE "done")
      /\ UNCHANGED <<used, accepted>>

\* The user answers.
Accept(i) ==
  LET s == calls[i].arg
  IN  /\ Runnable(i, "ask")
      /\ accepted' = [accepted EXCEPT ![s] = @ \cup Risky(prof, s)]
      /\ Engage(s)
      /\ Reach(i, "done")
      /\ UNCHANGED used

Decline(i) ==
  /\ Runnable(i, "ask")
  /\ Reach(i, "done")
  /\ UNCHANGED <<used, skillVars, accepted>>

-----------------------------------------------------------------------------
(* Stop, failure and restart *)

Finished(i) == st[i] \in {"done", "gone"}

\* The turn is stopped: gather hands the cancellation to every task; without
\* tasks the running call gets it.
StopBatch ==
  /\ phase = "batch"
  /\ \E i \in DOMAIN st : ~Finished(i)
  /\ phase' = "unwinding"
  /\ cancelled' = {i \in DOMAIN st :
                     /\ ~Finished(i)
                     /\ Parallel \/ \A j \in 1 .. i - 1 : st[j] = "done"}
  /\ UNCHANGED <<prof, calls, st, authorized, used, before, skillVars, ckpt,
                 durableVars, accepted, count>>

\* A call raised through: _dispatch cancels its siblings.
Reap ==
  /\ phase = "batch" /\ \E i \in DOMAIN st : st[i] = "gone"
  /\ phase' = "unwinding"
  /\ cancelled' = IF Parallel THEN {i \in DOMAIN st : ~Finished(i)} ELSE {}
  /\ UNCHANGED <<prof, calls, st, authorized, used, before, skillVars, ckpt,
                 durableVars, accepted, count>>

StopCall(i) ==
  /\ i \in cancelled
  /\ cancelled' = cancelled \ {i}
  /\ st' = [st EXCEPT ![i] = "gone"]
  /\ UNCHANGED <<prof, phase, calls, authorized, used, before, skillVars, ckpt,
                 durableVars, accepted, count>>

\* A hook or a confirmation handler catches the cancellation and goes on; a
\* sequential batch then just continues.
Swallow(i) ==
  /\ i \in cancelled /\ st[i] \in {"hook", "ask"}
  /\ cancelled' = cancelled \ {i}
  /\ phase' = IF Parallel THEN phase ELSE "batch"
  /\ UNCHANGED <<prof, calls, st, authorized, used, before, skillVars, ckpt,
                 durableVars, accepted, count>>

\* Mutant: the siblings are cancelled but nobody waits for them.
NotAwaited == \E i \in DOMAIN st : Finished(i)

\* gather(return_exceptions = True) returns when no task is left.
Unwound ==
  IF Parallel THEN \A i \in DOMAIN st : Finished(i)
  ELSE \E i \in DOMAIN st : st[i] = "gone"

VoidBatch == phase = "unwinding" /\ Unwound /\ Rollback

\* The process ends anywhere; the next one may find an edited profile.
Restart ==
  /\ count.restarts < MaxRestarts
  /\ count' = [count EXCEPT !.restarts = @ + 1]
  /\ prof' \in Profiles
  /\ phase' = "idle"
  /\ calls' = << >> /\ st' = << >> /\ cancelled' = {}
  /\ authorized' = {} /\ used' = {}
  /\ active' = Restored(prof', saved).active
  /\ approved' = Restored(prof', saved).approved
  /\ UNCHANGED <<before, ckpt, durableVars, accepted>>

CallStep(i) ==
  \/ Begin(i) \/ RaiseOut(i) \/ Deny(i) \/ UseTool(i) \/ Deactivate(i)
  \/ Activate(i) \/ Accept(i) \/ Decline(i) \/ StopCall(i) \/ Swallow(i)

Next ==
  \/ StartTurn \/ EndTurn \/ VoidTurn \/ Dispatch \/ EndBatch
  \/ \E i \in DOMAIN st : CallStep(i)
  \/ StopBatch \/ Reap \/ VoidBatch \/ Restart

Spec == Init /\ [][Next]_vars

-----------------------------------------------------------------------------
(* Properties *)

\* A high-risk tool is granted by a skill only if the user accepted this tool
\* for this skill, whatever was edited, voided or restored since (README: a
\* restart "re-enables only skills still allowed").
RiskyGrantsConsented ==
  \A t \in Grants(prof, State) \cap prof.risky :
    \E s \in Skills : t \in Effective(prof, s) \cap accepted[s]

\* A tool runs only when it was authorized as the model asked for it: what a
\* sibling call activates first counts for the next request (docs/plugins.md).
UsedWasAuthorized ==
  [][\A t \in used' \ used : t \in (prof.initial \cup Grants(prof, before))]_vars

\* Between turns the skills in force are those a restart would restore: no
\* voided turn leaves an activation behind, in memory or on disk, and no task
\* of a stopped batch acts later.
SkillsAreDurable ==
  phase = "idle" =>
    LET r == Restored(prof, saved)
    IN  /\ Grants(prof, r) \subseteq Grants(prof, State)
        /\ ~prof.concurrent => r = State

\* Without allow_concurrent at most one skill is active, with racing
\* confirmations and after restoring what another profile saved.
OneSkillAtATime == ~prof.concurrent => Len(active) <= 1

Occurrences(q, s) == Cardinality({i \in DOMAIN q : q[i] = s})

\* tests/test_skills.py:111-118 ("activate then deactivate" leaves nothing
\* active): a call that takes an active skill out leaves it inactive.
DeactivatedIsOff ==
  [][\A s \in Skills :
       phase = "batch" /\ phase' = "batch"
       /\ Occurrences(active', s) < Occurrences(active, s)
         => ~Contains(active', s)]_vars

\* Skills and the tools they grant follow what was decided: a call uses what was
\* offered with its request, skills outlive a turn only if it was kept, and
\* racing activations do not add up (Agent._dispatch, tools/builtin/skill.py).
SkillsAreSound == []SkillsAreDurable /\ []OneSkillAtATime /\ UsedWasAuthorized

=============================================================================
