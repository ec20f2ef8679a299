------------------------------ MODULE Telegram ------------------------------
(***************************************************************************)
(* The Telegram bridge (integrations/telegram): updates are handled one at *)
(* a time; each user has at most one turn task, beside them; a turn asks   *)
(* for approval of risky tools through prompts with buttons, which a click *)
(* answers, a timeout, a Stop or the shutdown denies.  Telegram shows a    *)
(* message before, after or without the sender hearing of it.              *)
(*                                                                         *)
(* The agent is reduced to its protocol (see AgentTurn): a lease, a        *)
(* cancellation request, and whether a stopped turn counts as committed.   *)
(*                                                                         *)
(* kept and report of a turn, clicked, missed and ran of a prompt, and     *)
(* struck are read by no guard: they record what happened.                 *)
(***************************************************************************)
EXTENDS Naturals, FiniteSets

CONSTANTS
  Users,
  Strangers,   \* others whose clicks arrive
  Sessions,
  MaxTurns,    \* bound: turns accepted
  MaxPrompts,  \* bound: prompts sent
  Missable     \* bound: prompts an edit of which may fail

ASSUME TelegramAssumption ==
  /\ MaxTurns \in Nat /\ MaxPrompts \in Nat
  /\ Missable \subseteq 1 .. MaxPrompts
  /\ Users # {} /\ Sessions # {}

Turns == 1 .. MaxTurns
Prompts == 1 .. MaxPrompts

VARIABLES
  turn,      \* turn -> its task, cancelled or not, its outcome and its report
  userTask,  \* user -> the turn in _user_tasks, or 0
  session,   \* user -> the session of runtime.agent
  lease,     \* user -> the turn holding the agent's checkpoint, or 0
  asked,     \* users whose agent has a cancellation request
  renderer,  \* user -> the turn whose renderer the runtime names, or 0
  final,     \* users with final_delivery
  prompt,    \* prompt -> its request, future and timer, and its message
  upd,       \* the update being handled
  phase,     \* "open", "closing" or "closed"
  struck     \* turns whose messages a cancellation notice replaced

agentVars == <<lease, asked>>
runtime == <<userTask, session, renderer, final>>
vars == <<turn, prompt, upd, phase, struck, agentVars, runtime>>

Places == {"unborn", "created", "download", "refuse", "agent", "render",
           "turn_end", "notice", "final", "done", "reaped"}
Outcomes == {"none", "open", "answer", "void"}
Reports == {"none", "answer", "error", "cancelled"}
Steps == {"unsent", "sending", "waiting", "closing", "removing", "finished"}
Answers == {"open", "yes", "no", "cancelled"}
Timers == {"off", "sleeping", "removing"}

Requests ==
  [turn : Turns \cup {0}, at : Steps, fut : Answers, timer : Timers,
   listed : BOOLEAN, shown : BOOLEAN, sent : BOOLEAN, buttons : BOOLEAN,
   gone : BOOLEAN, missed : BOOLEAN, broken : BOOLEAN, hit : BOOLEAN,
   clicked : BOOLEAN, ran : BOOLEAN]

NoUpdate == [kind |-> "none", user |-> 0, turn |-> 0, todo |-> {}, edit |-> 0]

Running(t) == turn[t].at \notin {"unborn", "done", "reaped"}
Active(u) == userTask[u] # 0 /\ Running(userTask[u])
Of(t) == {p \in Prompts : prompt[p].turn = t}
Asking(t) == \E p \in Of(t) : prompt[p].at # "finished"
Goes(t, from, to) ==
  /\ turn[t].at = from /\ ~turn[t].told
  /\ turn' = [turn EXCEPT ![t].at = to]
User(p) == turn[prompt[p].turn].user

-----------------------------------------------------------------------------
(* A turn task: _run_turn *)

\* The task starts: an attachment is downloaded first.
Begin(t) ==
  /\ Goes(t, "created", "download")
  /\ UNCHANGED <<prompt, upd, phase, struck, agentVars, runtime>>

Refuse(t) ==
  /\ Goes(t, "download", "refuse")
  /\ UNCHANGED <<prompt, upd, phase, struck, agentVars, runtime>>

Refused(t) ==
  /\ Goes(t, "refuse", "done")
  /\ UNCHANGED <<prompt, upd, phase, struck, agentVars, runtime>>

\* Agent.run takes the lease.
Enter(t) ==
  LET u == turn[t].user
  IN  /\ turn[t].at \in {"created", "download"} /\ ~turn[t].told
      /\ turn' = [turn EXCEPT ![t].at = "agent", ![t].kept = "open"]
      /\ renderer' = [renderer EXCEPT ![u] = t]
      /\ lease' = [lease EXCEPT ![u] = t]
      /\ asked' = asked \ {u}
      /\ UNCHANGED <<prompt, upd, phase, struck, userTask, session, final>>

\* A tool batch asks; its prompts are sent side by side.
Ask(t, P) ==
  /\ turn[t].at = "agent" /\ ~turn[t].told /\ ~Asking(t)
  /\ P # {} /\ \A p \in P : prompt[p].at = "unsent"
  /\ prompt' = [p \in Prompts |->
       IF p \in P
       THEN [prompt[p] EXCEPT !.turn = t, !.at = "sending", !.timer = "sleeping",
                              !.listed = TRUE]
       ELSE prompt[p]]
  /\ UNCHANGED <<turn, upd, phase, struck, agentVars, runtime>>

\* An event is yielded and sent, with a fallback that may fail as well.
Emit(t) ==
  /\ ~Asking(t) /\ Goes(t, "agent", "render")
  /\ UNCHANGED <<prompt, upd, phase, struck, agentVars, runtime>>

Emitted(t) ==
  /\ Goes(t, "render", "agent")
  /\ UNCHANGED <<prompt, upd, phase, struck, agentVars, runtime>>

\* The hooks' turn_end; afterwards their notices are sent.
EndTurn(t) ==
  /\ ~Asking(t) /\ Goes(t, "agent", "turn_end")
  /\ UNCHANGED <<prompt, upd, phase, struck, agentVars, runtime>>

Notices(t) ==
  /\ Goes(t, "turn_end", "notice")
  /\ UNCHANGED <<prompt, upd, phase, struck, agentVars, runtime>>

\* The lease is released before the terminal event reaches the bridge.
Deliver(t, outcome, report) ==
  LET u == turn[t].user
  IN  /\ ~turn[t].told
      /\ turn' = [turn EXCEPT ![t].at = "final", ![t].kept = outcome,
                              ![t].report = report]
      /\ lease' = [lease EXCEPT ![u] = 0]
      /\ final' = final \cup {u}
      /\ UNCHANGED <<prompt, upd, phase, struck, asked, userTask, session, renderer>>

Finish(t) == turn[t].at \in {"turn_end", "notice"} /\ Deliver(t, "answer", "answer")

Fail(t) ==
  /\ turn[t].at = "agent" /\ ~Asking(t)
  /\ Deliver(t, "void", "error")

\* Mutant: the renderer of the last turn stays.
RendererKept(t) == renderer[turn[t].user]

\* The finally of _run_turn.
RendererAfter(t) ==
  LET u == turn[t].user
  IN  IF u \in asked /\ lease[u] = t THEN renderer[u] ELSE 0

FinalAfter(t) == final \ {turn[t].user}

Leave(t) ==
  /\ final' = FinalAfter(t)
  /\ renderer' = [renderer EXCEPT ![turn[t].user] = RendererAfter(t)]
  /\ UNCHANGED <<userTask, session>>

Delivered(t) ==
  /\ Goes(t, "final", "done")
  /\ Leave(t)
  /\ UNCHANGED <<prompt, upd, phase, struck, agentVars>>

\* A task that was cancelled ends at its await, after its prompts did; one that
\* had not begun never runs.  Inside turn_end the outcome counts as committed.
Unwind(t) ==
  /\ turn[t].told /\ Running(t) /\ ~Asking(t)
  /\ turn' = [turn EXCEPT ![t].at = "done",
                          ![t].kept = IF turn[t].at = "turn_end" THEN "answer" ELSE @]
  /\ IF turn[t].at \in {"created", "download", "refuse"}
     THEN UNCHANGED runtime
     ELSE Leave(t)
  /\ UNCHANGED <<prompt, upd, phase, struck, agentVars>>

\* Mutant: whatever task is listed is dropped.
DropListed(t) == 0

\* _task_done forgets the task if it is still the user's.
Listed(t) ==
  LET u == turn[t].user IN IF userTask[u] = t THEN 0 ELSE userTask[u]

Reap(t) ==
  /\ turn[t].at = "done"
  /\ turn' = [turn EXCEPT ![t].at = "reaped"]
  /\ userTask' = [userTask EXCEPT ![turn[t].user] = Listed(t)]
  /\ UNCHANGED <<prompt, upd, phase, struck, agentVars, session, renderer, final>>

-----------------------------------------------------------------------------
(* One prompt: ConfirmationManager.request, _expire, _remove_buttons *)

\* The task's cancellation reaches a request once, at whatever it awaits.
Struck(p) == prompt[p].turn # 0 /\ turn[prompt[p].turn].told /\ ~prompt[p].hit

Shown(p) ==
  /\ prompt[p].at = "sending" /\ ~prompt[p].shown
  /\ prompt' = [prompt EXCEPT ![p].shown = TRUE, ![p].buttons = TRUE]
  /\ UNCHANGED <<turn, upd, phase, struck, agentVars, runtime>>

Sent(p) ==
  /\ prompt[p].at = "sending" /\ prompt[p].shown /\ ~Struck(p)
  /\ prompt' = [prompt EXCEPT ![p].sent = TRUE, ![p].at = "waiting"]
  /\ UNCHANGED <<turn, upd, phase, struck, agentVars, runtime>>

\* The finally of request: the timer is cancelled and awaited.
Closing(p, broken) ==
  [prompt[p] EXCEPT !.at = "closing", !.timer = "off", !.broken = broken]

\* Sending failed, or the future has a result.
Answered(p) ==
  /\ ~Struck(p)
  /\ \/ prompt[p].at = "sending" /\ prompt' = [prompt EXCEPT ![p] = Closing(p, TRUE)]
     \/ /\ prompt[p].at = "waiting" /\ prompt[p].fut # "open"
        /\ prompt' = [prompt EXCEPT ![p] = Closing(p, FALSE)]
  /\ UNCHANGED <<turn, upd, phase, struck, agentVars, runtime>>

\* Buttons are removed at most once, from a message whose id is known.
Removable(p) == prompt[p].sent /\ ~prompt[p].gone

Removal(p, ok) ==
  IF ok THEN [prompt[p] EXCEPT !.gone = TRUE, !.buttons = FALSE]
        ELSE [prompt[p] EXCEPT !.missed = TRUE]

Works(p) == IF p \in Missable THEN BOOLEAN ELSE {TRUE}

Unlist(p) ==
  /\ prompt[p].at = "closing" /\ ~Struck(p)
  /\ prompt' = [prompt EXCEPT
       ![p].listed = FALSE,
       ![p].fut = IF @ = "open" THEN "cancelled" ELSE @,
       ![p].at = IF Removable(p) THEN "removing" ELSE "finished",
       ![p].ran = ~Removable(p) /\ ~prompt[p].broken /\ prompt[p].fut = "yes"]
  /\ UNCHANGED <<turn, upd, phase, struck, agentVars, runtime>>

\* request returns; an approved tool starts.
Return(p) ==
  /\ prompt[p].at = "removing" /\ ~Struck(p)
  /\ \E ok \in Works(p) :
       prompt' = [prompt EXCEPT ![p] =
         [Removal(p, ok) EXCEPT !.at = "finished",
            !.ran = ~prompt[p].broken /\ prompt[p].fut = "yes"]]
  /\ UNCHANGED <<turn, upd, phase, struck, agentVars, runtime>>

\* Mutant: the cancellation of an edit is taken for its failure.
Swallowed(p) == prompt[p].fut = "yes" /\ prompt[p].at = "removing"

\* A cancelled request returns nothing.
RanWhenCancelled(p) == FALSE

\* CancelledError: from the finally itself nothing more is done, so an entry
\* may stay listed.
CancelRequest(p) ==
  /\ Struck(p)
  /\ prompt[p].at \in {"sending", "waiting", "closing", "removing"}
  /\ prompt' = [prompt EXCEPT ![p] =
       IF prompt[p].at \in {"sending", "waiting"}
       THEN [Closing(p, TRUE) EXCEPT !.hit = TRUE]
       ELSE [prompt[p] EXCEPT !.hit = TRUE, !.at = "finished",
                              !.missed = @ \/ prompt[p].at = "removing",
                              !.ran = RanWhenCancelled(p)]]
  /\ UNCHANGED <<turn, upd, phase, struck, agentVars, runtime>>

\* Mutant: no timeout.
NeverDue(p) == FALSE

Due(p) == prompt[p].timer = "sleeping" /\ prompt[p].fut = "open"

Expire(p) ==
  /\ Due(p)
  /\ prompt' = [prompt EXCEPT ![p].fut = "no",
                              ![p].timer = IF Removable(p) THEN "removing" ELSE "off"]
  /\ UNCHANGED <<turn, upd, phase, struck, agentVars, runtime>>

ExpiryEdit(p) ==
  /\ prompt[p].timer = "removing"
  /\ \E ok \in Works(p) :
       prompt' = [prompt EXCEPT ![p] = [Removal(p, ok) EXCEPT !.timer = "off"]]
  /\ UNCHANGED <<turn, upd, phase, struck, agentVars, runtime>>

-----------------------------------------------------------------------------
(* Updates, one at a time *)

Idle == upd = NoUpdate /\ phase = "open"

\* No second turn beside a running one.
Room(u) == ~Active(u)

\* Otherwise the user is told that a turn is running.
Message(u) ==
  /\ Idle /\ Room(u)
  /\ \E t \in Turns :
       /\ turn[t].at = "unborn" /\ \A s \in 1 .. t - 1 : turn[s].at # "unborn"
       /\ turn' = [turn EXCEPT ![t].at = "created", ![t].user = u,
                               ![t].session = session[u]]
       /\ userTask' = [userTask EXCEPT ![u] = t]
  /\ UNCHANGED <<prompt, upd, phase, struck, agentVars, session, renderer, final>>

\* /new and /resume: a new agent, unless a turn is running.
SwitchSession(u, s) ==
  /\ Idle /\ ~Active(u) /\ s # session[u]
  /\ session' = [session EXCEPT ![u] = s]
  /\ lease' = [lease EXCEPT ![u] = 0] /\ asked' = asked \ {u}
  /\ UNCHANGED <<turn, prompt, upd, phase, struck, userTask, renderer, final>>

\* Mutant: any user's click counts.
AnyonesClick(p, u) == prompt[p].listed /\ prompt[p].fut = "open"

Answerable(p, u) == prompt[p].listed /\ prompt[p].fut = "open" /\ u = User(p)

\* A click on a prompt that is gone, or another user's, is answered and does
\* nothing else.
Click(p, u, answer) ==
  /\ Idle /\ prompt[p].shown /\ Answerable(p, u)
  /\ prompt' = [prompt EXCEPT ![p].fut = answer,
                              ![p].clicked = @ \/ (answer = "yes" /\ u = User(p))]
  /\ upd' = IF Removable(p) THEN [NoUpdate EXCEPT !.kind = "click", !.edit = p] ELSE upd
  /\ UNCHANGED <<turn, phase, struck, agentVars, runtime>>

\* Mutant: prompts are left to their timers.
NotDenied(u) == {}

OfUser(u) == {p \in Prompts : prompt[p].listed /\ User(p) = u}

\* task.cancel() cancels the future a request waits for.
Withdraw(T) ==
  prompt' = [p \in Prompts |->
    IF prompt[p].turn \in T /\ prompt[p].at = "waiting" /\ prompt[p].fut = "open"
    THEN [prompt[p] EXCEPT !.fut = "cancelled"] ELSE prompt[p]]

Cancel(T) ==
  /\ turn' = [t \in Turns |-> [turn[t] EXCEPT !.told = @ \/ t \in T]]
  /\ asked' = asked \cup {u \in Users : lease[u] \in T}
  /\ Withdraw(T)

\* Mutant: the final answer is no obstacle.
StopsAlways(u) == Active(u)

\* Mutant: only the agent is asked, which knows of no turn before its lease.
StopsAgentOnly(u) == Active(u) /\ u \notin final /\ lease[u] # 0

\* A turn whose terminal event is being delivered is left to finish.
Stops(u) == Active(u) /\ u \notin final

Stop(u) ==
  /\ Idle
  /\ IF Stops(u)
     THEN /\ Cancel({userTask[u]})
          /\ upd' = [kind |-> "stop", user |-> u, turn |-> userTask[u],
                     todo |-> OfUser(u), edit |-> 0]
     ELSE /\ upd' = [kind |-> "wait", user |-> u, turn |-> userTask[u],
                     todo |-> OfUser(u), edit |-> 0]
          /\ UNCHANGED <<turn, asked, prompt>>
  /\ UNCHANGED <<phase, struck, lease, runtime>>

\* _deny: one prompt after the other, each edit awaited.
Deny(p) ==
  /\ p \in upd.todo /\ upd.edit = 0
  /\ prompt' = [prompt EXCEPT ![p].fut = IF @ = "open" THEN "no" ELSE @]
  /\ upd' = [upd EXCEPT !.todo = @ \ {p}, !.edit = IF Removable(p) THEN p ELSE 0]
  /\ UNCHANGED <<turn, phase, struck, agentVars, runtime>>

HandlerEdit ==
  /\ upd.edit # 0
  /\ \E ok \in Works(upd.edit) :
       prompt' = [prompt EXCEPT ![upd.edit] = Removal(upd.edit, ok)]
  /\ upd' = IF upd.kind = "click" THEN NoUpdate ELSE [upd EXCEPT !.edit = 0]
  /\ UNCHANGED <<turn, phase, struck, agentVars, runtime>>

Denied == upd.todo = {} /\ upd.edit = 0

\* The delivery of the terminal event is awaited.
Waited ==
  /\ upd.kind = "wait" /\ Denied
  /\ upd.turn # 0 => ~Running(upd.turn)
  /\ upd' = NoUpdate
  /\ UNCHANGED <<turn, prompt, phase, struck, agentVars, runtime>>

\* finalize_cancelled_turn: a committed turn keeps its answer; the repair of
\* any other may fail, which is reported.
Finalized(t, report) ==
  IF lease[turn[t].user] # t THEN report = "cancelled"
  ELSE IF turn[t].kept = "answer" THEN report = "answer"
  ELSE report \in {"cancelled", "error"}

\* The notice replaces the messages of the renderer the runtime names.
Stopped(t, report) ==
  LET u == turn[t].user
  IN  /\ Finalized(t, report)
      /\ turn' = [turn EXCEPT
           ![t].report = report,
           ![t].kept = IF lease[u] = t /\ @ = "open" THEN "void" ELSE @]
      /\ lease' = [lease EXCEPT ![u] = 0] /\ asked' = asked \ {u}
      /\ struck' = struck \cup
           (IF report = "answer" THEN {} ELSE {renderer[u]} \ {0})
      /\ renderer' = [renderer EXCEPT ![u] = 0]
      /\ UNCHANGED <<prompt, phase, userTask, session, final>>

StopEnds ==
  /\ upd.kind = "stop" /\ Denied /\ ~Running(upd.turn)
  /\ \E report \in Reports : Stopped(upd.turn, report)
  /\ upd' = NoUpdate

-----------------------------------------------------------------------------
(* Shutdown *)

Shutdown ==
  /\ Idle
  /\ phase' = "closing"
  /\ Cancel({t \in Turns : Running(t)})
  /\ UNCHANGED <<upd, struck, lease, runtime>>

AllStopped == phase = "closing" /\ \A t \in Turns : ~Running(t)

FinalizeOne(u) ==
  /\ AllStopped /\ upd = NoUpdate /\ lease[u] # 0
  /\ \E report \in Reports : Stopped(lease[u], report)
  /\ UNCHANGED upd

\* deny_all
DenyAll ==
  /\ AllStopped /\ upd = NoUpdate /\ \A u \in Users : lease[u] = 0
  /\ upd' = [NoUpdate EXCEPT !.kind = "deny",
                             !.todo = {p \in Prompts : prompt[p].listed}]
  /\ UNCHANGED <<turn, prompt, phase, struck, agentVars, runtime>>

Close ==
  /\ upd.kind = "deny" /\ Denied
  /\ phase' = "closed" /\ upd' = NoUpdate
  /\ UNCHANGED <<turn, prompt, struck, agentVars, runtime>>

-----------------------------------------------------------------------------

Init ==
  /\ turn = [t \in Turns |-> [at |-> "unborn", user |-> 0, session |-> 0,
                              told |-> FALSE, kept |-> "none", report |-> "none"]]
  /\ prompt = [p \in Prompts |->
       [turn |-> 0, at |-> "unsent", fut |-> "open", timer |-> "off",
        listed |-> FALSE, shown |-> FALSE, sent |-> FALSE, buttons |-> FALSE,
        gone |-> FALSE, missed |-> FALSE, broken |-> FALSE, hit |-> FALSE,
        clicked |-> FALSE, ran |-> FALSE]]
  /\ userTask = [u \in Users |-> 0] /\ lease = [u \in Users |-> 0]
  /\ renderer = [u \in Users |-> 0]
  /\ session \in [Users -> Sessions]
  /\ final = {} /\ asked = {} /\ struck = {}
  /\ upd = NoUpdate /\ phase = "open"

TurnStep(t) ==
  \/ Begin(t) \/ Refuse(t) \/ Refused(t) \/ Enter(t) \/ Emit(t) \/ Emitted(t)
  \/ EndTurn(t) \/ Notices(t) \/ Finish(t) \/ Fail(t) \/ Delivered(t)
  \/ Unwind(t) \/ Reap(t)
  \/ \E P \in SUBSET Prompts : Ask(t, P)

PromptStep(p) ==
  \/ Shown(p) \/ Sent(p) \/ Answered(p) \/ Unlist(p) \/ Return(p)
  \/ CancelRequest(p) \/ Expire(p) \/ ExpiryEdit(p)

UserStep ==
  \/ \E u \in Users :
       \/ Message(u) \/ Stop(u)
       \/ \E s \in Sessions : SwitchSession(u, s)
  \/ \E u \in Users \cup Strangers, p \in Prompts, answer \in {"yes", "no"} :
       Click(p, u, answer)
  \/ Shutdown

HandlerStep ==
  \/ \E p \in Prompts : Deny(p)
  \/ HandlerEdit \/ Waited \/ StopEnds
  \/ \E u \in Users : FinalizeOne(u)
  \/ DenyAll \/ Close

Next ==
  \/ \E t \in Turns : TurnStep(t)
  \/ \E p \in Prompts : PromptStep(p)
  \/ UserStep \/ HandlerStep

Spec == Init /\ [][Next]_vars

\* Requests to Telegram end, cancelled tasks unwind, timers ring.  Nothing is
\* assumed about the model, the tools and the user.
Fairness ==
  /\ \A t \in Turns : WF_vars(Emitted(t) \/ Delivered(t) \/ Unwind(t))
  /\ \A p \in Prompts :
       /\ WF_vars(Shown(p) \/ Sent(p) \/ Answered(p) \/ Unlist(p) \/ Return(p)
                    \/ CancelRequest(p))
       /\ WF_vars(Expire(p) \/ ExpiryEdit(p))
  /\ WF_vars(HandlerStep)

FairSpec == Spec /\ Fairness

-----------------------------------------------------------------------------
(* Properties *)

\* A running turn is the one /stop finds, in the agent /stop talks to, and an
\* agent is free when its next turn begins; /stop waits for an answer only when
\* one is being delivered.
StopFindsTheTurn ==
  \A t \in Turns :
    LET u == turn[t].user
    IN  Running(t) => /\ userTask[u] = t /\ session[u] = turn[t].session
                      /\ lease[u] \in {0, t}
                      /\ u \in final <=> turn[t].at = "final"

\* What the user was told of a turn that is over is what the transcript has: an
\* answer was delivered exactly if it was kept, no turn is left open, and no
\* cancellation notice replaces the messages of an answer that stands.
ChatAgreesWithTranscript ==
  /\ \A t \in Turns :
       /\ turn[t].at \in {"done", "reaped"} /\ lease[turn[t].user] # t
       /\ upd.turn # t
       => /\ turn[t].kept # "open"
          /\ turn[t].kept = "answer" <=> turn[t].report = "answer"
  /\ \A t \in struck : turn[t].kept # "answer"

\* A risky tool runs only if the user it works for pressed Approve, and only by
\* the first answer: no timeout, denial or second click replaces it.
RunOnlyIfClicked ==
  \A p \in Prompts :
    /\ prompt[p].ran => prompt[p].clicked
    /\ prompt[p].clicked => prompt[p].fut = "yes"

\* Once a turn is stopped no approval starts a tool, not even one given before.
StopHolds ==
  [][\A p \in Prompts :
       prompt'[p].ran /\ ~prompt[p].ran => ~turn[prompt[p].turn].told]_vars

\* When a turn is over and its Stop was handled, none of its prompts can be
\* answered, and no button is left that nobody tried to remove.
PromptsAreClosed ==
  upd = NoUpdate /\ phase # "closing" =>
    \A p \in Prompts :
      prompt[p].turn # 0 /\ ~Running(prompt[p].turn) =>
        /\ prompt[p].fut # "open"
        /\ prompt[p].buttons => ~prompt[p].sent \/ prompt[p].missed

\* A Stop is answered, also while prompts are open or the answer is on its way.
StopIsAnswered == upd.kind \in {"stop", "wait"} ~> upd = NoUpdate

\* A prompt nobody answers ends, and so does a shutdown.
PromptsEnd ==
  /\ \A p \in Prompts : prompt[p].at = "sending" ~> prompt[p].at = "finished"
  /\ phase = "closing" ~> phase = "closed"

\* A Stop reaches the turn that runs, closes what it asked, and no approval
\* outlives it (_stop, deny_user, request).
StopIsComplete == []StopFindsTheTurn /\ []PromptsAreClosed /\ StopHolds

\* Neither a Stop, nor a prompt, nor a shutdown waits for ever.
NothingHangs == StopIsAnswered /\ PromptsEnd

=============================================================================
