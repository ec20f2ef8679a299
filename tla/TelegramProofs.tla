--------------------------- MODULE TelegramProofs ---------------------------
(***************************************************************************)
(* The bridge for any number of users, turns and prompts: who approves,    *)
(* what a Stop reaches and leaves, and that the chat tells what the        *)
(* transcript has.                                                         *)
(***************************************************************************)
EXTENDS Telegram, TLAPS

\* A future is approved by its owner's click and by nothing else, and only an
\* approved request starts a tool.
Approvals ==
  /\ prompt \in [Prompts -> Requests]
  /\ \A p \in Prompts : /\ prompt[p].clicked <=> prompt[p].fut = "yes"
                        /\ prompt[p].ran => prompt[p].fut = "yes"

\* What one request may become: its approval stands, or is given by a click;
\* a tool starts with it.
Sound(q) ==
  /\ q \in Requests
  /\ q.clicked <=> q.fut = "yes"
  /\ q.ran => q.fut = "yes"

-----------------------------------------------------------------------------

LEMMA ApprovalsInit == Init => Approvals
BY DEF Init, Approvals, Requests, Steps, Answers, Timers

\* One request changes, and soundly.
LEMMA ApprovalsOne ==
  ASSUME Approvals, NEW p \in Prompts, NEW q,
         prompt' = [prompt EXCEPT ![p] = q], Sound(q)
  PROVE  Approvals'
BY DEF Approvals, Sound

\* No request changes.
LEMMA ApprovalsNone ==
  ASSUME Approvals, UNCHANGED prompt
  PROVE  Approvals'
BY DEF Approvals

\* A request as it stands is sound.
LEMMA SoundNow ==
  ASSUME Approvals, NEW p \in Prompts
  PROVE  Sound(prompt[p])
BY DEF Approvals, Sound

\* So is one of which neither the answer nor its use changes.
LEMMA SoundKept ==
  ASSUME NEW r, Sound(r), NEW q \in Requests,
         q.clicked = r.clicked, q.fut = r.fut, q.ran = r.ran
  PROVE  Sound(q)
BY Zenon DEF Sound

\* An edit of the buttons decides nothing.
LEMMA RemovalSound ==
  ASSUME Approvals, NEW p \in Prompts, NEW ok \in BOOLEAN
  PROVE  /\ Sound(Removal(p, ok))
         /\ Removal(p, ok).fut = prompt[p].fut
<1>1. prompt[p] \in Requests /\ Sound(prompt[p])
  BY SoundNow DEF Sound
<1>2. Removal(p, ok) \in Requests
  BY <1>1 DEF Removal, Requests
<1>3. /\ Removal(p, ok).clicked = prompt[p].clicked
      /\ Removal(p, ok).fut = prompt[p].fut
      /\ Removal(p, ok).ran = prompt[p].ran
  BY <1>1 DEF Removal, Requests
<1> QED
  BY <1>1, <1>2, <1>3, SoundKept

\* Nor does the end of the wait.
LEMMA ClosingSound ==
  ASSUME Approvals, NEW p \in Prompts, NEW broken \in BOOLEAN
  PROVE  Sound(Closing(p, broken))
<1>1. prompt[p] \in Requests /\ Sound(prompt[p])
  BY SoundNow DEF Sound
<1>2. Closing(p, broken) \in Requests
  BY <1>1 DEF Closing, Requests, Steps, Timers
<1>3. /\ Closing(p, broken).clicked = prompt[p].clicked
      /\ Closing(p, broken).fut = prompt[p].fut
      /\ Closing(p, broken).ran = prompt[p].ran
  BY <1>1 DEF Closing, Requests
<1> QED
  BY <1>1, <1>2, <1>3, SoundKept

LEMMA WorksBoolean ==
  ASSUME NEW p
  PROVE  Works(p) \subseteq BOOLEAN
BY DEF Works

-----------------------------------------------------------------------------

LEMMA PromptSteps ==
  ASSUME Approvals, NEW p \in Prompts, PromptStep(p)
  PROVE  Approvals'
<1> DEFINE r == prompt[p]
<1>0. r \in Requests /\ Sound(r)
  BY SoundNow DEF Sound
<1>1. CASE Shown(p)
  <2> DEFINE q == [r EXCEPT !.shown = TRUE, !.buttons = TRUE]
  <2>1. prompt' = [prompt EXCEPT ![p] = q]
    BY <1>1, <1>0 DEF Shown, Requests
  <2>2. q \in Requests /\ q.clicked = r.clicked /\ q.fut = r.fut /\ q.ran = r.ran
    BY <1>0 DEF Requests
  <2>3. Sound(q)
    BY <1>0, <2>2, SoundKept
  <2> QED
    BY <2>1, <2>3, ApprovalsOne
<1>2. CASE Sent(p)
  <2> DEFINE q == [r EXCEPT !.sent = TRUE, !.at = "waiting"]
  <2>1. prompt' = [prompt EXCEPT ![p] = q]
    BY <1>2, <1>0 DEF Sent, Requests
  <2>2. q \in Requests /\ q.clicked = r.clicked /\ q.fut = r.fut /\ q.ran = r.ran
    BY <1>0 DEF Requests, Steps
  <2>3. Sound(q)
    BY <1>0, <2>2, SoundKept
  <2> QED
    BY <2>1, <2>3, ApprovalsOne
<1>3. CASE Answered(p)
  <2>1. \E broken \in BOOLEAN : prompt' = [prompt EXCEPT ![p] = Closing(p, broken)]
    BY <1>3 DEF Answered
  <2> QED
    BY <2>1, ClosingSound, ApprovalsOne
<1>4. CASE Unlist(p)
  <2> DEFINE q == [r EXCEPT
                     !.listed = FALSE,
                     !.fut = IF r.fut = "open" THEN "cancelled" ELSE r.fut,
                     !.at = IF Removable(p) THEN "removing" ELSE "finished",
                     !.ran = ~Removable(p) /\ ~r.broken /\ r.fut = "yes"]
  <2>1. prompt' = [prompt EXCEPT ![p] = q]
    BY <1>4, <1>0 DEF Unlist, Requests
  <2>2. q \in Requests
    <3> DEFINE f == IF r.fut = "open" THEN "cancelled" ELSE r.fut
               a == IF Removable(p) THEN "removing" ELSE "finished"
               n == ~Removable(p) /\ ~r.broken /\ r.fut = "yes"
    <3>1. f \in Answers /\ a \in Steps
      BY <1>0 DEF Requests, Steps, Answers
    <3>2. n \in BOOLEAN
      OBVIOUS
    <3> HIDE DEF f, a, n
    <3>3. [r EXCEPT !.listed = FALSE, !.fut = f, !.at = a, !.ran = n] \in Requests
      BY <1>0, <3>1, <3>2 DEF Requests
    <3> QED
      BY <3>3 DEF f, a, n
  <2>3. /\ q.clicked = r.clicked
        /\ q.fut = IF r.fut = "open" THEN "cancelled" ELSE r.fut
        /\ q.ran = (~Removable(p) /\ ~r.broken /\ r.fut = "yes")
    BY <1>0 DEF Requests
  <2>4. (q.fut = "yes") = (r.fut = "yes")
    BY <2>3
  <2>5. Sound(q)
    BY <1>0, <2>2, <2>3, <2>4, Zenon DEF Sound
  <2> QED
    BY <2>1, <2>5, ApprovalsOne
<1>5. CASE Return(p)
  <2>1. PICK ok \in Works(p) :
          prompt' = [prompt EXCEPT ![p] =
            [Removal(p, ok) EXCEPT !.at = "finished",
               !.ran = ~r.broken /\ r.fut = "yes"]]
    BY <1>5 DEF Return
  <2> DEFINE m == Removal(p, ok)
             q == [m EXCEPT !.at = "finished", !.ran = ~r.broken /\ r.fut = "yes"]
  <2>2. Sound(m) /\ m \in Requests /\ m.fut = r.fut
    BY WorksBoolean, RemovalSound DEF Sound
  <2> HIDE DEF m
  <2>3. /\ q \in Requests /\ q.clicked = m.clicked /\ q.fut = m.fut
        /\ q.ran = (~r.broken /\ r.fut = "yes")
    BY <2>2 DEF Requests, Steps
  <2>4. Sound(q)
    BY <2>2, <2>3, Zenon DEF Sound
  <2> QED
    BY <2>1, <2>4, ApprovalsOne DEF m
<1>6. CASE CancelRequest(p)
  <2> DEFINE c == Closing(p, TRUE)
             a == [c EXCEPT !.hit = TRUE]
             b == [r EXCEPT !.hit = TRUE, !.at = "finished",
                            !.missed = r.missed \/ r.at = "removing",
                            !.ran = FALSE]
  <2>1. \/ prompt' = [prompt EXCEPT ![p] = a]
        \/ prompt' = [prompt EXCEPT ![p] = b]
    BY <1>6 DEF CancelRequest, RanWhenCancelled
  <2>2. Sound(c) /\ c \in Requests
    BY ClosingSound DEF Sound
  <2>3. Sound(a)
    <3> HIDE DEF c
    <3>1. a \in Requests /\ a.clicked = c.clicked /\ a.fut = c.fut /\ a.ran = c.ran
      BY <2>2 DEF Requests
    <3> QED
      BY <2>2, <3>1, SoundKept
  <2>4. Sound(b)
    <3>1. b \in Requests /\ b.clicked = r.clicked /\ b.fut = r.fut /\ b.ran = FALSE
      BY <1>0 DEF Requests, Steps
    <3> QED
      BY <1>0, <3>1, Zenon DEF Sound
  <2> QED
    BY <2>1, <2>3, <2>4, ApprovalsOne
<1>7. CASE Expire(p)
  <2> DEFINE q == [r EXCEPT !.fut = "no",
                     !.timer = IF Removable(p) THEN "removing" ELSE "off"]
  <2>1. prompt' = [prompt EXCEPT ![p] = q] /\ r.fut = "open"
    BY <1>7, <1>0 DEF Expire, Due, Requests
  <2>2. q \in Requests /\ q.clicked = r.clicked /\ q.fut = "no" /\ q.ran = r.ran
    BY <1>0 DEF Requests, Answers, Timers
  <2>3. "no" # "yes" /\ "open" # "yes"
    OBVIOUS
  <2>4. Sound(q)
    BY <1>0, <2>1, <2>2, <2>3, Zenon DEF Sound
  <2> QED
    BY <2>1, <2>4, ApprovalsOne
<1>8. CASE ExpiryEdit(p)
  <2>1. PICK ok \in Works(p) :
          prompt' = [prompt EXCEPT ![p] = [Removal(p, ok) EXCEPT !.timer = "off"]]
    BY <1>8 DEF ExpiryEdit
  <2> DEFINE m == Removal(p, ok)
             q == [m EXCEPT !.timer = "off"]
  <2>2. Sound(m) /\ m \in Requests
    BY WorksBoolean, RemovalSound DEF Sound
  <2> HIDE DEF m
  <2>3. q \in Requests /\ q.clicked = m.clicked /\ q.fut = m.fut /\ q.ran = m.ran
    BY <2>2 DEF Requests, Timers
  <2>4. Sound(q)
    BY <2>2, <2>3, SoundKept
  <2> QED
    BY <2>1, <2>4, ApprovalsOne DEF m
<1> QED
  BY <1>1, <1>2, <1>3, <1>4, <1>5, <1>6, <1>7, <1>8 DEF PromptStep

-----------------------------------------------------------------------------

\* The steps of a turn leave the requests alone, but for those it makes.
LEMMA TurnSteps ==
  ASSUME Approvals, NEW t \in Turns, TurnStep(t)
  PROVE  Approvals'
<1>1. ASSUME NEW P \in SUBSET Prompts, Ask(t, P)
      PROVE  Approvals'
  <2> DEFINE new(p) == [prompt[p] EXCEPT !.turn = t, !.at = "sending",
                          !.timer = "sleeping", !.listed = TRUE]
  <2>1. \A p \in Prompts : Sound(new(p))
    <3> TAKE p \in Prompts
    <3>1. prompt[p] \in Requests /\ Sound(prompt[p])
      BY SoundNow DEF Sound
    <3>2. /\ new(p) \in Requests /\ new(p).clicked = prompt[p].clicked
          /\ new(p).fut = prompt[p].fut /\ new(p).ran = prompt[p].ran
      BY <3>1 DEF Requests, Steps, Timers
    <3> QED
      BY <3>1, <3>2, SoundKept
  <2>2. prompt' = [p \in Prompts |-> IF p \in P THEN new(p) ELSE prompt[p]]
    BY <1>1 DEF Ask
  <2> HIDE DEF new
  <2>3. \A p \in Prompts : Sound(prompt'[p])
    BY <2>1, <2>2, SoundNow
  <2> QED
    BY <2>2, <2>3 DEF Approvals, Sound
<1>2. CASE \/ Begin(t) \/ Refuse(t) \/ Refused(t) \/ Enter(t) \/ Emit(t)
           \/ Emitted(t) \/ EndTurn(t) \/ Notices(t) \/ Finish(t) \/ Fail(t)
           \/ Delivered(t) \/ Unwind(t) \/ Reap(t)
  <2>1. UNCHANGED prompt
    BY <1>2 DEF Begin, Refuse, Refused, Enter, Emit, Emitted, EndTurn, Notices,
                Finish, Fail, Deliver, Delivered, Unwind, Reap
  <2> QED
    BY <2>1, ApprovalsNone
<1> QED
  BY <1>1, <1>2 DEF TurnStep

\* A Stop withdraws open requests: it approves none.
LEMMA WithdrawSound ==
  ASSUME Approvals, NEW T, Withdraw(T)
  PROVE  Approvals'
<1> DEFINE new(p) == [prompt[p] EXCEPT !.fut = "cancelled"]
<1>1. ASSUME NEW p \in Prompts, prompt[p].fut = "open"
      PROVE  Sound(new(p))
  <2>1. prompt[p] \in Requests /\ Sound(prompt[p])
    BY SoundNow DEF Sound
  <2>2. /\ new(p) \in Requests /\ new(p).clicked = prompt[p].clicked
        /\ new(p).fut = "cancelled" /\ new(p).ran = prompt[p].ran
    BY <2>1 DEF Requests, Answers
  <2>3. "open" # "yes" /\ "cancelled" # "yes"
    OBVIOUS
  <2> QED
    BY <1>1, <2>1, <2>2, <2>3, Zenon DEF Sound
<1>2. prompt' = [p \in Prompts |->
        IF prompt[p].turn \in T /\ prompt[p].at = "waiting" /\ prompt[p].fut = "open"
        THEN new(p) ELSE prompt[p]]
  BY DEF Withdraw
<1> HIDE DEF new
<1>3. \A p \in Prompts : Sound(prompt'[p])
  BY <1>1, <1>2, SoundNow
<1> QED
  BY <1>2, <1>3 DEF Approvals, Sound

\* A click is the one step that approves, and only its owner's counts.
LEMMA UserSteps ==
  ASSUME Approvals, UserStep
  PROVE  Approvals'
<1>1. ASSUME NEW u \in Users, Message(u) \/ \E s \in Sessions : SwitchSession(u, s)
      PROVE  Approvals'
  BY <1>1, ApprovalsNone DEF Message, SwitchSession
<1>2. ASSUME NEW u \in Users, Stop(u)
      PROVE  Approvals'
  BY <1>2, ApprovalsNone, WithdrawSound DEF Stop, Cancel
<1>3. CASE Shutdown
  BY <1>3, WithdrawSound DEF Shutdown, Cancel
<1>4. ASSUME NEW u \in Users \cup Strangers, NEW p \in Prompts,
             NEW answer \in {"yes", "no"}, Click(p, u, answer)
      PROVE  Approvals'
  <2> DEFINE r == prompt[p]
             c == r.clicked \/ answer = "yes"
             q == [r EXCEPT !.fut = answer, !.clicked = c]
  <2>0. r \in Requests /\ Sound(r)
    BY SoundNow DEF Sound
  <2>1. prompt' = [prompt EXCEPT ![p] = q] /\ r.fut = "open"
    BY <1>4, <2>0 DEF Click, Answerable, Requests
  <2>2. c \in BOOLEAN
    BY <2>0 DEF Requests
  <2>3. q \in Requests /\ q.clicked = c /\ q.fut = answer /\ q.ran = r.ran
    <3> HIDE DEF c
    <3> QED
      BY <2>0, <2>2 DEF Requests, Answers
  <2>4. "open" # "yes"
    OBVIOUS
  <2>5. Sound(q)
    BY <2>0, <2>1, <2>3, <2>4, Zenon DEF Sound
  <2> QED
    BY <2>1, <2>5, ApprovalsOne
<1> QED
  BY <1>1, <1>2, <1>3, <1>4 DEF UserStep

\* Denials and edits of the handlers approve nothing.
LEMMA HandlerSteps ==
  ASSUME Approvals, HandlerStep
  PROVE  Approvals'
<1>1. ASSUME NEW p \in Prompts, Deny(p)
      PROVE  Approvals'
  <2> DEFINE r == prompt[p]
             f == IF r.fut = "open" THEN "no" ELSE r.fut
             q == [r EXCEPT !.fut = f]
  <2>0. r \in Requests /\ Sound(r)
    BY SoundNow DEF Sound
  <2>1. prompt' = [prompt EXCEPT ![p] = q]
    BY <1>1, <2>0 DEF Deny, Requests
  <2>2. f \in Answers /\ (f = "yes") = (r.fut = "yes")
    BY <2>0 DEF Requests, Answers
  <2>3. q \in Requests /\ q.clicked = r.clicked /\ q.fut = f /\ q.ran = r.ran
    <3> HIDE DEF f
    <3> QED
      BY <2>0, <2>2 DEF Requests
  <2>4. Sound(q)
    BY <2>0, <2>2, <2>3, Zenon DEF Sound
  <2> QED
    BY <2>1, <2>4, ApprovalsOne
<1>2. CASE HandlerEdit
  <2>1. PICK ok \in BOOLEAN :
          prompt' = [prompt EXCEPT ![upd.edit] = Removal(upd.edit, ok)]
    BY <1>2, WorksBoolean DEF HandlerEdit
  <2>2. CASE upd.edit \in Prompts
    BY <2>1, <2>2, RemovalSound, ApprovalsOne
  <2>3. CASE upd.edit \notin Prompts
    <3>1. prompt' = prompt
      BY <2>1, <2>3 DEF Approvals
    <3> QED
      BY <3>1, ApprovalsNone
  <2> QED
    BY <2>2, <2>3
<1>3. CASE Waited \/ StopEnds \/ DenyAll \/ Close \/ \E u \in Users : FinalizeOne(u)
  <2>1. UNCHANGED prompt
    BY <1>3 DEF Waited, StopEnds, DenyAll, Close, FinalizeOne, Stopped
  <2> QED
    BY <2>1, ApprovalsNone
<1> QED
  BY <1>1, <1>2, <1>3 DEF HandlerStep

-----------------------------------------------------------------------------

\* However many users, turns and prompts there are, and however clicks,
\* timeouts, Stops and lost answers of Telegram fall: a risky tool starts only
\* after the user it works for pressed Approve, and nothing replaces an answer.
THEOREM OnlyClicksApprove == Spec => []RunOnlyIfClicked
<1>1. Approvals /\ [Next]_vars => Approvals'
  <2> SUFFICES ASSUME Approvals, [Next]_vars
               PROVE  Approvals'
    OBVIOUS
  <2>1. CASE UNCHANGED vars
    BY <2>1, ApprovalsNone DEF vars
  <2>2. CASE Next
    BY <2>2, TurnSteps, PromptSteps, UserSteps, HandlerSteps DEF Next
  <2> QED
    BY <2>1, <2>2
<1>2. Approvals => RunOnlyIfClicked
  BY DEF Approvals, RunOnlyIfClicked
<1> QED
  BY ApprovalsInit, <1>1, <1>2, PTL DEF Spec

-----------------------------------------------------------------------------
(* Turns *)

Tasks ==
  [at : Places, user : Users \cup {0}, session : Sessions \cup {0},
   told : BOOLEAN, kept : Outcomes, report : Reports]

Updates ==
  [kind : {"none", "click", "stop", "wait", "deny"}, user : Users \cup {0},
   turn : Turns \cup {0}, todo : SUBSET Prompts, edit : Prompts \cup {0}]

TypeInv ==
  /\ turn \in [Turns -> Tasks] /\ upd \in Updates
  /\ phase \in {"open", "closing", "closed"}
  /\ userTask \in [Users -> Turns \cup {0}] /\ session \in [Users -> Sessions]
  /\ lease \in [Users -> Turns \cup {0}] /\ renderer \in [Users -> Turns \cup {0}]
  /\ final \subseteq Users /\ asked \subseteq Users /\ struck \subseteq Turns

InAgent(t) == turn[t].at \in {"agent", "render", "turn_end", "notice"}
Over(t) == turn[t].at \in {"done", "reaped"}
BeingStopped(t) == upd.kind = "stop" /\ upd.turn = t

\* A user has one running turn at most, and it is the listed one.
BornOf(t) == IF turn[t].at = "unborn" THEN ~turn[t].told ELSE turn[t].user \in Users
RunsOf(t) ==
  Running(t) => /\ userTask[turn[t].user] = t
                /\ session[turn[t].user] = turn[t].session
                /\ lease[turn[t].user] \in {0, t}
                /\ turn[t].told => phase # "open" \/ BeingStopped(t)
ListedOf(u) ==
  userTask[u] # 0 => turn[userTask[u]].user = u /\ turn[userTask[u]].at # "unborn"
TaskInv ==
  /\ \A t \in Turns : BornOf(t) /\ RunsOf(t)
  /\ \A u \in Users : ListedOf(u)

FinalOf(u) == u \in final <=> userTask[u] # 0 /\ turn[userTask[u]].at = "final"
FinalInv == \A u \in Users : FinalOf(u)

\* A lease is a turn's in the agent, or a cancelled one's nobody finalized yet.
LeaseOf(u) ==
  lease[u] # 0 =>
    /\ turn[lease[u]].user = u
    /\ \/ InAgent(lease[u])
       \/ /\ Over(lease[u]) /\ turn[lease[u]].told
          /\ phase # "open" \/ BeingStopped(lease[u])
LeaseInv ==
  /\ \A u \in Users : LeaseOf(u)
  /\ \A t \in Turns : InAgent(t) => lease[turn[t].user] = t

Agrees(t) == turn[t].kept # "open" /\ (turn[t].kept = "answer" <=> turn[t].report = "answer")

KeptOf(t) ==
  /\ turn[t].at \in {"unborn", "created", "download", "refuse"} =>
       turn[t].kept = "none" /\ turn[t].report = "none"
  /\ InAgent(t) => turn[t].kept = "open" /\ turn[t].report = "none"
  /\ turn[t].at = "final" => Agrees(t)
  /\ Over(t) =>
       IF lease[turn[t].user] = t THEN turn[t].kept \in {"open", "answer"}
       ELSE BeingStopped(t) \/ Agrees(t)
KeptInv == \A t \in Turns : KeptOf(t)

\* A renderer is named as long as its turn may still be replaced by a notice.
RendererOf(u) ==
  renderer[u] # 0 =>
    /\ turn[renderer[u]].user = u
    /\ \/ InAgent(renderer[u]) \/ turn[renderer[u]].at = "final"
       \/ lease[u] = renderer[u]
RendererInv ==
  /\ \A u \in Users : RendererOf(u)
  /\ \A t \in struck : Over(t) /\ turn[t].kept # "answer"

\* A Stop waits for a turn it has cancelled, before which no other begins.
StopOf(t) ==
  BeingStopped(t) =>
    /\ phase = "open" /\ turn[t].told /\ turn[t].at \notin {"unborn", "final"}
    /\ userTask[turn[t].user] \in {0, t}
    /\ lease[turn[t].user] # t => turn[t].kept = "none" /\ turn[t].report = "none"
StopInv == \A t \in Turns : StopOf(t)

UpdInv ==
  /\ upd.kind = "stop" => upd.turn \in Turns
  /\ phase # "open" => upd.kind \in {"none", "deny"}
  /\ upd.kind = "deny" => phase = "closing"
  /\ upd.kind = "none" => upd = NoUpdate
  /\ (upd.kind = "deny" \/ phase = "closed") => \A t \in Turns : ~Running(t)

TurnInv ==
  /\ TypeInv /\ TaskInv /\ FinalInv /\ LeaseInv /\ KeptInv /\ RendererInv
  /\ StopInv /\ UpdInv

-----------------------------------------------------------------------------
(* What a step makes of one turn *)

Row(t, at, told, kept, report) ==
  /\ t \in Turns /\ turn' \in [Turns -> Tasks]
  /\ \A s \in Turns \ {t} : turn'[s] = turn[s]
  /\ turn'[t].at = at /\ turn'[t].told = told
  /\ turn'[t].kept = kept /\ turn'[t].report = report
  /\ turn'[t].user = turn[t].user /\ turn'[t].session = turn[t].session

LEMMA TurnsArePositive == \A t \in Turns : t # 0 /\ t \in Nat
  BY TelegramAssumption DEF Turns

LEMMA RowAt ==
  ASSUME TypeInv, NEW t \in Turns, NEW at \in Places,
         turn' = [turn EXCEPT ![t].at = at]
  PROVE  Row(t, at, turn[t].told, turn[t].kept, turn[t].report)
<1> DEFINE q == [turn[t] EXCEPT !.at = at]
<1>1. turn[t] \in Tasks
  BY DEF TypeInv
<1>2. /\ q \in Tasks /\ q.at = at /\ q.told = turn[t].told /\ q.kept = turn[t].kept
      /\ q.report = turn[t].report /\ q.user = turn[t].user /\ q.session = turn[t].session
  BY <1>1 DEF Tasks
<1>3. turn' = [turn EXCEPT ![t] = q]
  OBVIOUS
<1> HIDE DEF q
<1> QED BY <1>2, <1>3 DEF TypeInv, Row

LEMMA RowKept ==
  ASSUME TypeInv, NEW t \in Turns, NEW at \in Places, NEW kept \in Outcomes,
         turn' = [turn EXCEPT ![t].at = at, ![t].kept = kept]
  PROVE  Row(t, at, turn[t].told, kept, turn[t].report)
<1> DEFINE f == [turn[t] EXCEPT !.at = at]
           q == [f EXCEPT !.kept = kept]
<1>1. turn[t] \in Tasks
  BY DEF TypeInv
<1>2. /\ f \in Tasks /\ f.at = at /\ f.told = turn[t].told
      /\ f.report = turn[t].report /\ f.user = turn[t].user /\ f.session = turn[t].session
  BY <1>1 DEF Tasks
<1>3. turn' = [turn EXCEPT ![t] = q]
  OBVIOUS
<1> HIDE DEF f
<1>4. /\ q \in Tasks /\ q.at = at /\ q.told = turn[t].told /\ q.kept = kept
      /\ q.report = turn[t].report /\ q.user = turn[t].user /\ q.session = turn[t].session
  BY <1>2 DEF Tasks
<1> HIDE DEF q
<1> QED BY <1>3, <1>4 DEF TypeInv, Row

LEMMA RowReport ==
  ASSUME TypeInv, NEW t \in Turns, NEW at \in Places, NEW kept \in Outcomes,
         NEW report \in Reports,
         \/ turn' = [turn EXCEPT ![t].at = at, ![t].kept = kept, ![t].report = report]
         \/ turn' = [turn EXCEPT ![t].report = report, ![t].kept = kept] /\ at = turn[t].at
  PROVE  Row(t, at, turn[t].told, kept, report)
<1> DEFINE f == [turn[t] EXCEPT !.at = at]
           g == [f EXCEPT !.kept = kept]
           q == [g EXCEPT !.report = report]
<1>1. turn[t] \in Tasks
  BY DEF TypeInv
<1>2. /\ f \in Tasks /\ f.at = at /\ f.told = turn[t].told
      /\ f.user = turn[t].user /\ f.session = turn[t].session
      /\ at = turn[t].at => f = turn[t]
  BY <1>1 DEF Tasks
<1>3. turn' = [turn EXCEPT ![t] = q]
  <2>1. CASE turn' = [turn EXCEPT ![t].at = at, ![t].kept = kept, ![t].report = report]
    BY <2>1
  <2>2. CASE turn' = [turn EXCEPT ![t].report = report, ![t].kept = kept] /\ at = turn[t].at
    <3>1. q = [[turn[t] EXCEPT !.report = report] EXCEPT !.kept = kept]
      BY <1>1, <1>2, <2>2 DEF Tasks
    <3> QED BY <2>2, <3>1
  <2> QED BY <2>1, <2>2
<1> HIDE DEF f
<1>4. /\ g \in Tasks /\ g.at = at /\ g.told = turn[t].told /\ g.kept = kept
      /\ g.user = turn[t].user /\ g.session = turn[t].session
  BY <1>2 DEF Tasks
<1> HIDE DEF g
<1>5. /\ q \in Tasks /\ q.at = at /\ q.told = turn[t].told /\ q.kept = kept
      /\ q.report = report /\ q.user = turn[t].user /\ q.session = turn[t].session
  BY <1>4 DEF Tasks
<1> HIDE DEF q
<1> QED BY <1>3, <1>5 DEF TypeInv, Row

\* So it is for a user whose lease and whose turn do not change.
LEMMA LeaseElse ==
  ASSUME LeaseInv, NEW v \in Users, UNCHANGED phase, UNCHANGED upd,
         lease'[v] = lease[v],
         lease[v] # 0 => turn'[lease[v]] = turn[lease[v]]
  PROVE  LeaseOf(v)'
  BY DEF LeaseInv, LeaseOf, InAgent, Over, BeingStopped

LEMMA RendererElse ==
  ASSUME RendererInv, NEW v \in Users, renderer'[v] = renderer[v], lease'[v] = lease[v],
         renderer[v] # 0 => turn'[renderer[v]] = turn[renderer[v]]
  PROVE  RendererOf(v)'
  BY DEF RendererInv, RendererOf, InAgent

LEMMA StopElse ==
  ASSUME StopInv, NEW s \in Turns, UNCHANGED upd, UNCHANGED phase, turn'[s] = turn[s],
         userTask'[turn[s].user] \in {0, s} \/ UNCHANGED userTask,
         lease'[turn[s].user] = lease[turn[s].user]
  PROVE  StopOf(s)'
  BY DEF StopInv, StopOf, BeingStopped

\* What holds of a turn holds where neither it nor its lease changes.
LEMMA KeptElse ==
  ASSUME KeptInv, NEW s \in Turns, turn'[s] = turn[s],
         lease'[turn[s].user] = s <=> lease[turn[s].user] = s,
         BeingStopped(s) => BeingStopped(s)' \/ lease[turn[s].user] = s \/ Agrees(s)
  PROVE  KeptOf(s)'
  BY DEF KeptInv, KeptOf, InAgent, Over, Agrees

\* A turn goes on before it enters the agent or inside, or is refused.
Moves(t, at) ==
  /\ Row(t, at, turn[t].told, turn[t].kept, turn[t].report) /\ at \in Places
  /\ \/ turn[t].at \in {"created", "download"} /\ at \in {"download", "refuse"}
     \/ turn[t].at = "refuse" /\ at = "done"
     \/ InAgent(t) /\ at \in {"agent", "render", "turn_end", "notice"}
  /\ UNCHANGED <<upd, phase, struck, agentVars, runtime>>

LEMMA MovesKeep ==
  ASSUME TurnInv, NEW t \in Turns, NEW at, Moves(t, at)
  PROVE  TurnInv'
<1> USE DEF TurnInv
<1>1. /\ Row(t, at, turn[t].told, turn[t].kept, turn[t].report)
      /\ UNCHANGED <<upd, phase, struck, lease, asked, userTask, session, renderer, final>>
      /\ turn[t].at \in {"created", "download", "refuse"} \/ InAgent(t)
      /\ turn[t].at \in {"created", "download", "refuse"} => at \in {"download", "refuse", "done"}
      /\ InAgent(t) => at \in {"agent", "render", "turn_end", "notice"}
  BY DEF Moves, agentVars, runtime, InAgent
<1>2. /\ Running(t) /\ ~Over(t) /\ turn[t].at # "unborn" /\ turn[t].at # "final"
      /\ at # "unborn" /\ at # "final"
  BY <1>1 DEF Running, Over, InAgent
<1>3. TypeInv'
  BY <1>1 DEF TypeInv, Row
<1>4. TaskInv'
  BY <1>1, <1>2 DEF TaskInv, BornOf, RunsOf, ListedOf, BeingStopped, Row, Running,
           TypeInv
<1>5. FinalInv'
  BY <1>1, <1>2 DEF FinalInv, FinalOf, Row, TypeInv
<1>6. LeaseInv'
  BY <1>1, <1>2 DEF LeaseInv, LeaseOf, Row, TypeInv, InAgent, Over, BeingStopped
<1>7. KeptInv'
  <2> SUFFICES ASSUME NEW s \in Turns PROVE KeptOf(s)'
    BY DEF KeptInv
  <2>1. CASE s # t
    BY <1>1, <2>1, KeptElse DEF Row, BeingStopped
  <2>2. CASE s = t
    <3>1. turn[t].user \in Users /\ KeptOf(t)
      BY <1>2 DEF TaskInv, BornOf, RunsOf, ListedOf, KeptInv
    <3>2. at = "done" => lease[turn[t].user] # t
      BY <1>1, <1>2, <3>1, TurnsArePositive DEF LeaseInv, LeaseOf, InAgent, Over
    <3> QED BY <1>1, <2>2, <3>1, <3>2 DEF KeptOf, Row, InAgent, Over, Agrees
  <2> QED BY <2>1, <2>2
<1>8. RendererInv'
  BY <1>1, <1>2 DEF RendererInv, RendererOf, LeaseInv, TaskInv, BornOf, RunsOf, ListedOf, Row, TypeInv, InAgent, Over
<1>9. StopInv'
  BY <1>1, <1>2 DEF StopInv, StopOf, BeingStopped, Row
<1>10. UpdInv'
  BY <1>1, <1>2 DEF UpdInv, Row, Running
<1> QED BY <1>3, <1>4, <1>5, <1>6, <1>7, <1>8, <1>9, <1>10

\* Agent.run takes the lease, which nobody else has.
LEMMA EnterKeeps ==
  ASSUME TurnInv, NEW t \in Turns, Enter(t)
  PROVE  TurnInv'
<1> USE DEF TurnInv
<1> PICK u : u = turn[t].user
  OBVIOUS
<1>1. /\ turn[t].at \in {"created", "download"} /\ ~turn[t].told
      /\ turn' = [turn EXCEPT ![t].at = "agent", ![t].kept = "open"]
      /\ renderer' = [renderer EXCEPT ![u] = t] /\ lease' = [lease EXCEPT ![u] = t]
      /\ asked' = asked \ {u}
      /\ UNCHANGED <<upd, phase, struck, userTask, session, final>>
  BY DEF Enter
<1>2. Row(t, "agent", FALSE, "open", turn[t].report)
  <2>1. Row(t, "agent", turn[t].told, "open", turn[t].report)
    BY <1>1, RowKept DEF Places, Outcomes
  <2>2. turn[t].told = FALSE
    BY <1>1 DEF TypeInv, Tasks
  <2> QED BY <2>1, <2>2
<1>3. /\ Running(t) /\ u \in Users /\ lease[u] \in {0, t} /\ userTask[u] = t
      /\ session[u] = turn[t].session
  BY <1>1 DEF Running, TaskInv, BornOf, RunsOf, ListedOf
<1>4. lease[u] = 0
  BY <1>1, <1>3, TurnsArePositive DEF LeaseInv, LeaseOf, InAgent, Over
<1>5. /\ lease'[u] = t /\ renderer'[u] = t
      /\ \A v \in Users \ {u} : lease'[v] = lease[v] /\ renderer'[v] = renderer[v]
      /\ lease' \in [Users -> Turns \cup {0}] /\ renderer' \in [Users -> Turns \cup {0}]
  BY <1>1, <1>3 DEF TypeInv
<1>6. \A s \in Turns \ {t} : Running(s) => turn[s].user # u
  BY <1>3 DEF TaskInv, BornOf, RunsOf, ListedOf
<1>7. TypeInv'
  BY <1>1, <1>2, <1>5 DEF TypeInv, Row
<1>8. TaskInv'
  BY <1>1, <1>2, <1>3, <1>5, <1>6 DEF TaskInv, BornOf, RunsOf, ListedOf, BeingStopped, Row, Running,
           TypeInv
<1>9. FinalInv'
  BY <1>1, <1>2, <1>3 DEF FinalInv, FinalOf, Row, TypeInv
<1>10. LeaseInv'
  <2>1. \A s \in Turns \ {t} : InAgent(s) => Running(s)
    BY DEF InAgent, Running
  <2>2. ASSUME NEW s \in Turns, InAgent(s)' PROVE lease'[turn'[s].user] = s
    <3>1. CASE s = t
      BY <1>2, <1>5, <3>1 DEF Row
    <3>2. CASE s # t
      <4>1. InAgent(s) /\ turn'[s] = turn[s]
        BY <1>2, <2>2, <3>2 DEF Row, InAgent
      <4>2. turn[s].user \in Users /\ turn[s].user # u
        BY <1>6, <2>1, <3>2, <4>1 DEF TaskInv, BornOf, RunsOf, ListedOf, InAgent
      <4> QED BY <1>5, <4>1, <4>2 DEF LeaseInv
    <3> QED BY <3>1, <3>2
  <2>3. ASSUME NEW v \in Users PROVE LeaseOf(v)'
    <3>1. CASE v = u
      BY <1>2, <1>5, <3>1 DEF Row, InAgent, LeaseOf
    <3>2. CASE v # u
      <4>1. lease'[v] = lease[v] /\ (lease[v] # 0 => lease[v] # t /\ lease[v] \in Turns)
        BY <1>5, <3>2 DEF LeaseInv, LeaseOf, TypeInv
      <4> QED BY <1>1, <1>2, <4>1, LeaseElse DEF Row
    <3> QED BY <3>1, <3>2
  <2> QED BY <2>2, <2>3 DEF LeaseInv
<1>11. KeptInv'
  <2> SUFFICES ASSUME NEW s \in Turns PROVE KeptOf(s)'
    BY DEF KeptInv
  <2>1. CASE s # t
    <3>1. turn'[s] = turn[s]
      BY <1>2, <2>1 DEF Row
    <3>2. lease'[turn[s].user] = s <=> lease[turn[s].user] = s
      <4>1. CASE turn[s].user = u
        BY <1>4, <1>5, <2>1, <4>1, TurnsArePositive
      <4>2. CASE turn[s].user # u
        BY <1>1, <4>2 DEF TypeInv
      <4> QED BY <4>1, <4>2
    <3>3. BeingStopped(s)' <=> BeingStopped(s)
      BY <1>1 DEF BeingStopped
    <3> QED BY <3>1, <3>2, <3>3, KeptElse
  <2>2. CASE s = t
    <3>1. turn[t].report = "none"
      BY <1>1 DEF KeptInv, KeptOf
    <3> QED BY <1>2, <2>2, <3>1 DEF KeptOf, Row, InAgent, Over
  <2> QED BY <2>1, <2>2
<1>12. RendererInv'
  <2>1. \A s \in struck : s # t
    BY <1>1 DEF RendererInv, Over
  <2>2. \A s \in struck : turn'[s] = turn[s]
    BY <1>2, <2>1 DEF Row, TypeInv
  <2>3. \A s \in struck : Over(s)' /\ turn'[s].kept # "answer"
    BY <2>2 DEF RendererInv, Over
  <2>4. ASSUME NEW v \in Users PROVE RendererOf(v)'
    <3>1. CASE v = u
      BY <1>2, <1>5, <3>1 DEF Row, InAgent, RendererOf
    <3>2. CASE v # u
      <4>1. /\ renderer'[v] = renderer[v] /\ lease'[v] = lease[v]
            /\ renderer[v] # 0 => renderer[v] # t /\ renderer[v] \in Turns
        BY <1>5, <3>2 DEF RendererInv, RendererOf, TypeInv
      <4> QED BY <1>2, <4>1, RendererElse DEF Row
    <3> QED BY <3>1, <3>2
  <2> QED BY <1>1, <2>3, <2>4 DEF RendererInv
<1>13. StopInv'
  <2> SUFFICES ASSUME NEW s \in Turns, BeingStopped(s) PROVE StopOf(s)'
    BY <1>1 DEF StopInv, StopOf, BeingStopped
  <2>1. turn[s].told /\ userTask[turn[s].user] \in {0, s}
    BY DEF StopInv, StopOf
  <2>2. s # t /\ turn'[s] = turn[s]
    BY <1>1, <1>2, <2>1 DEF Row
  <2>3. turn[s].user # u
    BY <1>3, <2>1, <2>2, TurnsArePositive
  <2>4. lease'[turn[s].user] = lease[turn[s].user]
    BY <1>1, <2>3 DEF TypeInv
  <2> QED BY <1>1, <2>2, <2>4, StopElse
<1>14. UpdInv'
  BY <1>1, <1>2, <1>3 DEF UpdInv, Row, Running
<1> QED BY <1>7, <1>8, <1>9, <1>10, <1>11, <1>12, <1>13, <1>14

\* A step of one turn and of what its user has of it.
Own(t, u) ==
  /\ t \in Turns /\ u \in Users /\ (turn[t].at = "unborn" \/ turn[t].user = u)
  /\ turn'[t].user = u /\ turn'[t].at # "unborn"
  /\ \A s \in Turns \ {t} : turn'[s] = turn[s]
  /\ UNCHANGED <<upd, phase, struck>>
  /\ \A v \in Users \ {u} :
       /\ lease'[v] = lease[v] /\ renderer'[v] = renderer[v] /\ userTask'[v] = userTask[v]
       /\ session'[v] = session[v] /\ (v \in final' <=> v \in final)

\* Other turns of the user find what they had.
Spares(t, u) ==
  \A s \in Turns \ {t} :
    turn[s].user = u =>
      /\ lease'[u] = s <=> lease[u] = s
      /\ Running(s) => /\ userTask'[u] = s /\ session'[u] = turn[s].session
                       /\ lease'[u] \in {0, s}
      /\ BeingStopped(s) => userTask'[u] \in {0, s}

LEMMA OwnKeeps ==
  ASSUME TurnInv, TypeInv', NEW t, NEW u, Own(t, u), Spares(t, u),
         RunsOf(t)', ListedOf(u)', FinalOf(u)', LeaseOf(u)', InAgent(t)' => lease'[u] = t,
         KeptOf(t)', RendererOf(u)', t \in struck => Over(t)' /\ turn'[t].kept # "answer",
         StopOf(t)', Running(t)' => Running(t) \/ (upd.kind # "deny" /\ phase # "closed")
  PROVE  TurnInv'
<1> USE DEF TurnInv
<1>1. /\ t \in Turns /\ u \in Users /\ (turn[t].at = "unborn" \/ turn[t].user = u)
      /\ turn'[t].user = u /\ turn'[t].at # "unborn"
      /\ \A s \in Turns \ {t} : turn'[s] = turn[s]
      /\ UNCHANGED <<upd, phase, struck>>
      /\ \A v \in Users \ {u} :
           /\ lease'[v] = lease[v] /\ renderer'[v] = renderer[v] /\ userTask'[v] = userTask[v]
           /\ session'[v] = session[v] /\ (v \in final' <=> v \in final)
  BY DEF Own
<1>2. ASSUME NEW v \in Users \ {u}
      PROVE  /\ userTask[v] # t /\ lease[v] # t /\ renderer[v] # t
             /\ userTask[v] \in Turns \cup {0} /\ lease[v] \in Turns \cup {0}
             /\ renderer[v] \in Turns \cup {0}
  <2>1. /\ userTask[v] \in Turns \cup {0} /\ lease[v] \in Turns \cup {0}
        /\ renderer[v] \in Turns \cup {0} /\ v \in Users /\ v # u
    BY DEF TypeInv
  <2>2. userTask[v] # t
    BY <1>1, <2>1, TurnsArePositive DEF TaskInv, ListedOf
  <2>3. lease[v] # t
    BY <1>1, <2>1, TurnsArePositive DEF LeaseInv, LeaseOf, InAgent, Over
  <2>4. renderer[v] # t
    BY <1>1, <2>1, <2>3, TurnsArePositive DEF RendererInv, RendererOf, InAgent
  <2> QED BY <2>1, <2>2, <2>3, <2>4
<1>3. ASSUME NEW s \in Turns \ {t}, turn[s].at # "unborn"
      PROVE  /\ turn'[s] = turn[s] /\ turn[s].user \in Users
             /\ turn[s].user # u => lease'[turn[s].user] = lease[turn[s].user]
  BY <1>1, <1>3 DEF TaskInv, BornOf
<1>4. TaskInv'
  <2>1. ASSUME NEW s \in Turns PROVE BornOf(s)' /\ RunsOf(s)'
    <3>1. CASE s = t
      BY <1>1, <3>1 DEF BornOf
    <3>2. CASE s # t
      <4>1. turn'[s] = turn[s] /\ BornOf(s) /\ RunsOf(s)
        BY <1>1, <3>2 DEF TaskInv
      <4>2. BornOf(s)'
        BY <4>1 DEF BornOf
      <4>3. CASE Running(s)
        <5>1. turn[s].user \in Users
          BY <4>1, <4>3 DEF BornOf, Running
        <5> QED BY <1>1, <3>2, <4>1, <4>2, <4>3, <5>1 DEF RunsOf, BeingStopped, Running,
                 Spares
      <4>4. CASE ~Running(s)
        BY <4>1, <4>2, <4>4 DEF RunsOf, Running
      <4> QED BY <4>3, <4>4
    <3> QED BY <3>1, <3>2
  <2>2. ASSUME NEW v \in Users PROVE ListedOf(v)'
    <3>1. CASE v # u
      BY <1>1, <1>2, <3>1 DEF TaskInv, ListedOf
    <3> QED BY <3>1
  <2> QED BY <2>1, <2>2 DEF TaskInv
<1>5. FinalInv'
  <2> SUFFICES ASSUME NEW v \in Users, v # u PROVE FinalOf(v)'
    BY DEF FinalInv
  <2> QED BY <1>1, <1>2 DEF FinalInv, FinalOf
<1>6. LeaseInv'
  <2>1. ASSUME NEW v \in Users, v # u PROVE LeaseOf(v)'
    BY <1>1, <1>2, <2>1, LeaseElse
  <2>2. ASSUME NEW s \in Turns, s # t, InAgent(s)' PROVE lease'[turn'[s].user] = s
    <3>1. InAgent(s) /\ turn[s].at # "unborn" /\ turn'[s] = turn[s]
      BY <1>1, <2>2 DEF InAgent
    <3>2. lease[turn[s].user] = s
      BY <3>1 DEF LeaseInv
    <3> QED BY <1>3, <2>2, <3>1, <3>2 DEF Spares
  <2> QED BY <1>1, <2>1, <2>2 DEF LeaseInv
<1>7. KeptInv'
  <2> SUFFICES ASSUME NEW s \in Turns, s # t PROVE KeptOf(s)'
    BY DEF KeptInv
  <2>1. CASE turn[s].at = "unborn"
    BY <1>1, <2>1 DEF KeptInv, KeptOf, InAgent, Over
  <2>2. CASE turn[s].at # "unborn"
    <3>1. lease'[turn[s].user] = s <=> lease[turn[s].user] = s
      BY <1>3, <2>2 DEF Spares
    <3>2. BeingStopped(s)' <=> BeingStopped(s)
      BY <1>1 DEF BeingStopped
    <3> QED BY <1>3, <2>2, <3>1, <3>2, KeptElse
  <2> QED BY <2>1, <2>2
<1>8. RendererInv'
  <2>1. ASSUME NEW v \in Users, v # u PROVE RendererOf(v)'
    BY <1>1, <1>2, <2>1, RendererElse
  <2>2. ASSUME NEW s \in struck PROVE Over(s)' /\ turn'[s].kept # "answer"
    BY <1>1, <2>2 DEF RendererInv, Over, TypeInv
  <2> QED BY <1>1, <2>1, <2>2 DEF RendererInv
<1>9. StopInv'
  <2> SUFFICES ASSUME NEW s \in Turns, s # t, BeingStopped(s) PROVE StopOf(s)'
    BY <1>1 DEF StopInv, StopOf, BeingStopped
  <2>1. turn[s].at # "unborn" /\ StopOf(s)
    BY DEF StopInv, StopOf
  <2>2. turn'[s] = turn[s] /\ turn[s].user \in Users
    BY <1>3, <2>1
  <2>3. userTask'[turn[s].user] \in {0, s}
    BY <1>1, <2>1, <2>2 DEF Spares, StopOf
  <2>4. lease'[turn[s].user] = s <=> lease[turn[s].user] = s
    BY <1>3, <2>1 DEF Spares
  <2> QED BY <1>1, <2>1, <2>2, <2>3, <2>4 DEF StopOf, BeingStopped
<1>10. UpdInv'
  BY <1>1 DEF UpdInv, Running
<1> QED BY <1>4, <1>5, <1>6, <1>7, <1>8, <1>9, <1>10

\* A turn that is in the agent, or has begun, is its user's listed one.
LEMMA ItsUser ==
  ASSUME TurnInv, NEW t \in Turns, turn[t].at # "unborn"
  PROVE  /\ turn[t].user \in Users
         /\ Running(t) =>
              /\ userTask[turn[t].user] = t /\ session[turn[t].user] = turn[t].session
              /\ lease[turn[t].user] \in {0, t}
              /\ \A s \in Turns \ {t} : turn[s].user = turn[t].user =>
                   ~Running(s) /\ ~BeingStopped(s)
<1> USE DEF TurnInv
<1>1. turn[t].user \in Users
  BY DEF TaskInv, BornOf
<1> SUFFICES ASSUME Running(t)
             PROVE  /\ userTask[turn[t].user] = t /\ session[turn[t].user] = turn[t].session
                    /\ lease[turn[t].user] \in {0, t}
                    /\ \A s \in Turns \ {t} : turn[s].user = turn[t].user =>
                         ~Running(s) /\ ~BeingStopped(s)
  BY <1>1
<1>2. /\ userTask[turn[t].user] = t /\ session[turn[t].user] = turn[t].session
      /\ lease[turn[t].user] \in {0, t}
  BY DEF TaskInv, RunsOf
<1>3. ASSUME NEW s \in Turns \ {t}, turn[s].user = turn[t].user
      PROVE  ~Running(s) /\ ~BeingStopped(s)
  <2>1. ~Running(s)
    BY <1>2, <1>3 DEF TaskInv, RunsOf
  <2>2. ~BeingStopped(s)
    BY <1>2, <1>3, TurnsArePositive DEF StopInv, StopOf
  <2> QED BY <2>1, <2>2
<1> QED BY <1>2, <1>3

\* The terminal event: the lease is gone, and the chat will have what was kept.
LEMMA DeliverKeeps ==
  ASSUME TurnInv, NEW t \in Turns, Finish(t) \/ Fail(t)
  PROVE  TurnInv'
<1> USE DEF TurnInv
<1> PICK u : u = turn[t].user
  OBVIOUS
<1>1. PICK outcome \in Outcomes, report \in Reports :
        /\ Deliver(t, outcome, report) /\ outcome # "open"
        /\ outcome = "answer" <=> report = "answer"
  BY DEF Finish, Fail, Outcomes, Reports
<1>2. /\ InAgent(t) /\ Running(t) /\ ~Over(t) /\ turn[t].at # "unborn"
  BY DEF Finish, Fail, InAgent, Running, Over
<1>3. /\ ~turn[t].told
      /\ turn' = [turn EXCEPT ![t].at = "final", ![t].kept = outcome, ![t].report = report]
      /\ lease' = [lease EXCEPT ![u] = 0] /\ final' = final \cup {u}
      /\ UNCHANGED <<prompt, upd, phase, struck, asked, userTask, session, renderer>>
  BY <1>1 DEF Deliver
<1>4. Row(t, "final", turn[t].told, outcome, report)
  BY <1>3, RowReport DEF Places
<1>5. /\ u \in Users /\ userTask[u] = t /\ session[u] = turn[t].session
      /\ \A s \in Turns \ {t} : turn[s].user = u => ~Running(s) /\ ~BeingStopped(s)
  BY <1>2, ItsUser
<1>6. /\ lease[u] = t /\ lease'[u] = 0
      /\ \A v \in Users \ {u} : lease'[v] = lease[v]
  BY <1>2, <1>3, <1>5 DEF TypeInv, LeaseInv
<1>7. TypeInv'
  BY <1>3, <1>4, <1>5 DEF TypeInv, Row
<1>8. Own(t, u)
  BY <1>3, <1>4, <1>5, <1>6 DEF Own, Row
<1>9. Spares(t, u)
  BY <1>3, <1>5, <1>6, TurnsArePositive DEF Spares
<1>10. RunsOf(t)' /\ ListedOf(u)' /\ FinalOf(u)'
  BY <1>3, <1>4, <1>5, <1>6, TurnsArePositive DEF RunsOf, ListedOf, FinalOf, Row
<1>11. LeaseOf(u)' /\ (InAgent(t)' => lease'[u] = t)
  BY <1>4, <1>6 DEF LeaseOf, InAgent, Row
<1>12. KeptOf(t)'
  BY <1>1, <1>4 DEF KeptOf, Row, Agrees, InAgent, Over
<1>13. RendererOf(u)'
  <2>1. renderer[u] # 0 => renderer[u] = t
    <3> SUFFICES ASSUME renderer[u] # 0, renderer[u] # t PROVE FALSE
      OBVIOUS
    <3>1. renderer[u] \in Turns /\ turn[renderer[u]].user = u /\ ~Running(renderer[u])
      BY <1>5 DEF RendererInv, RendererOf, TypeInv
    <3>2. lease[u] = renderer[u]
      BY <1>5, <3>1 DEF RendererInv, RendererOf, InAgent, Running
    <3> QED BY <1>6, <3>2
  <2> QED BY <1>3, <1>4, <2>1 DEF RendererOf, Row
<1>14. t \notin struck
  BY <1>2 DEF RendererInv
<1>15. StopOf(t)'
  <2>1. ~BeingStopped(t)
    BY <1>3 DEF StopInv, StopOf
  <2> QED BY <1>3, <2>1 DEF StopOf, BeingStopped
<1> HIDE DEF TurnInv
<1> QED BY <1>2, <1>7, <1>8, <1>9, <1>10, <1>11, <1>12, <1>13, <1>14, <1>15, OwnKeeps

\* The finally of _run_turn after an end, cancelled or not.
Leaves(t, kept) ==
  /\ Row(t, "done", turn[t].told, kept, turn[t].report)
  /\ Running(t) /\ turn[t].at \notin {"created", "download", "refuse"}
  /\ kept = turn[t].kept \/ (kept = "answer" /\ InAgent(t))
  /\ turn[t].told \/ turn[t].at = "final"
  /\ Leave(t)
  /\ UNCHANGED <<upd, phase, struck, lease, asked>>

LEMMA LeavesKeep ==
  ASSUME TurnInv, NEW t \in Turns, NEW kept, Leaves(t, kept)
  PROVE  TurnInv'
<1> USE DEF TurnInv
<1> PICK u : u = turn[t].user
  OBVIOUS
<1>1. /\ Row(t, "done", turn[t].told, kept, turn[t].report) /\ Running(t)
      /\ UNCHANGED <<upd, phase, struck, lease, asked, userTask, session>>
      /\ final' = final \ {u}
      /\ renderer' = [renderer EXCEPT ![u] = RendererAfter(t)]
  BY DEF Leaves, Leave, FinalAfter
<1>2. turn[t].at # "unborn" /\ ~Over(t)
  BY <1>1 DEF Running, Over
<1>3. InAgent(t) \/ turn[t].at = "final"
  <2>1. turn[t].at \in Places
    BY DEF TypeInv, Tasks
  <2> QED BY <1>1, <2>1 DEF Leaves, Running, Places, InAgent
<1>4. /\ u \in Users /\ userTask[u] = t /\ lease[u] \in {0, t}
      /\ \A s \in Turns \ {t} : turn[s].user = u => ~Running(s) /\ ~BeingStopped(s)
  BY <1>1, <1>2, ItsUser
<1>5. /\ InAgent(t) <=> lease[u] = t
      /\ InAgent(t) => turn[t].kept = "open"
      /\ turn[t].at = "final" => Agrees(t) /\ ~InAgent(t)
  BY <1>2, <1>4, TurnsArePositive DEF LeaseInv, LeaseOf, KeptInv, KeptOf, InAgent
<1>6. /\ renderer'[u] \in {0, renderer[u]}
      /\ renderer'[u] # 0 => lease[u] = t
      /\ \A v \in Users \ {u} : renderer'[v] = renderer[v]
      /\ renderer' \in [Users -> Turns \cup {0}]
  BY <1>1, <1>4 DEF TypeInv, RendererAfter
<1>7. TypeInv'
  BY <1>1, <1>6 DEF TypeInv, Row
<1>8. Own(t, u)
  BY <1>1, <1>2, <1>4, <1>6 DEF Own, Row
<1>9. Spares(t, u)
  BY <1>1, <1>4 DEF Spares
<1>10. RunsOf(t)' /\ ListedOf(u)' /\ FinalOf(u)'
  BY <1>1, <1>4, TurnsArePositive DEF RunsOf, ListedOf, FinalOf, Row, Running
<1>11. LeaseOf(u)'
  <2>1. CASE lease[u] = 0
    BY <1>1, <2>1 DEF LeaseOf
  <2>2. CASE lease[u] = t
    <3>1. InAgent(t) /\ turn[t].told /\ LeaseOf(u)
      BY <1>4, <1>5, <2>2 DEF Leaves, LeaseInv, InAgent
    <3>2. phase # "open" \/ BeingStopped(t)
      BY <1>1, <3>1 DEF TaskInv, RunsOf
    <3> QED BY <1>1, <2>2, <3>1, <3>2 DEF LeaseOf, Row, Over, BeingStopped
  <2> QED BY <1>4, <2>1, <2>2
<1>12. ~InAgent(t)'
  BY <1>1 DEF InAgent, Row
<1>13. KeptOf(t)'
  <2>1. CASE InAgent(t)
    BY <1>1, <1>4, <1>5, <1>12, <2>1 DEF KeptOf, Row, Leaves, Over
  <2>2. CASE turn[t].at = "final"
    BY <1>1, <1>4, <1>5, <1>12, <2>2 DEF KeptOf, Row, Leaves, Over, Agrees
  <2> QED BY <1>3, <2>1, <2>2
<1>14. RendererOf(u)'
  <2> SUFFICES ASSUME renderer'[u] # 0 PROVE RendererOf(u)'
    BY DEF RendererOf
  <2>1. renderer'[u] = renderer[u] /\ lease[u] = t
    BY <1>6
  <2>2. renderer[u] = t
    <3> SUFFICES ASSUME renderer[u] # t PROVE FALSE
      OBVIOUS
    <3>1. renderer[u] \in Turns /\ turn[renderer[u]].user = u /\ ~Running(renderer[u])
      BY <1>4, <2>1 DEF RendererInv, RendererOf, TypeInv
    <3> QED BY <1>4, <2>1, <3>1 DEF RendererInv, RendererOf, InAgent, Running
  <2> QED BY <1>1, <2>1, <2>2 DEF RendererOf, Row
<1>15. t \notin struck
  BY <1>2 DEF RendererInv
<1>16. StopOf(t)'
  <2>1. StopOf(t)
    BY DEF StopInv
  <2>2. BeingStopped(t) => InAgent(t)
    BY <1>3, <2>1 DEF StopOf
  <2> QED BY <1>1, <1>4, <1>5, <2>1, <2>2 DEF StopOf, BeingStopped, Row
<1>17. ~Running(t)'
  BY <1>1 DEF Row, Running
<1> HIDE DEF TurnInv
<1> QED BY <1>7, <1>8, <1>9, <1>10, <1>11, <1>12, <1>13, <1>14, <1>15, <1>16, <1>17, OwnKeeps

LEMMA DeliveredLeaves ==
  ASSUME TurnInv, NEW t \in Turns, Delivered(t)
  PROVE  Leaves(t, turn[t].kept)
<1>1. /\ turn[t].at = "final" /\ turn' = [turn EXCEPT ![t].at = "done"] /\ Leave(t)
      /\ UNCHANGED <<prompt, upd, phase, struck, lease, asked>>
  BY DEF Delivered, Goes, agentVars
<1>2. Row(t, "done", turn[t].told, turn[t].kept, turn[t].report)
  BY <1>1, RowAt DEF TurnInv, Places
<1> QED BY <1>1, <1>2 DEF Leaves, Running

\* A cancelled turn ends.
LEMMA UnwindKeeps ==
  ASSUME TurnInv, NEW t \in Turns, Unwind(t)
  PROVE  TurnInv'
<1> USE DEF TurnInv
<1> PICK kept : kept = IF turn[t].at = "turn_end" THEN "answer" ELSE turn[t].kept
  OBVIOUS
<1>1. /\ turn[t].told /\ Running(t) /\ UNCHANGED <<prompt, upd, phase, struck, lease, asked>>
      /\ turn' = [turn EXCEPT ![t].at = "done",
                    ![t].kept = IF turn[t].at = "turn_end" THEN "answer" ELSE @]
  BY DEF Unwind, agentVars
<1>2. kept \in Outcomes /\ turn[t] \in Tasks
  BY DEF TypeInv, Tasks, Outcomes
<1>3. Row(t, "done", turn[t].told, kept, turn[t].report)
  <2>1. turn' = [turn EXCEPT ![t].at = "done", ![t].kept = kept]
    BY <1>1, <1>2 DEF Tasks, TypeInv
  <2> QED BY <1>2, <2>1, RowKept DEF Places
<1>4. CASE turn[t].at \notin {"created", "download", "refuse"}
  <2>1. Leave(t)
    BY <1>4 DEF Unwind
  <2>2. kept = turn[t].kept \/ (kept = "answer" /\ InAgent(t))
    BY DEF InAgent
  <2>3. Leaves(t, kept)
    BY <1>1, <1>3, <1>4, <2>1, <2>2 DEF Leaves
  <2> QED BY <2>3, LeavesKeep
<1>5. CASE turn[t].at \in {"created", "download", "refuse"}
  <2> PICK u : u = turn[t].user
    OBVIOUS
  <2>1. UNCHANGED <<userTask, session, renderer, final>>
    BY <1>5 DEF Unwind, runtime
  <2>2. turn[t].at # "unborn" /\ ~Over(t) /\ ~InAgent(t) /\ turn[t].at # "final"
    BY <1>5 DEF Over, InAgent
  <2>3. /\ u \in Users /\ userTask[u] = t /\ lease[u] \in {0, t}
        /\ \A s \in Turns \ {t} : turn[s].user = u => ~Running(s) /\ ~BeingStopped(s)
    BY <1>1, <2>2, ItsUser
  <2>4. lease[u] = 0
    BY <2>2, <2>3, TurnsArePositive DEF LeaseInv, LeaseOf
  <2>5. kept = "none" /\ turn[t].report = "none"
    BY <1>5 DEF KeptInv, KeptOf
  <2>6. TypeInv'
    BY <1>1, <1>3, <2>1 DEF TypeInv, Row
  <2>7. Own(t, u)
    BY <1>1, <1>3, <2>1, <2>2, <2>3 DEF Own, Row
  <2>8. Spares(t, u)
    BY <1>1, <2>3 DEF Spares
  <2>9. RunsOf(t)' /\ ListedOf(u)' /\ FinalOf(u)'
    BY <1>3, <2>1, <2>2, <2>3, TurnsArePositive
       DEF RunsOf, ListedOf, FinalOf, FinalInv, Row, Running
  <2>10. LeaseOf(u)' /\ ~InAgent(t)' /\ ~Running(t)'
    BY <1>1, <1>3, <2>4 DEF LeaseOf, InAgent, Running, Row
  <2>11. KeptOf(t)'
    BY <1>1, <1>3, <2>3, <2>4, <2>5, TurnsArePositive DEF KeptOf, Row, Agrees, Over, InAgent
  <2>12. RendererOf(u)'
    <3>1. renderer[u] # 0 => renderer[u] # t /\ renderer[u] \in Turns
      BY <2>2, <2>3, <2>4, TurnsArePositive DEF RendererInv, RendererOf, TypeInv
    <3> QED BY <1>1, <1>3, <2>1, <2>3, <3>1, RendererElse DEF Row
  <2>13. t \notin struck
    BY <2>2 DEF RendererInv
  <2>14. StopOf(t)'
    BY <1>1, <1>3, <2>1, <2>3, <2>5 DEF StopInv, StopOf, BeingStopped, Row
  <2> HIDE DEF TurnInv
  <2> QED BY <2>6, <2>7, <2>8, <2>9, <2>10, <2>11, <2>12, <2>13, <2>14, OwnKeeps
<1> QED BY <1>4, <1>5

\* The task is forgotten.
LEMMA ReapKeeps ==
  ASSUME TurnInv, NEW t \in Turns, Reap(t)
  PROVE  TurnInv'
<1> USE DEF TurnInv
<1> PICK u : u = turn[t].user
  OBVIOUS
<1>1. /\ turn[t].at = "done" /\ turn' = [turn EXCEPT ![t].at = "reaped"]
      /\ userTask' = [userTask EXCEPT ![u] = Listed(t)]
      /\ UNCHANGED <<prompt, upd, phase, struck, lease, asked, session, renderer, final>>
  BY DEF Reap, agentVars
<1>2. Row(t, "reaped", turn[t].told, turn[t].kept, turn[t].report)
  BY <1>1, RowAt DEF Places
<1>3. /\ turn[t].at # "unborn" /\ Over(t) /\ ~Running(t) /\ ~InAgent(t) /\ u \in Users
  BY <1>1, ItsUser DEF Over, Running, InAgent
<1>4. /\ userTask'[u] = IF userTask[u] = t THEN 0 ELSE userTask[u]
      /\ \A v \in Users \ {u} : userTask'[v] = userTask[v]
      /\ userTask' \in [Users -> Turns \cup {0}]
  BY <1>1, <1>3 DEF TypeInv, Listed
<1>5. TypeInv'
  BY <1>1, <1>2, <1>4 DEF TypeInv, Row
<1>6. Own(t, u)
  BY <1>1, <1>2, <1>3, <1>4 DEF Own, Row
<1>7. Spares(t, u)
  BY <1>1, <1>4 DEF Spares, TaskInv, RunsOf, StopInv, StopOf
<1>8. ~Running(t)' /\ ~InAgent(t)' /\ Over(t)'
  BY <1>2 DEF Row, Running, InAgent, Over
<1>9. RunsOf(t)'
  BY <1>8 DEF RunsOf
<1>10. ListedOf(u)' /\ FinalOf(u)'
  <2>1. ListedOf(u) /\ FinalOf(u)
    BY <1>3 DEF TaskInv, FinalInv
  <2>2. CASE userTask[u] \in {0, t}
    BY <1>1, <1>4, <2>1, <2>2 DEF ListedOf, FinalOf
  <2>3. CASE userTask[u] \notin {0, t}
    <3>1. userTask'[u] = userTask[u] /\ turn'[userTask[u]] = turn[userTask[u]]
      BY <1>2, <1>3, <1>4, <2>3 DEF Row, TypeInv
    <3> QED BY <1>1, <2>1, <3>1 DEF ListedOf, FinalOf
  <2> QED BY <2>2, <2>3
<1>11. LeaseOf(u)'
  <2>1. LeaseOf(u)
    BY <1>3 DEF LeaseInv
  <2>2. CASE lease[u] \in {0, t}
    BY <1>1, <1>2, <1>3, <1>8, <2>1, <2>2 DEF LeaseOf, Row, BeingStopped
  <2>3. CASE lease[u] \notin {0, t}
    BY <1>1, <1>2, <1>3, <2>3, LeaseElse DEF TypeInv, Row
  <2> QED BY <2>2, <2>3
<1>12. KeptOf(t)'
  BY <1>1, <1>2, <1>3, <1>8 DEF KeptInv, KeptOf, Row, Agrees, BeingStopped
<1>13. RendererOf(u)'
  <2>1. RendererOf(u)
    BY <1>3 DEF RendererInv
  <2>2. CASE renderer[u] \in {0, t}
    BY <1>1, <1>2, <1>3, <2>1, <2>2 DEF RendererOf, Row
  <2>3. CASE renderer[u] \notin {0, t}
    BY <1>1, <1>2, <1>3, <2>3, RendererElse DEF TypeInv, Row
  <2> QED BY <2>2, <2>3
<1>14. t \in struck => Over(t)' /\ turn'[t].kept # "answer"
  BY <1>2, <1>8 DEF RendererInv, Row
<1>15. StopOf(t)'
  BY <1>1, <1>2, <1>4 DEF StopInv, StopOf, BeingStopped, Row
<1> HIDE DEF TurnInv
<1> QED BY <1>5, <1>6, <1>7, <1>8, <1>9, <1>10, <1>11, <1>12, <1>13, <1>14, <1>15, OwnKeeps

\* A message finds no turn of its user that is not finalized.
LEMMA FreeAgent ==
  ASSUME TurnInv, Idle, NEW u \in Users, ~Active(u)
  PROVE  /\ lease[u] = 0 /\ renderer[u] = 0 /\ u \notin final
         /\ \A s \in Turns : turn[s].at # "unborn" /\ turn[s].user = u => ~Running(s)
         /\ \A s \in Turns : ~BeingStopped(s)
<1> USE DEF TurnInv
<1>1. \A s \in Turns : ~BeingStopped(s)
  BY DEF Idle, NoUpdate, BeingStopped
<1>2. \A s \in Turns : turn[s].user = u => ~Running(s)
  BY TurnsArePositive DEF Active, TaskInv, RunsOf
<1>3. lease[u] = 0
  <2> SUFFICES ASSUME lease[u] # 0 PROVE FALSE
    OBVIOUS
  <2>1. lease[u] \in Turns /\ LeaseOf(u)
    BY DEF TypeInv, LeaseInv
  <2> QED BY <1>1, <1>2, <2>1 DEF LeaseOf, Idle, InAgent, Running
<1>4. renderer[u] = 0
  <2> SUFFICES ASSUME renderer[u] # 0 PROVE FALSE
    OBVIOUS
  <2>1. renderer[u] \in Turns /\ RendererOf(u)
    BY DEF TypeInv, RendererInv
  <2> QED BY <1>2, <1>3, <2>1 DEF RendererOf, InAgent, Running
<1>5. u \notin final
  BY DEF Active, FinalInv, FinalOf, Running
<1> QED BY <1>1, <1>2, <1>3, <1>4, <1>5

LEMMA MessageKeeps ==
  ASSUME TurnInv, NEW u \in Users, Message(u)
  PROVE  TurnInv'
<1> USE DEF TurnInv
<1>1. /\ Idle /\ ~Active(u)
      /\ UNCHANGED <<prompt, upd, phase, struck, lease, asked, session, renderer, final>>
  BY DEF Message, Room, agentVars
<1>2. PICK t \in Turns :
        /\ turn[t].at = "unborn"
        /\ turn' = [turn EXCEPT ![t].at = "created", ![t].user = u,
                                ![t].session = session[u]]
        /\ userTask' = [userTask EXCEPT ![u] = t]
  BY DEF Message
<1>3. /\ lease[u] = 0 /\ renderer[u] = 0 /\ u \notin final
      /\ \A s \in Turns : turn[s].at # "unborn" /\ turn[s].user = u => ~Running(s)
      /\ \A s \in Turns : ~BeingStopped(s)
  BY <1>1, FreeAgent
<1>4. /\ turn' \in [Turns -> Tasks]
      /\ \A s \in Turns \ {t} : turn'[s] = turn[s]
      /\ turn'[t].at = "created" /\ turn'[t].user = u /\ turn'[t].session = session[u]
      /\ turn'[t].told = turn[t].told /\ turn'[t].kept = turn[t].kept
      /\ turn'[t].report = turn[t].report
  <2> DEFINE f == [turn[t] EXCEPT !.at = "created"]
             g == [f EXCEPT !.user = u]
             q == [g EXCEPT !.session = session[u]]
  <2>1. turn[t] \in Tasks /\ session[u] \in Sessions
    BY DEF TypeInv
  <2>2. /\ f \in Tasks /\ f.at = "created" /\ f.told = turn[t].told
        /\ f.kept = turn[t].kept /\ f.report = turn[t].report
    BY <2>1 DEF Tasks, Places
  <2>3. turn' = [turn EXCEPT ![t] = q]
    BY <1>2
  <2> HIDE DEF f
  <2>4. /\ g \in Tasks /\ g.at = "created" /\ g.told = turn[t].told /\ g.user = u
        /\ g.kept = turn[t].kept /\ g.report = turn[t].report
    BY <2>2 DEF Tasks
  <2> HIDE DEF g
  <2>5. /\ q \in Tasks /\ q.at = "created" /\ q.told = turn[t].told /\ q.user = u
        /\ q.kept = turn[t].kept /\ q.report = turn[t].report /\ q.session = session[u]
    BY <2>1, <2>4 DEF Tasks
  <2> HIDE DEF q
  <2> QED BY <2>3, <2>5 DEF TypeInv
<1>5. /\ userTask'[u] = t /\ userTask' \in [Users -> Turns \cup {0}]
      /\ \A v \in Users \ {u} : userTask'[v] = userTask[v]
  BY <1>2 DEF TypeInv
<1>6. /\ turn[t].told = FALSE /\ turn[t].kept = "none" /\ turn[t].report = "none"
  BY <1>2 DEF TaskInv, BornOf, KeptInv, KeptOf, TypeInv, Tasks
<1>7. TypeInv'
  BY <1>1, <1>4, <1>5 DEF TypeInv
<1>8. Own(t, u)
  BY <1>1, <1>2, <1>4, <1>5 DEF Own
<1>9. Spares(t, u)
  BY <1>1, <1>3 DEF Spares, Running
<1>10. RunsOf(t)' /\ ListedOf(u)' /\ FinalOf(u)'
  BY <1>1, <1>3, <1>4, <1>5, <1>6 DEF RunsOf, ListedOf, FinalOf
<1>11. LeaseOf(u)' /\ ~InAgent(t)' /\ RendererOf(u)'
  BY <1>1, <1>3, <1>4 DEF LeaseOf, InAgent, RendererOf
<1>12. KeptOf(t)'
  BY <1>4, <1>6, <1>11 DEF KeptOf, Over
<1>13. t \notin struck
  BY <1>2 DEF RendererInv, Over
<1>14. StopOf(t)'
  BY <1>1, <1>3 DEF StopOf, BeingStopped
<1>15. upd.kind # "deny" /\ phase # "closed"
  BY <1>1 DEF Idle, NoUpdate
<1> HIDE DEF TurnInv
<1> QED BY <1>7, <1>8, <1>9, <1>10, <1>11, <1>12, <1>13, <1>14, <1>15, OwnKeeps

LEMMA SwitchKeeps ==
  ASSUME TurnInv, NEW u \in Users, NEW s \in Sessions, SwitchSession(u, s)
  PROVE  TurnInv'
<1> USE DEF TurnInv
<1>1. /\ Idle /\ ~Active(u) /\ session' = [session EXCEPT ![u] = s]
      /\ lease' = [lease EXCEPT ![u] = 0] /\ asked' = asked \ {u}
      /\ UNCHANGED <<turn, prompt, upd, phase, struck, userTask, renderer, final>>
  BY DEF SwitchSession
<1>2. /\ lease[u] = 0
      /\ \A t \in Turns : turn[t].at # "unborn" /\ turn[t].user = u => ~Running(t)
  BY <1>1, FreeAgent
<1>3. lease' = lease
  BY <1>1, <1>2 DEF TypeInv
<1>4. TypeInv'
  BY <1>1, <1>3 DEF TypeInv
<1>5. TaskInv'
  <2>1. ASSUME NEW t \in Turns PROVE BornOf(t)' /\ RunsOf(t)'
    <3>1. BornOf(t) /\ RunsOf(t)
      BY DEF TaskInv
    <3>2. Running(t) => turn[t].user \in Users \ {u}
      BY <1>2, <3>1 DEF BornOf, Running
    <3>3. Running(t) => session'[turn[t].user] = session[turn[t].user]
      BY <1>1, <3>2 DEF TypeInv
    <3> QED BY <1>1, <1>3, <3>1, <3>3 DEF BornOf, RunsOf, Running, BeingStopped
  <2>2. ASSUME NEW v \in Users PROVE ListedOf(v)'
    BY <1>1 DEF TaskInv, ListedOf
  <2> QED BY <2>1, <2>2 DEF TaskInv
<1>6. FinalInv' /\ LeaseInv' /\ RendererInv'
  BY <1>1, <1>3 DEF FinalInv, FinalOf, LeaseInv, LeaseOf, RendererInv, RendererOf,
                    InAgent, Over, BeingStopped
<1>7. KeptInv'
  BY <1>1, <1>3 DEF KeptInv, KeptOf, Agrees, InAgent, Over, BeingStopped
<1>8. StopInv' /\ UpdInv'
  BY <1>1, <1>3 DEF StopInv, StopOf, UpdInv, BeingStopped, Running
<1> QED BY <1>4, <1>5, <1>6, <1>7, <1>8

-----------------------------------------------------------------------------
(* Handlers *)

\* The handler goes on, and what it stops stays the same.
LEMMA HandledKeeps ==
  ASSUME TurnInv, UNCHANGED <<turn, struck, lease, asked, userTask, session, renderer, final>>,
         upd' \in Updates, UpdInv',
         \A t \in Turns : BeingStopped(t)' <=> BeingStopped(t),
         phase' = phase \/ (phase = "closing" /\ phase' = "closed")
  PROVE  TurnInv'
<1> USE DEF TurnInv
<1>1. TypeInv'
  BY DEF TypeInv
<1>2. TaskInv'
  BY DEF TaskInv, BornOf, RunsOf, ListedOf, Running
<1>3. FinalInv'
  BY DEF FinalInv, FinalOf
<1>4. LeaseInv'
  <2>1. ASSUME NEW v \in Users PROVE LeaseOf(v)'
    <3>1. LeaseOf(v) /\ lease[v] \in Turns \cup {0}
      BY DEF LeaseInv, TypeInv
    <3> PICK l : l = lease[v]
      OBVIOUS
    <3>2. l # 0 => (BeingStopped(l)' <=> BeingStopped(l))
      BY <3>1
    <3> QED BY <3>1, <3>2 DEF LeaseOf, InAgent, Over, BeingStopped
  <2> QED BY <2>1 DEF LeaseInv, InAgent
<1>5. KeptInv'
  BY DEF KeptInv, KeptOf, Agrees, InAgent, Over
<1>6. RendererInv'
  BY DEF RendererInv, RendererOf, InAgent, Over
<1>7. StopInv'
  <2> SUFFICES ASSUME NEW t \in Turns, BeingStopped(t) PROVE StopOf(t)'
    BY DEF StopInv, StopOf
  <2>1. phase = "open"
    BY DEF StopInv, StopOf
  <2> QED BY <2>1 DEF StopInv, StopOf
<1> QED BY <1>1, <1>2, <1>3, <1>4, <1>5, <1>6, <1>7

\* Deny, an edit, the end of a wait, the denials at the end, a click.
LEMMA UpdatesKeep ==
  ASSUME TurnInv,
         \/ \E p \in Prompts : Deny(p)
         \/ HandlerEdit \/ Waited \/ DenyAll \/ Close
         \/ \E u \in Users \cup Strangers, p \in Prompts, answer \in {"yes", "no"} :
              Click(p, u, answer)
  PROVE  TurnInv'
<1> USE DEF TurnInv
<1>0. /\ upd \in Updates /\ NoUpdate \in Updates /\ NoUpdate.kind = "none"
      /\ NoUpdate.todo = {} /\ NoUpdate.edit = 0
  BY DEF TypeInv, Updates, NoUpdate
<1>1. ASSUME NEW p \in Prompts, Deny(p) PROVE TurnInv'
  <2> DEFINE n == IF Removable(p) THEN p ELSE 0
             f == [upd EXCEPT !.todo = upd.todo \ {p}]
             q == [f EXCEPT !.edit = n]
  <2>1. /\ UNCHANGED <<turn, phase, struck, lease, asked, userTask, session, renderer, final>>
        /\ p \in upd.todo /\ upd' = q
    BY <1>1, <1>0 DEF Deny, agentVars, runtime, Updates
  <2>2. n \in Prompts \cup {0}
    OBVIOUS
  <2>3. f \in Updates /\ f.kind = upd.kind /\ f.turn = upd.turn
    BY <1>0 DEF Updates
  <2> HIDE DEF n, f
  <2>4. q \in Updates /\ q.kind = upd.kind /\ q.turn = upd.turn
    BY <2>2, <2>3 DEF Updates
  <2>5. upd.kind # "none"
    BY <1>0, <2>1 DEF UpdInv
  <2> HIDE DEF q
  <2>6. UpdInv'
    BY <2>1, <2>4, <2>5 DEF UpdInv, Running
  <2> HIDE DEF TurnInv
  <2> QED BY <2>1, <2>4, <2>6, HandledKeeps DEF BeingStopped
<1>2. CASE HandlerEdit
  <2>1. /\ UNCHANGED <<turn, phase, struck, lease, asked, userTask, session, renderer, final>>
        /\ upd.edit # 0
        /\ upd' = IF upd.kind = "click" THEN NoUpdate ELSE [upd EXCEPT !.edit = 0]
    BY <1>2 DEF HandlerEdit, agentVars, runtime
  <2>2. upd.kind # "none"
    BY <1>0, <2>1 DEF UpdInv
  <2>3. /\ upd' \in Updates
        /\ upd'.kind = IF upd.kind = "click" THEN "none" ELSE upd.kind
        /\ upd.kind # "click" => upd'.turn = upd.turn
        /\ upd.kind = "click" => upd' = NoUpdate
    BY <1>0, <2>1 DEF Updates
  <2>4. UpdInv'
    BY <2>1, <2>2, <2>3 DEF UpdInv, Running
  <2> HIDE DEF TurnInv
  <2> QED BY <2>1, <2>3, <2>4, HandledKeeps DEF BeingStopped
<1>3. CASE Waited
  <2>1. /\ UNCHANGED <<turn, phase, struck, lease, asked, userTask, session, renderer, final>>
        /\ upd.kind = "wait" /\ upd' = NoUpdate
    BY <1>3 DEF Waited, agentVars, runtime
  <2>2. UpdInv'
    BY <1>0, <2>1 DEF UpdInv, Running
  <2> HIDE DEF TurnInv
  <2> QED BY <1>0, <2>1, <2>2, HandledKeeps DEF BeingStopped
<1>4. CASE DenyAll
  <2> DEFINE S == {p \in Prompts : prompt[p].listed}
             f == [NoUpdate EXCEPT !.kind = "deny"]
             q == [f EXCEPT !.todo = S]
  <2>1. /\ UNCHANGED <<turn, phase, struck, lease, asked, userTask, session, renderer, final>>
        /\ upd = NoUpdate /\ phase = "closing" /\ \A t \in Turns : ~Running(t)
        /\ upd' = q
    BY <1>4 DEF DenyAll, AllStopped, agentVars, runtime, NoUpdate
  <2>2. S \in SUBSET Prompts
    OBVIOUS
  <2>3. f \in Updates /\ f.kind = "deny"
    BY <1>0 DEF Updates
  <2> HIDE DEF S, f
  <2>4. q \in Updates /\ q.kind = "deny"
    BY <2>2, <2>3 DEF Updates
  <2> HIDE DEF q
  <2>5. UpdInv'
    BY <2>1, <2>4 DEF UpdInv, Running
  <2> HIDE DEF TurnInv
  <2> QED BY <1>0, <2>1, <2>4, <2>5, HandledKeeps DEF BeingStopped
<1>5. CASE Close
  <2>1. /\ UNCHANGED <<turn, struck, lease, asked, userTask, session, renderer, final>>
        /\ upd.kind = "deny" /\ upd' = NoUpdate /\ phase' = "closed" /\ phase = "closing"
    BY <1>5 DEF Close, UpdInv, agentVars, runtime
  <2>2. UpdInv'
    BY <1>0, <2>1 DEF UpdInv, Running
  <2> HIDE DEF TurnInv
  <2> QED BY <1>0, <2>1, <2>2, HandledKeeps DEF BeingStopped
<1>6. ASSUME NEW u \in Users \cup Strangers, NEW p \in Prompts,
             NEW answer \in {"yes", "no"}, Click(p, u, answer)
      PROVE  TurnInv'
  <2> DEFINE f == [NoUpdate EXCEPT !.kind = "click"]
             q == [f EXCEPT !.edit = p]
  <2>1. /\ UNCHANGED <<turn, phase, struck, lease, asked, userTask, session, renderer, final>>
        /\ upd = NoUpdate /\ phase = "open" /\ upd' \in {q, upd}
    BY <1>6 DEF Click, Idle, agentVars, runtime, NoUpdate
  <2>2. f \in Updates /\ f.kind = "click"
    BY <1>0 DEF Updates
  <2> HIDE DEF f
  <2>3. q \in Updates /\ q.kind = "click"
    BY <2>2 DEF Updates
  <2> HIDE DEF q
  <2>4. upd' \in Updates /\ (upd'.kind = "click" \/ upd' = NoUpdate)
    BY <1>0, <2>1, <2>3
  <2>5. UpdInv'
    BY <1>0, <2>1, <2>4 DEF UpdInv
  <2>6. \A t \in Turns : ~BeingStopped(t)' /\ ~BeingStopped(t)
    BY <1>0, <2>1, <2>4 DEF BeingStopped
  <2> HIDE DEF TurnInv
  <2> QED BY <2>1, <2>4, <2>5, <2>6, HandledKeeps
<1> QED BY <1>1, <1>2, <1>3, <1>4, <1>5, <1>6

\* Tasks are cancelled: by a Stop of one, or at the end.
LEMMA CancelKeeps ==
  ASSUME TurnInv, Idle, NEW T \in SUBSET Turns, Cancel(T),
         \A t \in T : Running(t),
         UNCHANGED <<struck, lease, userTask, session, renderer, final>>,
         upd' \in Updates, UpdInv',
         \/ phase' = "closing" /\ upd' = upd
         \/ /\ phase' = "open" /\ upd'.kind = "stop" /\ T = {upd'.turn}
            /\ \A t \in T : turn[t].at # "final"
  PROVE  TurnInv'
<1> USE DEF TurnInv
<1>1. \A t \in Turns : ~BeingStopped(t)
  BY DEF Idle, NoUpdate, BeingStopped
<1>2. /\ turn' \in [Turns -> Tasks]
      /\ \A t \in Turns :
           /\ turn'[t].at = turn[t].at /\ turn'[t].user = turn[t].user
           /\ turn'[t].session = turn[t].session /\ turn'[t].kept = turn[t].kept
           /\ turn'[t].report = turn[t].report
           /\ turn'[t].told = (turn[t].told \/ t \in T)
  <2>1. \A t \in Turns : turn[t] \in Tasks
    BY DEF TypeInv
  <2> DEFINE b(t) == turn[t].told \/ t \in T
             q(t) == [turn[t] EXCEPT !.told = b(t)]
  <2>2. turn' = [t \in Turns |-> q(t)]
    BY DEF Cancel
  <2>3. \A t \in Turns : b(t) \in BOOLEAN
    BY <2>1 DEF Tasks
  <2> HIDE DEF b
  <2>4. \A t \in Turns :
          /\ q(t) \in Tasks /\ q(t).at = turn[t].at /\ q(t).user = turn[t].user
          /\ q(t).session = turn[t].session /\ q(t).kept = turn[t].kept
          /\ q(t).report = turn[t].report /\ q(t).told = b(t)
    BY <2>1, <2>3 DEF Tasks
  <2> HIDE DEF q
  <2>5. \A t \in Turns : turn'[t] = q(t)
    BY <2>2
  <2>6. turn' \in [Turns -> Tasks]
    BY <2>2, <2>4
  <2>7. \A t \in Turns : b(t) = (turn[t].told \/ t \in T)
    BY DEF b
  <2> QED BY <2>4, <2>5, <2>6, <2>7
<1>3. phase = "open" /\ asked' \subseteq Users
  BY DEF Idle, Cancel, TypeInv
<1>4. phase' # "open" \/ \A t \in T : BeingStopped(t)'
  BY DEF BeingStopped
<1>5. TypeInv'
  BY <1>2, <1>3 DEF TypeInv
<1>6. TaskInv'
  <2>1. ASSUME NEW t \in Turns PROVE BornOf(t)' /\ RunsOf(t)'
    <3>1. BornOf(t) /\ RunsOf(t)
      BY DEF TaskInv
    <3>2. BornOf(t)'
      BY <1>2, <3>1 DEF BornOf, Running
    <3>3. Running(t)' /\ turn'[t].told => phase' # "open" \/ BeingStopped(t)'
      BY <1>1, <1>2, <1>3, <1>4, <3>1 DEF RunsOf, Running
    <3> QED BY <1>2, <3>1, <3>2, <3>3 DEF RunsOf, Running
  <2>2. ASSUME NEW v \in Users PROVE ListedOf(v)'
    BY <1>2 DEF TaskInv, ListedOf, TypeInv
  <2> QED BY <2>1, <2>2 DEF TaskInv
<1>7. FinalInv'
  BY <1>2 DEF FinalInv, FinalOf, TypeInv
<1>8. LeaseInv'
  <2>1. ASSUME NEW v \in Users PROVE LeaseOf(v)'
    BY <1>1, <1>2, <1>3 DEF LeaseInv, LeaseOf, InAgent, Over, TypeInv
  <2> QED BY <1>2, <2>1 DEF LeaseInv, InAgent
<1>9. KeptInv'
  BY <1>1, <1>2 DEF KeptInv, KeptOf, Agrees, InAgent, Over
<1>10. RendererInv'
  <2>1. ASSUME NEW v \in Users PROVE RendererOf(v)'
    BY <1>2 DEF RendererInv, RendererOf, InAgent, TypeInv
  <2> QED BY <1>2, <2>1 DEF RendererInv, Over, TypeInv
<1>11. StopInv'
  <2> SUFFICES ASSUME NEW t \in Turns, BeingStopped(t)' PROVE StopOf(t)'
    BY DEF StopInv, StopOf
  <2>1. t \in T /\ phase' = "open" /\ Running(t) /\ turn[t].at # "final"
    BY <1>1, <1>3 DEF BeingStopped
  <2>2. userTask[turn[t].user] = t /\ turn[t].at # "unborn"
    BY <2>1 DEF TaskInv, RunsOf, Running
  <2>3. lease[turn[t].user] # t => turn[t].kept = "none" /\ turn[t].report = "none"
    <3>1. turn[t].at \in Places
      BY DEF TypeInv, Tasks
    <3>2. InAgent(t) \/ turn[t].at \in {"created", "download", "refuse"}
      BY <2>1, <3>1 DEF Running, Places, InAgent
    <3> QED BY <3>2 DEF LeaseInv, KeptInv, KeptOf
  <2> QED BY <1>2, <2>1, <2>2, <2>3 DEF StopOf
<1> QED BY <1>5, <1>6, <1>7, <1>8, <1>9, <1>10, <1>11

LEMMA StopKeeps ==
  ASSUME TurnInv, NEW u \in Users, Stop(u)
  PROVE  TurnInv'
<1> USE DEF TurnInv
<1> PICK t : t = userTask[u]
  OBVIOUS
<1> DEFINE S == OfUser(u)
           s == [kind |-> "stop", user |-> u, turn |-> t, todo |-> S, edit |-> 0]
           w == [kind |-> "wait", user |-> u, turn |-> t, todo |-> S, edit |-> 0]
<1>1. S \in SUBSET Prompts /\ t \in Turns \cup {0}
  BY DEF OfUser, TypeInv
<1>2. Idle /\ UNCHANGED <<phase, struck, lease, userTask, session, renderer, final>>
  BY DEF Stop, runtime
<1>3. CASE Stops(u)
  <2>1. Cancel({t}) /\ upd' = s
    BY <1>3 DEF Stop
  <2>2. t \in Turns /\ Running(t) /\ turn[t].at # "final"
    BY <1>1, <1>3 DEF Stops, Active, FinalInv, FinalOf
  <2> HIDE DEF S
  <2>3. s \in Updates /\ s.kind = "stop" /\ s.turn = t
    BY <1>1 DEF Updates
  <2> HIDE DEF s
  <2>4. UpdInv'
    BY <1>2, <2>1, <2>2, <2>3 DEF UpdInv, Idle
  <2>5. /\ phase' = "open" /\ upd'.kind = "stop" /\ {t} = {upd'.turn}
        /\ \A x \in {t} : turn[x].at # "final" /\ Running(x)
    BY <1>2, <2>1, <2>2, <2>3 DEF Idle
  <2> HIDE DEF TurnInv
  <2> QED BY <1>2, <2>1, <2>2, <2>3, <2>4, <2>5, CancelKeeps
<1>4. CASE ~Stops(u)
  <2>1. upd' = w /\ UNCHANGED <<turn, asked, prompt>>
    BY <1>4 DEF Stop
  <2> HIDE DEF S
  <2>2. w \in Updates /\ w.kind = "wait"
    BY <1>1 DEF Updates
  <2> HIDE DEF w
  <2>3. UpdInv'
    BY <1>2, <2>1, <2>2 DEF UpdInv, Idle
  <2>4. \A x \in Turns : BeingStopped(x)' <=> BeingStopped(x)
    BY <1>2, <2>1, <2>2 DEF BeingStopped, Idle, NoUpdate
  <2> HIDE DEF TurnInv
  <2> QED BY <1>2, <2>1, <2>2, <2>3, <2>4, HandledKeeps
<1> QED BY <1>3, <1>4

LEMMA ShutdownKeeps ==
  ASSUME TurnInv, Shutdown
  PROVE  TurnInv'
<1>1. PICK T \in SUBSET Turns : T = {t \in Turns : Running(t)}
  OBVIOUS
<1>2. /\ Idle /\ phase' = "closing" /\ Cancel(T)
      /\ UNCHANGED <<upd, struck, lease, userTask, session, renderer, final>>
  BY <1>1 DEF Shutdown, runtime
<1>3. \A t \in T : Running(t)
  BY <1>1
<1>4. UpdInv' /\ upd' \in Updates
  BY <1>2 DEF TurnInv, TypeInv, UpdInv, Idle, NoUpdate
<1> QED BY <1>2, <1>3, <1>4, CancelKeeps

-----------------------------------------------------------------------------
(* A cancelled turn is finalized *)

\* Its user has no other turn in the agent, and it is the one whose renderer is
\* named, if any is.
Finalizable(t) ==
  /\ Over(t) /\ turn[t].user \in Users /\ lease[turn[t].user] \in {0, t}
  /\ lease[turn[t].user] # t => turn[t].kept = "none"
  /\ \A s \in Turns : Running(s) => turn[s].user # turn[t].user
  /\ \A s \in Turns : BeingStopped(s) => s = t
  /\ phase = "closed" => \A s \in Turns : ~Running(s)

LEMMA StoppedKeeps ==
  ASSUME TurnInv, NEW t \in Turns, NEW report \in Reports,
         Finalizable(t), Stopped(t, report), upd' = NoUpdate
  PROVE  TurnInv'
<1> USE DEF TurnInv
<1> DEFINE kept == IF lease[turn[t].user] = t /\ turn[t].kept = "open"
                   THEN "void" ELSE turn[t].kept
<1> PICK u : u = turn[t].user
  OBVIOUS
<1>1. /\ Over(t) /\ u \in Users /\ lease[u] \in {0, t} /\ ~Running(t)
      /\ \A s \in Turns : Running(s) => turn[s].user # u
      /\ \A s \in Turns : BeingStopped(s) => s = t
  BY DEF Finalizable, Over, Running
<1>2. /\ turn[t] \in Tasks /\ kept \in Outcomes /\ turn[t].at \in Places
  <2>1. turn[t] \in Tasks
    BY DEF TypeInv
  <2> QED BY <2>1 DEF Tasks, Outcomes
<1>3. turn' = [turn EXCEPT ![t].report = report, ![t].kept = kept]
  BY DEF Stopped, TypeInv
<1>4. Row(t, turn[t].at, turn[t].told, kept, report)
  <2> HIDE DEF kept
  <2> QED BY <1>2, <1>3, RowReport
<1>5. kept = "answer" <=> report = "answer"
  BY DEF Stopped, Finalized, Finalizable, KeptInv, KeptOf
<1>6. kept # "open" /\ (kept = "answer" => turn[t].kept = "answer")
  BY DEF Finalizable, KeptInv, KeptOf
<1>7. /\ lease' = [lease EXCEPT ![u] = 0] /\ asked' = asked \ {u}
      /\ renderer' = [renderer EXCEPT ![u] = 0]
      /\ struck' = struck \cup (IF report = "answer" THEN {} ELSE {renderer[u]} \ {0})
      /\ UNCHANGED <<prompt, phase, userTask, session, final>>
  BY DEF Stopped
<1> HIDE DEF kept
<1>8. /\ turn' \in [Turns -> Tasks]
      /\ \A s \in Turns :
           /\ turn'[s].at = turn[s].at /\ turn'[s].user = turn[s].user
           /\ turn'[s].told = turn[s].told /\ turn'[s].session = turn[s].session
           /\ s # t => turn'[s] = turn[s]
  BY <1>4 DEF Row
<1>9. renderer[u] \in {0, t}
  BY <1>1 DEF RendererInv, RendererOf, InAgent, Running, TypeInv
<1>10. \A s \in Turns : ~BeingStopped(s)'
  BY DEF NoUpdate, BeingStopped
<1>11. upd' \in Updates /\ upd'.kind = "none"
  BY DEF NoUpdate, Updates
<1>12. TypeInv'
  BY <1>1, <1>7, <1>8, <1>9, <1>11 DEF TypeInv
<1>13. TaskInv'
  <2>1. ASSUME NEW s \in Turns PROVE BornOf(s)' /\ RunsOf(s)'
    <3>1. BornOf(s) /\ RunsOf(s)
      BY DEF TaskInv
    <3>2. BornOf(s)'
      BY <1>8, <3>1 DEF BornOf, Running
    <3>3. ASSUME Running(s) PROVE RunsOf(s)'
      <4>1. turn[s].user # u /\ ~BeingStopped(s)
        BY <1>1, <3>3
      <4>2. turn[s].at # "unborn"
        BY <3>3 DEF Running
      <4>3. lease'[turn[s].user] = lease[turn[s].user]
        BY <1>7, <4>1, <4>2, <3>1 DEF BornOf, TypeInv
      <4> QED BY <1>7, <1>8, <3>1, <3>3, <4>1, <4>3 DEF RunsOf
    <3>4. Running(s)' => Running(s)
      BY <1>8 DEF Running
    <3> QED BY <3>2, <3>3, <3>4 DEF RunsOf
  <2>2. ASSUME NEW v \in Users PROVE ListedOf(v)'
    BY <1>7, <1>8 DEF TaskInv, ListedOf, TypeInv
  <2> QED BY <2>1, <2>2 DEF TaskInv
<1>14. FinalInv'
  BY <1>7, <1>8 DEF FinalInv, FinalOf, TypeInv
<1>15. LeaseInv'
  <2>1. ASSUME NEW v \in Users PROVE LeaseOf(v)'
    <3>1. CASE v = u
      BY <3>1, <1>1, <1>7 DEF LeaseOf, TypeInv
    <3>2. CASE v # u
      <4>1. LeaseOf(v) /\ lease[v] \in Turns \cup {0} /\ lease'[v] = lease[v]
        BY <3>2, <1>1, <1>7 DEF LeaseInv, TypeInv
      <4> PICK l : l = lease[v]
        OBVIOUS
      <4>2. l # 0 => l \in Turns /\ l # t /\ turn'[l] = turn[l] /\ ~BeingStopped(l)
        BY <4>1, <3>2, <1>1, <1>8 DEF LeaseOf
      <4> QED BY <4>1, <4>2, <1>7 DEF LeaseOf, InAgent, Over
    <3> QED BY <3>1, <3>2
  <2>2. ASSUME NEW s \in Turns, InAgent(s)' PROVE lease'[turn'[s].user] = s
    <3>1. InAgent(s) /\ Running(s)
      BY <2>2, <1>8 DEF InAgent, Running
    <3>2. turn[s].user # u /\ turn'[s].user = turn[s].user /\ turn[s].user \in Users
      BY <3>1, <1>1, <1>8 DEF TaskInv, BornOf, Running
    <3> QED BY <3>1, <3>2, <1>7 DEF LeaseInv, TypeInv
  <2> QED BY <2>1, <2>2 DEF LeaseInv
<1>16. KeptInv'
  <2>1. ASSUME NEW s \in Turns PROVE KeptOf(s)'
    <3>1. CASE s = t
      <4>1. Agrees(s)'
        BY <3>1, <1>4, <1>5, <1>6 DEF Row, Agrees
      <4>2. lease'[turn'[s].user] = 0
        BY <3>1, <1>1, <1>7, <1>8 DEF TypeInv
      <4>3. turn'[s].at \in {"done", "reaped"}
        BY <3>1, <1>1, <1>8 DEF Over
      <4> QED BY <4>1, <4>2, <4>3, TurnsArePositive DEF KeptOf, InAgent, Over
    <3>2. CASE s # t
      <4>1. turn'[s] = turn[s] /\ ~BeingStopped(s)
        BY <3>2, <1>1, <1>8
      <4>2. lease'[turn[s].user] = s <=> lease[turn[s].user] = s
        <5>1. CASE turn[s].user = u
          BY <5>1, <3>2, <1>1, <1>7, TurnsArePositive DEF TypeInv
        <5>2. CASE turn[s].user # u
          BY <5>2, <1>7 DEF TypeInv
        <5> QED BY <5>1, <5>2
      <4> QED BY <4>1, <4>2, KeptElse
    <3> QED BY <3>1, <3>2
  <2> QED BY <2>1 DEF KeptInv
<1>17. RendererInv'
  <2>1. ASSUME NEW v \in Users PROVE RendererOf(v)'
    <3>1. CASE v = u
      BY <3>1, <1>1, <1>7 DEF RendererOf, TypeInv
    <3>2. CASE v # u
      <4>1. RendererOf(v) /\ renderer[v] \in Turns \cup {0} /\ lease'[v] = lease[v]
            /\ renderer'[v] = renderer[v]
        BY <3>2, <1>1, <1>7 DEF RendererInv, TypeInv
      <4>2. renderer[v] # 0 => turn'[renderer[v]] = turn[renderer[v]]
        BY <4>1, <3>2, <1>1, <1>8 DEF RendererOf
      <4> QED BY <4>1, <4>2, RendererElse
    <3> QED BY <3>1, <3>2
  <2>2. ASSUME NEW s \in struck' PROVE Over(s)' /\ turn'[s].kept # "answer"
    <3>1. CASE s = t
      <4>1. turn'[t].kept = kept /\ turn'[t].at = turn[t].at
        BY <1>4 DEF Row
      <4>2. s \notin struck => report # "answer"
        BY <1>7
      <4>3. s \in struck => turn[t].kept # "answer"
        BY <3>1 DEF RendererInv
      <4> QED BY <3>1, <4>1, <4>2, <4>3, <1>1, <1>5, <1>6 DEF Over
    <3>2. CASE s # t
      <4>1. s \in struck
        BY <3>2, <1>7, <1>9
      <4>2. s \in Turns /\ turn'[s] = turn[s]
        BY <3>2, <4>1, <1>8 DEF TypeInv
      <4> QED BY <4>1, <4>2 DEF RendererInv, Over
    <3> QED BY <3>1, <3>2
  <2> QED BY <2>1, <2>2 DEF RendererInv
<1>18. StopInv'
  BY <1>10 DEF StopInv, StopOf
<1>19. UpdInv'
  BY <1>7, <1>8, <1>11 DEF UpdInv, Finalizable, Running
<1> QED BY <1>12, <1>13, <1>14, <1>15, <1>16, <1>17, <1>18, <1>19

LEMMA StopEndsKeeps ==
  ASSUME TurnInv, StopEnds
  PROVE  TurnInv'
<1> PICK t : t = upd.turn
  OBVIOUS
<1>1. PICK report \in Reports : Stopped(t, report)
  BY DEF StopEnds
<1>2. t \in Turns /\ BeingStopped(t) /\ ~Running(t) /\ upd' = NoUpdate
  BY DEF StopEnds, BeingStopped, TurnInv, UpdInv
<1>3. StopOf(t) /\ BornOf(t)
  BY <1>2 DEF TurnInv, StopInv, TaskInv
<1> PICK u : u = turn[t].user
  OBVIOUS
<1>4. Over(t) /\ u \in Users
  BY <1>2, <1>3 DEF StopOf, BornOf, Over, Running
<1>5. \A s \in Turns : Running(s) => turn[s].user # u
  BY <1>2, <1>3, TurnsArePositive DEF StopOf, TurnInv, TaskInv, RunsOf
<1>6. \A s \in Turns : BeingStopped(s) => s = t
  BY DEF BeingStopped
<1>7. lease[u] \in {0, t}
  <2> SUFFICES ASSUME lease[u] # 0 PROVE lease[u] = t
    OBVIOUS
  <2>1. LeaseOf(u) /\ lease[u] \in Turns
    BY <1>4 DEF TurnInv, LeaseInv, TypeInv
  <2>2. ~InAgent(lease[u])
    BY <2>1, <1>5 DEF LeaseOf, InAgent, Running
  <2> QED BY <2>1, <2>2, <1>2, <1>3, <1>6 DEF LeaseOf, StopOf
<1>8. Finalizable(t)
  BY <1>2, <1>3, <1>4, <1>5, <1>6, <1>7 DEF Finalizable, StopOf
<1> QED BY <1>1, <1>2, <1>8, StoppedKeeps

LEMMA FinalizeKeeps ==
  ASSUME TurnInv, NEW u \in Users, FinalizeOne(u)
  PROVE  TurnInv'
<1> PICK t : t = lease[u]
  OBVIOUS
<1>1. PICK report \in Reports : Stopped(t, report)
  BY DEF FinalizeOne
<1>2. /\ t \in Turns /\ phase = "closing" /\ upd = NoUpdate /\ upd' = NoUpdate
      /\ \A s \in Turns : ~Running(s)
  BY DEF FinalizeOne, AllStopped, TurnInv, TypeInv
<1>3. LeaseOf(u)
  BY DEF TurnInv, LeaseInv
<1>4. Over(t) /\ turn[t].user = u /\ t # 0
  BY <1>2, <1>3, TurnsArePositive DEF LeaseOf, InAgent, Running
<1>5. \A s \in Turns : ~BeingStopped(s)
  BY <1>2 DEF BeingStopped, NoUpdate
<1>6. Finalizable(t)
  BY <1>2, <1>4, <1>5 DEF Finalizable
<1> QED BY <1>1, <1>2, <1>6, StoppedKeeps

-----------------------------------------------------------------------------
(* Every step *)

LEMMA AsksKeep ==
  ASSUME TurnInv, UNCHANGED <<turn, upd, phase, struck, agentVars, runtime>>
  PROVE  TurnInv'
<1>1. /\ UNCHANGED <<turn, struck, lease, asked, userTask, session, renderer, final>>
      /\ upd' = upd /\ phase' = phase
  BY DEF agentVars, runtime
<1>2. upd' \in Updates /\ UpdInv' /\ \A t \in Turns : BeingStopped(t)' <=> BeingStopped(t)
  BY <1>1 DEF TurnInv, TypeInv, UpdInv, BeingStopped, Running
<1> QED BY <1>1, <1>2, HandledKeeps

\* Begin, Refuse, Refused, Emit, Emitted, EndTurn and Notices.
LEMMA GoesMoves ==
  ASSUME TurnInv, NEW t \in Turns,
         \/ Begin(t) \/ Refuse(t) \/ Refused(t) \/ Emit(t) \/ Emitted(t)
         \/ EndTurn(t) \/ Notices(t)
  PROVE  TurnInv'
<1>1. ASSUME NEW from, NEW at \in Places, Goes(t, from, at),
             \/ from \in {"created", "download"} /\ at \in {"download", "refuse"}
             \/ from = "refuse" /\ at = "done"
             \/ /\ from \in {"agent", "render", "turn_end", "notice"}
                /\ at \in {"agent", "render", "turn_end", "notice"},
             UNCHANGED <<upd, phase, struck, agentVars, runtime>>
      PROVE  TurnInv'
  <2>1. Row(t, at, turn[t].told, turn[t].kept, turn[t].report)
    BY <1>1, RowAt DEF Goes, TurnInv
  <2>2. Moves(t, at)
    BY <1>1, <2>1 DEF Moves, Goes, InAgent
  <2> QED BY <2>2, MovesKeep
<1>2. {"download", "refuse", "done", "agent", "render", "turn_end", "notice"} \subseteq Places
  BY DEF Places
<1>3. CASE Begin(t)
  BY <1>3, <1>1, <1>2 DEF Begin
<1>4. CASE Refuse(t)
  BY <1>4, <1>1, <1>2 DEF Refuse
<1>5. CASE Refused(t)
  BY <1>5, <1>1, <1>2 DEF Refused
<1>6. CASE Emit(t)
  BY <1>6, <1>1, <1>2 DEF Emit
<1>7. CASE Emitted(t)
  BY <1>7, <1>1, <1>2 DEF Emitted
<1>8. CASE EndTurn(t)
  BY <1>8, <1>1, <1>2 DEF EndTurn
<1>9. CASE Notices(t)
  BY <1>9, <1>1, <1>2 DEF Notices
<1> QED BY <1>3, <1>4, <1>5, <1>6, <1>7, <1>8, <1>9

LEMMA TurnInvInit == Init => TurnInv
<1> SUFFICES ASSUME Init PROVE TurnInv
  OBVIOUS
<1>1. /\ turn \in [Turns -> Tasks]
      /\ \A t \in Turns : /\ turn[t].at = "unborn" /\ turn[t].user = 0 /\ ~turn[t].told
                          /\ turn[t].kept = "none" /\ turn[t].report = "none"
  <2> DEFINE f == FALSE
  <2>1. f \in BOOLEAN /\ ~f
    OBVIOUS
  <2>2. turn = [t \in Turns |-> [at |-> "unborn", user |-> 0, session |-> 0,
                                 told |-> f, kept |-> "none", report |-> "none"]]
    BY DEF Init
  <2> HIDE DEF f
  <2> QED BY <2>1, <2>2 DEF Tasks, Places, Outcomes, Reports
<1>2. /\ userTask = [u \in Users |-> 0] /\ lease = [u \in Users |-> 0]
      /\ renderer = [u \in Users |-> 0] /\ session \in [Users -> Sessions]
      /\ final = {} /\ asked = {} /\ struck = {} /\ upd = NoUpdate /\ phase = "open"
  BY DEF Init
<1>3. upd \in Updates /\ upd.kind = "none"
  BY <1>2 DEF Updates, NoUpdate
<1>4. TypeInv
  BY <1>1, <1>2, <1>3 DEF TypeInv
<1>5. TaskInv
  BY <1>1, <1>2 DEF TaskInv, BornOf, RunsOf, ListedOf, Running
<1>6. FinalInv /\ LeaseInv
  BY <1>1, <1>2 DEF FinalInv, FinalOf, LeaseInv, LeaseOf, InAgent
<1>7. KeptInv
  BY <1>1 DEF KeptInv, KeptOf, InAgent, Over, Agrees
<1>8. RendererInv
  BY <1>2 DEF RendererInv, RendererOf
<1>9. StopInv
  BY <1>3 DEF StopInv, StopOf, BeingStopped
<1>10. UpdInv
  BY <1>2, <1>3 DEF UpdInv
<1> QED BY <1>4, <1>5, <1>6, <1>7, <1>8, <1>9, <1>10 DEF TurnInv

LEMMA TurnInvStep ==
  ASSUME TurnInv, [Next]_vars
  PROVE  TurnInv'
<1>1. ASSUME NEW t \in Turns, TurnStep(t) PROVE TurnInv'
  <2>1. ASSUME NEW P, Ask(t, P) PROVE TurnInv'
    BY <2>1, AsksKeep DEF Ask
  <2>2. CASE Delivered(t)
    BY <2>2, DeliveredLeaves, LeavesKeep
  <2> QED BY <1>1, <2>1, <2>2, GoesMoves, EnterKeeps, DeliverKeeps, UnwindKeeps,
             ReapKeeps DEF TurnStep
<1>2. ASSUME NEW p \in Prompts, PromptStep(p) PROVE TurnInv'
  <2>1. UNCHANGED <<turn, upd, phase, struck, agentVars, runtime>>
    BY <1>2 DEF PromptStep, Shown, Sent, Answered, Unlist, Return, CancelRequest,
             Expire, ExpiryEdit
  <2> QED BY <2>1, AsksKeep
<1>3. CASE UserStep
  BY <1>3, MessageKeeps, StopKeeps, SwitchKeeps, UpdatesKeep, ShutdownKeeps DEF UserStep
<1>4. CASE HandlerStep
  BY <1>4, UpdatesKeep, StopEndsKeeps, FinalizeKeeps DEF HandlerStep
<1>5. CASE UNCHANGED vars
  BY <1>5, AsksKeep DEF vars
<1> QED BY <1>1, <1>2, <1>3, <1>4, <1>5 DEF Next

LEMMA TurnsKept == Spec => []TurnInv
<1>1. Init => TurnInv
  BY TurnInvInit
<1>2. TurnInv /\ [Next]_vars => TurnInv'
  BY TurnInvStep
<1> QED BY <1>1, <1>2, PTL DEF Spec

\* What a user was told of a turn is what the transcript has, for any number of
\* users, turns and prompts: _run_turn, _stop, finalize_cancelled_turn, close.
THEOREM ChatKept == Spec => []ChatAgreesWithTranscript
<1>1. TurnInv => ChatAgreesWithTranscript
  <2> SUFFICES ASSUME TurnInv PROVE ChatAgreesWithTranscript
    OBVIOUS
  <2>1. ASSUME NEW t \in Turns, turn[t].at \in {"done", "reaped"},
               lease[turn[t].user] # t, upd.turn # t
        PROVE  turn[t].kept # "open" /\ (turn[t].kept = "answer" <=> turn[t].report = "answer")
    BY <2>1 DEF TurnInv, KeptInv, KeptOf, Over, BeingStopped, Agrees
  <2>2. \A t \in struck : turn[t].kept # "answer"
    BY DEF TurnInv, RendererInv
  <2> QED BY <2>1, <2>2 DEF ChatAgreesWithTranscript
<1> QED BY <1>1, TurnsKept, PTL

\* A running turn is the one /stop finds, and the agent is free when it begins.
LEMMA TurnFound == TurnInv => StopFindsTheTurn
<1> SUFFICES ASSUME TurnInv, NEW t \in Turns, Running(t)
             PROVE  /\ userTask[turn[t].user] = t /\ session[turn[t].user] = turn[t].session
                    /\ lease[turn[t].user] \in {0, t}
                    /\ turn[t].user \in final <=> turn[t].at = "final"
  BY DEF StopFindsTheTurn
<1>1. RunsOf(t) /\ turn[t].user \in Users /\ t # 0
  BY TurnsArePositive DEF TurnInv, TaskInv, BornOf, Running
<1> QED BY <1>1 DEF TurnInv, RunsOf, FinalInv, FinalOf

-----------------------------------------------------------------------------
(* Prompts *)

Told(r) == turn[r.turn].told

\* The handler has not come to it yet.
Pending(p, t) ==
  \/ BeingStopped(t) /\ p \in upd.todo
  \/ phase = "closing" /\ (upd.kind = "deny" => p \in upd.todo)

\* The buttons are there, and nobody tried to remove them.
Left(r) == r.sent /\ r.buttons /\ ~r.missed

Shape(r) ==
  /\ r.at = "unsent" => /\ r.turn = 0 /\ r.fut = "open" /\ r.timer = "off"
                        /\ ~r.hit /\ ~r.sent /\ ~r.shown /\ ~r.listed
  /\ r.at # "unsent" => r.turn # 0 /\ turn[r.turn].at # "unborn"
  /\ r.at \notin {"unsent", "finished"} => turn[r.turn].at = "agent"
  /\ r.hit => r.at = "finished" \/ (r.broken /\ r.at \in {"closing", "removing"})
  /\ r.sent \/ r.buttons => r.shown
  /\ r.gone => r.sent /\ ~r.buttons
  /\ r.at = "sending" => ~r.sent
  /\ r.at \in {"sending", "waiting", "closing"} => r.listed
  /\ r.at = "removing" => r.fut # "open" /\ r.sent
  /\ r.timer = "removing" => r.sent

\* An open answer, and buttons, are closed by the request itself, or by the
\* handler of the Stop or the shutdown that cancelled it.
Closes(p, r) ==
  r.turn # 0 =>
    /\ r.fut = "open" =>
         /\ r.listed
         /\ IF Told(r) THEN Pending(p, r.turn) ELSE r.at # "finished"
    /\ Left(r) /\ r.at # "removing" =>
         /\ r.listed
         /\ IF Told(r) THEN Pending(p, r.turn) \/ upd.edit = p ELSE r.at # "finished"

Fits(p, r) ==
  /\ Shape(r) /\ Closes(p, r)
  /\ p \in upd.todo => r.at # "unsent"
  /\ upd.edit = p => r.sent

PromptInv == \A p \in Prompts : Fits(p, prompt[p])

BridgeInv == TurnInv /\ Approvals /\ PromptInv

\* One request changes, and nothing else.
LEMMA FitsOne ==
  ASSUME PromptInv, Approvals, NEW p \in Prompts, NEW q, Fits(p, q),
         prompt' = [prompt EXCEPT ![p] = q], UNCHANGED <<turn, upd, phase>>
  PROVE  PromptInv'
<1> SUFFICES ASSUME NEW s \in Prompts PROVE Fits(s, prompt[s])'
  BY DEF PromptInv
<1>1. Fits(s, prompt'[s])
  BY DEF PromptInv, Approvals
<1> QED BY <1>1 DEF Fits, Shape, Closes, Told, Pending, BeingStopped

\* So it is with the step of a prompt.
Becomes(p, q) ==
  /\ prompt' = [prompt EXCEPT ![p] = q]
  /\ UNCHANGED <<turn, upd, phase, struck, agentVars, runtime>>

LEMMA BecomesFits ==
  ASSUME PromptInv, Approvals, NEW p \in Prompts, NEW q, Fits(p, q), Becomes(p, q)
  PROVE  PromptInv'
BY FitsOne DEF Becomes

\* What a request is.
LEMMA RequestNow ==
  ASSUME BridgeInv, NEW p \in Prompts
  PROVE  prompt[p] \in Requests /\ Fits(p, prompt[p])
BY DEF BridgeInv, Approvals, PromptInv

LEMMA ShownFits ==
  ASSUME BridgeInv, NEW p \in Prompts, Shown(p)
  PROVE  PromptInv'
<1> DEFINE r == prompt[p]
           q == [r EXCEPT !.shown = TRUE, !.buttons = TRUE]
<1>1. r \in Requests /\ Fits(p, r)
  BY RequestNow
<1>2. Becomes(p, q) /\ r.at = "sending" /\ ~r.shown
  BY <1>1 DEF Shown, Becomes, Requests
<1> HIDE DEF r
<1>3. /\ q.turn = r.turn /\ q.at = r.at /\ q.fut = r.fut /\ q.timer = r.timer
      /\ q.listed = r.listed /\ q.sent = r.sent /\ q.gone = r.gone
      /\ q.missed = r.missed /\ q.broken = r.broken /\ q.hit = r.hit
      /\ q.shown /\ q.buttons
  BY <1>1 DEF Requests
<1> HIDE DEF q
<1>4. Fits(p, q)
  BY <1>1, <1>2, <1>3 DEF Fits, Shape, Closes, Told, Left
<1> QED BY <1>2, <1>4, BecomesFits DEF BridgeInv

LEMMA SentFits ==
  ASSUME BridgeInv, NEW p \in Prompts, Sent(p)
  PROVE  PromptInv'
<1> DEFINE r == prompt[p]
           q == [r EXCEPT !.sent = TRUE, !.at = "waiting"]
<1>1. r \in Requests /\ Fits(p, r)
  BY RequestNow
<1>2. Becomes(p, q) /\ r.at = "sending" /\ r.shown /\ (r.turn # 0 => ~Told(r) \/ r.hit)
  BY <1>1 DEF Sent, Struck, Told, Becomes, Requests
<1> HIDE DEF r
<1>3. /\ q.turn = r.turn /\ q.at = "waiting" /\ q.fut = r.fut /\ q.timer = r.timer
      /\ q.listed = r.listed /\ q.sent /\ q.gone = r.gone
      /\ q.missed = r.missed /\ q.broken = r.broken /\ q.hit = r.hit
      /\ q.shown = r.shown /\ q.buttons = r.buttons
  BY <1>1 DEF Requests
<1> HIDE DEF q
<1>4. Fits(p, q)
  BY <1>1, <1>2, <1>3 DEF Fits, Shape, Closes, Told, Left
<1> QED BY <1>2, <1>4, BecomesFits DEF BridgeInv

LEMMA AnsweredFits ==
  ASSUME BridgeInv, NEW p \in Prompts, Answered(p)
  PROVE  PromptInv'
<1> DEFINE r == prompt[p]
<1>1. r \in Requests /\ Fits(p, r)
  BY RequestNow
<1>2. PICK broken \in BOOLEAN : Becomes(p, Closing(p, broken))
  BY DEF Answered, Becomes
<1> DEFINE q == Closing(p, broken)
<1>3. r.at \in {"sending", "waiting"} /\ (r.turn # 0 => ~Told(r) \/ r.hit)
  BY <1>1 DEF Answered, Struck, Told, Requests
<1>4. /\ q.turn = r.turn /\ q.at = "closing" /\ q.fut = r.fut /\ q.timer = "off"
      /\ q.listed = r.listed /\ q.sent = r.sent /\ q.gone = r.gone
      /\ q.missed = r.missed /\ q.hit = r.hit
      /\ q.shown = r.shown /\ q.buttons = r.buttons
  BY <1>1 DEF Requests, Closing
<1> HIDE DEF q, r
<1>5. Fits(p, q)
  BY <1>1, <1>3, <1>4 DEF Fits, Shape, Closes, Told, Left
<1>6. PromptInv'
  BY <1>2, <1>5, BecomesFits DEF BridgeInv, q
<1> QED BY <1>6

LEMMA UnlistFits ==
  ASSUME BridgeInv, NEW p \in Prompts, Unlist(p)
  PROVE  PromptInv'
<1> DEFINE r == prompt[p]
           f == IF r.fut = "open" THEN "cancelled" ELSE r.fut
           a == IF Removable(p) THEN "removing" ELSE "finished"
           n == ~Removable(p) /\ ~r.broken /\ r.fut = "yes"
           q == [r EXCEPT !.listed = FALSE, !.fut = f, !.at = a, !.ran = n]
<1>1. r \in Requests /\ Fits(p, r)
  BY RequestNow
<1>2. /\ Becomes(p, q) /\ r.at = "closing" /\ f # "open"
      /\ a \in {"removing", "finished"} /\ (a = "removing" <=> r.sent /\ ~r.gone)
  BY <1>1 DEF Unlist, Removable, Becomes, Requests
<1> HIDE DEF r, f, a, n
<1>3. /\ q.turn = r.turn /\ q.at = a /\ q.fut = f /\ q.timer = r.timer
      /\ q.sent = r.sent /\ q.gone = r.gone
      /\ q.missed = r.missed /\ q.broken = r.broken /\ q.hit = r.hit
      /\ q.shown = r.shown /\ q.buttons = r.buttons
  BY <1>1 DEF Requests
<1> HIDE DEF q
<1>4. Fits(p, q)
  BY <1>1, <1>2, <1>3 DEF Fits, Shape, Closes, Told, Left
<1> QED BY <1>2, <1>4, BecomesFits DEF BridgeInv

\* An edit that worked or was tried leaves no buttons to remove.
LEMMA RemovalFits ==
  ASSUME BridgeInv, NEW p \in Prompts, NEW ok \in BOOLEAN, prompt[p].sent
  PROVE  LET q == Removal(p, ok) r == prompt[p]
         IN  /\ q \in Requests
             /\ q.turn = r.turn /\ q.at = r.at /\ q.fut = r.fut /\ q.timer = r.timer
             /\ q.listed = r.listed /\ q.sent = r.sent /\ q.broken = r.broken
             /\ q.hit = r.hit /\ q.shown = r.shown
             /\ q.buttons => r.buttons
             /\ q.gone => ~q.buttons
             /\ ~Left(q)
<1> DEFINE r == prompt[p]
           q == Removal(p, ok)
<1>1. r \in Requests /\ Fits(p, r)
  BY RequestNow
<1>2. q \in Requests /\ q.sent = r.sent
  <2>1. q \in Requests
    BY RemovalSound DEF Sound, BridgeInv
  <2> QED BY <2>1, <1>1 DEF Removal, Requests
<1>3. /\ q.turn = r.turn /\ q.at = r.at /\ q.fut = r.fut /\ q.timer = r.timer
      /\ q.listed = r.listed /\ q.broken = r.broken
      /\ q.hit = r.hit /\ q.shown = r.shown
  BY <1>1 DEF Removal, Requests
<1>4. (~q.buttons /\ q.gone) \/ (q.buttons = r.buttons /\ q.gone = r.gone /\ q.missed)
  <2>1. CASE ok
    BY <2>1, <1>1 DEF Removal, Requests
  <2>2. CASE ~ok
    BY <2>2, <1>1 DEF Removal, Requests
  <2> QED BY <2>1, <2>2
<1> HIDE DEF r, q
<1>5. (q.buttons => r.buttons) /\ (q.gone => ~q.buttons) /\ ~Left(q)
  BY <1>1, <1>2, <1>4 DEF Fits, Shape, Left
<1> QED BY <1>2, <1>3, <1>5 DEF r, q

LEMMA ReturnFits ==
  ASSUME BridgeInv, NEW p \in Prompts, Return(p)
  PROVE  PromptInv'
<1> DEFINE r == prompt[p]
           n == ~r.broken /\ r.fut = "yes"
<1>1. r \in Requests /\ Fits(p, r) /\ r.at = "removing"
  BY RequestNow DEF Return
<1>2. PICK ok \in BOOLEAN :
        Becomes(p, [Removal(p, ok) EXCEPT !.at = "finished", !.ran = n])
  BY WorksBoolean DEF Return, Becomes
<1> DEFINE m == Removal(p, ok)
           q == [m EXCEPT !.at = "finished", !.ran = n]
<1>3. r.sent
  BY <1>1 DEF Fits, Shape
<1>4. /\ m \in Requests /\ m.turn = r.turn /\ m.fut = r.fut /\ m.timer = r.timer
      /\ m.listed = r.listed /\ m.sent = r.sent /\ m.broken = r.broken
      /\ m.hit = r.hit /\ m.shown = r.shown
      /\ m.buttons => r.buttons
      /\ m.gone => ~m.buttons
      /\ ~Left(m)
  BY <1>3, RemovalFits
<1> HIDE DEF r, m, n
<1>5. /\ q.turn = m.turn /\ q.at = "finished" /\ q.fut = m.fut /\ q.timer = m.timer
      /\ q.listed = m.listed /\ q.sent = m.sent /\ q.gone = m.gone
      /\ q.missed = m.missed /\ q.broken = m.broken /\ q.hit = m.hit
      /\ q.shown = m.shown /\ q.buttons = m.buttons
  BY <1>4 DEF Requests
<1> HIDE DEF q
<1>6. Fits(p, q)
  BY <1>1, <1>3, <1>4, <1>5 DEF Fits, Shape, Closes, Told, Left
<1>7. Becomes(p, q)
  BY <1>2 DEF q, m
<1> QED BY <1>6, <1>7, BecomesFits DEF BridgeInv

LEMMA CancelRequestFits ==
  ASSUME BridgeInv, NEW p \in Prompts, CancelRequest(p)
  PROVE  PromptInv'
<1> DEFINE r == prompt[p]
           c == Closing(p, TRUE)
           a == [c EXCEPT !.hit = TRUE]
           m == r.missed \/ r.at = "removing"
           b == [r EXCEPT !.hit = TRUE, !.at = "finished", !.missed = m, !.ran = FALSE]
<1>1. r \in Requests /\ Fits(p, r) /\ Told(r) /\ r.turn # 0
  BY RequestNow DEF CancelRequest, Struck, Told
<1>2. CASE r.at \in {"sending", "waiting"}
  <2>1. Becomes(p, a)
    BY <1>2 DEF CancelRequest, Becomes
  <2>2. /\ c \in Requests /\ c.turn = r.turn /\ c.at = "closing" /\ c.fut = r.fut
        /\ c.timer = "off" /\ c.listed = r.listed /\ c.sent = r.sent /\ c.gone = r.gone
        /\ c.missed = r.missed /\ c.broken /\ c.shown = r.shown /\ c.buttons = r.buttons
    <3>1. c \in Requests
      BY ClosingSound DEF Sound, BridgeInv
    <3> QED BY <1>1, <3>1 DEF Closing, Requests
  <2> HIDE DEF c, r
  <2>3. /\ a.turn = r.turn /\ a.at = "closing" /\ a.fut = r.fut
        /\ a.timer = "off" /\ a.listed = r.listed /\ a.sent = r.sent /\ a.gone = r.gone
        /\ a.missed = r.missed /\ a.broken /\ a.shown = r.shown /\ a.buttons = r.buttons
        /\ a.hit
    BY <2>2 DEF Requests
  <2> HIDE DEF a
  <2>4. Fits(p, a)
    BY <1>1, <1>2, <2>3 DEF Fits, Shape, Closes, Told, Left
  <2> QED BY <2>1, <2>4, BecomesFits DEF BridgeInv
<1>3. CASE r.at \notin {"sending", "waiting"}
  <2>1. Becomes(p, b) /\ r.at \in {"closing", "removing"}
    BY <1>3 DEF CancelRequest, RanWhenCancelled, Becomes
  <2>2. m \in BOOLEAN /\ (m <=> r.missed \/ r.at = "removing")
    BY <1>1 DEF Requests
  <2> HIDE DEF m, r
  <2>3. /\ b.turn = r.turn /\ b.at = "finished" /\ b.fut = r.fut
        /\ b.timer = r.timer /\ b.listed = r.listed /\ b.sent = r.sent /\ b.gone = r.gone
        /\ b.missed = m /\ b.broken = r.broken /\ b.shown = r.shown
        /\ b.buttons = r.buttons
    BY <1>1 DEF Requests
  <2> HIDE DEF b
  <2>4. Fits(p, b)
    BY <1>1, <2>1, <2>2, <2>3 DEF Fits, Shape, Closes, Told, Left
  <2> QED BY <2>1, <2>4, BecomesFits DEF BridgeInv
<1> QED BY <1>2, <1>3

LEMMA ExpireFits ==
  ASSUME BridgeInv, NEW p \in Prompts, Expire(p)
  PROVE  PromptInv'
<1> DEFINE r == prompt[p]
           m == IF Removable(p) THEN "removing" ELSE "off"
           q == [r EXCEPT !.fut = "no", !.timer = m]
<1>1. r \in Requests /\ Fits(p, r) /\ r.timer = "sleeping"
  BY RequestNow DEF Expire, Due
<1>2. Becomes(p, q) /\ (m = "removing" => r.sent)
  BY <1>1 DEF Expire, Becomes, Removable, Requests
<1> HIDE DEF r, m
<1>3. /\ q.turn = r.turn /\ q.at = r.at /\ q.fut = "no" /\ q.timer = m
      /\ q.listed = r.listed /\ q.sent = r.sent /\ q.gone = r.gone
      /\ q.missed = r.missed /\ q.broken = r.broken /\ q.hit = r.hit
      /\ q.shown = r.shown /\ q.buttons = r.buttons
  BY <1>1 DEF Requests
<1> HIDE DEF q
<1>4. Fits(p, q)
  BY <1>1, <1>2, <1>3 DEF Fits, Shape, Closes, Told, Left
<1> QED BY <1>2, <1>4, BecomesFits DEF BridgeInv

LEMMA ExpiryEditFits ==
  ASSUME BridgeInv, NEW p \in Prompts, ExpiryEdit(p)
  PROVE  PromptInv'
<1> DEFINE r == prompt[p]
<1>1. r \in Requests /\ Fits(p, r) /\ r.timer = "removing"
  BY RequestNow DEF ExpiryEdit
<1>2. PICK ok \in BOOLEAN : Becomes(p, [Removal(p, ok) EXCEPT !.timer = "off"])
  BY WorksBoolean DEF ExpiryEdit, Becomes
<1> DEFINE m == Removal(p, ok)
           q == [m EXCEPT !.timer = "off"]
<1>3. r.sent
  BY <1>1 DEF Fits, Shape
<1>4. /\ m \in Requests /\ m.turn = r.turn /\ m.at = r.at /\ m.fut = r.fut
      /\ m.listed = r.listed /\ m.sent = r.sent /\ m.broken = r.broken
      /\ m.hit = r.hit /\ m.shown = r.shown
      /\ m.buttons => r.buttons
      /\ m.gone => ~m.buttons
      /\ ~Left(m)
  BY <1>3, RemovalFits
<1> HIDE DEF r, m
<1>5. /\ q.turn = m.turn /\ q.at = m.at /\ q.fut = m.fut /\ q.timer = "off"
      /\ q.listed = m.listed /\ q.sent = m.sent /\ q.gone = m.gone
      /\ q.missed = m.missed /\ q.broken = m.broken /\ q.hit = m.hit
      /\ q.shown = m.shown /\ q.buttons = m.buttons
  BY <1>4 DEF Requests
<1> HIDE DEF q
<1>6. Fits(p, q)
  BY <1>1, <1>3, <1>4, <1>5 DEF Fits, Shape, Closes, Told, Left
<1>7. Becomes(p, q)
  BY <1>2 DEF q, m
<1> QED BY <1>6, <1>7, BecomesFits DEF BridgeInv

LEMMA PromptStepFits ==
  ASSUME BridgeInv, NEW p \in Prompts, PromptStep(p)
  PROVE  PromptInv'
BY ShownFits, SentFits, AnsweredFits, UnlistFits, ReturnFits, CancelRequestFits,
   ExpireFits, ExpiryEditFits DEF PromptStep

\* What a turn does to its prompts: none is left behind by a turn that goes on.
Spared(t) ==
  /\ turn'[t].told = turn[t].told
  /\ turn[t].at # "unborn" => turn'[t].at # "unborn"
  /\ turn[t].at = "agent" => turn'[t].at = "agent" \/ ~Asking(t)

StillPending(p) == Pending(p, prompt[p].turn)

\* No prompt changes, and none that the handler was still to close is lost.
LEMMA ContextFits ==
  ASSUME BridgeInv, UNCHANGED prompt, \A t \in Turns : Spared(t),
         \A p \in Prompts : prompt[p].listed /\ StillPending(p) => StillPending(p)',
         \A p \in Prompts : p \in upd'.todo => p \in upd.todo \/ prompt[p].listed,
         upd'.edit \in {0, upd.edit}, upd.edit # 0 => upd'.edit = upd.edit
  PROVE  PromptInv'
<1> SUFFICES ASSUME NEW p \in Prompts PROVE Fits(p, prompt[p])'
  BY DEF PromptInv
<1> PICK r : r = prompt[p]
  OBVIOUS
<1>1. r \in Requests /\ Fits(p, r) /\ prompt' = prompt /\ p # 0
  BY RequestNow, TelegramAssumption DEF Prompts
<1>2. r.turn \in Turns \cup {0}
  BY <1>1 DEF Requests
<1>3. CASE r.turn = 0
  <2>1. p \in upd'.todo => r.at # "unsent"
    BY <1>1 DEF Fits, Shape
  <2> QED BY <1>1, <1>3, <2>1 DEF Fits, Shape, Closes
<1>4. CASE r.turn \in Turns
  <2> PICK t : t = r.turn
    OBVIOUS
  <2>1. Spared(t) /\ (r.at # "finished" => Asking(t))
    BY <1>4, <1>1 DEF Asking, Of
  <2>2. /\ r.at # "unsent" => turn'[t].at # "unborn"
        /\ r.at \notin {"unsent", "finished"} => turn'[t].at = "agent"
    BY <1>1, <2>1 DEF Fits, Shape, Spared
  <2>3. Shape(r)'
    BY <1>1, <2>2 DEF Fits, Shape
  <2>4. r.listed /\ Pending(p, t) => Pending(p, t)'
    BY DEF StillPending
  <2>5. Closes(p, r)'
    BY <1>1, <2>1, <2>4 DEF Fits, Closes, Told, Left, Spared
  <2>6. p \in upd'.todo => r.at # "unsent"
    BY <1>1 DEF Fits, Shape
  <2> QED BY <1>1, <2>3, <2>5, <2>6 DEF Fits
<1> QED BY <1>2, <1>3, <1>4

\* So it is when no handler is involved.
LEMMA TurnFits ==
  ASSUME BridgeInv, UNCHANGED <<prompt, upd, phase>>, \A t \in Turns : Spared(t)
  PROVE  PromptInv'
<1>1. \A p \in Prompts : StillPending(p) => StillPending(p)'
  BY DEF StillPending, Pending, BeingStopped
<1>2. TurnInv /\ upd' = upd
  BY DEF BridgeInv
<1> QED BY <1>1, <1>2, ContextFits

LEMMA RowFits ==
  ASSUME BridgeInv, UNCHANGED <<prompt, upd, phase>>,
         NEW t, NEW at, NEW kept, NEW report, Row(t, at, turn[t].told, kept, report),
         at # "unborn", turn[t].at = "agent" => at = "agent" \/ ~Asking(t)
  PROVE  PromptInv'
<1>1. ASSUME NEW s \in Turns PROVE Spared(s)
  BY DEF Row, Spared
<1> QED BY <1>1, TurnFits

LEMMA TurnStepFits ==
  ASSUME BridgeInv, NEW t \in Turns, TurnStep(t), \A P \in SUBSET Prompts : ~Ask(t, P)
  PROVE  PromptInv'
<1>0. TypeInv /\ turn[t] \in Tasks
  BY DEF BridgeInv, TurnInv, TypeInv
<1>1. ASSUME NEW from, NEW at \in Places, Goes(t, from, at), at # "unborn",
             from # "agent" \/ ~Asking(t), UNCHANGED <<prompt, upd, phase>>
      PROVE  PromptInv'
  <2>1. turn' = [turn EXCEPT ![t].at = at] /\ turn[t].at = from
    BY <1>1 DEF Goes
  <2>2. Row(t, at, turn[t].told, turn[t].kept, turn[t].report)
    BY <1>0, <2>1, RowAt
  <2> QED BY <1>1, <2>1, <2>2, RowFits
<1>2. {"download", "refuse", "done", "agent", "render", "turn_end", "notice"} \subseteq Places
  BY DEF Places
<1>3. CASE Begin(t) \/ Refuse(t) \/ Refused(t) \/ Emit(t) \/ Emitted(t)
           \/ EndTurn(t) \/ Notices(t) \/ Delivered(t)
  BY <1>3, <1>1, <1>2 DEF Begin, Refuse, Refused, Emit, Emitted, EndTurn, Notices,
     Delivered
<1>4. CASE Enter(t)
  <2>1. /\ turn' = [turn EXCEPT ![t].at = "agent", ![t].kept = "open"]
        /\ UNCHANGED <<prompt, upd, phase>>
    BY <1>4 DEF Enter
  <2>2. Row(t, "agent", turn[t].told, "open", turn[t].report)
    BY <1>0, <2>1, RowKept DEF Places, Outcomes
  <2> QED BY <2>1, <2>2, RowFits
<1>5. ASSUME NEW outcome \in Outcomes, NEW report \in Reports,
             Deliver(t, outcome, report), turn[t].at # "agent" \/ ~Asking(t)
      PROVE  PromptInv'
  <2>1. /\ turn' = [turn EXCEPT ![t].at = "final", ![t].kept = outcome, ![t].report = report]
        /\ UNCHANGED <<prompt, upd, phase>>
    BY <1>5 DEF Deliver
  <2>2. Row(t, "final", turn[t].told, outcome, report)
    BY <1>0, <2>1, RowReport DEF Places
  <2> QED BY <1>5, <2>1, <2>2, RowFits
<1>6. CASE Finish(t) \/ Fail(t)
  BY <1>5, <1>6 DEF Finish, Fail, Outcomes, Reports
<1>7. CASE Unwind(t)
  <2> PICK kept : kept = IF turn[t].at = "turn_end" THEN "answer" ELSE turn[t].kept
    OBVIOUS
  <2>1. kept \in Outcomes
    BY <1>0 DEF Tasks, Outcomes
  <2>2. /\ turn' = [turn EXCEPT ![t].at = "done", ![t].kept = kept]
        /\ UNCHANGED <<prompt, upd, phase>> /\ ~Asking(t)
    BY <1>7, <1>0 DEF Unwind, Tasks, TypeInv
  <2>3. Row(t, "done", turn[t].told, kept, turn[t].report)
    BY <1>0, <2>1, <2>2, RowKept DEF Places
  <2> QED BY <2>2, <2>3, RowFits
<1>8. CASE Reap(t)
  <2>1. /\ turn' = [turn EXCEPT ![t].at = "reaped"] /\ turn[t].at = "done"
        /\ UNCHANGED <<prompt, upd, phase>>
    BY <1>8 DEF Reap
  <2>2. Row(t, "reaped", turn[t].told, turn[t].kept, turn[t].report)
    BY <1>0, <2>1, RowAt DEF Places
  <2> QED BY <2>1, <2>2, RowFits
<1> QED BY <1>3, <1>4, <1>6, <1>7, <1>8 DEF TurnStep

LEMMA AskFits ==
  ASSUME BridgeInv, NEW t \in Turns, NEW P \in SUBSET Prompts, Ask(t, P)
  PROVE  PromptInv'
<1> DEFINE new(p) == [prompt[p] EXCEPT !.turn = t, !.at = "sending", !.timer = "sleeping",
                                       !.listed = TRUE]
<1>1. /\ turn[t].at = "agent" /\ ~turn[t].told
      /\ \A p \in P : prompt[p].at = "unsent"
      /\ prompt' = [p \in Prompts |-> IF p \in P THEN new(p) ELSE prompt[p]]
      /\ UNCHANGED <<turn, upd, phase>>
  BY DEF Ask
<1> SUFFICES ASSUME NEW p \in Prompts PROVE Fits(p, prompt[p])'
  BY DEF PromptInv
<1> DEFINE r == prompt[p]
           q == new(p)
<1>2. r \in Requests /\ Fits(p, r)
  BY RequestNow
<1>3. CASE p \notin P
  <2>1. prompt'[p] = r
    BY <1>1, <1>3
  <2> HIDE DEF r
  <2> QED BY <1>1, <1>2, <2>1 DEF Fits, Shape, Closes, Told, Pending, BeingStopped
<1>4. CASE p \in P
  <2>1. prompt'[p] = q /\ r.at = "unsent"
    BY <1>1, <1>4
  <2> HIDE DEF r
  <2>2. /\ q.turn = t /\ q.at = "sending" /\ q.fut = r.fut /\ q.timer = "sleeping"
        /\ q.listed /\ q.sent = r.sent /\ q.gone = r.gone
        /\ q.missed = r.missed /\ q.broken = r.broken /\ q.hit = r.hit
        /\ q.shown = r.shown /\ q.buttons = r.buttons
    BY <1>2 DEF Requests, r
  <2> HIDE DEF q, new
  <2>3. t # 0
    BY TurnsArePositive
  <2>4. Fits(p, q)
    BY <1>1, <1>2, <2>1, <2>2, <2>3 DEF Fits, Shape, Closes, Told, Left
  <2> QED BY <1>1, <2>1, <2>4 DEF Fits, Shape, Closes, Told, Pending, BeingStopped
<1> QED BY <1>3, <1>4

\* Between updates nothing waits for a handler.
LEMMA NothingPends ==
  ASSUME BridgeInv, upd.kind # "stop", phase # "closing" \/ (upd.kind = "deny" /\ upd.todo = {})
  PROVE  \A p \in Prompts : ~StillPending(p)
BY DEF StillPending, Pending, BeingStopped

LEMMA MessageFits ==
  ASSUME BridgeInv, NEW u \in Users, Message(u) \/ \E s \in Sessions : SwitchSession(u, s)
  PROVE  PromptInv'
<1>1. CASE Message(u)
  <2>1. PICK t \in Turns :
          /\ turn[t].at = "unborn"
          /\ turn' = [turn EXCEPT ![t].at = "created", ![t].user = u,
                                  ![t].session = session[u]]
    BY <1>1 DEF Message
  <2> DEFINE f == [turn[t] EXCEPT !.at = "created"]
             g == [f EXCEPT !.user = u]
             q == [g EXCEPT !.session = session[u]]
  <2>2. turn[t] \in Tasks /\ session[u] \in Sessions /\ turn \in [Turns -> Tasks]
    BY DEF BridgeInv, TurnInv, TypeInv
  <2>3. f \in Tasks /\ f.at = "created" /\ f.told = turn[t].told
    BY <2>2 DEF Tasks, Places
  <2>4. turn' = [turn EXCEPT ![t] = q]
    BY <2>1
  <2> HIDE DEF f
  <2>5. g \in Tasks /\ g.at = "created" /\ g.told = turn[t].told
    BY <2>3 DEF Tasks
  <2> HIDE DEF g
  <2>6. q \in Tasks /\ q.at = "created" /\ q.told = turn[t].told
    BY <2>2, <2>5 DEF Tasks
  <2> HIDE DEF q
  <2>7. \A s \in Turns : Spared(s)
    BY <2>1, <2>2, <2>4, <2>6 DEF Spared
  <2>8. UNCHANGED <<prompt, upd, phase>>
    BY <1>1 DEF Message
  <2> QED BY <2>7, <2>8, TurnFits
<1>2. ASSUME NEW s \in Sessions, SwitchSession(u, s) PROVE PromptInv'
  <2>1. UNCHANGED <<turn, prompt, upd, phase>>
    BY <1>2 DEF SwitchSession
  <2>2. \A t \in Turns : Spared(t)
    BY <2>1 DEF Spared
  <2> QED BY <2>1, <2>2, TurnFits
<1> QED BY <1>1, <1>2

\* The end of a wait, of a Stop and of a shutdown, and what is finalized.
LEMMA EndsFit ==
  ASSUME BridgeInv, Waited \/ StopEnds \/ DenyAll \/ Close \/ \E u \in Users : FinalizeOne(u)
  PROVE  PromptInv'
<1>0. /\ NoUpdate.edit = 0 /\ NoUpdate.todo = {} /\ NoUpdate.kind = "none"
      /\ TurnInv /\ UpdInv
  BY DEF NoUpdate, BridgeInv, TurnInv
<1>1. ASSUME NEW t, NEW report \in Reports, Stopped(t, report)
      PROVE  UNCHANGED <<prompt, phase>> /\ \A s \in Turns : Spared(s)
  <2> DEFINE kept == IF lease[turn[t].user] = t /\ turn[t].kept = "open"
                     THEN "void" ELSE turn[t].kept
  <2>1. UNCHANGED <<prompt, phase>>
    BY <1>1 DEF Stopped
  <2>2. CASE t \in Turns
    <3>1. turn[t] \in Tasks /\ TypeInv
      BY <2>2 DEF BridgeInv, TurnInv, TypeInv
    <3>2. kept \in Outcomes /\ turn[t].at \in Places
      BY <3>1 DEF Tasks, Outcomes
    <3>3. turn' = [turn EXCEPT ![t].report = report, ![t].kept = kept]
      BY <1>1, <2>2, <3>1 DEF Stopped, TypeInv
    <3> HIDE DEF kept
    <3>4. Row(t, turn[t].at, turn[t].told, kept, report)
      BY <2>2, <3>1, <3>2, <3>3, RowReport
    <3> QED BY <2>1, <3>4 DEF Row, Spared
  <2>3. CASE t \notin Turns
    <3>1. turn' = turn
      BY <1>1, <2>3 DEF Stopped, BridgeInv, TurnInv, TypeInv
    <3> QED BY <2>1, <3>1 DEF Spared
  <2> QED BY <2>2, <2>3
<1>2. CASE Waited
  <2>1. /\ UNCHANGED <<prompt, turn, phase>> /\ upd.kind = "wait" /\ upd' = NoUpdate
        /\ upd.edit = 0
    BY <1>2 DEF Waited, Denied
  <2>2. phase # "closing" /\ \A t \in Turns : Spared(t)
    BY <1>0, <2>1 DEF UpdInv, Spared
  <2> QED BY <1>0, <2>1, <2>2, NothingPends, ContextFits
<1>3. CASE StopEnds
  <2>1. /\ UNCHANGED prompt /\ \A t \in Turns : Spared(t)
        /\ upd.kind = "stop" /\ upd' = NoUpdate /\ upd.edit = 0 /\ upd.todo = {}
    BY <1>1, <1>3 DEF StopEnds, Denied
  <2>2. phase # "closing"
    BY <1>0, <2>1 DEF UpdInv
  <2>3. \A p \in Prompts : ~StillPending(p)
    BY <2>1, <2>2 DEF StillPending, Pending
  <2> QED BY <1>0, <2>1, <2>3, ContextFits
<1>4. CASE DenyAll
  <2> DEFINE S == {p \in Prompts : prompt[p].listed}
             f == [NoUpdate EXCEPT !.kind = "deny"]
             q == [f EXCEPT !.todo = S]
  <2>1. /\ UNCHANGED <<prompt, turn, phase>> /\ upd = NoUpdate /\ phase = "closing"
        /\ upd' = q
    BY <1>4 DEF DenyAll, AllStopped, NoUpdate
  <2>2. q.todo = S /\ q.edit = 0
    BY DEF NoUpdate
  <2>3. \A p \in Prompts : prompt[p].listed => p \in S
    OBVIOUS
  <2> HIDE DEF q, S
  <2>4. \A p \in Prompts : prompt[p].listed => StillPending(p)'
    BY <2>1, <2>2, <2>3 DEF StillPending, Pending
  <2>5. \A t \in Turns : Spared(t)
    BY <2>1 DEF Spared
  <2>6. \A p \in S : prompt[p].listed
    BY DEF S
  <2> QED BY <1>0, <2>1, <2>2, <2>4, <2>5, <2>6, ContextFits
<1>5. CASE Close
  <2>1. /\ UNCHANGED <<prompt, turn>> /\ upd.kind = "deny" /\ upd' = NoUpdate
        /\ upd.edit = 0 /\ upd.todo = {}
    BY <1>5 DEF Close, Denied
  <2>2. \A t \in Turns : Spared(t)
    BY <2>1 DEF Spared
  <2> QED BY <1>0, <2>1, <2>2, NothingPends, ContextFits
<1>6. ASSUME NEW u \in Users, FinalizeOne(u) PROVE PromptInv'
  <2>1. UNCHANGED <<prompt, phase, upd>> /\ \A t \in Turns : Spared(t)
    BY <1>1, <1>6 DEF FinalizeOne
  <2> QED BY <2>1, TurnFits
<1> QED BY <1>2, <1>3, <1>4, <1>5, <1>6

\* A handler denies a request: what it still has to do with it is the edit.
LEMMA DenyFits ==
  ASSUME BridgeInv, NEW p \in Prompts, Deny(p)
  PROVE  PromptInv'
<1> DEFINE n == IF Removable(p) THEN p ELSE 0
           m == IF prompt[p].fut = "open" THEN "no" ELSE prompt[p].fut
           c == [prompt[p] EXCEPT !.fut = m]
           f == [upd EXCEPT !.todo = upd.todo \ {p}]
           e == [f EXCEPT !.edit = n]
<1>0. prompt[p] \in Requests /\ upd \in Updates /\ Fits(p, prompt[p])
  BY RequestNow DEF BridgeInv, TurnInv, TypeInv
<1>1. /\ UNCHANGED <<turn, phase>> /\ upd.edit = 0
      /\ prompt' = [prompt EXCEPT ![p] = c] /\ upd' = e
  BY <1>0 DEF Deny, Updates, Requests
<1>2. /\ m # "open" /\ n \in Prompts \cup {0} /\ (n # 0 => n = p)
      /\ n = p \/ ~prompt[p].sent \/ prompt[p].gone
      /\ n = p => prompt[p].sent
  BY TelegramAssumption DEF Removable, Prompts
<1>3. f \in Updates /\ f.todo = upd.todo \ {p} /\ f.kind = upd.kind /\ f.turn = upd.turn
  BY <1>0 DEF Updates
<1> HIDE DEF f, n
<1>4. /\ e.todo = upd.todo \ {p} /\ e.kind = upd.kind /\ e.turn = upd.turn /\ e.edit = n
  BY <1>2, <1>3 DEF Updates
<1> HIDE DEF e, m
<1>5. /\ c.turn = prompt[p].turn /\ c.at = prompt[p].at /\ c.fut = m
      /\ c.timer = prompt[p].timer /\ c.listed = prompt[p].listed
      /\ c.sent = prompt[p].sent /\ c.gone = prompt[p].gone
      /\ c.missed = prompt[p].missed /\ c.broken = prompt[p].broken
      /\ c.hit = prompt[p].hit /\ c.shown = prompt[p].shown
      /\ c.buttons = prompt[p].buttons
  BY <1>0 DEF Requests
<1> HIDE DEF c
<1> PICK d : d = c
  OBVIOUS
<1> PICK k : k = n
  OBVIOUS
<1> SUFFICES ASSUME NEW s \in Prompts PROVE Fits(s, prompt[s])'
  BY DEF PromptInv
<1>6. CASE s = p
  <2> PICK r : r = prompt[p]
    OBVIOUS
  <2>1. prompt'[s] = d /\ p \in upd.todo
    BY <1>1, <1>6 DEF Deny, BridgeInv, Approvals
  <2>2. Fits(p, r)
    BY <1>0
  <2>3. Shape(d)
    BY <1>2, <1>5, <2>1, <2>2 DEF Fits, Shape
  <2>4. Shape(d)'
    BY <1>1, <2>3 DEF Shape
  <2>5. d.turn # 0 /\ Left(d) /\ d.at # "removing" =>
          d.listed /\ (IF Told(d) THEN k = p ELSE d.at # "finished")
    BY <1>2, <1>5, <2>2 DEF Fits, Shape, Closes, Left, Told
  <2>6. Closes(p, d)'
    BY <1>1, <1>2, <1>4, <1>5, <2>5 DEF Closes, Left, Told
  <2>7. (p \in upd.todo => d.at # "unsent") /\ (k = p => d.sent)
    BY <1>2, <1>5, <2>2 DEF Fits
  <2> QED BY <1>1, <1>4, <1>6, <2>1, <2>4, <2>6, <2>7 DEF Fits
<1>7. CASE s # p
  <2> PICK r : r = prompt[s]
    OBVIOUS
  <2>1. prompt'[s] = r /\ s # 0
    BY <1>1, <1>7, TelegramAssumption DEF BridgeInv, Approvals, Prompts
  <2>2. Fits(s, r)
    BY RequestNow
  <2>3. Pending(s, r.turn) => Pending(s, r.turn)'
    BY <1>1, <1>4, <1>7 DEF Pending, BeingStopped
  <2>4. Shape(r)'
    BY <1>1, <2>2 DEF Fits, Shape
  <2>5. Closes(s, r)'
    BY <1>1, <2>1, <2>2, <2>3 DEF Fits, Closes, Left, Told
  <2> QED BY <1>1, <1>2, <1>4, <1>7, <2>1, <2>2, <2>4, <2>5 DEF Fits
<1> QED BY <1>6, <1>7

\* So it is with a request that neither the step nor the handler touches.
LEMMA ElseFits ==
  ASSUME BridgeInv, NEW s \in Prompts, prompt'[s] = prompt[s], UNCHANGED turn,
         StillPending(s) => Pending(s, prompt[s].turn)', s \in upd'.todo => s \in upd.todo,
         upd'.edit # s, upd.edit # s
  PROVE  Fits(s, prompt[s])'
<1> PICK r : r = prompt[s]
  OBVIOUS
<1>1. Fits(s, r) /\ prompt'[s] = r
  BY RequestNow
<1>2. Shape(r)'
  BY <1>1 DEF Fits, Shape
<1>3. Pending(s, r.turn) => Pending(s, r.turn)'
  BY <1>1 DEF StillPending
<1>4. Closes(s, r)'
  BY <1>1, <1>3 DEF Fits, Closes, Left, Told
<1> QED BY <1>1, <1>2, <1>4 DEF Fits

LEMMA HandlerEditFits ==
  ASSUME BridgeInv, HandlerEdit
  PROVE  PromptInv'
<1> PICK p : p = upd.edit
  OBVIOUS
<1>0. UpdInv /\ upd \in Updates /\ NoUpdate.edit = 0 /\ NoUpdate.todo = {}
  BY DEF BridgeInv, TurnInv, TypeInv, NoUpdate
<1>1. p \in Prompts /\ p # 0
  BY <1>0 DEF HandlerEdit, Updates
<1>2. PICK ok \in BOOLEAN : prompt' = [prompt EXCEPT ![p] = Removal(p, ok)]
  BY WorksBoolean DEF HandlerEdit
<1>3. /\ UNCHANGED <<turn, phase>>
      /\ upd' = IF upd.kind = "click" THEN NoUpdate ELSE [upd EXCEPT !.edit = 0]
  BY DEF HandlerEdit
<1>4. /\ upd'.edit = 0
      /\ \/ upd.kind = "click" /\ upd'.todo = {} /\ phase = "open"
         \/ upd'.kind = upd.kind /\ upd'.turn = upd.turn /\ upd'.todo = upd.todo
  BY <1>0, <1>3 DEF Updates, UpdInv, TurnInv, BridgeInv, TypeInv
<1>5. \A s, t : Pending(s, t) => Pending(s, t)'
  BY <1>3, <1>4 DEF Pending, BeingStopped
<1>6. \A s \in Prompts : StillPending(s) => Pending(s, prompt[s].turn)
  BY DEF StillPending
<1> PICK r : r = prompt[p]
  OBVIOUS
<1> PICK q : q = Removal(p, ok)
  OBVIOUS
<1>7. r \in Requests /\ Fits(p, r) /\ r.sent
  BY <1>1, RequestNow DEF Fits
<1>8. /\ q.turn = r.turn /\ q.at = r.at /\ q.fut = r.fut /\ q.timer = r.timer
      /\ q.listed = r.listed /\ q.sent = r.sent /\ q.broken = r.broken
      /\ q.hit = r.hit /\ q.shown = r.shown
      /\ q.buttons => r.buttons
      /\ q.gone => ~q.buttons
      /\ ~Left(q)
  BY <1>1, <1>7, RemovalFits
<1>9. prompt'[p] = q /\ \A s \in Prompts \ {p} : prompt'[s] = prompt[s]
  BY <1>1, <1>2 DEF BridgeInv, Approvals
<1>10. Fits(p, q)'
  <2>1. Shape(q)
    BY <1>7, <1>8 DEF Fits, Shape
  <2>2. Shape(q)'
    BY <1>3, <2>1 DEF Shape
  <2>3. Pending(p, q.turn) => Pending(p, q.turn)'
    BY <1>5
  <2>4. Closes(p, q)'
    BY <1>3, <1>7, <1>8, <2>3 DEF Fits, Closes, Left, Told
  <2> QED BY <1>1, <1>4, <1>7, <1>8, <2>2, <2>4 DEF Fits
<1>11. ASSUME NEW s \in Prompts \ {p} PROVE Fits(s, prompt[s])'
  <2>1. prompt'[s] = prompt[s] /\ s # 0 /\ s # upd.edit
    BY <1>9, TelegramAssumption DEF Prompts
  <2>2. StillPending(s) => Pending(s, prompt[s].turn)'
    <3> PICK t : t = prompt[s].turn
      OBVIOUS
    <3>1. Pending(s, t) => Pending(s, t)'
      BY <1>5
    <3> QED BY <2>1, <3>1 DEF StillPending
  <2> QED BY <1>3, <1>4, <2>1, <2>2, ElseFits
<1> QED BY <1>1, <1>9, <1>10, <1>11 DEF PromptInv

LEMMA ClickFits ==
  ASSUME BridgeInv, NEW u \in Users \cup Strangers, NEW p \in Prompts,
         NEW answer \in {"yes", "no"}, Click(p, u, answer)
  PROVE  PromptInv'
<1> DEFINE c == prompt[p].clicked \/ (answer = "yes" /\ u = User(p))
           d == [prompt[p] EXCEPT !.fut = answer]
           e == [d EXCEPT !.clicked = c]
           f == [NoUpdate EXCEPT !.kind = "click"]
           g == [f EXCEPT !.edit = p]
<1> PICK r : r = prompt[p]
  OBVIOUS
<1>1. r \in Requests /\ Fits(p, r) /\ p # 0
  BY RequestNow, TelegramAssumption DEF Prompts
<1>2. /\ UNCHANGED <<turn, phase>> /\ upd = NoUpdate /\ phase = "open"
      /\ r.listed /\ prompt' = [prompt EXCEPT ![p] = e]
      /\ \/ upd' = g /\ r.sent
         \/ upd' = upd /\ (~r.sent \/ r.gone)
  BY <1>1 DEF Click, Idle, Answerable, Removable, NoUpdate, Requests
<1>3. /\ g.kind = "click" /\ g.edit = p /\ g.todo = {}
      /\ NoUpdate.kind = "none" /\ NoUpdate.edit = 0 /\ NoUpdate.todo = {}
  BY DEF NoUpdate
<1> HIDE DEF g, c
<1>4. /\ d \in Requests /\ d.turn = r.turn /\ d.at = r.at /\ d.fut = answer
      /\ d.timer = r.timer /\ d.listed = r.listed /\ d.sent = r.sent /\ d.gone = r.gone
      /\ d.missed = r.missed /\ d.broken = r.broken /\ d.hit = r.hit
      /\ d.shown = r.shown /\ d.buttons = r.buttons
  BY <1>1 DEF Requests, Answers
<1> HIDE DEF d
<1>5. /\ e.turn = r.turn /\ e.at = r.at /\ e.fut = answer
      /\ e.timer = r.timer /\ e.listed = r.listed /\ e.sent = r.sent /\ e.gone = r.gone
      /\ e.missed = r.missed /\ e.broken = r.broken /\ e.hit = r.hit
      /\ e.shown = r.shown /\ e.buttons = r.buttons
  BY <1>4 DEF Requests
<1> HIDE DEF e
<1> PICK q : q = e
  OBVIOUS
<1>6. prompt'[p] = q /\ \A s \in Prompts \ {p} : prompt'[s] = prompt[s]
  BY <1>2 DEF BridgeInv, Approvals
<1>7. upd'.todo = {} /\ upd.todo = {} /\ upd.edit = 0 /\ upd'.edit \in {0, p}
      /\ (upd'.edit = p => r.sent) /\ upd.kind = "none"
  BY <1>1, <1>2, <1>3
<1>8. \A s \in Prompts : ~StillPending(s)
  BY <1>2, <1>7, NothingPends
<1>9. Fits(p, q)'
  <2>1. Shape(q)
    BY <1>1, <1>2, <1>5 DEF Fits, Shape
  <2>2. Shape(q)'
    BY <1>2, <2>1 DEF Shape
  <2>3. ~Pending(p, q.turn)
    BY <1>5, <1>8 DEF StillPending
  <2>4. Closes(p, q)'
    BY <1>1, <1>2, <1>5, <1>7, <2>3 DEF Fits, Closes, Left, Told
  <2> QED BY <1>5, <1>7, <2>2, <2>4 DEF Fits
<1>10. ASSUME NEW s \in Prompts \ {p} PROVE Fits(s, prompt[s])'
  <2>1. s # 0
    BY TelegramAssumption DEF Prompts
  <2> QED BY <1>2, <1>6, <1>7, <1>8, <2>1, ElseFits
<1> QED BY <1>6, <1>9, <1>10 DEF PromptInv

\* The prompts of what is cancelled are the handler's from now on.
LEMMA CancelFits ==
  ASSUME BridgeInv, Idle, NEW T \in SUBSET Turns, Cancel(T), upd'.edit = 0,
         \A p \in Prompts : p \in upd'.todo => prompt[p].listed,
         \A p \in Prompts :
           prompt[p].listed /\ prompt[p].turn \in T => Pending(p, prompt[p].turn)'
  PROVE  PromptInv'
<1> DEFINE w(r) == [r EXCEPT !.fut = "cancelled"]
<1>1. /\ prompt' = [p \in Prompts |->
            IF prompt[p].turn \in T /\ prompt[p].at = "waiting" /\ prompt[p].fut = "open"
            THEN w(prompt[p]) ELSE prompt[p]]
      /\ turn' = [t \in Turns |-> [turn[t] EXCEPT !.told = turn[t].told \/ t \in T]]
  BY DEF Cancel, Withdraw
<1>2. \A t \in Turns : turn'[t].at = turn[t].at /\ (turn'[t].told <=> turn[t].told \/ t \in T)
  <2> TAKE t \in Turns
  <2> DEFINE b == turn[t].told \/ t \in T
  <2>1. turn[t] \in Tasks
    BY DEF BridgeInv, TurnInv, TypeInv
  <2>2. b \in BOOLEAN
    BY <2>1 DEF Tasks
  <2>3. turn'[t] = [turn[t] EXCEPT !.told = b]
    BY <1>1
  <2> HIDE DEF b
  <2>4. turn'[t].at = turn[t].at /\ turn'[t].told = b
    BY <2>1, <2>2, <2>3 DEF Tasks
  <2> QED BY <2>4 DEF b
<1>3. upd = NoUpdate /\ phase = "open" /\ upd.kind = "none" /\ upd.edit = 0 /\ upd.todo = {}
  BY DEF Idle, NoUpdate
<1>4. \A p \in Prompts : ~StillPending(p)
  BY <1>3, NothingPends
<1> SUFFICES ASSUME NEW p \in Prompts PROVE Fits(p, prompt[p])'
  BY DEF PromptInv
<1> PICK r : r = prompt[p]
  OBVIOUS
<1>5. r \in Requests /\ Fits(p, r) /\ r.turn \in Turns \cup {0} /\ p # 0
  BY RequestNow, TelegramAssumption DEF Requests, Prompts
<1> PICK q : q = prompt'[p]
  OBVIOUS
<1>6. /\ q.turn = r.turn /\ q.at = r.at /\ (q.fut = r.fut \/ (q.fut = "cancelled" /\ r.at = "waiting"))
      /\ q.timer = r.timer /\ q.listed = r.listed /\ q.sent = r.sent /\ q.gone = r.gone
      /\ q.missed = r.missed /\ q.broken = r.broken /\ q.hit = r.hit
      /\ q.shown = r.shown /\ q.buttons = r.buttons
  <2>1. q = r \/ (q = w(r) /\ r.at = "waiting")
    BY <1>1
  <2>2. q = r \/ (q = [r EXCEPT !.fut = "cancelled"] /\ r.at = "waiting")
    BY <2>1
  <2> HIDE DEF w
  <2> QED BY <1>5, <2>2 DEF Requests
<1>7. Shape(q)
  BY <1>5, <1>6 DEF Fits, Shape
<1>8. Shape(q)'
  <2>1. r.turn # 0 => turn'[r.turn].at = turn[r.turn].at
    BY <1>2, <1>5
  <2> QED BY <1>6, <1>7, <2>1 DEF Shape
<1>9. r.turn # 0 /\ r.listed /\ Told(q)' => Told(r) \/ Pending(p, q.turn)'
  <2>1. r.listed /\ r.turn \in T => Pending(p, q.turn)'
    OBVIOUS
  <2> QED BY <1>2, <1>5, <1>6, <2>1 DEF Told
<1>10. r.turn # 0 /\ Told(r) => Told(q)' /\ ~Pending(p, r.turn)
  BY <1>2, <1>4, <1>5, <1>6 DEF Told, StillPending
<1>11. Closes(p, q)'
  BY <1>3, <1>5, <1>6, <1>9, <1>10 DEF Fits, Closes, Left
<1>12. p \in upd'.todo => q.at # "unsent"
  BY <1>5, <1>6 DEF Fits, Shape
<1> QED BY <1>5, <1>8, <1>11, <1>12 DEF Fits

LEMMA StopFits ==
  ASSUME BridgeInv, NEW u \in Users, Stop(u)
  PROVE  PromptInv'
<1> PICK t : t = userTask[u]
  OBVIOUS
<1> DEFINE S == OfUser(u)
           s == [kind |-> "stop", user |-> u, turn |-> t, todo |-> S, edit |-> 0]
           w == [kind |-> "wait", user |-> u, turn |-> t, todo |-> S, edit |-> 0]
<1>1. /\ s.kind = "stop" /\ s.turn = t /\ s.todo = S /\ s.edit = 0
      /\ w.kind = "wait" /\ w.turn = t /\ w.todo = S /\ w.edit = 0
  OBVIOUS
<1>2. /\ \A p \in S : prompt[p].listed
      /\ \A p \in Prompts : prompt[p].listed /\ User(p) = u => p \in S
  BY DEF OfUser
<1>3. Idle /\ UNCHANGED phase /\ TurnInv
  BY DEF Stop, BridgeInv
<1>4. CASE Stops(u)
  <2>1. Cancel({t}) /\ upd' = s
    BY <1>4 DEF Stop
  <2>2. t \in Turns /\ turn[t].user = u
    BY <1>3, <1>4 DEF Stops, Active, TurnInv, TypeInv, TaskInv, ListedOf
  <2> HIDE DEF S, s
  <2>3. \A p \in Prompts :
           prompt[p].listed /\ prompt[p].turn \in {t} => Pending(p, prompt[p].turn)'
    <3> SUFFICES ASSUME NEW p \in Prompts, prompt[p].listed, prompt[p].turn = t
                 PROVE  BeingStopped(prompt[p].turn)' /\ p \in upd'.todo
      BY DEF Pending
    <3>1. p \in S
      BY <1>2, <2>2 DEF User
    <3>2. prompt'[p].turn = t
      <4>1. prompt[p] \in Requests
        BY RequestNow
      <4> QED BY <2>1, <4>1 DEF Cancel, Withdraw, Requests
    <3> QED BY <1>1, <2>1, <3>1, <3>2 DEF BeingStopped
  <2> QED BY <1>1, <1>2, <1>3, <2>1, <2>2, <2>3, CancelFits
<1>5. CASE ~Stops(u)
  <2>1. upd' = w /\ UNCHANGED <<turn, prompt>>
    BY <1>5 DEF Stop
  <2>2. upd.kind = "none" /\ upd.edit = 0 /\ phase = "open"
    BY <1>3 DEF Idle, NoUpdate
  <2>3. \A x \in Turns : Spared(x)
    BY <2>1 DEF Spared
  <2> HIDE DEF S, w
  <2> QED BY <1>1, <1>2, <2>1, <2>2, <2>3, NothingPends, ContextFits
<1> QED BY <1>4, <1>5

LEMMA ShutdownFits ==
  ASSUME BridgeInv, Shutdown
  PROVE  PromptInv'
<1>1. PICK T \in SUBSET Turns : T = {t \in Turns : Running(t)}
  OBVIOUS
<1>2. Idle /\ phase' = "closing" /\ Cancel(T) /\ upd' = upd
  BY <1>1 DEF Shutdown
<1>3. upd.kind = "none" /\ upd.edit = 0 /\ upd.todo = {}
  BY <1>2 DEF Idle, NoUpdate
<1>4. \A p \in Prompts : Pending(p, prompt[p].turn)'
  BY <1>2, <1>3 DEF Pending
<1> QED BY <1>2, <1>3, <1>4, CancelFits

LEMMA PromptInvInit == Init => PromptInv
<1> SUFFICES ASSUME Init, NEW p \in Prompts PROVE Fits(p, prompt[p])
  BY DEF PromptInv
<1> DEFINE f == FALSE
<1>1. ~f
  OBVIOUS
<1>2. prompt = [s \in Prompts |->
       [turn |-> 0, at |-> "unsent", fut |-> "open", timer |-> "off",
        listed |-> f, shown |-> f, sent |-> f, buttons |-> f,
        gone |-> f, missed |-> f, broken |-> f, hit |-> f,
        clicked |-> f, ran |-> f]]
  BY DEF Init
<1>3. upd.todo = {} /\ upd.edit = 0 /\ p # 0
  BY TelegramAssumption DEF Init, NoUpdate, Prompts
<1> HIDE DEF f
<1>4. LET r == prompt[p]
      IN  /\ r.turn = 0 /\ r.at = "unsent" /\ r.fut = "open" /\ r.timer = "off"
          /\ ~r.listed /\ ~r.shown /\ ~r.sent /\ ~r.buttons /\ ~r.gone /\ ~r.hit
  BY <1>1, <1>2
<1> QED BY <1>3, <1>4 DEF Fits, Shape, Closes

LEMMA BridgeStep ==
  ASSUME BridgeInv, [Next]_vars
  PROVE  BridgeInv'
<1>1. TurnInv'
  BY TurnInvStep DEF BridgeInv
<1>2. Approvals'
  BY ApprovalsNone, TurnSteps, PromptSteps, UserSteps, HandlerSteps DEF BridgeInv, Next, vars
<1>3. PromptInv'
  <2>1. ASSUME NEW t \in Turns, TurnStep(t) PROVE PromptInv'
    BY <2>1, TurnStepFits, AskFits
  <2>2. ASSUME NEW p \in Prompts, PromptStep(p) PROVE PromptInv'
    BY <2>2, PromptStepFits
  <2>3. CASE UserStep
    BY <2>3, MessageFits, StopFits, ClickFits, ShutdownFits DEF UserStep
  <2>4. CASE HandlerStep
    BY <2>4, DenyFits, HandlerEditFits, EndsFit DEF HandlerStep
  <2>5. CASE UNCHANGED vars
    <3>1. UNCHANGED <<turn, prompt, upd, phase>>
      BY <2>5 DEF vars
    <3>2. \A t \in Turns : Spared(t)
      BY <3>1 DEF Spared
    <3> QED BY <3>1, <3>2, TurnFits
  <2> QED BY <2>1, <2>2, <2>3, <2>4, <2>5 DEF Next
<1> QED BY <1>1, <1>2, <1>3 DEF BridgeInv

LEMMA BridgeKept == Spec => []BridgeInv
<1>1. Init => BridgeInv
  BY TurnInvInit, ApprovalsInit, PromptInvInit DEF BridgeInv
<1>2. BridgeInv /\ [Next]_vars => BridgeInv'
  BY BridgeStep
<1> QED BY <1>1, <1>2, PTL DEF Spec

LEMMA PromptsClosed == BridgeInv => PromptsAreClosed
<1> SUFFICES ASSUME BridgeInv, upd = NoUpdate, phase # "closing",
                    NEW p \in Prompts, prompt[p].turn # 0, ~Running(prompt[p].turn)
             PROVE  /\ prompt[p].fut # "open"
                    /\ prompt[p].buttons => ~prompt[p].sent \/ prompt[p].missed
  BY DEF PromptsAreClosed
<1> PICK r : r = prompt[p]
  OBVIOUS
<1>1. r \in Requests /\ Fits(p, r) /\ p # 0
  BY RequestNow, TelegramAssumption DEF Prompts
<1>2. upd.kind # "stop" /\ upd.edit = 0
  BY DEF NoUpdate
<1>3. ~Pending(p, r.turn)
  BY <1>2, NothingPends DEF StillPending
<1>4. r.at = "finished"
  BY <1>1 DEF Fits, Shape, Running
<1>5. r.fut # "open" /\ ~Left(r)
  BY <1>1, <1>2, <1>3, <1>4 DEF Fits, Closes
<1> QED BY <1>5 DEF Left

\* A tool is started by the return of its request alone, from the finally or
\* from its edit.
LEMMA RunsBySelf ==
  ASSUME BridgeInv, [Next]_vars, NEW p \in Prompts, prompt'[p].ran, ~prompt[p].ran
  PROVE  (Unlist(p) \/ Return(p)) /\ ~prompt[p].broken
<1>1. prompt \in [Prompts -> Requests]
  BY DEF BridgeInv, Approvals
<1>2. ASSUME NEW s \in Prompts, NEW q, prompt' = [prompt EXCEPT ![s] = q],
             q.ran = prompt[s].ran
      PROVE  FALSE
  BY <1>1, <1>2
<1>3. ASSUME UNCHANGED prompt PROVE FALSE
  BY <1>3
<1>4. ASSUME NEW s \in Prompts, NEW ok \in BOOLEAN
      PROVE  Removal(s, ok) \in Requests /\ Removal(s, ok).ran = prompt[s].ran
  <2>1. Removal(s, ok) \in Requests
    BY RemovalSound DEF Sound, BridgeInv
  <2>2. prompt[s] \in Requests
    BY <1>1
  <2>3. CASE ok
    BY <2>1, <2>2, <2>3 DEF Removal, Requests
  <2>4. CASE ~ok
    BY <2>1, <2>2, <2>4 DEF Removal, Requests
  <2> QED BY <2>3, <2>4
<1>5. ASSUME NEW s \in Prompts, PromptStep(s) PROVE (Unlist(p) \/ Return(p)) /\ ~prompt[p].broken
  <2> DEFINE r == prompt[s]
  <2>1. r \in Requests
    BY <1>1
  <2>2. ~Shown(s)
    <3> SUFFICES ASSUME Shown(s) PROVE FALSE
      OBVIOUS
    <3> DEFINE q == [r EXCEPT !.shown = TRUE, !.buttons = TRUE]
    <3>1. prompt' = [prompt EXCEPT ![s] = q] /\ q.ran = r.ran
      BY <2>1 DEF Shown, Requests
    <3> HIDE DEF q
    <3> QED BY <3>1, <1>2
  <2>3. ~Sent(s)
    <3> SUFFICES ASSUME Sent(s) PROVE FALSE
      OBVIOUS
    <3> DEFINE q == [r EXCEPT !.sent = TRUE, !.at = "waiting"]
    <3>1. prompt' = [prompt EXCEPT ![s] = q] /\ q.ran = r.ran
      BY <2>1 DEF Sent, Requests
    <3> HIDE DEF q
    <3> QED BY <3>1, <1>2
  <2>4. \A broken \in BOOLEAN : Closing(s, broken).ran = r.ran
    BY <2>1 DEF Closing, Requests
  <2>5. ~Answered(s)
    BY <1>2, <2>4 DEF Answered
  <2>6. ~CancelRequest(s)
    <3> SUFFICES ASSUME CancelRequest(s) PROVE FALSE
      OBVIOUS
    <3> DEFINE c == Closing(s, TRUE)
               a == [c EXCEPT !.hit = TRUE]
               m == r.missed \/ r.at = "removing"
               b == [r EXCEPT !.hit = TRUE, !.at = "finished", !.missed = m, !.ran = FALSE]
    <3>1. prompt' = [prompt EXCEPT ![s] = a] \/ prompt' = [prompt EXCEPT ![s] = b]
      BY DEF CancelRequest, RanWhenCancelled
    <3>2. a.ran = r.ran
      <4>1. c \in Requests /\ c.ran = r.ran
        BY <2>4, ClosingSound DEF Sound, BridgeInv
      <4> HIDE DEF c
      <4> QED BY <4>1 DEF Requests
    <3>3. ~b.ran
      <4> HIDE DEF m
      <4> QED BY <2>1 DEF Requests
    <3> HIDE DEF a, b
    <3>4. prompt' # [prompt EXCEPT ![s] = b]
      BY <1>1, <3>3
    <3> QED BY <1>2, <3>1, <3>2, <3>4
  <2>7. ~Expire(s)
    <3> SUFFICES ASSUME Expire(s) PROVE FALSE
      OBVIOUS
    <3> DEFINE m == IF Removable(s) THEN "removing" ELSE "off"
               q == [r EXCEPT !.fut = "no", !.timer = m]
    <3>1. prompt' = [prompt EXCEPT ![s] = q]
      BY DEF Expire
    <3> HIDE DEF m
    <3>2. q.ran = r.ran
      BY <2>1 DEF Requests
    <3> HIDE DEF q
    <3> QED BY <3>1, <3>2, <1>2
  <2>8. ~ExpiryEdit(s)
    <3> SUFFICES ASSUME ExpiryEdit(s) PROVE FALSE
      OBVIOUS
    <3>1. PICK ok \in BOOLEAN : prompt' = [prompt EXCEPT ![s] = [Removal(s, ok) EXCEPT !.timer = "off"]]
      BY WorksBoolean DEF ExpiryEdit
    <3> DEFINE m == Removal(s, ok)
               q == [m EXCEPT !.timer = "off"]
    <3>2. m \in Requests /\ m.ran = r.ran
      BY <1>4
    <3> HIDE DEF m
    <3>3. q.ran = r.ran
      BY <3>2 DEF Requests
    <3>4. prompt' = [prompt EXCEPT ![s] = q]
      BY <3>1 DEF m
    <3> HIDE DEF q
    <3> QED BY <3>3, <3>4, <1>2
  <2>9. Unlist(s) \/ Return(s)
    BY <1>5, <2>2, <2>3, <2>5, <2>6, <2>7, <2>8 DEF PromptStep
  <2>10. s = p
    BY <1>1, <2>9 DEF Unlist, Return
  <2>11. ~prompt[p].broken
    <3> SUFFICES ASSUME r.broken PROVE FALSE
      BY <2>10
    <3>1. CASE Unlist(s)
      <4> DEFINE f == IF r.fut = "open" THEN "cancelled" ELSE r.fut
                 a == IF Removable(s) THEN "removing" ELSE "finished"
                 n == ~Removable(s) /\ ~r.broken /\ r.fut = "yes"
                 q == [r EXCEPT !.listed = FALSE, !.fut = f, !.at = a, !.ran = n]
      <4>1. prompt' = [prompt EXCEPT ![s] = q]
        BY <3>1, <2>1 DEF Unlist, Requests
      <4>2. n = FALSE
        OBVIOUS
      <4> HIDE DEF f, a, n
      <4>3. ~q.ran
        BY <2>1, <4>2 DEF Requests
      <4> HIDE DEF q
      <4> QED BY <1>1, <2>10, <4>1, <4>3
    <3>2. CASE Return(s)
      <4> DEFINE n == ~r.broken /\ r.fut = "yes"
      <4>1. PICK ok \in BOOLEAN :
              prompt' = [prompt EXCEPT ![s] = [Removal(s, ok) EXCEPT !.at = "finished", !.ran = n]]
        BY <3>2, WorksBoolean DEF Return
      <4> DEFINE m == Removal(s, ok)
                 q == [m EXCEPT !.at = "finished", !.ran = n]
      <4>2. m \in Requests /\ n = FALSE
        BY <1>4
      <4>3. prompt' = [prompt EXCEPT ![s] = q]
        BY <4>1
      <4> HIDE DEF m, n
      <4>4. ~q.ran
        BY <4>2 DEF Requests
      <4> HIDE DEF q
      <4> QED BY <1>1, <2>10, <4>3, <4>4
    <3> QED BY <2>9, <3>1, <3>2
  <2> QED BY <2>9, <2>10, <2>11
<1>6. ASSUME NEW t \in Turns, TurnStep(t) PROVE FALSE
  <2>1. ASSUME NEW P \in SUBSET Prompts, Ask(t, P) PROVE FALSE
    <3> DEFINE q == [prompt[p] EXCEPT !.turn = t, !.at = "sending", !.timer = "sleeping",
                                      !.listed = TRUE]
    <3>1. prompt'[p] = q \/ prompt'[p] = prompt[p]
      BY <2>1 DEF Ask
    <3>2. q.ran = prompt[p].ran
      BY <1>1 DEF Requests
    <3> HIDE DEF q
    <3> QED BY <3>1, <3>2
  <2>2. (\A P \in SUBSET Prompts : ~Ask(t, P)) => UNCHANGED prompt
    BY <1>6 DEF TurnStep, Begin, Refuse, Refused, Enter, Emit, Emitted, EndTurn, Notices,
                Finish, Fail, Deliver, Delivered, Unwind, Reap
  <2> QED BY <1>3, <2>1, <2>2
<1>7. ASSUME NEW T, Withdraw(T) PROVE FALSE
  <2> DEFINE q == [prompt[p] EXCEPT !.fut = "cancelled"]
  <2>1. prompt'[p] = q \/ prompt'[p] = prompt[p]
    BY <1>7 DEF Withdraw
  <2>2. q.ran = prompt[p].ran
    BY <1>1 DEF Requests
  <2> HIDE DEF q
  <2> QED BY <2>1, <2>2
<1>8. CASE UserStep
  <2>1. ASSUME NEW u \in Users \cup Strangers, NEW s \in Prompts,
               NEW answer \in {"yes", "no"}, Click(s, u, answer)
        PROVE  FALSE
    <3> DEFINE c == prompt[s].clicked \/ (answer = "yes" /\ u = User(s))
               q == [prompt[s] EXCEPT !.fut = answer, !.clicked = c]
    <3>1. prompt' = [prompt EXCEPT ![s] = q]
      BY <2>1, <1>1 DEF Click, Requests
    <3> HIDE DEF c
    <3>2. q.ran = prompt[s].ran
      BY <1>1 DEF Requests
    <3> HIDE DEF q
    <3> QED BY <3>1, <3>2, <1>2
  <2>2. ASSUME NEW u \in Users, Stop(u) PROVE FALSE
    BY <2>2, <1>3, <1>7 DEF Stop, Cancel
  <2>3. ~Shutdown
    BY <1>7 DEF Shutdown, Cancel
  <2>4. ASSUME NEW u \in Users, Message(u) \/ \E s \in Sessions : SwitchSession(u, s) PROVE FALSE
    BY <2>4, <1>3 DEF Message, SwitchSession
  <2> QED BY <1>8, <2>1, <2>2, <2>3, <2>4 DEF UserStep
<1>9. CASE HandlerStep
  <2>1. ASSUME NEW s \in Prompts, Deny(s) PROVE FALSE
    <3> DEFINE m == IF prompt[s].fut = "open" THEN "no" ELSE prompt[s].fut
               q == [prompt[s] EXCEPT !.fut = m]
    <3>1. prompt' = [prompt EXCEPT ![s] = q]
      BY <2>1, <1>1 DEF Deny, Requests
    <3> HIDE DEF m
    <3>2. q.ran = prompt[s].ran
      BY <1>1 DEF Requests
    <3> HIDE DEF q
    <3> QED BY <3>1, <3>2, <1>2
  <2>2. ~HandlerEdit
    <3> SUFFICES ASSUME HandlerEdit PROVE FALSE
      OBVIOUS
    <3>1. upd.edit \in Prompts
      BY DEF HandlerEdit, BridgeInv, TurnInv, TypeInv, Updates
    <3>2. PICK ok \in BOOLEAN : prompt' = [prompt EXCEPT ![upd.edit] = Removal(upd.edit, ok)]
      BY WorksBoolean DEF HandlerEdit
    <3> QED BY <1>2, <1>4, <3>1, <3>2
  <2>3. CASE Waited \/ StopEnds \/ DenyAll \/ Close \/ \E u \in Users : FinalizeOne(u)
    <3>1. UNCHANGED prompt
      BY <2>3 DEF Waited, StopEnds, DenyAll, Close, FinalizeOne, Stopped
    <3> QED BY <3>1, <1>3
  <2> QED BY <1>9, <2>1, <2>2, <2>3 DEF HandlerStep
<1>10. ~UNCHANGED vars
  BY <1>3 DEF vars
<1> QED BY <1>5, <1>6, <1>8, <1>9, <1>10 DEF Next

\* Nobody stopped it: a request whose cancellation was delivered starts nothing.
LEMMA StopStands ==
  ASSUME BridgeInv, [Next]_vars
  PROVE  \A p \in Prompts : prompt'[p].ran /\ ~prompt[p].ran => ~turn[prompt[p].turn].told
<1> SUFFICES ASSUME NEW p \in Prompts, prompt'[p].ran, ~prompt[p].ran
             PROVE  ~turn[prompt[p].turn].told
  OBVIOUS
<1>1. (Unlist(p) \/ Return(p)) /\ ~prompt[p].broken
  BY RunsBySelf
<1> PICK r : r = prompt[p]
  OBVIOUS
<1>2. r.at \in {"closing", "removing"} /\ (r.turn = 0 \/ ~turn[r.turn].told \/ r.hit)
  BY <1>1 DEF Unlist, Return, Struck
<1>3. Fits(p, r)
  BY RequestNow
<1> QED BY <1>1, <1>2, <1>3 DEF Fits, Shape

\* A Stop reaches the turn that runs, closes what it asked, and no approval
\* outlives it, for any number of users, turns and prompts: _stop, deny_user,
\* request, _expire, _remove_buttons, close.
THEOREM StopsAreComplete == Spec => StopIsComplete
<1>1. BridgeInv => StopFindsTheTurn /\ PromptsAreClosed
  BY TurnFound, PromptsClosed DEF BridgeInv
<1>2. BridgeInv /\ [Next]_vars =>
        [\A p \in Prompts :
           prompt'[p].ran /\ ~prompt[p].ran => ~turn[prompt[p].turn].told]_vars
  BY StopStands
<1> QED BY <1>1, <1>2, BridgeKept, PTL DEF Spec, StopIsComplete, StopHolds
=============================================================================
