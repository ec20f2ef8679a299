---------------------------- MODULE Conversation ----------------------------
(***************************************************************************)
(* What Agent.run promises about a conversation, seen from between turns:  *)
(* a turn happens as a whole or not at all.  While a turn runs the         *)
(* conversation is the one it started from; when it ends the conversation  *)
(* has gained the messages of that one turn, or, when the turn was voided, *)
(* at most the user message that a retry can answer.  The agent may forget *)
(* its oldest messages, never one in the middle.  A restart between turns  *)
(* loses and gains nothing (what the window forgot may come back); what a  *)
(* restart gains otherwise belongs to the one turn that was running, or    *)
(* whose undoing was not durable yet, when the process died.               *)
(***************************************************************************)
EXTENDS Naturals

VARIABLES
  conv,  \* the messages a next request would be built on
  phase  \* "open", "running", or "voided" once the newest turn was undone

Dialog(ms) == {m \in ms : m.role # "summary"}

\* What is left of old is its end.
ForgetsOldestOnly(old, new) ==
  \A m \in Dialog(old) \cap new, o \in Dialog(old) \ new : o.n < m.n

\* Messages of new that were not in old, nor forgotten before old began.
Gained(old, new) ==
  {m \in new \ old : old = {} \/ \E o \in Dialog(old) : o.n <= m.n}

\* All that was gained is of one turn, newer than all the others.
OneNewTurn(old, new) ==
  \A m \in Gained(old, new) :
    /\ \A k \in Gained(old, new) : k.t = m.t
    /\ \A o \in old : o.t < m.t

Init == conv = {} /\ phase = "open"

Begin ==
  /\ phase # "running" /\ phase' = "running"
  /\ UNCHANGED conv

Keep ==
  /\ phase = "running" /\ phase' = "open"
  /\ OneNewTurn(conv, conv')
  /\ ForgetsOldestOnly(conv, conv')
  /\ conv # {} => conv' # {}

Void ==
  /\ phase = "running" /\ phase' = "voided"
  /\ \/ UNCHANGED conv
     \/ \E m \in conv' : /\ conv' = conv \cup {m}
                         /\ m.role = "user"
                         /\ OneNewTurn(conv, conv')

Restart ==
  /\ phase' = "open"
  /\ CASE phase = "open" -> /\ Dialog(conv) \subseteq conv'
                            /\ Gained(conv, conv') = {}
       [] phase = "running" -> /\ OneNewTurn(conv, conv')
                               /\ ForgetsOldestOnly(conv, conv')
       [] phase = "voided" ->
            /\ ForgetsOldestOnly(conv, conv')
            /\ \A m, k \in Gained(conv, conv') : k.t = m.t
            /\ \A m \in Gained(conv, conv'), o \in conv : o.t <= m.t

Next == Begin \/ Keep \/ Void \/ Restart

Spec == Init /\ [][Next]_<<conv, phase>>

=============================================================================
