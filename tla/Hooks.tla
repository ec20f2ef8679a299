------------------------------- MODULE Hooks -------------------------------
(***************************************************************************)
(* The runner of plugin hooks (plugins/hooks.py, HookRunner): starting and *)
(* closing the instances of an agent under one lock, and asking them one   *)
(* after the other about a user message, a tool call or its result. A hook *)
(* can answer, misbehave, raise or run out of its time, the user can be    *)
(* asked in between, and a Stop can land in any hook.                      *)
(***************************************************************************)
EXTENDS Naturals

CONSTANTS
  Plugins,  \* instances 1 .. Plugins, in the order they are enabled
  Tasks,    \* concurrent callers of start and aclose
  MaxCalls  \* bound on the calls of start and aclose

VARIABLES
  blocks,    \* plugins whose errors block (on_hook_error)
  pc,        \* task -> "idle" | "queued" | "starting" | "closing"
  op,        \* task -> "start" | "close"
  lock,      \* tasks that hold the lifecycle lock
  running,   \* plugins whose start was entered and whose aclose did not finish
  started, closed, closing,
  returned,  \* an aclose has returned
  calls,
  chain,     \* "none" | "user_message" | "before_tool" | "after_tool"
  at,        \* the plugin asked next
  asked,     \* ... is waiting for the user
  objected,  \* a plugin, or the user it had asked, was against it
  patched,   \* the result is not the tool's own any more
  verdict    \* "none" | "passed" | "refused" | "withheld"

lifecycle == <<pc, op, lock, running, started, closed, closing, returned, calls>>
asking == <<chain, at, asked, objected, patched, verdict>>
vars == <<blocks, lifecycle, asking>>

All == 1 .. Plugins

Earliest(S) == {p \in S : \A q \in S : p <= q}
Latest(S) == {p \in S : \A q \in S : q <= p}

\* ---- start and aclose -------------------------------------------------------------

Call(t) ==
  /\ pc[t] = "idle" /\ calls < MaxCalls
  /\ \E o \in {"start", "close"} : op' = [op EXCEPT ![t] = o]
  /\ pc' = [pc EXCEPT ![t] = "queued"] /\ calls' = calls + 1
  /\ UNCHANGED <<blocks, lock, running, started, closed, closing, returned, asking>>

Leave(t) == pc' = [pc EXCEPT ![t] = "idle"] /\ lock' = lock \ {t}

StartsAnyway == TRUE
MayStart == ~closing

Enter(t) ==
  /\ pc[t] = "queued" /\ lock = {}
  /\ IF op[t] = "start" /\ ~MayStart
     THEN Leave(t) /\ UNCHANGED closing
     ELSE /\ pc' = [pc EXCEPT ![t] = IF op[t] = "start" THEN "starting" ELSE "closing"]
          /\ lock' = {t} /\ closing' = (closing \/ op[t] = "close")
  /\ UNCHANGED <<blocks, op, running, started, closed, returned, calls, asking>>

\* A hook that fails or is cancelled may have done its work or not.
StartNext(t) ==
  /\ pc[t] = "starting" /\ started # All
  /\ \E p \in Earliest(All \ started) :
        /\ running' = running \cup {p}
        /\ \/ started' = started \cup {p} /\ UNCHANGED <<pc, lock>>
           \/ Leave(t) /\ UNCHANGED started
  /\ UNCHANGED <<blocks, op, closed, closing, returned, calls, asking>>

Started(t) ==
  /\ pc[t] = "starting" /\ started = All /\ Leave(t)
  /\ UNCHANGED <<blocks, op, running, started, closed, closing, returned, calls, asking>>

\* What remains to be closed, whether its start succeeded or not.
OnlyStarted == started \ closed
ToClose == All \ closed

\* A failure counts as closed; a cancellation leaves the instance to the next call.
CloseNext(t) ==
  /\ pc[t] = "closing" /\ ToClose # {}
  /\ \E p \in Latest(ToClose) :
        \/ closed' = closed \cup {p} /\ running' = running \ {p} /\ UNCHANGED <<pc, lock>>
        \/ running' \in {running, running \ {p}} /\ Leave(t) /\ UNCHANGED closed
  /\ UNCHANGED <<blocks, op, started, closing, returned, calls, asking>>

Closed(t) ==
  /\ pc[t] = "closing" /\ ToClose = {} /\ Leave(t)
  /\ returned' = TRUE
  /\ UNCHANGED <<blocks, op, running, started, closed, closing, calls, asking>>

CancelQueued(t) ==
  /\ pc[t] = "queued" /\ Leave(t)
  /\ UNCHANGED <<blocks, op, running, started, closed, closing, returned, calls, asking>>

\* ---- user_message, before_tool, after_tool --------------------------------------------

Ask ==
  /\ chain = "none" /\ started = All /\ ~closing
  /\ chain' \in {"user_message", "before_tool", "after_tool"}
  /\ at' = 1 /\ asked' = FALSE /\ objected' = FALSE /\ patched' = FALSE /\ verdict' = "none"
  /\ UNCHANGED <<blocks, lifecycle>>

Asking == chain # "none" /\ verdict = "none" /\ at \in All /\ ~asked

Goes(on) ==
  IF on THEN at' = at + 1 /\ UNCHANGED verdict
  ELSE verdict' = (IF chain = "after_tool" THEN "withheld" ELSE "refused") /\ UNCHANGED at

\* None, allow, or something added to the message or the result.
Agrees ==
  /\ Asking /\ Goes(TRUE)
  /\ patched' \in {patched, chain # "before_tool"}
  /\ UNCHANGED <<blocks, lifecycle, chain, asked, objected>>

Objects ==
  /\ Asking /\ chain # "after_tool" /\ Goes(FALSE)
  /\ objected' = TRUE
  /\ UNCHANGED <<blocks, lifecycle, chain, asked, patched>>

AsksTheUser ==
  /\ Asking /\ chain = "before_tool" /\ asked' = TRUE
  /\ UNCHANGED <<blocks, lifecycle, chain, at, objected, patched, verdict>>

\* An error in a hook, or an answer of the wrong type.
Fails ==
  /\ Asking /\ Goes(at \notin blocks)
  /\ objected' = (objected \/ at \in blocks)
  /\ UNCHANGED <<blocks, lifecycle, chain, asked, patched>>

\* Accepted, declined, nobody to ask, or the question failed - which counts as
\* an error of the hook but never as consent.
FailureIsIgnored(failed) == failed /\ at \notin blocks
Accepts(failed) == FALSE

Answered(yes, failed) ==
  /\ asked /\ verdict = "none" /\ asked' = FALSE
  /\ Goes(yes \/ Accepts(failed))
  /\ objected' = (objected \/ ~yes)
  /\ UNCHANGED <<blocks, lifecycle, chain, patched>>

Passes ==
  /\ chain # "none" /\ verdict = "none" /\ at > Plugins
  /\ verdict' = "passed"
  /\ UNCHANGED <<blocks, lifecycle, chain, at, asked, objected, patched>>

\* The answer is used, or a Stop ended the asking.
Done ==
  /\ chain # "none"
  /\ chain' = "none" /\ at' = 1 /\ asked' = FALSE
  /\ objected' = FALSE /\ patched' = FALSE /\ verdict' = "none"
  /\ UNCHANGED <<blocks, lifecycle>>

Init ==
  /\ blocks \in SUBSET All
  /\ pc = [t \in Tasks |-> "idle"] /\ op = [t \in Tasks |-> "start"]
  /\ lock = {} /\ running = {} /\ started = {} /\ closed = {} /\ closing = FALSE
  /\ returned = FALSE /\ calls = 0
  /\ chain = "none" /\ at = 1 /\ asked = FALSE /\ objected = FALSE
  /\ patched = FALSE /\ verdict = "none"

Lifecycle ==
  \E t \in Tasks : \/ Call(t) \/ Enter(t) \/ StartNext(t) \/ Started(t) \/ CloseNext(t)
                   \/ Closed(t) \/ CancelQueued(t)

Chain ==
  \/ Ask \/ Agrees \/ Objects \/ AsksTheUser \/ Fails \/ Passes \/ Done
  \/ \E yes, failed \in BOOLEAN : (yes => ~failed) /\ Answered(yes, failed)

Next == Lifecycle \/ Chain

Spec == Init /\ [][Next]_vars

\* ---- properties -----------------------------------------------------------------------

\* Once an aclose has returned nothing a start ever entered is left running,
\* and nothing starts any more: not a plugin whose start had failed or was
\* stopped, nor by a start that was queued behind the close (HookRunner).
NothingRunsAfterClose == returned => running = {} /\ closed = All

\* A tool call or message goes through only if no plugin refused it, no plugin
\* whose errors block failed on it, and every question to the user was agreed
\* to, even one whose asking failed in a plugin whose errors are ignored.
PassedUnopposed == verdict = "passed" => ~objected

\* Shutdown is complete and final, and every plugin's objection counts, in the
\* order of calls that fail, wait or are cancelled (HookRunner).
HooksAreHonoured == NothingRunsAfterClose /\ PassedUnopposed

=============================================================================
