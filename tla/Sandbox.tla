------------------------------ MODULE Sandbox ------------------------------
(***************************************************************************)
(* One command in an OCI sandbox: sandbox.py with tools/builtin/shell.py   *)
(* and the watchdog process (_sandbox_watchdog.py). The container is made, *)
(* started and removed by commands of the container runtime, each of which *)
(* can fail, time out or be cancelled while the runtime goes on with it.   *)
(* The watchdog waits on a pipe: a byte disarms it, the end of the pipe -  *)
(* closed on purpose or by the owner's death - makes it remove the         *)
(* container itself.                                                       *)
(***************************************************************************)
VARIABLES
  runtime,    \* "strict": removing a container that does not exist is an error;
              \* "forgiving": it is not; "broken": nothing can be removed
  secrets,    \* the profile passes environment variables
  pc,         \* the call: see Call below
  cleanup,    \* ShellExecution's cleanup: "none" | "kill" | "reap" | "remove" | "done"
  container,  \* "none" | "pending" | "refused" | "made" | "running" | "stopped" | "gone"
  client,     \* the attached start command of the runtime is alive
  envFile,    \* the staged environment is on disk
  watchdog,   \* "none" | "armed" | "disarmed" | "triggered" | "removing" | "retrying"
              \* | "exited" (disarmed, or a removal worked) | "gaveUp" (its deadline)
  unstaged,   \* the owner died before the watchdog knew of the staged file
  refused     \* who tried in vain to unlink the staged file: "owner", "watchdog"

vars == <<runtime, secrets, pc, cleanup, container, client, envFile, watchdog, unstaged, refused>>

\* "withdrawing": the create raised and the file is still to be discarded.
Call == {"idle", "staged", "creating", "withdrawing", "undoing", "starting", "reading",
         "inspecting", "waiting", "over", "dead"}

\* The container exists, or the runtime is still about to make it.
Exists == container \in {"made", "running", "stopped"}
MayAppear == Exists \/ container = "pending"

\* ---- the runtime ------------------------------------------------------------

\* rm --force: what it reports, what became of the container. It may time out
\* before or after it worked.
Removal(ok) ==
  \/ /\ ok /\ Exists /\ runtime # "broken"
     /\ container' = "gone"
  \/ /\ ok /\ ~Exists /\ runtime = "forgiving"
     /\ UNCHANGED container
  \/ /\ ~ok /\ (Exists \/ runtime # "forgiving")
     /\ UNCHANGED container
  \/ /\ ~ok /\ Exists /\ runtime # "broken"
     /\ container' = "gone"

\* A create goes through even when its client is gone.
RuntimeCreates ==
  /\ container = "pending"
  /\ container' \in {"made", "refused"}
  /\ UNCHANGED <<runtime, secrets, pc, cleanup, client, envFile, watchdog, unstaged, refused>>

CommandEnds ==
  /\ container = "running"
  /\ container' = "stopped" /\ client' = FALSE
  /\ UNCHANGED <<runtime, secrets, pc, cleanup, envFile, watchdog, unstaged, refused>>

\* Unlinking the staged file, whose failure nobody hears of.
Discard(who) ==
  \/ envFile' = FALSE /\ UNCHANGED refused
  \/ envFile /\ UNCHANGED envFile /\ refused' = refused \cup {who}

\* ---- _launch_oci --------------------------------------------------------------

\* The image was found or pulled; the environment is staged for the runtime.
\* What could not be written is unlinked, or stays when that fails too.
Stage ==
  /\ pc = "idle"
  /\ \/ pc' = "staged" /\ envFile' = secrets /\ UNCHANGED refused
     \/ pc' = "over" /\ UNCHANGED <<envFile, refused>>
     \/ pc' = "over" /\ secrets /\ envFile' = TRUE /\ refused' = {"owner"}
  /\ UNCHANGED <<runtime, secrets, cleanup, container, client, watchdog, unstaged>>

\* Without a watchdog nothing is created, and nobody retries the unlinking.
Watch ==
  /\ pc = "staged"
  /\ \/ pc' = "creating" /\ watchdog' = "armed" /\ container' = "pending"
        /\ UNCHANGED <<envFile, refused>>
     \/ pc' = "over" /\ Discard("owner") /\ UNCHANGED <<watchdog, container>>
  /\ UNCHANGED <<runtime, secrets, cleanup, client, unstaged>>

Created ==
  /\ pc = "creating" /\ container \in {"made", "refused"}
  /\ pc' = IF container = "made" THEN "starting" ELSE "undoing"
  /\ Discard("owner")
  /\ UNCHANGED <<runtime, secrets, cleanup, container, client, watchdog, unstaged>>

\* The create timed out or was cancelled, or the start was.
Fail ==
  /\ \/ pc = "creating" /\ pc' = "withdrawing"
     \/ pc = "starting" /\ pc' = "undoing"
  /\ UNCHANGED <<runtime, secrets, cleanup, container, client, envFile, watchdog, unstaged, refused>>

\* Only a removal that worked disarms the watchdog.
HandedDownAlways(removed) == "disarmed"
HandedDown(removed) == IF removed THEN "disarmed" ELSE "triggered"

\* A second Stop ends the wait for the removal, which counts as a failure.
Undo ==
  /\ pc \in {"withdrawing", "undoing"} /\ pc' = "over"
  /\ \/ \E ok \in BOOLEAN : Removal(ok) /\ watchdog' = HandedDown(ok)
     \/ watchdog' = HandedDown(FALSE) /\ UNCHANGED container
  /\ IF pc = "withdrawing" THEN Discard("owner") ELSE UNCHANGED <<envFile, refused>>
  /\ UNCHANGED <<runtime, secrets, cleanup, client, unstaged>>

Start ==
  /\ pc = "starting" /\ container = "made"
  /\ pc' = "reading" /\ container' = "running" /\ client' = TRUE
  /\ UNCHANGED <<runtime, secrets, cleanup, envFile, watchdog, unstaged, refused>>

\* ---- run_shell, ShellExecution.finish and abort ------------------------------------

\* The output ended: the exit code is asked for.
Ended ==
  /\ pc = "reading" /\ ~client
  /\ pc' = "inspecting"
  /\ UNCHANGED <<runtime, secrets, cleanup, container, client, envFile, watchdog, unstaged, refused>>

\* With the exit code, an error or a Stop: cleanup runs shielded either way.
Inspected ==
  /\ pc = "inspecting"
  /\ pc' = "waiting" /\ cleanup' = "remove"
  /\ UNCHANGED <<runtime, secrets, container, client, envFile, watchdog, unstaged, refused>>

\* A timeout, a Stop or an error while the output is read.
Abort ==
  /\ pc = "reading"
  /\ pc' = "waiting" /\ cleanup' = "kill"
  /\ UNCHANGED <<runtime, secrets, container, client, envFile, watchdog, unstaged, refused>>

\* The kill of the runtime may fail.
CleanupKills ==
  /\ cleanup = "kill" /\ cleanup' = "reap"
  /\ \/ container = "running" /\ container' = "stopped" /\ client' = FALSE
     \/ UNCHANGED <<container, client>>
  /\ UNCHANGED <<runtime, secrets, pc, envFile, watchdog, unstaged, refused>>

CleanupReaps ==
  /\ cleanup = "reap" /\ cleanup' = "remove"
  /\ client' = FALSE
  /\ UNCHANGED <<runtime, secrets, pc, container, envFile, watchdog, unstaged, refused>>

CleanupRemoves ==
  /\ cleanup = "remove" /\ cleanup' = "done"
  /\ \E ok \in BOOLEAN : Removal(ok) /\ watchdog' = HandedDown(ok)
  /\ UNCHANGED <<runtime, secrets, pc, client, envFile, unstaged, refused>>

\* The cleanup is over, or a Stop ended the wait and left it to run on.
Return ==
  /\ pc = "waiting" /\ pc' = "over"
  /\ UNCHANGED <<runtime, secrets, cleanup, container, client, envFile, watchdog, unstaged, refused>>

\* The end of the pipe, for a watchdog nobody disarmed or triggered.
OnEndOfPipeIdle(w) == w
OnEndOfPipe(w) == IF w = "armed" THEN "triggered" ELSE w

\* The process dies: its tasks are gone and so is its end of the pipe.
OwnerDies ==
  /\ pc # "dead" /\ pc' = "dead"
  /\ cleanup' = "none"
  /\ watchdog' = OnEndOfPipe(watchdog)
  /\ unstaged' = (unstaged \/ (pc = "staged" /\ envFile))
  /\ UNCHANGED <<runtime, secrets, container, client, envFile, refused>>

\* ---- the watchdog --------------------------------------------------------------------

\* It unlinks the staged file, once, whatever woke it.
WatchdogWakes ==
  /\ watchdog \in {"disarmed", "triggered"}
  /\ watchdog' = IF watchdog = "disarmed" THEN "exited" ELSE "removing"
  /\ Discard("watchdog")
  /\ UNCHANGED <<runtime, secrets, pc, cleanup, container, client, unstaged>>

WatchdogRemoves ==
  /\ watchdog \in {"removing", "retrying"}
  /\ \E ok \in BOOLEAN :
       Removal(ok) /\ watchdog' = IF ok THEN "exited" ELSE "retrying"
  /\ UNCHANGED <<runtime, secrets, pc, cleanup, client, envFile, unstaged, refused>>

\* Its deadline, 65 seconds after it woke, whatever exists or is pending then;
\* the first removal is tried before it.
WatchdogGivesUp ==
  /\ watchdog = "retrying"
  /\ watchdog' = "gaveUp"
  /\ UNCHANGED <<runtime, secrets, pc, cleanup, container, client, envFile, unstaged, refused>>

Init ==
  /\ runtime \in {"strict", "forgiving", "broken"} /\ secrets \in BOOLEAN
  /\ pc = "idle" /\ cleanup = "none" /\ container = "none" /\ client = FALSE
  /\ envFile = FALSE /\ watchdog = "none" /\ unstaged = FALSE /\ refused = {}

Runtime == RuntimeCreates \/ CommandEnds
Owner == \/ Stage \/ Watch \/ Created \/ Fail \/ Undo \/ Start \/ Ended \/ Inspected
         \/ Abort \/ Return
Cleanup == CleanupKills \/ CleanupReaps \/ CleanupRemoves
Watchdog == WatchdogWakes \/ WatchdogRemoves \/ WatchdogGivesUp

Next == Runtime \/ Owner \/ Cleanup \/ Watchdog \/ OwnerDies

\* The runtime answers, every call has its time limit (Owner) and the
\* watchdog is a process of its own; nothing makes the owner die.
Fairness == WF_vars(Runtime) /\ WF_vars(Owner) /\ WF_vars(Cleanup) /\ WF_vars(Watchdog)

Spec == Init /\ [][Next]_vars /\ Fairness

\* ---- properties ----------------------------------------------------------------------

\* The watchdog stands down only when there is no container and none can appear
\* any more, although a create that was given up may still go through: a removal
\* that finds nothing counts as a failure. (A runtime that reports success for it
\* defeats this, and a watchdog at its deadline gives up with the container there.)
DisarmedWhenGone ==
  runtime = "strict" /\ watchdog \in {"disarmed", "exited"} => ~MayAppear

\* Whoever is the last that knows of the staged file failed to unlink it: the
\* watchdog, or the owner when there never was one.
Undeletable == (IF watchdog = "none" THEN "owner" ELSE "watchdog") \in refused

\* Whatever is cancelled, times out, fails or dies, in the end there is neither
\* a container nor a file with secrets, with three exceptions: the watchdog tried
\* to remove the container until its deadline; the last unlinking of the file
\* failed; the process was killed between staging the file and starting the
\* watchdog.
NothingStaysBehind ==
  [](pc # "idle" =>
       <>(/\ runtime = "strict" => ~MayAppear \/ watchdog = "gaveUp"
          /\ ~envFile \/ unstaged \/ Undeletable))

\* Nobody stands down early and somebody cleans up in the end, or tried to
\* (_launch_oci, _sandbox_watchdog).
CommandsLeaveNothing == []DisarmedWhenGone /\ NothingStaysBehind

=============================================================================
