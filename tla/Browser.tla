------------------------------ MODULE Browser ------------------------------
(***************************************************************************)
(* The browser plugin (bundled_plugins/browser/browser_tools.py): one      *)
(* Chromium per agent, launched at the first use behind a proxy that vets  *)
(* every connection, or attached to a browser its owner already runs.      *)
(* Tool calls, browser_close and the end of the agent share one lock; a    *)
(* Stop or a timeout cancels a call at any of its awaits, but a close that *)
(* has begun goes on as a task of its own (BrowserHooks, BrowserSession).  *)
(*                                                                         *)
(* A handle is a kind and the launch that made it. In an attached browser  *)
(* the handle "context" is the guard put on the owner's context, and tabs  *)
(* are the owner's or ours.                                                *)
(***************************************************************************)
EXTENDS Naturals, Sequences, FiniteSets, SequencesExt

CONSTANTS
  Calls,        \* concurrent tool calls
  Hosts,        \* hosts that are not public
  Bridged,      \* those a dev server of the process plugin serves
  MaxLaunches,  \* bounds: launches,
  MaxCalls,     \* calls,
  MaxTunnels,   \* tunnels at a time,
  MaxTabs       \* tabs in an attached browser

VARIABLES
  attached,   \* cdp_url is set
  pc, op,     \* call -> where it is, what it does
  lock,       \* calls that hold the lock (at most one)
  closed,     \* aclose was called ...
  ended,      \* ... and returned
  session,    \* 0, or the number of the current BrowserSession
  closeTask,  \* "none" | "running" | "done"
  held,       \* handle kind -> 0, or the launch whose handle the session holds
  live,       \* handles that exist
  stage,      \* handles the running launch has made
  approved,   \* approved_hosts of the session
  tunnels,    \* connections of the proxy
  tabs,       \* attached: tab -> "owner" | "ours"
  pages, opened, popups,  \* attached: tabs tracked, opened and popped up
  consents,   \* <<session, host>> the user agreed to
  reached,    \* the <<session, host>> a page got through to last
  cutShort,   \* a Stop hit the release of a failed launch, or new_page
  launches, sessions, calls  \* how many there were

lifecycle == <<closed, ended, session, closeTask, sessions>>
handles == <<held, live, stage, launches>>
network == <<approved, tunnels, consents, reached>>
tabbing == <<tabs, pages, opened, popups>>
vars == <<attached, cutShort, pc, op, lock, calls, lifecycle, handles, network, tabbing>>

Kinds == {"proxy", "driver", "browser", "context"}
LaunchOrder == IF attached THEN <<"driver", "browser", "context">>
               ELSE <<"proxy", "driver", "browser", "context">>
CloseOrder == <<"context", "browser", "driver", "proxy">>
Nothing == [k \in Kinds |-> 0]

\* Hosts pages get through to without asking.
Free(h) == ~attached /\ h \in Bridged

\* ---- calls -----------------------------------------------------------------

Ops == {[do |-> d, host |-> h] : d \in {"navigate"}, h \in Hosts}
       \cup {[do |-> d, host |-> "none"] : d \in {"act", "resize", "close"}}
Ending == [do |-> "end", host |-> "none"]
Closes(c) == op[c].do \in {"close", "end"}

Goes(c, where) == pc' = [pc EXCEPT ![c] = where]

\* aclose refuses the calls still queued before it waits for the lock itself.
Call(c) ==
  /\ pc[c] = "idle" /\ calls < MaxCalls
  /\ \E o \in Ops \cup {Ending} :
       /\ o = Ending => ~closed
       /\ op' = [op EXCEPT ![c] = o]
       /\ closed' = (closed \/ o = Ending)
  /\ Goes(c, "queued") /\ calls' = calls + 1
  /\ UNCHANGED <<attached, cutShort, lock, ended, session, closeTask, sessions, handles, network, tabbing>>

Acquire(c) ==
  /\ pc[c] = "queued" /\ lock = {}
  /\ lock' = {c} /\ Goes(c, "ready")
  /\ UNCHANGED <<attached, cutShort, op, calls, lifecycle, handles, network, tabbing>>

Leave(c) ==
  /\ Goes(c, "idle") /\ lock' = lock \ {c}
  /\ op' = [op EXCEPT ![c] = Ending]

\* Cancelled at an await; a close it was waiting for continues.
Cancel(c) ==
  /\ \/ pc[c] \in {"queued", "asking", "shutting", "acting"}
     \/ pc[c] = "opening" /\ ~(attached /\ pages = <<>>)
  /\ Leave(c)
  /\ UNCHANGED <<attached, cutShort, calls, lifecycle, handles, network, tabbing>>

\* ---- BrowserHooks.use and _close_session -------------------------------------

\* A browser_close, aclose, or a call that finds a close that was abandoned.
MustShutToClose(c) == session # 0 /\ Closes(c)
MustShut(c) == session # 0 /\ (Closes(c) \/ closeTask # "none")

Shut(c) ==
  /\ pc[c] = "ready" /\ MustShut(c)
  /\ closeTask' = "running"
  /\ Goes(c, "shutting")
  /\ UNCHANGED <<attached, cutShort, op, lock, calls, closed, ended, session, sessions, handles, network, tabbing>>

\* Nothing to close, a closed plugin, or a tool an attached browser lacks.
RefusesWhileOpen(c) == Closes(c) \/ (op[c].do = "resize" /\ attached)
Refuses(c) == Closes(c) \/ closed \/ (op[c].do = "resize" /\ attached)

Refuse(c) ==
  /\ pc[c] = "ready" /\ ~MustShut(c) /\ Refuses(c)
  /\ ended' = (ended \/ op[c] = Ending)
  /\ Leave(c)
  /\ UNCHANGED <<attached, cutShort, calls, closed, session, closeTask, sessions, handles, network, tabbing>>

\* Hosts the session approved; a new session starts with none.
KnownForever == approved
Known == IF session = 0 THEN {} ELSE approved

Use(c) ==
  /\ pc[c] = "ready" /\ ~MustShut(c) /\ ~Refuses(c)
  /\ LET asks == op[c].do = "navigate" /\ op[c].host \notin Known /\ ~Free(op[c].host)
     IN /\ session' = IF session = 0 THEN sessions + 1 ELSE session
        /\ sessions' = IF session = 0 THEN sessions + 1 ELSE sessions
        /\ approved' = Known
        /\ Goes(c, IF asks THEN "asking" ELSE "starting")
  /\ UNCHANGED <<attached, cutShort, op, lock, calls, closed, ended, closeTask, handles,
                 tunnels, consents, reached, tabbing>>

\* authorize_navigation: nothing is launched before the user has agreed.
Answer(c, yes) ==
  /\ pc[c] = "asking"
  /\ IF yes
     THEN /\ approved' = approved \cup {op[c].host}
          /\ consents' = consents \cup {<<session, op[c].host>>}
          /\ Goes(c, "starting") /\ UNCHANGED <<op, lock>>
     ELSE Leave(c) /\ UNCHANGED <<approved, consents>>
  /\ UNCHANGED <<attached, cutShort, calls, lifecycle, handles, tunnels, reached, tabbing>>

\* ---- BrowserSession.page, _launch, _attach -----------------------------------

Start(c) ==
  /\ pc[c] = "starting"
  /\ IF held["context"] # 0
     THEN Goes(c, "opening") /\ UNCHANGED <<launches, stage>>
     ELSE /\ launches < MaxLaunches
          /\ launches' = launches + 1 /\ stage' = 0
          /\ Goes(c, "launching")
  /\ UNCHANGED <<attached, cutShort, op, lock, calls, lifecycle, held, live, network, tabbing>>

\* The next handle exists and is stored; an adopted context brings its tabs.
Launch(c) ==
  /\ pc[c] = "launching" /\ stage < Len(LaunchOrder)
  /\ LET k == LaunchOrder[stage + 1]
     IN /\ held' = [held EXCEPT ![k] = launches]
        /\ live' = live \cup {<<k, launches>>}
        /\ pages' = IF attached /\ k = "context" THEN SetToSeq(DOMAIN tabs) ELSE pages
  /\ stage' = stage + 1
  /\ UNCHANGED <<attached, cutShort, pc, op, lock, calls, lifecycle, launches, network, tabs, opened, popups>>

Launched(c) ==
  /\ pc[c] = "launching" /\ stage = Len(LaunchOrder)
  /\ Goes(c, "opening") /\ stage' = 0
  /\ UNCHANGED <<attached, cutShort, op, lock, calls, lifecycle, held, live, launches, network, tabbing>>

\* An error or a cancellation: the launch closes the session itself.
FailLaunch(c) ==
  /\ pc[c] = "launching"
  /\ Goes(c, "releasing") /\ stage' = 0 /\ pages' = <<>>
  /\ UNCHANGED <<attached, cutShort, op, lock, calls, lifecycle, held, live, launches, network, tabs, opened, popups>>

NewTab(who, tab) ==
  /\ tab \in 1 .. MaxTabs \ DOMAIN tabs
  /\ tabs' = [t \in DOMAIN tabs \cup {tab} |-> IF t = tab THEN who ELSE tabs[t]]

\* Without a tab of its own to use, an attached session opens one.
Open(c) ==
  /\ pc[c] = "opening"
  /\ IF attached /\ pages = <<>>
     THEN \E tab \in 1 .. MaxTabs :
            /\ NewTab("ours", tab)
            /\ pages' = Append(pages, tab)
            /\ opened' = opened \cup {tab}
     ELSE UNCHANGED <<tabs, pages, opened>>
  /\ Goes(c, "acting")
  /\ UNCHANGED <<attached, cutShort, op, lock, calls, lifecycle, handles, network, popups>>

\* Cancelled while the tab is being opened: only the page event tracks it.
CancelOpen(c) ==
  /\ pc[c] = "opening" /\ attached /\ pages = <<>>
  /\ \E tab \in 1 .. MaxTabs : NewTab("ours", tab) /\ pages' = Append(pages, tab)
  /\ Leave(c) /\ cutShort' = TRUE
  /\ UNCHANGED <<attached, calls, lifecycle, handles, network, opened, popups>>

\* The action is done, or failed, and the page was read.
Finish(c) ==
  /\ pc[c] = "acting" /\ Leave(c)
  /\ UNCHANGED <<attached, cutShort, calls, lifecycle, handles, network, tabbing>>

\* ---- BrowserSession.close ------------------------------------------------------

Holds(k) == held[k] # 0
NextKind == SelectInSeq(CloseOrder, Holds)
Drop(ts) == tabs' = [t \in DOMAIN tabs \ ts |-> tabs[t]]

\* One await of close: a tab we opened, a popup, or the next handle.
CloseTab ==
  /\ attached /\ Holds("context")
  /\ IF opened # {}
     THEN \E t \in opened : Drop({t}) /\ opened' = opened \ {t} /\ UNCHANGED popups
     ELSE \E t \in popups : Drop({t}) /\ popups' = popups \ {t} /\ UNCHANGED opened
  /\ UNCHANGED <<held, live, tunnels>>

CloseHandle ==
  /\ NextKind # 0
  /\ LET k == CloseOrder[NextKind]
     IN /\ attached /\ k = "context" => opened \cup popups = {}
        /\ live' = live \ {<<k, held[k]>>}
        /\ held' = [held EXCEPT ![k] = 0]
        /\ tunnels' = {t \in tunnels : k # "proxy" \/ t.launch # held[k]}
  /\ opened' = {} /\ popups' = {} /\ UNCHANGED tabs

CloseStep == CloseTab \/ CloseHandle

Release(c) ==
  /\ pc[c] = "releasing"
  /\ \/ CloseStep /\ UNCHANGED <<pc, op, lock>>
     \/ NextKind = 0 /\ Leave(c) /\ UNCHANGED <<held, live, tunnels, tabs, opened, popups>>
  /\ UNCHANGED <<attached, cutShort, calls, lifecycle, stage, launches, pages,
                 approved, consents, reached>>

\* A Stop that cancels the release: what is not closed yet stays with the session.
InterruptRelease(c) ==
  /\ pc[c] = "releasing" /\ Leave(c) /\ cutShort' = TRUE
  /\ UNCHANGED <<attached, calls, lifecycle, handles, network, tabbing>>

RunCloseTask ==
  /\ closeTask = "running"
  /\ pages' = <<>>
  /\ \/ CloseStep /\ UNCHANGED closeTask
     \/ /\ NextKind = 0 /\ closeTask' = "done"
        /\ UNCHANGED <<held, live, tunnels, tabs, opened, popups>>
  /\ UNCHANGED <<attached, cutShort, pc, op, lock, calls, closed, ended, session, sessions,
                 stage, launches, approved, consents, reached>>

\* The session is dropped; a call that found an abandoned close goes on.
ShutDone(c) ==
  /\ pc[c] = "shutting" /\ closeTask = "done"
  /\ session' = 0 /\ closeTask' = "none"
  /\ ended' = (ended \/ op[c] = Ending)
  /\ IF Closes(c) THEN Leave(c) ELSE Goes(c, "ready") /\ UNCHANGED <<op, lock>>
  /\ UNCHANGED <<attached, cutShort, calls, closed, sessions, handles, network, tabbing>>

\* ---- the page, the network, the owner --------------------------------------------

\* A page of the launched browser asks the proxy for a connection ...
Connect(h) ==
  /\ ~attached /\ held["context"] # 0 /\ held["proxy"] # 0
  /\ Cardinality(tunnels) < MaxTunnels
  /\ tunnels' = tunnels \cup {[host |-> h, session |-> session,
                               launch |-> held["proxy"], vetted |-> FALSE]}
  /\ UNCHANGED <<attached, cutShort, pc, op, lock, calls, lifecycle, handles, tabbing,
                 approved, consents, reached>>

\* A session goes by its own approvals, also when another one has taken its place.
Allowed(s, h) == Free(h) \/ IF s = session THEN h \in approved ELSE <<s, h>> \in consents

\* ... which resolves the host and then tunnels or refuses.
Vet(t) ==
  /\ ~t.vetted
  /\ IF Allowed(t.session, t.host)
     THEN /\ tunnels' = (tunnels \ {t}) \cup {[t EXCEPT !.vetted = TRUE]}
          /\ reached' = {<<t.session, t.host>>}
     ELSE tunnels' = tunnels \ {t} /\ UNCHANGED reached
  /\ UNCHANGED <<attached, cutShort, pc, op, lock, calls, lifecycle, handles, tabbing, approved, consents>>

\* In an attached browser the guard on requests and sockets decides.
Request(h) ==
  /\ attached /\ held["context"] # 0 /\ Allowed(session, h)
  /\ reached' = {<<session, h>>}
  /\ UNCHANGED <<attached, cutShort, pc, op, lock, calls, lifecycle, handles, tabbing,
                 approved, tunnels, consents>>

Acting == \E c \in Calls : pc[c] = "acting"

\* The active tab, or a popup of it, opens another one during an action.
Popup ==
  /\ attached /\ Acting /\ pages # <<>>
  /\ \E tab \in 1 .. MaxTabs :
       /\ NewTab("ours", tab)
       /\ popups' = popups \cup {tab}
       /\ pages' = Append(pages, tab)
  /\ UNCHANGED <<attached, cutShort, pc, op, lock, calls, lifecycle, handles, network, opened>>

OwnerOpens ==
  /\ attached
  /\ \E tab \in 1 .. MaxTabs :
       /\ NewTab("owner", tab)
       /\ pages' = IF held["context"] # 0 THEN Append(pages, tab) ELSE pages
  /\ UNCHANGED <<attached, cutShort, pc, op, lock, calls, lifecycle, handles, network, opened, popups>>

\* The owner closes a tab, whoever opened it (_untrack).
OwnerCloses ==
  /\ attached /\ tabs # <<>>
  /\ \E t \in DOMAIN tabs :
       /\ Drop({t})
       /\ pages' = SelectSeq(pages, LAMBDA p : p # t)
       /\ opened' = opened \ {t} /\ popups' = popups \ {t}
  /\ UNCHANGED <<attached, cutShort, pc, op, lock, calls, lifecycle, handles, network>>

Init ==
  /\ attached \in BOOLEAN
  /\ pc = [c \in Calls |-> "idle"] /\ op = [c \in Calls |-> Ending]
  /\ lock = {} /\ calls = 0 /\ launches = 0 /\ sessions = 0 /\ stage = 0
  /\ closed = FALSE /\ ended = FALSE /\ session = 0 /\ closeTask = "none"
  /\ held = Nothing /\ live = {}
  /\ approved = {} /\ tunnels = {} /\ consents = {} /\ reached = {}
  /\ cutShort = FALSE /\ tabs = <<>> /\ pages = <<>> /\ opened = {} /\ popups = {}

Step(c) ==
  \/ Call(c) \/ Acquire(c) \/ Cancel(c) \/ Shut(c) \/ Refuse(c) \/ Use(c)
  \/ \E yes \in BOOLEAN : Answer(c, yes)
  \/ Start(c) \/ Launch(c) \/ Launched(c) \/ FailLaunch(c)
  \/ Open(c) \/ CancelOpen(c) \/ Finish(c)
  \/ Release(c) \/ InterruptRelease(c) \/ ShutDone(c)

World ==
  \/ RunCloseTask
  \/ \E h \in Hosts : Connect(h) \/ Request(h)
  \/ \E t \in tunnels : Vet(t)
  \/ Popup \/ OwnerOpens \/ OwnerCloses

Next == World \/ \E c \in Calls : Step(c)

Spec == Init /\ [][Next]_vars

\* ---- properties --------------------------------------------------------------------

\* browser_tools.py:594 says that each handle is stored as soon as it exists so
\* that close can release a launch that failed or was cancelled midway, and the
\* docstring of close that an interrupted close resumes when called again:
\* whatever exists is held by the session.
HandlesStayStored == \A h \in live : held[h[1]] = h[2]

NothingIsLost ==
  /\ HandlesStayStored
  /\ \A t \in DOMAIN tabs : tabs[t] = "ours" <=> t \in opened \cup popups
  /\ session = 0 => live = {} /\ opened \cup popups = {}

\* Handles and tabs are accounted for: whatever exists is held by the session,
\* of the tabs of an attached browser exactly those it opened are to be closed,
\* and none is left once the session is gone - unless a Stop lands while a
\* failed launch is released (the next launch overwrites the handles that were
\* kept) or while a tab is being opened (it is then taken for the owner's).
HandlesAreReleased == cutShort \/ NothingIsLost

\* A page gets through to a host that is not public only if the user agreed to
\* that host in this very session, whichever calls were cancelled, declined or
\* overtaken by a close, and whatever connection was being vetted meanwhile
\* (authorize_navigation, connect_address, request_blocked).
ReachedWasAllowed == \A r \in reached : Free(r[2]) \/ r \in consents

\* After aclose nothing runs and nothing starts again: calls queued behind it
\* refuse, tunnels are dropped (BrowserHooks.aclose, _VettingProxy.close).
ClosedForGood == ended => (live = {} /\ tunnels = {}) \/ cutShort

\* A session gives back what it made, lets through what it was allowed, and
\* ends for good, whatever is stopped in between (BrowserSession, BrowserHooks).
SessionsAreSound == HandlesAreReleased /\ ReachedWasAllowed /\ ClosedForGood

=============================================================================
