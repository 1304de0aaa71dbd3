------------------------------- MODULE Csrss -------------------------------
(***************************************************************************)
(* The application table of the client/server runtime,                     *)
(* win32/csrss/csrss.c: the session thread (CsrssSessionRun) starts the    *)
(* shell, delivers input, reaps and runs pending launches; applications    *)
(* are launched by csrss_spawn_gui_instance on whatever thread asks.       *)
(*                                                                         *)
(* Threads are cooperative: current is the thread that runs, None between  *)
(* a KeYield and the next thread's turn.  A standard application has a     *)
(* thread; a custom one is called on the session thread.  An application's *)
(* image and thread object are named by its pid.  Windows are left out but *)
(* for whether a custom application still wants to be there; dialogs,      *)
(* drawing, exit codes (never read) and g_current_gui_pid are left out.    *)
(***************************************************************************)
EXTENDS Integers, FiniteSets

CONSTANTS
    MaxApps,      \* MAX_GUI_APPS
    MaxTries,     \* the KeYields a launch waits for the window, 32 in the code
    MaxPids       \* bound: the launches of one behaviour

ASSUME CsrssAssumption == {MaxApps, MaxTries, MaxPids} \subseteq Nat \ {0}

VARIABLES
    g_gui_apps, g_gui_app_count, g_next_gui_pid,
    g_session_state, g_shell_started, g_pending_launch,
    running,      \* the session loop's flag
    logon,        \* who can complete the logon: "dialog" thread, "screen", "none"
    pc,           \* where the session thread stands in its loop
    current,      \* the thread that runs
    spawning,     \* per thread, its call of csrss_spawn_gui_instance
    image,        \* per pid, the application's image
    thread,       \* per pid, thread->state of the standard application's thread
    objects,      \* the standard applications whose thread object is alive
    open          \* the custom applications with a window and no wish to exit

tableVars == <<g_gui_apps, g_gui_app_count, g_next_gui_pid>>
sessionVars == <<g_session_state, g_shell_started, g_pending_launch, running, logon>>
appVars == <<image, thread, objects, open>>
vars == <<tableVars, sessionVars, appVars, pc, current, spawning>>

Pids == 1 .. MaxPids
None == 0
Session == -1
Slots == 1 .. MaxApps
Entry(pid, kind, img, thr) == [pid |-> pid, kind |-> kind, image |-> img, thread |-> thr]
Blank(pid) == Entry(pid, "custom", None, None)      \* after the memset
NoCall == [slot |-> None, tries |-> 0]
Idle(t) == spawning[t] = NoCall
-----------------------------------------------------------------------------
Init ==
    /\ g_gui_apps = [i \in Slots |-> Blank(None)]
    /\ g_gui_app_count = 0
    /\ g_next_gui_pid = 1
    /\ g_session_state = "BOOTING"
    /\ g_shell_started = FALSE
    /\ g_pending_launch = FALSE
    /\ running = TRUE
    /\ logon \in {"dialog", "screen"}
    /\ pc = "top"
    /\ current = None
    /\ spawning = [t \in {Session} \cup Pids |-> NoCall]
    /\ image = [p \in Pids |-> "none"]
    /\ thread = [p \in Pids |-> "none"]
    /\ objects = {}
    /\ open = {}

\* KeYield hands the processor to a thread that can use it; a terminated
\* thread only yields again.
Switch(t) ==
    /\ current = None
    /\ IF t = Session THEN pc # "ended" ELSE thread[t] = "ready"
    /\ current' = t
    /\ UNCHANGED <<tableVars, sessionVars, appVars, pc, spawning>>

\* csrss_complete_logon.
CompleteLogon ==
    g_session_state' = IF g_session_state = "BOOTING" THEN "LOGGED_ON" ELSE g_session_state

\* csrss_winlogon_sas_thread: MSGINA's dialog returns, with or without a logon.
WlxLoggedOutSAS ==
    /\ current = None /\ logon = "dialog"
    /\ CompleteLogon \/ UNCHANGED g_session_state
    /\ logon' = "none"
    /\ UNCHANGED <<tableVars, g_shell_started, g_pending_launch, running, appVars, pc,
                   current, spawning>>
-----------------------------------------------------------------------------
(* csrss_spawn_gui_instance on thread t.  The slot is the one behind the   *)
(* table's last; it joins the table only when the call ends.               *)

Write(slot, e) ==
    /\ g_next_gui_pid <= MaxPids
    /\ g_gui_apps' = [g_gui_apps EXCEPT ![slot] = e]
    /\ g_next_gui_pid' = g_next_gui_pid + 1

\* The table is full, or csrss_load_gui_instance fails and leaves no image; the entry
\* says "standard" when there was no thread for the application.
SpawnFails ==
    /\ \/ /\ g_gui_app_count >= MaxApps
          /\ UNCHANGED <<g_gui_apps, g_next_gui_pid>>
       \/ /\ g_gui_app_count < MaxApps
          /\ \E kind \in {"custom", "standard"} :
                Write(g_gui_app_count + 1, Entry(g_next_gui_pid, kind, None, None))
    /\ UNCHANGED <<g_gui_app_count, appVars, spawning>>

\* A custom application is initialised and has its window on return.
SpawnsCustom ==
    /\ g_gui_app_count < MaxApps
    /\ LET p == g_next_gui_pid IN
         /\ Write(g_gui_app_count + 1, Entry(p, "custom", p, None))
         /\ image' = [image EXCEPT ![p] = "live"]
         /\ open' = open \cup {p}
    /\ g_gui_app_count' = g_gui_app_count + 1
    /\ UNCHANGED <<thread, objects, spawning>>

\* A standard application gets a thread; the caller will wait for a window.
SpawnsStandard(t) ==
    /\ g_gui_app_count < MaxApps
    /\ LET p == g_next_gui_pid IN
         /\ Write(g_gui_app_count + 1, Entry(p, "standard", p, p))
         /\ image' = [image EXCEPT ![p] = "live"]
         /\ thread' = [thread EXCEPT ![p] = "ready"]
         /\ objects' = objects \cup {p}
    /\ spawning' = [spawning EXCEPT ![t] = [slot |-> g_gui_app_count + 1, tries |-> 0]]
    /\ UNCHANGED <<g_gui_app_count, open>>


\* The window is not there yet: one more KeYield.
SpawnWaits(t) ==
    /\ current = t /\ ~ Idle(t)
    /\ spawning[t].tries < MaxTries
    /\ spawning' = [spawning EXCEPT ![t].tries = @ + 1]
    /\ current' = None
    /\ UNCHANGED <<tableVars, sessionVars, appVars, pc>>

\* The window is bound, or the tries are used up; the shell counts as started.
SpawnEnds(t) ==
    /\ current = t /\ ~ Idle(t)
    /\ g_gui_app_count' = g_gui_app_count + 1
    /\ spawning' = [spawning EXCEPT ![t] = NoCall]
    /\ LET shell == t = Session /\ pc = "shell" IN
         /\ g_shell_started' = (g_shell_started \/ shell)
         /\ pc' = IF shell THEN "input" ELSE pc
    /\ UNCHANGED <<g_gui_apps, g_next_gui_pid, g_session_state, g_pending_launch, running,
                   logon, appVars, current>>

\* csrss_execute_image: what cannot be spawned is left for the session loop,
\* over what was left there before.
ExecuteImage(t) ==
    /\ Idle(t)
    /\ \/ SpawnFails /\ g_pending_launch' = TRUE
       \/ (SpawnsCustom \/ SpawnsStandard(t)) /\ UNCHANGED g_pending_launch
    /\ UNCHANGED <<g_session_state, g_shell_started, running, logon, pc, current>>
-----------------------------------------------------------------------------
(* The thread of standard application p, csrss_gui_thread_main.            *)

AppYields(p) ==
    /\ current = p /\ Idle(p)
    /\ current' = None
    /\ UNCHANGED <<tableVars, sessionVars, appVars, pc, spawning>>

\* CreateProcessW or WinExec, on the application's own thread.
AppLaunches(p) ==
    /\ current = p
    /\ ExecuteImage(p)

\* The entry point returns, or there was no stack to call it on.
AppReturns(p) ==
    /\ current = p /\ Idle(p)
    /\ thread' = [thread EXCEPT ![p] = "terminated"]
    /\ current' = None
    /\ UNCHANGED <<tableVars, sessionVars, image, objects, open, pc, spawning>>
-----------------------------------------------------------------------------
(* The session thread, CsrssSessionRun.                                    *)

At(where) == current = Session /\ pc = where /\ Idle(Session)

\* The top of the loop: the shell is started once the user has logged on.
StartShell ==
    /\ At("top") /\ running
    /\ g_session_state = "LOGGED_ON" /\ ~ g_shell_started
    /\ \/ SpawnFails /\ g_session_state' = "LOGGING_OFF" /\ pc' = "input"
          /\ UNCHANGED g_shell_started
       \/ SpawnsCustom /\ g_shell_started' = TRUE /\ pc' = "input"
          /\ UNCHANGED g_session_state
       \/ SpawnsStandard(Session) /\ pc' = "shell"
          /\ UNCHANGED <<g_session_state, g_shell_started>>
    /\ UNCHANGED <<g_pending_launch, running, logon, current>>

NoShell ==
    /\ At("top") /\ running
    /\ g_session_state # "LOGGED_ON" \/ g_shell_started
    /\ pc' = "input"
    /\ UNCHANGED <<tableVars, sessionVars, appVars, current, spawning>>

\* A key: Enter on the logon screen, the secure attention sequence, Escape.
Key ==
    /\ At("input")
    /\ LET onScreen == g_session_state = "BOOTING" /\ logon = "screen" IN
       \/ /\ onScreen
          /\ CompleteLogon /\ logon' = "none" /\ UNCHANGED running
       \/ /\ ~ onScreen
          /\ g_session_state' = CASE g_session_state = "LOGGED_ON" -> "LOCKED"
                                  [] g_session_state = "LOCKED" -> "LOGGED_ON"
                                  [] OTHER -> g_session_state
          /\ UNCHANGED <<running, logon>>
       \/ /\ ~ onScreen /\ g_session_state # "LOCKED"
          /\ running' = FALSE
          /\ UNCHANGED <<g_session_state, logon>>
    /\ UNCHANGED <<tableVars, g_shell_started, g_pending_launch, appVars, pc, current,
                   spawning>>

\* Input for a custom application of the table: its handler may end it or
\* launch another.
CustomInput ==
    /\ At("input")
    /\ \E i \in 1 .. g_gui_app_count : g_gui_apps[i].pid \in open /\
         \/ /\ open' = open \ {g_gui_apps[i].pid}
            /\ UNCHANGED <<tableVars, sessionVars, image, thread, objects, pc, current,
                           spawning>>
         \/ ExecuteImage(Session)

InputDone ==
    /\ At("input")
    /\ pc' = "reap"
    /\ UNCHANGED <<tableVars, sessionVars, appVars, current, spawning>>

\* Faulty variant: does not look at the state of a standard one's thread.
OverIfThere(e) ==
    IF e.kind = "custom" THEN e.pid \notin open
    ELSE e.thread \in objects

\* A custom application that is closed, a standard one whose thread is done.
Over(e) ==
    IF e.kind = "custom" THEN e.pid \notin open
    ELSE e.thread \in objects /\ thread[e.thread] = "terminated"

Free(pids) == [p \in Pids |-> IF p \in pids THEN "freed" ELSE image[p]]

\* Faulty variant: the entries behind it stay where they are.
RemovedInPlace(i) == [g_gui_apps EXCEPT ![i].image = None, ![i].thread = None]

\* Entry i gives up image and thread, and the entries behind it move up.
Removed(i) ==
    LET t == [g_gui_apps EXCEPT ![i].image = None, ![i].thread = None] IN
    [j \in Slots |-> IF i <= j /\ j < g_gui_app_count THEN t[j + 1] ELSE t[j]]

\* The first entry that is over leaves the table.
Reap ==
    /\ At("reap")
    /\ \E i \in 1 .. g_gui_app_count :
         LET e == g_gui_apps[i] IN
         /\ Over(e)
         /\ \A j \in 1 .. i - 1 : ~ Over(g_gui_apps[j])
         /\ image' = Free({e.image})
         /\ objects' = objects \ {e.thread}
         /\ g_gui_apps' = Removed(i)
    /\ g_gui_app_count' = g_gui_app_count - 1
    /\ UNCHANGED <<g_next_gui_pid, sessionVars, thread, open, pc, current, spawning>>

\* None is left that is over: an empty table ends a session that logs off.
ReapDone ==
    /\ At("reap")
    /\ \A i \in 1 .. g_gui_app_count : ~ Over(g_gui_apps[i])
    /\ running' = (running /\ ~ (g_gui_app_count = 0 /\ g_session_state = "LOGGING_OFF"))
    /\ pc' = "launch"
    /\ UNCHANGED <<tableVars, g_session_state, g_shell_started, g_pending_launch, logon,
                   appVars, current, spawning>>

\* A pending launch is taken; if its file loads it runs on this thread
\* (csrss_execute_image_sync).
TakeLaunch ==
    /\ At("launch") /\ g_pending_launch
    /\ g_pending_launch' = FALSE
    /\ pc' \in {"yield", "sync"}
    /\ UNCHANGED <<tableVars, g_session_state, g_shell_started, running, logon, appVars,
                   current, spawning>>

NoLaunch ==
    /\ At("launch") /\ ~ g_pending_launch
    /\ pc' = "yield"
    /\ UNCHANGED <<tableVars, sessionVars, appVars, current, spawning>>

\* The program that runs on the session thread launches others, or yields.
SyncLaunches == At("sync") /\ ExecuteImage(Session)

SyncYields ==
    /\ At("sync")
    /\ current' = None
    /\ UNCHANGED <<tableVars, sessionVars, appVars, pc, spawning>>

SyncReturns ==
    /\ At("sync")
    /\ pc' = "yield"
    /\ UNCHANGED <<tableVars, sessionVars, appVars, current, spawning>>

\* The loop's KeYield.
LoopYields ==
    /\ At("yield")
    /\ pc' = "top" /\ current' = None
    /\ UNCHANGED <<tableVars, sessionVars, appVars, spawning>>

\* The loop has ended: every image of the table is freed, whatever its thread
\* does, and the session is shut down.
Teardown ==
    /\ At("top") /\ ~ running
    /\ image' = Free({g_gui_apps[i].image : i \in 1 .. g_gui_app_count})
    /\ \/ g_session_state' \in {"SHUTTING_DOWN", g_session_state}    \* as MSGINA exports
       \/ g_session_state = "LOGGED_ON" /\ g_session_state' = "LOGGING_OFF"
    /\ pc' = "ended" /\ current' = None
    /\ UNCHANGED <<tableVars, g_shell_started, g_pending_launch, running, logon, thread,
                   objects, open, spawning>>
-----------------------------------------------------------------------------
SpawnStep(t) == SpawnWaits(t) \/ SpawnEnds(t)
AppStep(p) == AppYields(p) \/ AppReturns(p)
LoopStep ==
    \/ StartShell \/ NoShell \/ SpawnStep(Session) \/ Reap \/ ReapDone
    \/ TakeLaunch \/ NoLaunch \/ LoopYields \/ Teardown

Next ==
    \/ \E t \in {Session} \cup Pids : Switch(t)
    \/ WlxLoggedOutSAS
    \/ \E p \in Pids : AppStep(p)
    \/ LoopStep
    \/ Key \/ CustomInput \/ InputDone
    \/ SyncLaunches \/ SyncYields \/ SyncReturns

\* The scheduler's round robin reaches the session thread again and again
\* (module Ke); the loop's own code runs on; input runs dry; an application
\* yields sooner or later.  Nothing is assumed of a program called on the session
\* thread: it need not return (ExitProcess never does, kernel32.c:321-324).
Fairness ==
    /\ SF_vars(Switch(Session))
    /\ WF_vars(LoopStep)
    /\ WF_vars(InputDone)
    /\ \A p \in Pids : WF_vars(AppStep(p))

\* Every launch is asked for on the session thread: by the loop itself, by a
\* custom application's handler, or by a program the loop has called.
Spec == Init /\ [][Next]_vars /\ Fairness

\* Standard applications launch others too, each on its own thread.
NextAnyThread == Next \/ \E p \in Pids : AppLaunches(p) \/ SpawnStep(p)

SpecAnyThread ==
    /\ Init /\ [][NextAnyThread]_vars
    /\ Fairness /\ \A p \in Pids : WF_vars(SpawnStep(p))
-----------------------------------------------------------------------------
TypeOK ==
    /\ g_gui_apps \in [Slots -> [pid : {None} \cup Pids, kind : {"custom", "standard"},
                                 image : {None} \cup Pids, thread : {None} \cup Pids]]
    /\ g_gui_app_count \in 0 .. MaxApps
    /\ g_next_gui_pid \in 1 .. MaxPids + 1
    /\ image \in [Pids -> {"none", "live", "freed"}]
    /\ thread \in [Pids -> {"none", "ready", "terminated"}]
    /\ objects \subseteq Pids
    /\ open \subseteq Pids
    /\ pc \in {"top", "shell", "input", "reap", "launch", "sync", "yield", "ended"}
    /\ current \in {None, Session} \cup Pids
    /\ spawning \in [{Session} \cup Pids -> [slot : {None} \cup Slots, tries : 0 .. MaxTries]]

\* Where an application's image is held: in the table, or by a launch that
\* has not ended.
Holders(p) ==
    {i \in 1 .. g_gui_app_count : g_gui_apps[i].image = p} \cup
    {spawning[t].slot : t \in {s \in {Session} \cup Pids :
        ~ Idle(s) /\ g_gui_apps[spawning[s].slot].image = p}}

\* CSRSS owns the lifetime of every application it loaded: while its image is
\* loaded, exactly one entry of the table, or one launch that has not ended,
\* holds it, and every entry of the table holds one (until the teardown).
AppsOwned ==
    pc # "ended" =>
        /\ \A p \in Pids : image[p] = "live" => Cardinality(Holders(p)) = 1
        /\ \A i \in 1 .. g_gui_app_count : g_gui_apps[i].image # None

\* While the session loop runs, the image of an application whose thread has
\* not terminated is not freed: the reaping waits for the scheduler's mark.
RunningImageKept ==
    pc # "ended" => \A p \in Pids : thread[p] = "ready" => image[p] = "live"

-----------------------------------------------------------------------------
\* What AppsOwned and RunningImageKept rest on while launches are asked for on the
\* session thread only.

\* The entries of the table, and the one a launch under way has filled behind them.
Held == 1 .. IF Idle(Session) THEN g_gui_app_count ELSE g_gui_app_count + 1

\* Launches do not overlap, and none is under way when the session has ended.
OneLaunch ==
    /\ \A p \in Pids : Idle(p)
    /\ ~ Idle(Session) => spawning[Session].slot = g_gui_app_count + 1 /\ pc # "ended"
    /\ Held \subseteq Slots

\* An entry holds a loaded image: a standard application's with the thread of the same
\* pid, a custom one's without a thread.
EntryTrue(e) ==
    /\ e.image \in Pids /\ image[e.image] = "live"
    /\ IF e.kind = "custom" THEN e.thread = None /\ thread[e.image] = "none"
       ELSE e.thread = e.image

\* Every entry is true, no two hold one image, and every loaded image has one.
TableTrue ==
    pc # "ended" =>
        /\ \A i \in Held : EntryTrue(g_gui_apps[i])
        /\ \A i, j \in Held : g_gui_apps[i].image = g_gui_apps[j].image => i = j
        /\ \A p \in Pids : image[p] = "live" => \E i \in Held : g_gui_apps[i].image = p

\* A pid that has not been given out names nothing.
FreshPids ==
    \A p \in Pids : p >= g_next_gui_pid => image[p] = "none" /\ thread[p] = "none"

\* The thread that runs has not terminated.
CurrentIsReady == current \in Pids => thread[current] = "ready"

\* The inductive invariant.
CInv ==
    /\ TypeOK /\ OneLaunch /\ TableTrue /\ FreshPids /\ CurrentIsReady /\ RunningImageKept
=============================================================================
