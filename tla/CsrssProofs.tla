---------------------------- MODULE CsrssProofs ----------------------------
(***************************************************************************)
(* For a table of any size, however long a launch waits for its window     *)
(* and however many applications are launched on the session thread: each  *)
(* loaded image is held by one entry, and no image is freed under a thread *)
(* that has not terminated.  The invariant CInv says what an entry is, so  *)
(* that the reaper's look at the thread is a look at the image's own, and  *)
(* that no launch is under way while the table shrinks.                    *)
(***************************************************************************)
EXTENDS Csrss, FiniteSetTheorems, TLAPS

-----------------------------------------------------------------------------
\* The bounds are numbers, and pids and the session thread do not meet.
LEMMA Bounds ==
    /\ MaxApps \in Nat /\ MaxTries \in Nat /\ MaxPids \in Nat
    /\ None \notin Pids /\ Session \notin Pids /\ None # Session
    /\ Pids \subseteq Nat
  BY CsrssAssumption DEF Pids, None, Session

\* The session starts with an empty table.
LEMMA InitCInv == Init => CInv
<1> SUFFICES ASSUME Init PROVE CInv
  OBVIOUS
<1> USE Bounds DEF Init
<1>1. TypeOK
  BY CsrssAssumption DEF TypeOK, Blank, Entry, NoCall, Slots
<1>2. Idle(Session) /\ \A p \in Pids : Idle(p)
  BY DEF Idle
<1>3. Held = {}
  BY <1>2 DEF Held
<1>4. OneLaunch /\ TableTrue /\ FreshPids /\ CurrentIsReady /\ RunningImageKept
  BY <1>2, <1>3 DEF OneLaunch, TableTrue, FreshPids, CurrentIsReady, RunningImageKept
<1> QED BY <1>1, <1>4 DEF CInv

-----------------------------------------------------------------------------
(* Steps that leave the table and what it holds alone.                     *)

\* What the invariant speaks of, but for the places of the threads.
Kept == UNCHANGED <<g_gui_apps, g_gui_app_count, g_next_gui_pid, image, thread, objects>>

\* The session thread moves on in its loop, or the processor changes hands.
LEMMA KeptKeeps ==
    ASSUME CInv, Kept, open' \subseteq open, UNCHANGED spawning,
           pc' \in {"top", "shell", "input", "reap", "launch", "sync", "yield", "ended"},
           pc' = "ended" <=> pc = "ended",
           current' \in {None, Session, current} \/ (current' \in Pids /\ thread[current'] = "ready")
    PROVE  CInv'
<1>0. TypeOK /\ OneLaunch /\ TableTrue /\ FreshPids /\ CurrentIsReady /\ RunningImageKept
  BY Zenon DEF CInv
<1>1. TypeOK'
  BY <1>0, Zenon DEF TypeOK, Kept
<1>2. Held' = Held /\ \A t : Idle(t)' = Idle(t)
  BY DEF Held, Idle, Kept
<1>3. OneLaunch'
  BY <1>0, <1>2, Zenon DEF OneLaunch, Kept
<1>4. \A e : EntryTrue(e)' = EntryTrue(e)
  BY DEF EntryTrue, Kept
<1>5. TableTrue'
  BY <1>0, <1>2, <1>4, Zenon DEF TableTrue, Kept
<1>6. FreshPids' /\ RunningImageKept'
  BY <1>0, Zenon DEF FreshPids, RunningImageKept, Kept
<1>7. CurrentIsReady'
  BY <1>0, Bounds, Zenon DEF CurrentIsReady, Kept
<1> QED BY <1>1, <1>3, <1>5, <1>6, <1>7, Zenon DEF CInv

-----------------------------------------------------------------------------
(* Launches.                                                               *)

\* A launch that fails changes at most the entry behind the last one held.
LEMMA SpawnFailsKeeps ==
    ASSUME CInv, SpawnFails, Idle(Session), UNCHANGED current, pc # "ended",
           pc' \in {"top", "shell", "input", "reap", "launch", "sync", "yield", "ended"}
    PROVE  CInv'
<1>0. TypeOK /\ OneLaunch /\ TableTrue /\ FreshPids /\ CurrentIsReady /\ RunningImageKept
  BY Zenon DEF CInv
<1>1. /\ UNCHANGED <<g_gui_app_count, image, thread, objects, open, spawning>>
      /\ g_gui_app_count \in Nat /\ g_next_gui_pid \in 1 .. MaxPids + 1
  BY <1>0, Bounds DEF SpawnFails, appVars, TypeOK
<1>2. /\ g_gui_apps' \in [Slots -> [pid : {None} \cup Pids, kind : {"custom", "standard"},
                                    image : {None} \cup Pids, thread : {None} \cup Pids]]
      /\ \A i \in 1 .. g_gui_app_count : g_gui_apps'[i] = g_gui_apps[i]
      /\ g_next_gui_pid' \in 1 .. MaxPids + 1 /\ g_next_gui_pid' >= g_next_gui_pid
  <2>1. CASE UNCHANGED <<g_gui_apps, g_next_gui_pid>>
    BY <2>1, <1>0, <1>1 DEF TypeOK
  <2>2. ASSUME NEW kind \in {"custom", "standard"}, g_gui_app_count < MaxApps,
               Write(g_gui_app_count + 1, Entry(g_next_gui_pid, kind, None, None))
        PROVE  /\ g_gui_apps' \in [Slots -> [pid : {None} \cup Pids,
                                             kind : {"custom", "standard"},
                                             image : {None} \cup Pids,
                                             thread : {None} \cup Pids]]
               /\ \A i \in 1 .. g_gui_app_count : g_gui_apps'[i] = g_gui_apps[i]
               /\ g_next_gui_pid' \in 1 .. MaxPids + 1 /\ g_next_gui_pid' >= g_next_gui_pid
    <3> DEFINE e == Entry(g_next_gui_pid, kind, None, None)
    <3>1. g_next_gui_pid \in Pids /\ g_gui_app_count + 1 \in Slots
      BY <2>2, <1>1, Bounds DEF Write, Pids, Slots
    <3>2. e \in [pid : {None} \cup Pids, kind : {"custom", "standard"},
                 image : {None} \cup Pids, thread : {None} \cup Pids]
      BY <2>2, <3>1 DEF Entry
    <3>3. g_gui_apps' = [g_gui_apps EXCEPT ![g_gui_app_count + 1] = e]
      BY <2>2 DEF Write
    <3>4. 1 .. g_gui_app_count \subseteq Slots /\ g_gui_app_count + 1 \notin 1 .. g_gui_app_count
      BY <2>2, <1>1, Bounds DEF Slots
    <3>5. g_next_gui_pid' \in 1 .. MaxPids + 1 /\ g_next_gui_pid' >= g_next_gui_pid
      BY <2>2, <1>1, Bounds DEF Write
    <3> HIDE DEF e
    <3> QED BY <1>0, <3>1, <3>2, <3>3, <3>4, <3>5 DEF TypeOK
  <2> QED BY <2>1, <2>2 DEF SpawnFails
<1>3. TypeOK'
  BY <1>0, <1>1, <1>2, Zenon DEF TypeOK
<1>4. /\ Held = 1 .. g_gui_app_count /\ Held' = Held /\ Idle(Session)'
      /\ \A t : Idle(t)' = Idle(t)
  BY <1>1 DEF Held, Idle
<1>5. OneLaunch'
  BY <1>0, <1>1, <1>4, Zenon DEF OneLaunch
<1>6. TableTrue'
  <2>1. \A i \in Held : EntryTrue(g_gui_apps[i])'
    BY <1>0, <1>1, <1>2, <1>4 DEF TableTrue, EntryTrue
  <2>0. \A i \in Held : g_gui_apps'[i] = g_gui_apps[i]
    BY <1>2, <1>4, Zenon
  <2>2. \A i, j \in Held : g_gui_apps'[i].image = g_gui_apps'[j].image => i = j
    BY <1>0, <2>0 DEF TableTrue
  <2>3. \A p \in Pids : image'[p] = "live" => \E i \in Held : g_gui_apps'[i].image = p
    <3>1. \A p \in Pids : image[p] = "live" => \E i \in Held : g_gui_apps[i].image = p
      BY <1>0, Zenon DEF TableTrue
    <3> QED BY <1>1, <2>0, <3>1
  <2> QED BY <1>4, <2>1, <2>2, <2>3, Zenon DEF TableTrue
<1>7. FreshPids'
  BY <1>0, <1>1, <1>2, Bounds DEF FreshPids
<1>8. CurrentIsReady' /\ RunningImageKept'
  BY <1>0, <1>1, Zenon DEF CurrentIsReady, RunningImageKept
<1> QED BY <1>3, <1>5, <1>6, <1>7, <1>8, Zenon DEF CInv

\* A new entry that is true, with a pid that was not given out before.
LEMMA NewEntry ==
    ASSUME CInv, pc # "ended", NEW e, NEW p \in Pids, p = g_next_gui_pid,
           Idle(Session), \A q \in Pids : Idle(q)',
           g_gui_app_count + 1 \in Slots,
           e \in [pid : {None} \cup Pids, kind : {"custom", "standard"},
                 image : {None} \cup Pids, thread : {None} \cup Pids],
           e.image = p, EntryTrue(e)',
           Write(g_gui_app_count + 1, e),
           Held' = 1 .. g_gui_app_count + 1,
           image' = [image EXCEPT ![p] = "live"],
           \A q \in Pids \ {p} : thread'[q] = thread[q]
    PROVE  /\ Held' \subseteq Slots
           /\ g_gui_apps' \in [Slots -> [pid : {None} \cup Pids, kind : {"custom", "standard"},
                                        image : {None} \cup Pids, thread : {None} \cup Pids]]
           /\ g_next_gui_pid' \in 1 .. MaxPids + 1
           /\ image' \in [Pids -> {"none", "live", "freed"}]
           /\ TableTrue' /\ FreshPids' /\ RunningImageKept'
<1>0. TypeOK /\ TableTrue /\ FreshPids /\ RunningImageKept
  BY Zenon DEF CInv
<1> DEFINE n == g_gui_app_count + 1
<1>1. g_gui_app_count \in Nat /\ n \in Slots /\ n \notin 1 .. g_gui_app_count
      /\ 1 .. n = (1 .. g_gui_app_count) \cup {n} /\ 1 .. n \subseteq Slots
  BY <1>0, Bounds DEF TypeOK, Slots
<1>2. /\ g_gui_apps' = [g_gui_apps EXCEPT ![n] = e]
      /\ g_next_gui_pid' = p + 1 /\ p \in Nat
  BY Bounds DEF Write
<1>3. Held = 1 .. g_gui_app_count /\ Held' = Held \cup {n} /\ Held' \subseteq Slots
  BY <1>1, ZenonT(30) DEF Held
<1> HIDE DEF n
<1>4. /\ g_gui_apps'[n] = e
      /\ \A i \in Held : g_gui_apps'[i] = g_gui_apps[i] /\ i # n
  BY <1>0, <1>1, <1>2, <1>3 DEF TypeOK
<1>5. /\ g_gui_apps' \in [Slots -> [pid : {None} \cup Pids, kind : {"custom", "standard"},
                                    image : {None} \cup Pids, thread : {None} \cup Pids]]
      /\ image' \in [Pids -> {"none", "live", "freed"}]
      /\ image'[p] = "live" /\ \A q \in Pids \ {p} : image'[q] = image[q]
  BY <1>0, <1>1, <1>2 DEF TypeOK
<1>6. g_next_gui_pid' \in 1 .. MaxPids + 1
  BY <1>2, Bounds DEF Pids
<1>7. image[p] = "none" /\ thread[p] = "none"
  BY <1>0, Bounds DEF FreshPids
<1>8. \A i \in Held : EntryTrue(g_gui_apps[i]) /\ g_gui_apps[i].image # p
  BY <1>0, <1>7, Zenon DEF TableTrue, EntryTrue
<1>9. TableTrue'
  <2>1. \A i \in Held' : EntryTrue(g_gui_apps[i])'
    <3> SUFFICES ASSUME NEW i \in Held' PROVE EntryTrue(g_gui_apps[i])'
      OBVIOUS
    <3>1. CASE i = n
      BY <3>1, <1>4 DEF EntryTrue
    <3>2. CASE i \in Held
      BY <3>2, <1>4, <1>5, <1>8 DEF EntryTrue
    <3> QED BY <3>1, <3>2, <1>3
  <2>2. \A i, j \in Held' : g_gui_apps'[i].image = g_gui_apps'[j].image => i = j
    BY <1>0, <1>3, <1>4, <1>8 DEF TableTrue
  <2>3. \A q \in Pids : image'[q] = "live" => \E i \in Held' : g_gui_apps'[i].image = q
    <3> SUFFICES ASSUME NEW q \in Pids, image'[q] = "live"
                 PROVE  \E i \in Held' : g_gui_apps'[i].image = q
      OBVIOUS
    <3>1. CASE q = p
      BY <3>1, <1>3, <1>4, Zenon
    <3>2. CASE q # p
      <4>1. PICK i \in Held : g_gui_apps[i].image = q
        BY <3>2, <1>0, <1>5, Zenon DEF TableTrue
      <4> QED BY <4>1, <1>3, <1>4, Zenon
    <3> QED BY <3>1, <3>2
  <2> QED BY <2>1, <2>2, <2>3, Zenon DEF TableTrue
<1>10. FreshPids'
  BY <1>0, <1>2, <1>5, Bounds DEF FreshPids
<1>11. RunningImageKept'
  BY <1>0, <1>5, Zenon DEF RunningImageKept
<1> QED BY <1>3, <1>5, <1>6, <1>9, <1>10, <1>11

\* A custom application is loaded and takes its entry at once.
LEMMA SpawnsCustomKeeps ==
    ASSUME CInv, SpawnsCustom, Idle(Session), UNCHANGED current, pc # "ended",
           pc' \in {"top", "shell", "input", "reap", "launch", "sync", "yield", "ended"}
    PROVE  CInv'
<1>0. TypeOK /\ OneLaunch /\ FreshPids /\ CurrentIsReady
  BY Zenon DEF CInv
<1>p. PICK p : p = g_next_gui_pid
  OBVIOUS
<1> DEFINE e == Entry(p, "custom", p, None)
<1>1. /\ g_gui_app_count < MaxApps /\ Write(g_gui_app_count + 1, e)
      /\ image' = [image EXCEPT ![p] = "live"] /\ open' = open \cup {p}
      /\ g_gui_app_count' = g_gui_app_count + 1
      /\ UNCHANGED <<thread, objects, spawning>>
  BY <1>p DEF SpawnsCustom
<1>2. g_gui_app_count \in Nat /\ g_gui_app_count + 1 \in Slots /\ p \in Pids
      /\ g_gui_app_count' \in 0 .. MaxApps
  BY <1>0, <1>1, <1>p, Bounds DEF TypeOK, Slots, Pids, Write
<1>3. /\ e \in [pid : {None} \cup Pids, kind : {"custom", "standard"},
               image : {None} \cup Pids, thread : {None} \cup Pids]
      /\ e.image = p /\ e.kind = "custom" /\ e.thread = None
  BY <1>2 DEF Entry
<1> HIDE DEF e
<1>4. EntryTrue(e)'
  BY <1>0, <1>1, <1>2, <1>3, <1>p, Bounds DEF EntryTrue, FreshPids, TypeOK
<1>5. /\ \A t : Idle(t)' = Idle(t)
      /\ Held' = 1 .. g_gui_app_count + 1
  BY <1>1 DEF Idle, Held
<1>6. \A q \in Pids : Idle(q)'
  BY <1>0, <1>5 DEF OneLaunch
<1>7. /\ Held' \subseteq Slots
      /\ g_gui_apps' \in [Slots -> [pid : {None} \cup Pids, kind : {"custom", "standard"},
                                    image : {None} \cup Pids, thread : {None} \cup Pids]]
      /\ g_next_gui_pid' \in 1 .. MaxPids + 1
      /\ image' \in [Pids -> {"none", "live", "freed"}]
      /\ TableTrue' /\ FreshPids' /\ RunningImageKept'
  BY NewEntry, <1>p, <1>1, <1>2, <1>3, <1>4, <1>5, <1>6, Zenon
<1>8. TypeOK'
  BY <1>0, <1>1, <1>2, <1>7 DEF TypeOK
<1>9. OneLaunch'
  BY <1>5, <1>6, <1>7, Zenon DEF OneLaunch
<1>10. CurrentIsReady'
  BY <1>0, <1>1, Zenon DEF CurrentIsReady
<1> QED BY <1>7, <1>8, <1>9, <1>10, Zenon DEF CInv

\* A standard application is loaded into the entry its launch holds while it waits.
LEMMA SpawnsStandardKeeps ==
    ASSUME CInv, SpawnsStandard(Session), Idle(Session), UNCHANGED current, pc # "ended",
           pc' \in {"top", "shell", "input", "reap", "launch", "sync", "yield"}
    PROVE  CInv'
<1>0. TypeOK /\ OneLaunch /\ FreshPids /\ CurrentIsReady
  BY Zenon DEF CInv
<1>p. PICK p : p = g_next_gui_pid
  OBVIOUS
<1> DEFINE e == Entry(p, "standard", p, p)
<1>1. /\ g_gui_app_count < MaxApps /\ Write(g_gui_app_count + 1, e)
      /\ image' = [image EXCEPT ![p] = "live"]
      /\ thread' = [thread EXCEPT ![p] = "ready"] /\ objects' = objects \cup {p}
      /\ spawning' = [spawning EXCEPT ![Session] = [slot |-> g_gui_app_count + 1, tries |-> 0]]
      /\ UNCHANGED <<g_gui_app_count, open>>
  BY <1>p DEF SpawnsStandard
<1>2. g_gui_app_count \in Nat /\ g_gui_app_count + 1 \in Slots /\ p \in Pids
  BY <1>0, <1>1, <1>p, Bounds DEF TypeOK, Slots, Pids, Write
<1>3. /\ e \in [pid : {None} \cup Pids, kind : {"custom", "standard"},
               image : {None} \cup Pids, thread : {None} \cup Pids]
      /\ e.image = p /\ e.kind = "standard" /\ e.thread = p
  BY <1>2 DEF Entry
<1> HIDE DEF e
<1>4. EntryTrue(e)'
  BY <1>0, <1>1, <1>2, <1>3, Bounds DEF EntryTrue, TypeOK
<1>5. /\ spawning'[Session] = [slot |-> g_gui_app_count + 1, tries |-> 0]
      /\ \A q \in Pids : spawning'[q] = spawning[q]
      /\ spawning' \in [{Session} \cup Pids -> [slot : {None} \cup Slots, tries : 0 .. MaxTries]]
  BY <1>0, <1>1, <1>2, Bounds DEF TypeOK
<1>6. /\ \A q \in Pids : Idle(q)'
      /\ ~ Idle(Session)' /\ spawning'[Session].slot = g_gui_app_count + 1
  BY <1>0, <1>2, <1>5 DEF OneLaunch, Idle, NoCall, None
<1>7. Held' = 1 .. g_gui_app_count + 1
  BY <1>1, <1>6 DEF Held
<1>8. \A q \in Pids \ {p} : thread'[q] = thread[q]
  BY <1>0, <1>1 DEF TypeOK
<1>9. /\ Held' \subseteq Slots
      /\ g_gui_apps' \in [Slots -> [pid : {None} \cup Pids, kind : {"custom", "standard"},
                                    image : {None} \cup Pids, thread : {None} \cup Pids]]
      /\ g_next_gui_pid' \in 1 .. MaxPids + 1
      /\ image' \in [Pids -> {"none", "live", "freed"}]
      /\ TableTrue' /\ FreshPids' /\ RunningImageKept'
  BY NewEntry, <1>p, <1>1, <1>2, <1>3, <1>4, <1>6, <1>7, <1>8, ZenonT(30)
<1>10. TypeOK'
  BY <1>0, <1>1, <1>2, <1>5, <1>9 DEF TypeOK
<1>11. OneLaunch'
  BY <1>1, <1>6, <1>9 DEF OneLaunch
<1>12. CurrentIsReady'
  BY <1>0, <1>1, <1>2 DEF CurrentIsReady, TypeOK
<1> QED BY <1>9, <1>10, <1>11, <1>12, Zenon DEF CInv

\* A launch of the session thread keeps the invariant, however it ends.
LEMMA ExecuteImageKeeps ==
    ASSUME CInv, ExecuteImage(Session), pc # "ended"
    PROVE  CInv'
<1>1. /\ Idle(Session) /\ UNCHANGED <<pc, current>>
      /\ SpawnFails \/ SpawnsCustom \/ SpawnsStandard(Session)
  BY DEF ExecuteImage
<1>2. pc' \in {"top", "shell", "input", "reap", "launch", "sync", "yield", "ended"}
  BY <1>1 DEF CInv, TypeOK
<1>3. pc' \in {"top", "shell", "input", "reap", "launch", "sync", "yield"}
  BY <1>1, <1>2
<1> QED BY <1>1, <1>2, <1>3, SpawnFailsKeeps, SpawnsCustomKeeps, SpawnsStandardKeeps, Zenon

\* A launch waits for its window.
LEMMA SpawnWaitsKeeps ==
    ASSUME CInv, SpawnWaits(Session)
    PROVE  CInv'
<1>0. TypeOK /\ OneLaunch /\ TableTrue /\ FreshPids /\ RunningImageKept
  BY Zenon DEF CInv
<1>1. /\ UNCHANGED <<g_gui_apps, g_gui_app_count, g_next_gui_pid, image, thread, objects, open, pc>>
      /\ current' = None /\ ~ Idle(Session) /\ spawning[Session].tries < MaxTries
      /\ spawning' = [spawning EXCEPT ![Session].tries = @ + 1]
  BY DEF SpawnWaits, tableVars, appVars
<1>2. /\ spawning' \in [{Session} \cup Pids -> [slot : {None} \cup Slots, tries : 0 .. MaxTries]]
      /\ spawning'[Session].slot = spawning[Session].slot
      /\ spawning'[Session].tries # 0
      /\ \A q \in Pids : spawning'[q] = spawning[q]
  BY <1>0, <1>1, Bounds DEF TypeOK
<1>3. ~ Idle(Session)' /\ \A q \in Pids : Idle(q)'
  BY <1>0, <1>2 DEF OneLaunch, Idle, NoCall
<1>4. Held' = Held
  BY <1>1, <1>3 DEF Held
<1>5. TypeOK'
  BY <1>0, <1>1, <1>2, Zenon DEF TypeOK
<1>6. OneLaunch'
  BY <1>0, <1>1, <1>2, <1>3, <1>4, Zenon DEF OneLaunch
<1>7. \A e : EntryTrue(e)' = EntryTrue(e)
  BY <1>1 DEF EntryTrue
<1>8. TableTrue'
  BY <1>0, <1>1, <1>4, <1>7, Zenon DEF TableTrue
<1>9. FreshPids' /\ RunningImageKept' /\ CurrentIsReady'
  BY <1>0, <1>1, Bounds, Zenon DEF FreshPids, RunningImageKept, CurrentIsReady
<1> QED BY <1>5, <1>6, <1>8, <1>9, Zenon DEF CInv

\* A launch that ends hands its entry to the table.
LEMMA SpawnEndsKeeps ==
    ASSUME CInv, SpawnEnds(Session)
    PROVE  CInv'
<1>0. TypeOK /\ OneLaunch /\ TableTrue /\ FreshPids /\ RunningImageKept /\ CurrentIsReady
  BY Zenon DEF CInv
<1>1. /\ UNCHANGED <<g_gui_apps, g_next_gui_pid, image, thread, objects, open, current>>
      /\ ~ Idle(Session) /\ g_gui_app_count' = g_gui_app_count + 1
      /\ spawning' = [spawning EXCEPT ![Session] = NoCall]
      /\ pc' \in {"input", pc}
  BY DEF SpawnEnds, appVars
<1>2. /\ spawning' \in [{Session} \cup Pids -> [slot : {None} \cup Slots, tries : 0 .. MaxTries]]
      /\ spawning'[Session] = NoCall
      /\ \A q \in Pids : spawning'[q] = spawning[q]
  BY <1>0, <1>1, Bounds DEF TypeOK, NoCall
<1>3. Idle(Session)' /\ \A q \in Pids : Idle(q)'
  BY <1>0, <1>2 DEF OneLaunch, Idle
<1>4. Held' = Held /\ Held = 1 .. g_gui_app_count + 1
  BY <1>1, <1>3 DEF Held
<1>5. g_gui_app_count' \in 0 .. MaxApps
  <2>1. g_gui_app_count \in Nat
    BY <1>0, Bounds DEF TypeOK
  <2>2. g_gui_app_count + 1 \in Slots
    BY <1>0, <1>4, <2>1 DEF OneLaunch
  <2> QED BY <1>1, <2>2, Bounds DEF Slots
<1>6. TypeOK'
  BY <1>0, <1>1, <1>2, <1>5 DEF TypeOK
<1>7. OneLaunch'
  BY <1>0, <1>3, <1>4, Zenon DEF OneLaunch
<1>8. \A e : EntryTrue(e)' = EntryTrue(e)
  BY <1>1 DEF EntryTrue
<1>9. pc # "ended"
  BY <1>0, <1>1 DEF OneLaunch
<1>10. TableTrue'
  BY <1>0, <1>1, <1>4, <1>8, <1>9, Zenon DEF TableTrue
<1>11. FreshPids' /\ RunningImageKept' /\ CurrentIsReady'
  BY <1>0, <1>1, <1>9, Zenon DEF FreshPids, RunningImageKept, CurrentIsReady
<1> QED BY <1>6, <1>7, <1>10, <1>11, Zenon DEF CInv

-----------------------------------------------------------------------------
(* The end of an application, and of the session.                          *)

\* A standard application's thread terminates: its entry keeps its image.
LEMMA AppReturnsKeeps ==
    ASSUME CInv, NEW p \in Pids, AppReturns(p)
    PROVE  CInv'
<1>0. TypeOK /\ OneLaunch /\ TableTrue /\ FreshPids /\ RunningImageKept /\ CurrentIsReady
  BY Zenon DEF CInv
<1>1. /\ UNCHANGED <<g_gui_apps, g_gui_app_count, g_next_gui_pid, image, objects, open, pc, spawning>>
      /\ current = p /\ current' = None /\ thread' = [thread EXCEPT ![p] = "terminated"]
  BY DEF AppReturns, tableVars
<1>2. thread[p] = "ready"
  BY <1>0, <1>1 DEF CurrentIsReady
<1>3. /\ thread' \in [Pids -> {"none", "ready", "terminated"}]
      /\ thread'[p] = "terminated" /\ \A q \in Pids \ {p} : thread'[q] = thread[q]
  BY <1>0, <1>1 DEF TypeOK
<1>4. TypeOK'
  BY <1>0, <1>1, <1>3, Zenon DEF TypeOK
<1>5. Held' = Held /\ \A t : Idle(t)' = Idle(t)
  BY <1>1 DEF Held, Idle
<1>6. OneLaunch'
  BY <1>0, <1>1, <1>5, Zenon DEF OneLaunch
<1>7. \A e : EntryTrue(e) => EntryTrue(e)'
  BY <1>1, <1>2, <1>3 DEF EntryTrue
<1>8. TableTrue'
  BY <1>0, <1>1, <1>5, <1>7, Zenon DEF TableTrue
<1>9. FreshPids' /\ RunningImageKept' /\ CurrentIsReady'
  BY <1>0, <1>1, <1>2, <1>3, Bounds DEF FreshPids, RunningImageKept, CurrentIsReady
<1> QED BY <1>4, <1>6, <1>8, <1>9, Zenon DEF CInv

\* Reaping takes out one entry and closes the gap: what is left was held before, and of
\* what was held only the entry's image is gone.
LEMMA ReapKeeps ==
    ASSUME CInv, Reap
    PROVE  CInv'
<1>0. TypeOK /\ OneLaunch /\ TableTrue /\ FreshPids /\ RunningImageKept /\ CurrentIsReady
  BY Zenon DEF CInv
<1>1. PICK i \in 1 .. g_gui_app_count :
        /\ Over(g_gui_apps[i])
        /\ image' = Free({g_gui_apps[i].image})
        /\ objects' = objects \ {g_gui_apps[i].thread}
        /\ g_gui_apps' = Removed(i)
  BY Zenon DEF Reap
<1>2. /\ pc = "reap" /\ Idle(Session) /\ g_gui_app_count' = g_gui_app_count - 1
      /\ UNCHANGED <<g_next_gui_pid, thread, open, pc, current, spawning>>
  BY DEF Reap, At
<1>3. PICK n : n = g_gui_app_count
  OBVIOUS
<1>4. n \in Nat /\ i \in 1 .. n /\ n - 1 \in 0 .. MaxApps /\ n >= 1 /\ n <= MaxApps
  BY <1>0, <1>1, <1>3, Bounds DEF TypeOK
<1>5. PICK r : r = g_gui_apps[i].image
  OBVIOUS
<1>6. /\ Held = 1 .. n /\ Held' = 1 .. n - 1 /\ Held \subseteq Slots
      /\ \A t : Idle(t)' = Idle(t)
  BY <1>0, <1>2, <1>3 DEF Held, Idle, OneLaunch
<1>7. /\ \A j \in 1 .. n : EntryTrue(g_gui_apps[j])
      /\ \A j, k \in 1 .. n : g_gui_apps[j].image = g_gui_apps[k].image => j = k
      /\ \A p \in Pids : image[p] = "live" => \E j \in 1 .. n : g_gui_apps[j].image = p
  BY <1>0, <1>2, <1>6 DEF TableTrue
<1>8. r \in Pids /\ thread[r] # "ready"
  BY <1>1, <1>4, <1>5, <1>7 DEF EntryTrue, Over
<1>9. /\ image' \in [Pids -> {"none", "live", "freed"}]
      /\ image'[r] = "freed" /\ \A p \in Pids \ {r} : image'[p] = image[p]
  BY <1>0, <1>1, <1>5, <1>8 DEF Free, TypeOK
<1>10. /\ g_gui_apps' \in [Slots -> [pid : {None} \cup Pids, kind : {"custom", "standard"},
                                     image : {None} \cup Pids, thread : {None} \cup Pids]]
       /\ \A j \in 1 .. n - 1 : g_gui_apps'[j] = g_gui_apps[IF j < i THEN j ELSE j + 1]
  <2> DEFINE E == [pid : {None} \cup Pids, kind : {"custom", "standard"},
                   image : {None} \cup Pids, thread : {None} \cup Pids]
             t == [g_gui_apps EXCEPT ![i].image = None, ![i].thread = None]
  <2>1. i \in Slots /\ g_gui_apps \in [Slots -> E]
    BY <1>0, <1>4, <1>6 DEF TypeOK
  <2>2. t \in [Slots -> E] /\ \A j \in Slots : j # i => t[j] = g_gui_apps[j]
    BY <2>1, ZenonT(30)
  <2>3. g_gui_apps' = [j \in Slots |-> IF i <= j /\ j < n THEN t[j + 1] ELSE t[j]]
    BY <1>1, <1>3 DEF Removed
  <2> HIDE DEF E, t
  <2>4. \A j \in Slots : i <= j /\ j < n => j + 1 \in Slots
    BY <1>4, Bounds DEF Slots
  <2>5. g_gui_apps' \in [Slots -> E]
    BY <2>2, <2>3, <2>4
  <2>6. ASSUME NEW j \in 1 .. n - 1
        PROVE  g_gui_apps'[j] = g_gui_apps[IF j < i THEN j ELSE j + 1]
    <3>1. j \in Slots /\ j + 1 \in Slots /\ j \in Nat /\ j < n
      BY <1>4, Bounds DEF Slots
    <3>2. CASE j < i
      BY <3>1, <3>2, <2>2, <2>3, <1>4
    <3>3. CASE i <= j
      BY <3>1, <3>3, <2>2, <2>3, <1>4
    <3> QED BY <3>1, <3>2, <3>3, <1>4
  <2> QED BY <2>5, <2>6 DEF E
<1>11. TypeOK'
  BY <1>0, <1>1, <1>2, <1>3, <1>4, <1>9, <1>10, ZenonT(30) DEF TypeOK
<1>12. OneLaunch'
  <2>1. Held' \subseteq Slots
    BY <1>4, <1>6, Bounds DEF Slots
  <2> QED BY <1>0, <1>2, <1>6, <2>1, Zenon DEF OneLaunch
<1>13. TableTrue'
  <2> DEFINE from(j) == IF j < i THEN j ELSE j + 1
  <2>1. \A j \in 1 .. n - 1 : from(j) \in 1 .. n /\ from(j) # i
    BY <1>4
  <2>2. \A j, k \in 1 .. n - 1 : from(j) = from(k) => j = k
    BY <1>4
  <2>3. \A k \in 1 .. n : k # i => \E j \in 1 .. n - 1 : from(j) = k
    <3> SUFFICES ASSUME NEW k \in 1 .. n, k # i PROVE \E j \in 1 .. n - 1 : from(j) = k
      OBVIOUS
    <3>1. CASE k < i
      <4>1. k \in 1 .. n - 1 /\ from(k) = k
        BY <3>1, <1>4
      <4> QED BY <4>1
    <3>2. CASE k > i
      <4>1. k - 1 \in 1 .. n - 1 /\ from(k - 1) = k
        BY <3>2, <1>4
      <4> QED BY <4>1
    <3> QED BY <3>1, <3>2, <1>4
  <2>4. \A j \in 1 .. n - 1 : g_gui_apps'[j] = g_gui_apps[from(j)]
    BY <1>10
  <2> HIDE DEF from
  <2>5. \A j \in 1 .. n - 1 : EntryTrue(g_gui_apps[from(j)]) /\ g_gui_apps[from(j)].image # r
    BY <1>4, <1>5, <1>7, <2>1, ZenonT(30)
  <2>6. \A j \in 1 .. n - 1 : EntryTrue(g_gui_apps[j])'
    BY <1>2, <1>9, <2>4, <2>5 DEF EntryTrue
  <2>7. \A j, k \in 1 .. n - 1 : g_gui_apps'[j].image = g_gui_apps'[k].image => j = k
    BY <1>7, <2>1, <2>2, <2>4
  <2>8. \A p \in Pids : image'[p] = "live" => \E j \in 1 .. n - 1 : g_gui_apps'[j].image = p
    <3> SUFFICES ASSUME NEW p \in Pids, image'[p] = "live"
                 PROVE  \E j \in 1 .. n - 1 : g_gui_apps'[j].image = p
      OBVIOUS
    <3>1. p # r /\ image[p] = "live"
      BY <1>9
    <3>2. PICK k \in 1 .. n : g_gui_apps[k].image = p
      BY <3>1, <1>7, Zenon
    <3>3. PICK j \in 1 .. n - 1 : from(j) = k
      BY <3>1, <3>2, <1>5, <2>3, Zenon
    <3> QED BY <3>2, <3>3, <2>4, Zenon
  <2> QED BY <1>6, <2>6, <2>7, <2>8, Zenon DEF TableTrue
<1>14. FreshPids' /\ RunningImageKept' /\ CurrentIsReady'
  <2>1. FreshPids'
    <3>1. image[r] = "live"
      BY <1>4, <1>5, <1>7 DEF EntryTrue
    <3> QED BY <3>1, <1>0, <1>2, <1>9 DEF FreshPids
  <2>2. RunningImageKept' /\ CurrentIsReady'
    BY <1>0, <1>2, <1>8, <1>9 DEF RunningImageKept, CurrentIsReady
  <2> QED BY <2>1, <2>2
<1> QED BY <1>11, <1>12, <1>13, <1>14, Zenon DEF CInv

\* The teardown frees every image, and ends what the invariant promises of the table.
LEMMA TeardownKeeps ==
    ASSUME CInv, Teardown
    PROVE  CInv'
<1>0. TypeOK /\ OneLaunch /\ FreshPids
  BY Zenon DEF CInv
<1>1. /\ image' = Free({g_gui_apps[i].image : i \in 1 .. g_gui_app_count})
      /\ Idle(Session) /\ pc = "top" /\ pc' = "ended" /\ current' = None
      /\ UNCHANGED <<g_gui_apps, g_gui_app_count, g_next_gui_pid, thread, objects, open, spawning>>
  BY DEF Teardown, At, tableVars
<1>2. TypeOK'
  <2>1. image' \in [Pids -> {"none", "live", "freed"}]
    BY <1>0, <1>1 DEF Free, TypeOK
  <2> QED BY <1>0, <1>1, <2>1, Zenon DEF TypeOK
<1>3. Held' = Held /\ Held = 1 .. g_gui_app_count /\ \A t : Idle(t)' = Idle(t)
  BY <1>1 DEF Held, Idle
<1>4. OneLaunch'
  BY <1>0, <1>1, <1>3, Zenon DEF OneLaunch
<1>5. TableTrue' /\ RunningImageKept'
  BY <1>1, Zenon DEF TableTrue, RunningImageKept
<1>6. CurrentIsReady'
  BY <1>1, Bounds, Zenon DEF CurrentIsReady
<1>7. FreshPids'
  <2>1. \A i \in 1 .. g_gui_app_count : image[g_gui_apps[i].image] = "live"
    BY <1>1, <1>3 DEF CInv, TableTrue, EntryTrue
  <2>2. ASSUME NEW p \in Pids, p >= g_next_gui_pid
        PROVE  image'[p] = "none" /\ thread'[p] = "none"
    <3>1. image[p] = "none" /\ thread[p] = "none"
      BY <1>0, <2>2 DEF FreshPids
    <3>2. p \notin {g_gui_apps[i].image : i \in 1 .. g_gui_app_count}
      BY <2>1, <3>1
    <3> QED BY <1>1, <3>1, <3>2, Zenon DEF Free
  <2> QED BY <1>1, <2>2 DEF FreshPids
<1> QED BY <1>2, <1>4, <1>5, <1>6, <1>7, Zenon DEF CInv

-----------------------------------------------------------------------------
(* Every step.                                                             *)

\* Starting the shell is a launch.
LEMMA StartShellKeeps ==
    ASSUME CInv, StartShell
    PROVE  CInv'
<1>1. /\ Idle(Session) /\ UNCHANGED current /\ pc = "top" /\ pc' \in {"input", "shell"}
      /\ SpawnFails \/ SpawnsCustom \/ SpawnsStandard(Session)
  BY DEF StartShell, At
<1>2. /\ pc # "ended"
      /\ pc' \in {"top", "shell", "input", "reap", "launch", "sync", "yield", "ended"}
      /\ pc' \in {"top", "shell", "input", "reap", "launch", "sync", "yield"}
  BY <1>1
<1> QED BY <1>1, <1>2, SpawnFailsKeeps, SpawnsCustomKeeps, SpawnsStandardKeeps, Zenon

\* The steps of the loop, and of the threads, that only pass control on.
LEMMA QuietKeeps ==
    ASSUME CInv,
           \/ \E t \in {Session} \cup Pids : Switch(t)
           \/ WlxLoggedOutSAS
           \/ \E p \in Pids : AppYields(p)
           \/ NoShell \/ ReapDone \/ TakeLaunch \/ NoLaunch \/ LoopYields
           \/ Key \/ InputDone \/ SyncYields \/ SyncReturns
           \/ UNCHANGED vars
    PROVE  CInv'
<1> DEFINE Places == {"top", "shell", "input", "reap", "launch", "sync", "yield", "ended"}
<1>0. pc \in Places
  BY DEF CInv, TypeOK
<1>1. Kept /\ UNCHANGED <<open, spawning>>
  BY Zenon DEF Kept, Switch, WlxLoggedOutSAS, AppYields, NoShell, ReapDone, TakeLaunch, NoLaunch,
     LoopYields, Key, InputDone, SyncYields, SyncReturns, vars, tableVars, appVars
<1>2. pc' \in Places /\ (pc' = "ended" <=> pc = "ended")
  BY <1>0 DEF Switch, WlxLoggedOutSAS, AppYields, NoShell, ReapDone, TakeLaunch, NoLaunch,
     LoopYields, Key, InputDone, SyncYields, SyncReturns, vars, At
<1>3. current' \in {None, Session, current} \/ (current' \in Pids /\ thread[current'] = "ready")
  BY DEF Switch, WlxLoggedOutSAS, AppYields, NoShell, ReapDone, TakeLaunch, NoLaunch,
     LoopYields, Key, InputDone, SyncYields, SyncReturns, vars
<1> QED BY <1>1, <1>2, <1>3, KeptKeeps

\* Input for a custom application closes it or lets it launch another.
LEMMA CustomInputKeeps ==
    ASSUME CInv, CustomInput
    PROVE  CInv'
<1>1. pc = "input"
  BY DEF CustomInput, At
<1>2. CASE ExecuteImage(Session)
  BY <1>1, <1>2, ExecuteImageKeeps
<1>3. CASE /\ open' \subseteq open
           /\ UNCHANGED <<tableVars, sessionVars, image, thread, objects, pc, current, spawning>>
  <2>1. Kept /\ UNCHANGED <<spawning, pc, current>>
    BY <1>3 DEF Kept, tableVars
  <2>2. pc' \in {"top", "shell", "input", "reap", "launch", "sync", "yield", "ended"}
    BY <1>1, <2>1
  <2> QED BY <1>3, <2>1, <2>2, KeptKeeps
<1> QED BY <1>2, <1>3 DEF CustomInput

\* Every step keeps the invariant.
LEMMA NextCInv ==
    ASSUME CInv, [Next]_vars
    PROVE  CInv'
<1>1. ASSUME NEW p \in Pids, AppStep(p) PROVE CInv'
  BY <1>1, AppReturnsKeeps, QuietKeeps, Zenon DEF AppStep
<1>2. CASE LoopStep
  BY <1>2, StartShellKeeps, QuietKeeps, SpawnWaitsKeeps, SpawnEndsKeeps, ReapKeeps, TeardownKeeps,
     Zenon DEF LoopStep, SpawnStep
<1>3. CASE SyncLaunches
  <2>1. pc # "ended" /\ ExecuteImage(Session)
    BY <1>3 DEF SyncLaunches, At
  <2> QED BY <2>1, ExecuteImageKeeps
<1> QED BY <1>1, <1>2, <1>3, QuietKeeps, CustomInputKeeps, Zenon DEF Next

\* The invariant holds throughout a session whose launches are on the session thread.
THEOREM Invariance == Spec => []CInv
<1>1. Init => CInv
  BY InitCInv
<1>2. CInv /\ [Next]_vars => CInv'
  BY NextCInv
<1> QED BY <1>1, <1>2, PTL DEF Spec

\* The table, the launches and the places of the threads are well formed; in particular
\* the table never holds more than MAX_GUI_APPS entries.
THEOREM TypeCorrect == Spec => []TypeOK
<1>1. CInv => TypeOK
  BY Zenon DEF CInv
<1> QED BY <1>1, Invariance, PTL

\* The reaper never frees the image of an application whose thread has not terminated.
THEOREM RunningImagesStay == Spec => []RunningImageKept
<1>1. CInv => RunningImageKept
  BY Zenon DEF CInv
<1> QED BY <1>1, Invariance, PTL

\* Every loaded image is held by exactly one entry of the table or launch under way, and
\* every entry of the table holds one, as CSRSS's ownership of its processes demands.
THEOREM ImagesOwnedOnce == Spec => []AppsOwned
<1>1. CInv => AppsOwned
  <2> SUFFICES ASSUME CInv, pc # "ended" PROVE AppsOwned
    BY DEF AppsOwned
  <2>0. TypeOK /\ OneLaunch /\ TableTrue
    BY DEF CInv
  <2>1. g_gui_app_count \in Nat /\ 1 .. g_gui_app_count \subseteq Held
    BY <2>0, Bounds DEF TypeOK, Held
  <2>2. \A i \in 1 .. g_gui_app_count : g_gui_apps[i].image # None
    BY <2>0, <2>1, Bounds, Zenon DEF TableTrue, EntryTrue
  <2>3. ASSUME NEW p \in Pids, image[p] = "live"
        PROVE  Cardinality(Holders(p)) = 1
    <3>1. PICK i \in Held : g_gui_apps[i].image = p
      BY <2>0, <2>3, Zenon DEF TableTrue
    <3>2. \A j \in Held : g_gui_apps[j].image = p <=> j = i
      BY <2>0, <3>1, Zenon DEF TableTrue
    <3>3. Holders(p) = {j \in Held : g_gui_apps[j].image = p}
      <4>1. CASE Idle(Session)
        <5>1. \A t \in {Session} \cup Pids : Idle(t)
          BY <2>0, <4>1, Zenon DEF OneLaunch
        <5> QED BY <4>1, <5>1 DEF Holders, Held
      <4>2. CASE ~ Idle(Session)
        <5>1. /\ Held = 1 .. g_gui_app_count \cup {g_gui_app_count + 1}
              /\ spawning[Session].slot = g_gui_app_count + 1
          BY <2>0, <2>1, <4>2 DEF Held, OneLaunch
        <5>2. \A t \in {Session} \cup Pids : ~ Idle(t) <=> t = Session
          BY <2>0, <4>2, Zenon DEF OneLaunch
        <5> QED BY <5>1, <5>2 DEF Holders
      <4> QED BY <4>1, <4>2
    <3>4. Holders(p) = {i}
      BY <3>1, <3>2, <3>3
    <3> QED BY <3>4, FS_Singleton, ZenonT(30)
  <2> QED BY <2>2, <2>3 DEF AppsOwned
<1> QED BY <1>1, Invariance, PTL
=============================================================================
