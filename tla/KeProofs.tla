------------------------------ MODULE KeProofs ------------------------------
(***************************************************************************)
(* For any number of threads, events and mutexes, and even when THREAD     *)
(* records are freed while they are still linked (SpecFreeing), the        *)
(* scheduler marks one thread as running, mutexes exclude, an auto-reset   *)
(* event wakes one waiter, and no terminated thread is switched to.        *)
(* While no record is freed the links from ready_queue list every live     *)
(* thread once (Lists), and Ke takes the steps of Scheduler.  LinkedQueue  *)
(* and the scan for the next READY thread are recursive functions: the     *)
(* list there must be is shown to satisfy their equation, and two answers  *)
(* are compared at the first place where they differ.                      *)
(***************************************************************************)
EXTENDS Ke, FiniteSetTheorems, SequenceTheorems, TLAPS

-----------------------------------------------------------------------------
\* The memory KeInit starts from satisfies the invariant.
LEMMA InitIInv == KeInit => IInv
<1> SUFFICES ASSUME KeInit PROVE IInv
  BY Zenon
<1> USE DEF KeInit
<1>1. TypeOK
  BY NamesApart DEF TypeOK, States, Event, Mutex
<1>2. OneRunning /\ HoldsIsOwned /\ SignaledIsOwed
  BY DEF OneRunning, HoldsIsOwned, SignaledIsOwed
<1> QED BY <1>1, <1>2, Zenon DEF IInv

\* KeSelectNextThread, wherever it is called from: the queue stays well typed, the mark
\* RUNNING moves with current_thread, and the thread it picks was READY.
LEMMA SelectMovesTheMark ==
    ASSUME TypeOK, OneRunning, current_thread # Null, KeSelectNextThread
    PROVE  /\ state' \in [Threads -> States]
           /\ current_thread' \in Threads
           /\ OneRunning'
           /\ current_thread' = current_thread \/ state[current_thread'] = "READY"
           /\ UNCHANGED <<allocated, next, ready_queue>>
<1>1. UNCHANGED <<allocated, next, ready_queue>>
  BY Zenon DEF KeSelectNextThread
<1>2. CASE SelectsNone /\ UNCHANGED <<state, current_thread>>
  BY <1>1, <1>2, Zenon DEF TypeOK, OneRunning
<1>3. ASSUME NEW n \in Threads, Selects(n),
             state' = [state EXCEPT ![current_thread] = IF @ = "RUNNING" THEN "READY" ELSE @,
                                    ![n] = "RUNNING"],
             current_thread' = n
      PROVE  /\ state' \in [Threads -> States]
             /\ current_thread' \in Threads
             /\ OneRunning'
             /\ state[current_thread'] = "READY"
  <2>1. n # current_thread /\ state[n] = "READY" /\ current_thread \in Threads
    BY <1>3, Zenon DEF Selects, Eligible, TypeOK
  <2>2. state' \in [Threads -> States]
    BY <1>3, <2>1, Zenon DEF TypeOK, States
  <2>3. /\ state'[current_thread] # "RUNNING"
        /\ \A t \in Threads \ {n, current_thread} : state'[t] = state[t]
    BY <1>3, <2>1, Zenon DEF TypeOK, States
  <2> QED BY <1>3, <2>1, <2>2, <2>3, Zenon DEF OneRunning
<1> QED BY <1>1, <1>2, <1>3, Zenon DEF KeSelectNextThread

\* KeAppendReadyThread writes next fields only, each with a record or null.
LEMMA AppendKeepsTypes ==
    ASSUME TypeOK, NEW t \in Threads, KeAppendReadyThread(t)
    PROVE  next' \in [Threads -> Threads \cup {Null}]
<1> DEFINE cleared == [next EXCEPT ![t] = Null]
<1>1. cleared \in [Threads -> Threads \cup {Null}]
  BY Zenon DEF TypeOK
<1>2. PICK k \in 0 .. Limit : next' = [cleared EXCEPT ![Chain(cleared)[k]] = t]
  BY Zenon DEF KeAppendReadyThread
<1> QED BY <1>1, <1>2, Zenon

\* A switch, from KeYield or from one of the loops that call it.
LEMMA SwitchPreserves ==
    ASSUME IInv, current_thread # Null, KeSelectNextThread,
           UNCHANGED <<doing, eventVars, mutexVars>>
    PROVE  IInv'
<1>1. /\ state' \in [Threads -> States]
      /\ current_thread' \in Threads
      /\ OneRunning'
      /\ UNCHANGED <<allocated, next, ready_queue>>
  BY SelectMovesTheMark, Zenon DEF IInv
<1>2. TypeOK'
  BY <1>1, NamesApart, Zenon DEF IInv, TypeOK, eventVars, mutexVars
<1>3. HoldsIsOwned' /\ SignaledIsOwed'
  BY Zenon DEF IInv, HoldsIsOwned, SignaledIsOwed, eventVars, mutexVars
<1> QED BY <1>1, <1>2, <1>3, Zenon DEF IInv

\* Creating a thread, even at an address that is still linked or when its object cannot
\* be made, marks it READY and gives it nothing.
LEMMA CreatePreserves ==
    ASSUME IInv, NEW t \in Threads, KeCreateThread(t) \/ KeCreateThreadFails(t)
    PROVE  IInv'
<1>1. /\ KeAppendReadyThread(t)
      /\ allocated' \subseteq Threads
      /\ state' = [state EXCEPT ![t] = "READY"]
      /\ doing' = [doing EXCEPT ![t] = "run"]
      /\ holds' = [holds EXCEPT ![t] = {}]
      /\ UNCHANGED <<ready_queue, current_thread, eventVars, mutex>>
  BY Zenon DEF KeCreateThread, KeCreateThreadFails, IInv, TypeOK
<1>2. next' \in [Threads -> Threads \cup {Null}]
  BY <1>1, AppendKeepsTypes, Zenon DEF IInv
<1>3. TypeOK'
  BY <1>1, <1>2, Zenon DEF IInv, TypeOK, States, eventVars
<1>4. OneRunning'
  BY <1>1, Zenon DEF IInv, TypeOK, OneRunning
<1>5. HoldsIsOwned'
  BY <1>1, Zenon DEF IInv, TypeOK, HoldsIsOwned
<1>6. SignaledIsOwed'
  BY <1>1, Zenon DEF IInv, SignaledIsOwed, eventVars
<1> QED BY <1>3, <1>4, <1>5, <1>6, Zenon DEF IInv

\* The end of a wait takes the signal of an auto-reset event with it.
LEMMA WaitEventPreserves ==
    ASSUME IInv, NEW e \in Events, KeWaitEventLoop(e)
    PROVE  IInv'
<1>1. CASE ~event[e].signaled
  BY <1>1, SwitchPreserves, Zenon DEF KeWaitEventLoop
<1>2. CASE event[e].signaled
  <2>1. /\ event' = [event EXCEPT ![e].signaled = event[e].manual_reset]
        /\ owed' = [owed EXCEPT ![e] = IF event[e].manual_reset THEN @ ELSE @ - 1]
        /\ doing' = [doing EXCEPT ![current_thread] = "run"]
        /\ UNCHANGED <<queueVars, mutexVars>>
    BY <1>2, Zenon DEF KeWaitEventLoop
  <2>2. TypeOK'
    <3>1. event[e] \in Event
      BY Zenon DEF IInv, TypeOK
    <3>2. [event[e] EXCEPT !.signaled = event[e].manual_reset] \in Event
      BY <3>1, Zenon DEF Event
    <3>3. event' \in [Events -> Event]
      BY <2>1, <3>2, Zenon DEF IInv, TypeOK
    <3>4. owed' \in [Events -> Int]
      BY <2>1 DEF IInv, TypeOK
    <3> QED BY <2>1, <3>3, <3>4, Zenon DEF IInv, TypeOK, queueVars, mutexVars
  <2>3. OneRunning' /\ HoldsIsOwned'
    BY <2>1, Zenon DEF IInv, OneRunning, HoldsIsOwned, queueVars, mutexVars
  <2>4. SignaledIsOwed'
    <3>1. /\ event'[e].signaled = event[e].manual_reset
          /\ event'[e].manual_reset = event[e].manual_reset
          /\ owed'[e] = IF event[e].manual_reset THEN owed[e] ELSE owed[e] - 1
          /\ owed[e] \in Int
      BY <2>1, Zenon DEF IInv, TypeOK, Event
    <3>2. owed'[e] >= 0
      BY <1>2, <3>1 DEF IInv, SignaledIsOwed
    <3>3. \A d \in Events \ {e} : event'[d] = event[d] /\ owed'[d] = owed[d]
      BY <2>1, Zenon DEF IInv, TypeOK
    <3> QED BY <3>1, <3>2, <3>3, Zenon DEF IInv, SignaledIsOwed
  <2> QED BY <2>2, <2>3, <2>4, Zenon DEF IInv
<1> QED BY <1>1, <1>2, Zenon

\* The end of a wait for a mutex, which no other thread can hold then.
LEMMA WaitMutexPreserves ==
    ASSUME IInv, NEW m \in Mutexes, KeWaitMutexLoop(m)
    PROVE  IInv'
<1>1. CASE mutex[m].locked
  BY <1>1, SwitchPreserves, Zenon DEF KeWaitMutexLoop
<1>2. CASE ~mutex[m].locked
  <2>1. /\ mutex' = [mutex EXCEPT ![m] = [locked |-> TRUE, owner |-> current_thread]]
        /\ holds' = [holds EXCEPT ![current_thread] = @ \cup {m}]
        /\ doing' = [doing EXCEPT ![current_thread] = "run"]
        /\ UNCHANGED <<queueVars, eventVars>>
        /\ current_thread \in Threads
    BY <1>2, Zenon DEF KeWaitMutexLoop, IInv, TypeOK
  <2>2. TypeOK'
    BY <2>1, Zenon DEF IInv, TypeOK, Mutex, queueVars, eventVars
  <2>3. OneRunning' /\ SignaledIsOwed'
    BY <2>1, Zenon DEF IInv, OneRunning, SignaledIsOwed, queueVars, eventVars
  <2>4. HoldsIsOwned'
    <3>1. \A t \in Threads : m \notin holds[t]
      BY <1>2, Zenon DEF IInv, HoldsIsOwned
    <3> QED BY <2>1, <3>1 DEF IInv, TypeOK, HoldsIsOwned
  <2> QED BY <2>2, <2>3, <2>4, Zenon DEF IInv
<1> QED BY <1>1, <1>2, Zenon

\* KeReleaseMutex by the owner.
LEMMA ReleasePreserves ==
    ASSUME IInv, NEW m \in Mutexes, KeReleaseMutex(m)
    PROVE  IInv'
<1>1. /\ current_thread \in Threads
      /\ mutex[m].owner = current_thread
      /\ mutex' = [mutex EXCEPT ![m] = [locked |-> FALSE, owner |-> Null]]
      /\ holds' = [holds EXCEPT ![current_thread] = @ \ {m}]
      /\ UNCHANGED <<queueVars, doing, eventVars>>
  BY Zenon DEF KeReleaseMutex, InCode, IInv, TypeOK
<1>2. TypeOK'
  BY <1>1, Zenon DEF IInv, TypeOK, Mutex, queueVars, eventVars
<1>3. OneRunning' /\ SignaledIsOwed'
  BY <1>1, Zenon DEF IInv, OneRunning, SignaledIsOwed, queueVars, eventVars
<1>4. HoldsIsOwned'
  <2>1. \A t \in Threads : m \in holds[t] => t = current_thread
    BY <1>1, Zenon DEF IInv, HoldsIsOwned
  <2> QED BY <1>1, <2>1 DEF IInv, TypeOK, HoldsIsOwned
<1> QED BY <1>2, <1>3, <1>4, Zenon DEF IInv

-----------------------------------------------------------------------------
\* Every step preserves the invariant.
LEMMA StepPreserves == IInv /\ [NextFreeing]_vars => IInv'
<1> SUFFICES ASSUME IInv, [NextFreeing]_vars PROVE IInv'
  BY Zenon
<1>1. ASSUME NEW t \in Threads, KeAttachCurrentThread(t) PROVE IInv'
  <2>1. TypeOK'
    BY <1>1, NamesApart, Zenon DEF KeAttachCurrentThread, IInv, TypeOK, States, eventVars, mutexVars
  <2>2. OneRunning'
    BY <1>1, NamesApart, Zenon DEF KeAttachCurrentThread, IInv, TypeOK, OneRunning
  <2>3. HoldsIsOwned' /\ SignaledIsOwed'
    BY <1>1, Zenon DEF KeAttachCurrentThread, IInv, HoldsIsOwned, SignaledIsOwed, eventVars, mutexVars
  <2> QED BY <2>1, <2>2, <2>3, Zenon DEF IInv
<1>2. ASSUME NEW t \in Threads, KeCreateThread(t) \/ KeCreateThreadFails(t) PROVE IInv'
  BY <1>2, CreatePreserves, Zenon
<1>3. ASSUME NEW t \in Threads, KeTerminateThread(t) PROVE IInv'
  <2>1. TypeOK' /\ OneRunning'
    BY <1>3, Zenon DEF KeTerminateThread, IInv, TypeOK, OneRunning, States, eventVars, mutexVars
  <2>2. HoldsIsOwned' /\ SignaledIsOwed'
    BY <1>3, Zenon DEF KeTerminateThread, IInv, HoldsIsOwned, SignaledIsOwed, eventVars, mutexVars
  <2> QED BY <2>1, <2>2, Zenon DEF IInv
<1>4. CASE KeYield
  BY <1>4, SwitchPreserves, Zenon DEF KeYield, InCode
<1>5. CASE KeThreadBootstrapEnds
  <2>1. TypeOK' /\ OneRunning'
    BY <1>5, Zenon DEF KeThreadBootstrapEnds, IInv, TypeOK, OneRunning, States, eventVars, mutexVars
  <2>2. HoldsIsOwned' /\ SignaledIsOwed'
    BY <1>5, Zenon DEF KeThreadBootstrapEnds, IInv, HoldsIsOwned, SignaledIsOwed, eventVars, mutexVars
  <2> QED BY <2>1, <2>2, Zenon DEF IInv
<1>6. CASE Polls
  BY <1>6, SwitchPreserves, WaitEventPreserves, WaitMutexPreserves, Zenon
     DEF Polls, KeThreadBootstrapLoop
<1>7. ASSUME NEW e \in Events, NEW manual \in BOOLEAN, KeCreateEvent(e, manual) PROVE IInv'
  <2>1. TypeOK'
    BY <1>7, Zenon DEF KeCreateEvent, IInv, TypeOK, Event, queueVars, mutexVars
  <2>2. OneRunning' /\ HoldsIsOwned'
    BY <1>7, Zenon DEF KeCreateEvent, IInv, OneRunning, HoldsIsOwned, queueVars, mutexVars
  <2>3. SignaledIsOwed'
    BY <1>7, Zenon DEF KeCreateEvent, IInv, TypeOK, SignaledIsOwed
  <2> QED BY <2>1, <2>2, <2>3, Zenon DEF IInv
<1>8. ASSUME NEW e \in Events, KeSetEventHandle(e) PROVE IInv'
  <2>1. [event[e] EXCEPT !.signaled = TRUE] \in Event
    BY ZenonT(30) DEF IInv, TypeOK, Event
  <2>2. TypeOK'
    BY <1>8, <2>1 DEF KeSetEventHandle, IInv, TypeOK, queueVars, mutexVars
  <2>3. OneRunning' /\ HoldsIsOwned'
    BY <1>8, Zenon DEF KeSetEventHandle, IInv, OneRunning, HoldsIsOwned, queueVars, mutexVars
  <2>4. owed'[e] = 1 /\ \A d \in Events \ {e} : event'[d] = event[d] /\ owed'[d] = owed[d]
    BY <1>8, Zenon DEF KeSetEventHandle, IInv, TypeOK
  <2> QED BY <2>2, <2>3, <2>4 DEF IInv, SignaledIsOwed
<1>9. ASSUME NEW e \in Events, KeResetEventHandle(e) PROVE IInv'
  <2>1. [event[e] EXCEPT !.signaled = FALSE] \in Event
    BY ZenonT(30) DEF IInv, TypeOK, Event
  <2>2. TypeOK'
    BY <1>9, <2>1, Zenon DEF KeResetEventHandle, IInv, TypeOK, queueVars, mutexVars
  <2>3. OneRunning' /\ HoldsIsOwned'
    BY <1>9, Zenon DEF KeResetEventHandle, IInv, OneRunning, HoldsIsOwned, queueVars, mutexVars
  <2>4. /\ event'[e].signaled = FALSE /\ UNCHANGED owed
        /\ \A d \in Events \ {e} : event'[d] = event[d]
    BY <1>9, Zenon DEF KeResetEventHandle, IInv, TypeOK, Event
  <2> QED BY <2>2, <2>3, <2>4, Zenon DEF IInv, SignaledIsOwed
<1>10. ASSUME NEW x \in Events \cup Mutexes,
              doing' = [doing EXCEPT ![current_thread] = x],
              UNCHANGED <<queueVars, eventVars, mutexVars>>
       PROVE  IInv'
  <2>1. TypeOK'
    BY <1>10, Zenon DEF IInv, TypeOK, queueVars, eventVars, mutexVars
  <2>2. OneRunning' /\ HoldsIsOwned' /\ SignaledIsOwed'
    BY <1>10, Zenon DEF IInv, OneRunning, HoldsIsOwned, SignaledIsOwed, queueVars, eventVars, mutexVars
  <2> QED BY <2>1, <2>2, Zenon DEF IInv
<1>11. ASSUME NEW m \in Mutexes, KeReleaseMutex(m) PROVE IInv'
  BY <1>11, ReleasePreserves, Zenon
<1>12. ASSUME NEW t \in Threads, ReapThread(t) PROVE IInv'
  BY <1>12, Zenon DEF ReapThread, IInv, TypeOK, OneRunning, HoldsIsOwned, SignaledIsOwed,
               eventVars, mutexVars
<1>13. CASE UNCHANGED vars
  BY <1>13, Zenon DEF IInv, TypeOK, OneRunning, HoldsIsOwned, SignaledIsOwed, vars, queueVars,
               eventVars, mutexVars
<1>14. CASE \E e \in Events : KeWaitEvent(e)
  BY <1>10, <1>14, Zenon DEF KeWaitEvent
<1>15. CASE \E m \in Mutexes : KeWaitMutex(m)
  BY <1>10, <1>15, Zenon DEF KeWaitMutex
<1> QED BY <1>1, <1>2, <1>3, <1>4, <1>5, <1>6, <1>7, <1>8, <1>9, <1>11, <1>12, <1>13,
           <1>14, <1>15, ZenonT(30)
        DEF NextFreeing, NextReaping, Next

\* The invariant holds in every state, also when THREAD records are freed while linked.
THEOREM Invariance == SpecFreeing => []IInv
<1> QED BY InitIInv, StepPreserves, PTL DEF SpecFreeing

\* Threads that are never freed are a special case of threads that may be.
LEMMA NeverFreed == Spec => SpecFreeing
<1>1. [Next]_vars => [NextFreeing]_vars
  BY Zenon DEF NextReaping, NextFreeing
<1> QED BY <1>1, PTL DEF Spec, SpecFreeing

\* The queue, the events and the mutexes of ke.c stay well typed.
THEOREM TypeCorrect == SpecFreeing => []TypeOK
<1>1. IInv => TypeOK
  BY Zenon DEF IInv
<1> QED BY <1>1, Invariance, PTL

\* KeSelectNextThread leaves one thread marked RUNNING, the current one.
THEOREM OneThreadRuns == SpecFreeing => []OneRunning
<1>1. IInv => OneRunning
  BY Zenon DEF IInv
<1> QED BY <1>1, Invariance, PTL

\* KeWaitMutex and KeReleaseMutex exclude, for any number of polling threads and even if
\* a dead owner's address is given to a new thread.
THEOREM MutexesExclude == SpecFreeing => []MutexExclusion
<1>1. IInv => MutexExclusion
  <2> SUFFICES ASSUME IInv, NEW t \in Threads, NEW u \in Threads, t # u,
                      NEW m \in holds[t] \cap holds[u]
               PROVE  FALSE
    BY Zenon DEF MutexExclusion
  <2> QED BY DEF IInv, HoldsIsOwned
<1> QED BY <1>1, Invariance, PTL

\* KeSetEventHandle on an auto-reset event ends at most one wait.
THEOREM AutoResetWakesAtMostOne == SpecFreeing => []AutoResetWakesOne
<1>1. IInv => AutoResetWakesOne
  BY Zenon DEF IInv, SignaledIsOwed, AutoResetWakesOne
<1> QED BY <1>1, Invariance, PTL

\* Every action but the first is a step of a thread, and leaves one to run.
LEMMA ThreadsRun ==
    ASSUME IInv, NextFreeing, current_thread # Null
    PROVE  UNCHANGED current_thread \/ KeSelectNextThread
<1>1. \A t \in Threads : ~KeAttachCurrentThread(t)
  BY Zenon DEF KeAttachCurrentThread
<1>2. ASSUME NEW t \in Threads,
             \/ KeCreateThread(t) \/ KeCreateThreadFails(t)
             \/ KeTerminateThread(t) \/ ReapThread(t)
      PROVE  UNCHANGED current_thread
  BY <1>2, Zenon DEF KeCreateThread, KeCreateThreadFails, KeTerminateThread, ReapThread
<1>3. CASE KeYield \/ KeThreadBootstrapEnds
  BY <1>3, Zenon DEF KeYield, KeThreadBootstrapEnds
<1>4. CASE Polls
  BY <1>4, Zenon DEF Polls, KeThreadBootstrapLoop, KeWaitEventLoop, KeWaitMutexLoop, queueVars
<1>5. ASSUME NEW e \in Events,
             \/ \E manual \in BOOLEAN : KeCreateEvent(e, manual)
             \/ KeSetEventHandle(e) \/ KeResetEventHandle(e) \/ KeWaitEvent(e)
      PROVE  UNCHANGED current_thread
  BY <1>5, Zenon DEF KeCreateEvent, KeSetEventHandle, KeResetEventHandle, KeWaitEvent, queueVars
<1>6. ASSUME NEW m \in Mutexes, KeWaitMutex(m) \/ KeReleaseMutex(m)
      PROVE  UNCHANGED current_thread
  BY <1>6, Zenon DEF KeWaitMutex, KeReleaseMutex, queueVars
<1> QED BY <1>1, <1>2, <1>3, <1>4, <1>5, <1>6, Zenon DEF NextFreeing, NextReaping, Next

\* Until a thread is attached nothing else happens.
LEMMA NullRunsNothing ==
    ASSUME NextFreeing, current_thread = Null
    PROVE  \E t \in Threads : KeAttachCurrentThread(t)
<1> USE DEF InCode
<1>1. \A t \in Threads :
        ~(KeCreateThread(t) \/ KeCreateThreadFails(t) \/ KeTerminateThread(t) \/ ReapThread(t))
  BY Zenon DEF KeCreateThread, KeCreateThreadFails, KeTerminateThread, ReapThread
<1>2. ~(KeYield \/ KeThreadBootstrapEnds \/ Polls)
  BY Zenon DEF KeYield, KeThreadBootstrapEnds, Polls, KeThreadBootstrapLoop, KeWaitEventLoop,
         KeWaitMutexLoop
<1>3. \A e \in Events :
        ~(\/ \E manual \in BOOLEAN : KeCreateEvent(e, manual)
          \/ KeSetEventHandle(e) \/ KeResetEventHandle(e) \/ KeWaitEvent(e))
  BY Zenon DEF KeCreateEvent, KeSetEventHandle, KeResetEventHandle, KeWaitEvent
<1>4. \A m \in Mutexes : ~(KeWaitMutex(m) \/ KeReleaseMutex(m))
  BY Zenon DEF KeWaitMutex, KeReleaseMutex
<1> QED BY <1>1, <1>2, <1>3, <1>4, Zenon DEF NextFreeing, NextReaping, Next

\* The kernel boots with no dead thread for KeAttachCurrentThread to revive.
LEMMA BootStaysClean == SpecFreeing => []BootIsClean
<1>1. KeInit => BootIsClean
  BY DEF KeInit, BootIsClean
<1>2. IInv /\ BootIsClean /\ [NextFreeing]_vars => BootIsClean'
  <2> SUFFICES ASSUME IInv, BootIsClean, [NextFreeing]_vars, current_thread' = Null
               PROVE  \A t \in Threads : state'[t] = "READY"
    BY Zenon DEF BootIsClean
  <2>1. CASE UNCHANGED vars
    BY <2>1, Zenon DEF BootIsClean, vars, queueVars
  <2>2. CASE NextFreeing /\ current_thread # Null
    BY <2>2, ThreadsRun, SelectMovesTheMark, NamesApart, Zenon DEF IInv
  <2>3. CASE NextFreeing /\ current_thread = Null
    <3>1. PICK t \in Threads : KeAttachCurrentThread(t)
      BY <2>3, NullRunsNothing, Zenon
    <3> QED BY <3>1, NamesApart, Zenon DEF KeAttachCurrentThread
  <2> QED BY <2>1, <2>2, <2>3, Zenon
<1> QED BY <1>1, <1>2, Invariance, PTL DEF SpecFreeing

\* No action of ke.c switches to a thread that is TERMINATED.
THEOREM DeadThreadsStayDead == SpecFreeing => TerminatedNeverResumes
<1>1. IInv /\ BootIsClean /\ [NextFreeing]_vars =>
        [\A t \in Threads :
           state[t] = "TERMINATED" /\ current_thread' = t => current_thread = t]_vars
  <2> SUFFICES ASSUME IInv, BootIsClean, NextFreeing, NEW t \in Threads,
                      state[t] = "TERMINATED", current_thread' = t, current_thread # t
               PROVE  FALSE
    BY Zenon
  <2>1. CASE current_thread # Null /\ KeSelectNextThread
    BY <2>1, SelectMovesTheMark, Zenon DEF IInv
  <2>2. CASE current_thread # Null /\ UNCHANGED current_thread
    BY <2>2, Zenon
  <2>3. CASE current_thread = Null
    BY <2>3, Zenon DEF BootIsClean
  <2> QED BY <2>1, <2>2, <2>3, ThreadsRun, Zenon
<1> QED BY <1>1, Invariance, BootStaysClean, PTL DEF SpecFreeing, TerminatedNeverResumes

-----------------------------------------------------------------------------
(***************************************************************************)
(* The links as a list.  Chain and Scan are recursive functions: for each  *)
(* of them a function is given that satisfies the recursion, so there is   *)
(* one, and every function that satisfies it is shown to be that one by    *)
(* its least point of difference.                                          *)
(***************************************************************************)

LEMMA LeastOf ==
    ASSUME NEW T \in SUBSET Nat, T # {}
    PROVE  \E x \in T : \A y \in T : x <= y
<1>1. PICK x \in T : \A y \in T : ~(<<y, x>> \in OpToRel(<, Nat))
  BY WFMin, NatLessThanWellFounded, Zenon
<1>2. \A y \in T : ~(y < x)
  BY <1>1, Zenon DEF OpToRel
<1> QED BY <1>2

\* The k-th record of a list, null behind its end; and links that join the list.
At(q, k) == IF k < Len(q) THEN q[k + 1] ELSE Null
Joined(nx, q) ==
    \A k \in 1 .. Len(q) : nx[q[k]] = IF k < Len(q) THEN q[k + 1] ELSE Null

\* The walk of the ready queue is bounded.
LEMMA LimitIsNat == Limit \in Nat
  BY ThreadsFinite, FS_CardinalityType, Zenon DEF Limit

\* A list without repetitions is not longer than there are threads.
LEMMA ListFits ==
    ASSUME NEW q \in Seq(Threads), \A j, k \in 1 .. Len(q) : q[j] = q[k] => j = k
    PROVE  Len(q) \in Nat /\ Len(q) <= Limit
<1>1. Len(q) \in Nat /\ q \in [1 .. Len(q) -> Threads]
  BY LenProperties, Zenon
<1>2. q \in Injection(1 .. Len(q), Threads)
  BY <1>1, Zenon DEF Injection, IsInjective
<1>3. Cardinality(1 .. Len(q)) <= Limit
  BY <1>2, ThreadsFinite, FS_Injection, Zenon DEF Limit
<1>4. Cardinality(1 .. Len(q)) = Len(q)
  BY <1>1, FS_Interval, SMTT(30)
<1> QED BY <1>1, <1>3, <1>4, Zenon

\* A walk along links that join a list follows the list.
LEMMA WalkFollows ==
    ASSUME NEW N \in Nat, NEW q \in Seq(Threads), Len(q) <= N,
           NEW nx, Joined(nx, q),
           NEW w, w = [k \in 0 .. N |->
                         IF k = 0 THEN At(q, 0)
                         ELSE IF w[k - 1] = Null THEN Null ELSE nx[w[k - 1]]]
    PROVE  \A k \in 0 .. N : w[k] = At(q, k)
<1> DEFINE T == {k \in 0 .. N : w[k] # At(q, k)}
<1> SUFFICES ASSUME T # {} PROVE FALSE
  BY Zenon
<1>1. T \in SUBSET Nat
  OBVIOUS
<1>2. PICK k \in T : \A j \in T : k <= j
  BY <1>1, LeastOf, Zenon
<1>3. k \in 0 .. N /\ w[k] # At(q, k)
  BY Zenon
<1>4. \A j \in 0 .. N : j < k => w[j] = At(q, j)
  BY <1>2, <1>3, SMTT(30)
<1> HIDE DEF T
<1>5. k # 0
  BY <1>3, Zenon
<1>6. k - 1 \in 0 .. N /\ w[k - 1] = At(q, k - 1)
  BY <1>3, <1>4, <1>5
<1>7. w[k] = IF w[k - 1] = Null THEN Null ELSE nx[w[k - 1]]
  BY <1>3, <1>5, Zenon
<1>8. Len(q) \in Nat /\ \A j \in 1 .. Len(q) : q[j] \in Threads /\ q[j] # Null
  BY NamesApart
<1>9. CASE k - 1 < Len(q)
  <2>1. w[k - 1] = q[k] /\ k \in 1 .. Len(q)
    BY <1>3, <1>5, <1>6, <1>8, <1>9 DEF At
  <2>2. w[k] = IF k < Len(q) THEN q[k + 1] ELSE Null
    BY <1>7, <1>8, <2>1, ZenonT(30) DEF Joined
  <2> QED BY <1>3, <2>2, Zenon DEF At
<1>10. CASE ~(k - 1 < Len(q))
  BY <1>3, <1>6, <1>7, <1>8, <1>10 DEF At
<1> QED BY <1>9, <1>10, Zenon

\* So does Chain, whose recursion some function satisfies.
LEMMA ChainFollows ==
    ASSUME NEW q \in Seq(Threads), Len(q) <= Limit, ready_queue = At(q, 0),
           NEW nx, Joined(nx, q)
    PROVE  \A k \in 0 .. Limit : Chain(nx)[k] = At(q, k)
<1> DEFINE F(w) == [k \in 0 .. Limit |->
                      IF k = 0 THEN ready_queue
                      ELSE IF w[k - 1] = Null THEN Null ELSE nx[w[k - 1]]]
           v == [k \in 0 .. Limit |-> At(q, k)]
<1>0. Limit \in Nat
  BY LimitIsNat, Zenon
<1>1. Len(q) \in Nat /\ \A j \in 1 .. Len(q) : q[j] \in Threads /\ q[j] # Null
  BY NamesApart
<1>2. v = F(v)
  <2> SUFFICES ASSUME NEW k \in 0 .. Limit, k # 0
               PROVE  At(q, k) = IF v[k - 1] = Null THEN Null ELSE nx[v[k - 1]]
    BY Zenon
  <2>1. v[k - 1] = At(q, k - 1)
    BY <1>0
  <2>2. CASE k - 1 < Len(q)
    <3>1. v[k - 1] = q[k] /\ k \in 1 .. Len(q)
      BY <1>0, <1>1, <2>1, <2>2 DEF At
    <3> QED BY <1>1, <3>1 DEF At, Joined
  <2>3. CASE ~(k - 1 < Len(q))
    BY <1>0, <1>1, <2>1, <2>3 DEF At
  <2> QED BY <2>2, <2>3, Zenon
<1>3. Chain(nx) = CHOOSE w : w = F(w)
  BY Zenon DEF Chain
<1>4. Chain(nx) = F(Chain(nx))
  <2> HIDE DEF F, v
  <2> QED BY <1>2, <1>3, Zenon
<1> QED BY <1>0, <1>4, WalkFollows, SMTT(30)

\* What Lists says, in these terms.
LEMMA ListFacts ==
    ASSUME NEW q \in Seq(Threads), Lists(q)
    PROVE  /\ Len(q) \in Nat /\ Len(q) <= Limit /\ Limit \in Nat
           /\ ready_queue = At(q, 0) /\ Joined(next, q)
           /\ \A k \in 1 .. Len(q) : q[k] \in Threads /\ q[k] # Null
<1>1. Len(q) \in Nat /\ Len(q) <= Limit /\ Limit \in Nat
  BY ListFits, LimitIsNat, Zenon DEF Lists
<1>2. ready_queue = At(q, 0) /\ Joined(next, q)
  BY <1>1 DEF Lists, At, Joined
<1> QED BY <1>1, <1>2, NamesApart

\* A list of the links is the queue that LinkedQueue reads off them.
LEMMA ListIsQueue == \A q \in Seq(Threads) : Lists(q) => LinkedQueue = q
<1> SUFFICES ASSUME NEW q \in Seq(Threads), Lists(q) PROVE LinkedQueue = q
  BY Zenon
<1> DEFINE n == Len(q)
           chain == Chain(next)
           S == {k \in 0 .. Limit : chain[k] # Null}
<1>1. n \in Nat /\ n <= Limit /\ Limit \in Nat
  BY ListFacts, Zenon
<1>2. q = [k \in 1 .. n |-> q[k]] /\ \A k \in 1 .. n : q[k] # Null
  BY NamesApart, LenProperties
<1>3. \A k \in 0 .. Limit : chain[k] = At(q, k)
  BY <1>1, ListFacts, ChainFollows, Zenon
<1> HIDE DEF chain, n
<1>4. S = 0 .. n - 1
  BY <1>1, <1>2, <1>3 DEF At, n
<1>5. Cardinality(S) = n
  <2>1. 0 \in Int /\ n - 1 \in Int
    BY <1>1
  <2>2. Cardinality(0 .. n - 1) = IF 0 > n - 1 THEN 0 ELSE n - 1 - 0 + 1
    BY <2>1, FS_Interval, Zenon
  <2>3. Cardinality(0 .. n - 1) = n
    BY <1>1, <2>2
  <2> QED BY <1>4, <2>3, Zenon
<1>6. LinkedQueue = [k \in 1 .. Cardinality(S) |-> chain[k - 1]]
  BY Zenon DEF LinkedQueue, chain
<1> HIDE DEF S
<1>7. \A k \in 1 .. n : chain[k - 1] = q[k]
  BY <1>1, <1>3 DEF At, n
<1> QED BY <1>2, <1>5, <1>6, <1>7, Zenon

\* The same, after a step.
LEMMA ListIsNextQueue == (\A q \in Seq(Threads) : Lists(q) => LinkedQueue = q)'
  BY ListIsQueue, PTL

\* Every live thread is found from ready_queue, ready or not.
LEMMA ListedIsReached == QueueIsList => ReadyIsQueued
<1> SUFFICES ASSUME QueueIsList, NEW t \in allocated
             PROVE  \E k \in 0 .. Limit : Chain(next)[k] = t
  BY Zenon DEF ReadyIsQueued
<1>1. PICK q \in Seq(Threads) : Lists(q)
  BY Zenon DEF QueueIsList, Lists
<1>2. Len(q) \in Nat /\ Len(q) <= Limit /\ Limit \in Nat
  BY <1>1, ListFacts, Zenon
<1>3. \A k \in 0 .. Limit : Chain(next)[k] = At(q, k)
  BY <1>1, ListFacts, ChainFollows, Zenon
<1>4. PICK k \in 1 .. Len(q) : q[k] = t
  BY <1>1, Zenon DEF Lists
<1>5. k - 1 \in 0 .. Limit /\ At(q, k - 1) = t
  BY <1>2, <1>4 DEF At
<1> QED BY <1>3, <1>5, Zenon

\* KeAppendReadyThread finds the last record and links the new one behind it.
LEMMA AppendExtends ==
    ASSUME TypeOK, NEW q \in Seq(Threads), Lists(q), NEW t \in Threads \ allocated,
           KeAppendReadyThread(t), allocated' = allocated \cup {t}, UNCHANGED ready_queue,
           NEW p, p = Append(q, t)
    PROVE  p \in Seq(Threads) /\ Lists(p)'
<1> DEFINE n == Len(q)
           cleared == [next EXCEPT ![t] = Null]
<1>1. n \in Nat /\ n <= Limit /\ Limit \in Nat /\ \A k \in 1 .. n : q[k] \in Threads /\ q[k] # Null
  BY ListFacts, Zenon
<1>2. /\ cleared \in [Threads -> Threads \cup {Null}] /\ cleared[t] = Null
      /\ \A s \in Threads \ {t} : cleared[s] = next[s]
  BY Zenon DEF TypeOK
<1>3. \A k \in 1 .. n : q[k] # t /\ cleared[q[k]] = IF k < n THEN q[k + 1] ELSE Null
  BY <1>1, <1>2 DEF Lists
<1>4. PICK k \in 0 .. Limit :
        /\ Chain(cleared)[k] # Null
        /\ cleared[Chain(cleared)[k]] = Null
        /\ next' = [cleared EXCEPT ![Chain(cleared)[k]] = t]
  BY Zenon DEF KeAppendReadyThread
<1> HIDE DEF cleared
<1>5. Chain(cleared)[k] = At(q, k)
  <2>1. Joined(cleared, q)
    BY <1>3, Zenon DEF Joined
  <2> QED BY <2>1, ListFacts, ChainFollows, Zenon
<1>6. k + 1 = n /\ Chain(cleared)[k] = q[n] /\ n \in 1 .. n
  <2>1. k < n /\ Chain(cleared)[k] = q[k + 1] /\ k + 1 \in 1 .. n
    BY <1>1, <1>4, <1>5 DEF At
  <2>2. ~(k + 1 < n)
    <3> DEFINE m == k + 1
    <3>1. m \in 1 .. n /\ cleared[q[m]] = Null
      BY <1>4, <2>1, ZenonT(30)
    <3>2. m < n => m + 1 \in 1 .. n /\ cleared[q[m]] = q[m + 1]
      BY <1>1, <1>3, <3>1
    <3> QED BY <1>1, <3>1, <3>2, Zenon
  <2> QED BY <1>1, <2>1, <2>2
<1>7. /\ next'[q[n]] = t /\ next'[t] = Null
      /\ \A s \in Threads \ {t, q[n]} : next'[s] = next[s]
  BY <1>1, <1>2, <1>3, <1>4, <1>6, ZenonT(30)
<1>8. /\ p \in Seq(Threads) /\ Len(p) = n + 1 /\ p[n + 1] = t
      /\ \A j \in 1 .. n : p[j] = q[j]
  OBVIOUS
<1> HIDE DEF n
<1>9. ready_queue' = IF Len(p) = 0 THEN Null ELSE p[1]
  BY <1>1, <1>6, <1>8 DEF Lists, n
<1>10. ASSUME NEW j \in 1 .. Len(p)
       PROVE  /\ p[j] \in allocated'
              /\ next'[p[j]] = IF j < Len(p) THEN p[j + 1] ELSE Null
  <2>1. CASE j = n + 1
    BY <2>1, <1>1, <1>7, <1>8
  <2>2. CASE j = n
    BY <2>2, <1>1, <1>6, <1>7, <1>8 DEF Lists, n
  <2>3. CASE j \in 1 .. n - 1
    <3>1. q[j] \in allocated /\ next[q[j]] = q[j + 1] /\ j # n /\ j \in 1 .. n /\ j + 1 \in 1 .. n
      BY <2>3, <1>1 DEF Lists, n
    <3>2. q[j] \in Threads \ {t, q[n]}
      BY <3>1, <1>1, <1>3, <1>6, ZenonT(30) DEF Lists, n
    <3> QED BY <3>1, <3>2, <1>1, <1>7, <1>8
  <2> QED BY <1>1, <1>8, <2>1, <2>2, <2>3
<1>11. \A j, l \in 1 .. Len(p) : p[j] = p[l] => j = l
  BY <1>1, <1>3, <1>8 DEF Lists, n
<1>12. \A s \in allocated' : \E j \in 1 .. Len(p) : p[j] = s
  <2> SUFFICES ASSUME NEW s \in allocated' PROVE \E j \in 1 .. Len(p) : p[j] = s
    BY Zenon
  <2>1. CASE s = t
    BY <2>1, <1>1, <1>8
  <2>2. CASE s \in allocated
    <3>1. PICK j \in 1 .. n : q[j] = s
      BY <2>2, Zenon DEF Lists, n
    <3> QED BY <3>1, <1>1, <1>8
  <2> QED BY <2>1, <2>2, Zenon
<1> QED BY <1>8, <1>9, <1>10, <1>11, <1>12, ZenonT(30) DEF Lists

\* The list that is left when nothing of it changes.
LEMMA StillLists ==
    ASSUME NEW q, Lists(q), UNCHANGED <<allocated, next, ready_queue>>
    PROVE  Lists(q)'
  BY Zenon DEF Lists

-----------------------------------------------------------------------------
\* The place d places after i around a queue of n, as a sum and as Scheduler writes it.
Place(n, i, d) == IF i + d <= n THEN i + d ELSE i + d - n

\* Counting d places on from i around a ring of n: it comes back to i after n.
LEMMA PlaceFacts ==
    ASSUME NEW n \in Nat, NEW i \in 1 .. n, NEW d \in 1 .. n
    PROVE  /\ Place(n, i, d) \in 1 .. n
           /\ d < n => Place(n, i, d) # i
           /\ d = n => Place(n, i, d) = i
           /\ d < n => Place(n, i, d + 1) =
                IF Place(n, i, d) < n THEN Place(n, i, d) + 1 ELSE 1
  BY DEF Place

\* The same place, as the abstract scheduler counts it.
LEMMA PlaceIsAround ==
    ASSUME NEW n \in Nat, NEW i \in 1 .. n, NEW d \in 1 .. n - 1
    PROVE  ((i - 1 + d) % n) + 1 = Place(n, i, d)
<1> DEFINE x == i - 1 + d
           k == x \div n
           r == x % n
<1>1. n \in Nat \ {0} /\ x \in Nat /\ x < n + n
  OBVIOUS
<1> HIDE DEF x
<1>2. k \in Int /\ r \in Int /\ x = n * k + r /\ 0 <= r /\ r < n
  BY <1>1
<1> HIDE DEF k, r
<1>3. k = 0 \/ k = 1
  <2>1. CASE k <= -1
    <3>1. n * k <= n * (-1)
      BY <1>1, <1>2, <2>1
    <3> QED BY <1>1, <1>2, <3>1
  <2>2. CASE k >= 2
    <3>1. n * k >= n * 2
      BY <1>1, <1>2, <2>2
    <3> QED BY <1>1, <1>2, <3>1
  <2> QED BY <1>2, <2>1, <2>2
<1>4. r = IF x < n THEN x ELSE x - n
  <2>1. CASE k = 0
    BY <1>1, <1>2, <2>1
  <2>2. CASE k = 1
    BY <1>1, <1>2, <2>2
  <2> QED BY <1>3, <2>1, <2>2, Zenon
<1>5. (x % n) + 1 = IF x < n THEN x + 1 ELSE x - n + 1
  BY <1>1, <1>4, Zenon DEF r
<1> QED BY <1>5 DEF Place, x

\* What the scan of KeSelectNextThread looks at in its d-th turn.
Turn(q, i, d) ==
    IF d < Len(q) \/ (Len(q) = 1 /\ d = 1) THEN q[Place(Len(q), i, d)] ELSE Null

\* It goes once around the list from the current thread, and looks at the current thread
\* only if there is no other.
LEMMA ScanFollows ==
    ASSUME NEW q \in Seq(Threads), Lists(q), NEW i \in 1 .. Len(q), q[i] = current_thread
    PROVE  \A k \in 0 .. Limit : Scan[k] = Turn(q, i, k + 1)
<1> DEFINE n == Len(q)
           After(s) == IF next[s] = Null /\ current_thread # ready_queue
                         THEN ready_queue ELSE next[s]
           Step(s) == IF s = Null \/ After(s) = current_thread THEN Null ELSE After(s)
           F(w) == [k \in 0 .. Limit |->
                      IF k = 0 THEN ScanFirst
                      ELSE IF w[k - 1] = Null \/ After(w[k - 1]) = current_thread THEN Null
                      ELSE After(w[k - 1])]
           v == [k \in 0 .. Limit |-> Turn(q, i, k + 1)]
<1>1. /\ n \in Nat \ {0} /\ Limit \in Nat /\ i \in 1 .. n
      /\ \A j \in 1 .. n : q[j] \in Threads /\ q[j] # Null
  BY LimitIsNat, NamesApart
<1>2. /\ ready_queue = q[1]
      /\ \A j \in 1 .. n : next[q[j]] = IF j < n THEN q[j + 1] ELSE Null
      /\ \A j, k \in 1 .. n : q[j] = q[k] => j = k
  BY <1>1, Zenon DEF Lists
<1>0. \A d : Turn(q, i, d) = IF d < n \/ (n = 1 /\ d = 1) THEN q[Place(n, i, d)] ELSE Null
  BY Zenon DEF Turn
<1> HIDE DEF n
<1>3. Turn(q, i, 1) = ScanFirst
  <2>1. ScanFirst = IF i < n THEN q[i + 1] ELSE q[1]
    BY <1>1, <1>2 DEF ScanFirst
  <2>2. Place(n, i, 1) = IF i < n THEN i + 1 ELSE 1
    BY <1>1 DEF Place
  <2>3. 1 < n \/ (n = 1 /\ 1 = 1)
    BY <1>1
  <2>4. Turn(q, i, 1) = q[Place(n, i, 1)]
    BY <1>0, <2>3, Zenon
  <2> QED BY <2>1, <2>2, <2>4, Zenon
<1>4. ASSUME NEW k \in 1 .. Limit
      PROVE  Turn(q, i, k + 1) = Step(Turn(q, i, k))
  <2>0. Turn(q, i, k + 1) = IF k + 1 < n THEN q[Place(n, i, k + 1)] ELSE Null
    BY <1>1, <1>4 DEF Turn, n
  <2>1. CASE k < n
    <3> DEFINE p == Place(n, i, k)
    <3>1. /\ p \in 1 .. n /\ p # i
          /\ Place(n, i, k + 1) = IF p < n THEN p + 1 ELSE 1
      <4>1. n \in Nat /\ k \in 1 .. n
        BY <1>1, <2>1
      <4>2. /\ Place(n, i, k) \in 1 .. n
            /\ k < n => Place(n, i, k) # i
            /\ k < n => Place(n, i, k + 1) =
                 IF Place(n, i, k) < n THEN Place(n, i, k) + 1 ELSE 1
        BY <1>1, <4>1, PlaceFacts, Zenon
      <4> QED BY <2>1, <4>2, Zenon
    <3>2. Turn(q, i, k) = q[p]
      BY <1>0, <2>1, Zenon
    <3>3. k + 1 < n => Place(n, i, k + 1) # i /\ Place(n, i, k + 1) \in 1 .. n
      <4>1. n \in Nat /\ (k + 1 < n => k + 1 \in 1 .. n)
        BY <1>1, <2>1
      <4> QED BY <1>1, <4>1, PlaceFacts, Zenon
    <3>4. k + 1 = n => Place(n, i, k + 1) = i
      <4>1. n \in Nat /\ (k + 1 = n => k + 1 \in 1 .. n)
        BY <1>1, <2>1
      <4> QED BY <1>1, <4>1, PlaceFacts, ZenonT(30)
    <3>5. i = 1 => p = k + 1
      BY <1>1, <2>1 DEF Place
    <3> HIDE DEF p
    <3>6. CASE i = 1
      <4>1. After(q[p]) = IF p < n THEN q[p + 1] ELSE Null
        BY <1>1, <1>2, <3>1, <3>6, ZenonT(30)
      <4>2. CASE k + 1 < n
        <5>1. After(q[p]) = q[Place(n, i, k + 1)] /\ After(q[p]) # current_thread
          BY <1>1, <1>2, <3>1, <3>3, <3>5, <3>6, <4>1, <4>2, ZenonT(30)
        <5> QED BY <1>1, <2>0, <3>1, <3>2, <4>2, <5>1, ZenonT(30)
      <4>3. CASE k + 1 = n
        <5>1. After(q[p]) = Null
          BY <1>1, <3>5, <3>6, <4>1, <4>3, SMTT(30)
        <5> QED BY <1>1, <2>0, <3>2, <4>3, <5>1
      <4> QED BY <1>1, <2>1, <4>2, <4>3
    <3>7. CASE i # 1
      <4>1. current_thread # ready_queue
        BY <1>1, <1>2, <3>7
      <4>2. After(q[p]) = q[Place(n, i, k + 1)]
        BY <1>1, <1>2, <3>1, <4>1
      <4>3. CASE k + 1 < n
        <5>1. After(q[p]) # current_thread
          BY <1>1, <1>2, <3>3, <4>2, <4>3, ZenonT(30)
        <5> QED BY <1>1, <2>0, <3>1, <3>2, <4>2, <4>3, <5>1, ZenonT(30)
      <4>4. CASE k + 1 = n
        <5>1. After(q[p]) = current_thread
          BY <3>4, <4>2, <4>4, ZenonT(30)
        <5> QED BY <1>1, <2>0, <3>2, <4>4, <5>1
      <4> QED BY <1>1, <2>1, <4>3, <4>4
    <3> QED BY <3>6, <3>7, Zenon
  <2>2. CASE n = 1 /\ k = 1
    <3>1. i = 1 /\ Turn(q, i, k) = q[1] /\ After(q[1]) = Null
      BY <1>1, <1>2, <2>2 DEF Turn, Place, n
    <3> QED BY <1>1, <2>0, <2>2, <3>1
  <2>3. CASE ~(k < n) /\ ~(n = 1 /\ k = 1)
    <3>1. Turn(q, i, k) = Null
      BY <1>1, <2>3, Zenon DEF Turn, n
    <3> QED BY <1>1, <2>0, <2>3, <3>1
  <2> QED BY <2>1, <2>2, <2>3, Zenon
<1>5. v = F(v)
  <2> SUFFICES ASSUME NEW k \in 0 .. Limit
               PROVE  Turn(q, i, k + 1) = IF k = 0 THEN ScanFirst ELSE Step(v[k - 1])
    BY Zenon
  <2>1. CASE k = 0
    BY <2>1, <1>3
  <2>2. CASE k # 0
    <3>1. k \in 1 .. Limit /\ v[k - 1] = Turn(q, i, k)
      BY <1>1, <2>2
    <3> QED BY <1>4, <2>2, <3>1, ZenonT(30)
  <2> QED BY <2>1, <2>2, Zenon
<1>6. Scan = CHOOSE w : w = F(w)
  BY Zenon DEF Scan
<1>7. Scan = F(Scan)
  <2> HIDE DEF F, v
  <2> QED BY <1>5, <1>6, Zenon
<1> DEFINE T == {k \in 0 .. Limit : Scan[k] # Turn(q, i, k + 1)}
<1> SUFFICES ASSUME T # {} PROVE FALSE
  BY Zenon
<1>8. T \in SUBSET Nat
  BY <1>1
<1>9. PICK k \in T : \A j \in T : k <= j
  BY <1>8, LeastOf, Zenon
<1>10. /\ k \in 0 .. Limit /\ Scan[k] # Turn(q, i, k + 1)
       /\ \A j \in 0 .. Limit : j < k => Scan[j] = Turn(q, i, j + 1)
  BY <1>1, <1>9
<1> HIDE DEF T
<1>11. k # 0
  BY <1>1, <1>3, <1>7, <1>10
<1>12. k \in 1 .. Limit /\ Scan[k - 1] = Turn(q, i, k)
  BY <1>1, <1>10, <1>11
<1>13. Scan[k] = Step(Scan[k - 1])
  BY <1>7, <1>10, <1>11, Zenon
<1> QED BY <1>4, <1>10, <1>12, <1>13, ZenonT(30)

\* KeSelectNextThread gives the processor to whom Scheduler gives it, or to nobody else.
LEMMA SelectDispatches ==
    ASSUME IInv, NEW q \in Seq(Threads), Lists(q), current_thread \in allocated,
           KeSelectNextThread, LinkedQueue = q, LinkedQueue' = q
    PROVE  [Abstract!Next]_(Abstract!vars) /\ current_thread' \in allocated
<1>1. current_thread \in Threads /\ allocated \subseteq Threads /\ current_thread # Null
      /\ state \in [Threads -> States]
  BY NamesApart, Zenon DEF IInv, TypeOK
<1>2. UNCHANGED <<allocated, next, ready_queue>>
  BY Zenon DEF KeSelectNextThread
<1>3. CASE UNCHANGED <<state, current_thread>>
  <2>1. Status' = Status
    BY <1>2, <1>3, Zenon DEF Status
  <2> QED BY <1>3, <2>1, Zenon DEF Abstract!vars
<1>4. ASSUME NEW s \in Threads, Selects(s),
             state' = [state EXCEPT ![current_thread] = IF @ = "RUNNING" THEN "READY" ELSE @,
                                    ![s] = "RUNNING"],
             current_thread' = s
      PROVE  Abstract!Dispatch /\ s \in allocated
  <2> DEFINE n == Len(q)
  <2>1. n \in Nat /\ \A k \in 1 .. n : q[k] \in allocated /\ q[k] \in Threads
    BY <1>1 DEF Lists
  <2>2. PICK i \in 1 .. n : q[i] = current_thread
    BY Zenon DEF Lists
  <2>3. Limit \in Nat /\ \A k \in 0 .. Limit : Scan[k] = Turn(q, i, k + 1)
    BY <2>2, ScanFollows, LimitIsNat, Zenon
  <2>4. PICK k \in 0 .. Limit :
          /\ Scan[k] = s
          /\ Eligible(s)
          /\ \A j \in 0 .. k - 1 : Scan[j] # Null /\ ~Eligible(Scan[j])
    BY <1>4, Zenon DEF Selects
  <2>5. s # Null /\ s # current_thread /\ state[s] = "READY"
    BY <2>4, NamesApart, Zenon DEF Eligible
  <2>6. k + 1 < n /\ s = q[Place(n, i, k + 1)]
    <3>1. k + 1 < n \/ (n = 1 /\ k = 0)
      BY <2>3, <2>4, <2>5 DEF Turn
    <3>2. s = q[Place(n, i, k + 1)]
      BY <2>3, <2>4, <3>1 DEF Turn
    <3>3. n = 1 /\ k = 0 => Place(n, i, k + 1) = i
      BY <2>2 DEF Place
    <3> QED BY <2>2, <2>5, <3>1, <3>2, <3>3, ZenonT(30)
  <2> DEFINE d == k + 1
  <2>7. d \in 1 .. n - 1
    BY <2>1, <2>3, <2>6
  <2>8. \A e \in 1 .. n - 1 : Abstract!Around(i, e) = q[Place(n, i, e)]
    <3> SUFFICES ASSUME NEW e \in 1 .. n - 1 PROVE Abstract!Around(i, e) = q[Place(n, i, e)]
      BY Zenon
    <3>1. ((i - 1 + e) % n) + 1 = Place(n, i, e)
      BY <2>1, PlaceIsAround, Zenon
    <3> QED BY <3>1, Zenon DEF Abstract!Around
  <2>9. Abstract!Around(i, d) = s
    BY <2>6, <2>7, <2>8, Zenon
  <2>10. s \in allocated
    <3>1. d \in 1 .. n
      BY <2>1, <2>7
    <3>2. Place(n, i, d) \in 1 .. n
      BY <2>1, <3>1, PlaceFacts, Zenon
    <3> QED BY <2>1, <2>6, <3>2, ZenonT(30)
  <2>11. Status[s] = "READY"
    BY <2>5, <2>10, Zenon DEF Status
  <2>12. ASSUME NEW e \in 1 .. d - 1
         PROVE  Status[Abstract!Around(i, e)] # "READY"
    <3> DEFINE u == q[Place(n, i, e)]
    <3>1. e \in 1 .. n - 1 /\ e - 1 \in 0 .. k - 1 /\ e - 1 \in 0 .. Limit /\ (e - 1) + 1 < n
          /\ (e - 1) + 1 = e
      BY <2>1, <2>3, <2>6, <2>12
    <3>2. Scan[e - 1] = u
      BY <2>3, <3>1, Zenon DEF Turn
    <3>3. Place(n, i, e) \in 1 .. n /\ Place(n, i, e) # i
      BY <2>1, <3>1, PlaceFacts
    <3>4. u # current_thread /\ u \in allocated /\ u \in Threads
      BY <2>1, <2>2, <3>3, ZenonT(30) DEF Lists
    <3>5. ~Eligible(u)
      BY <2>4, <3>1, <3>2, ZenonT(30)
    <3>6. state[u] # "READY"
      BY <3>4, <3>5, Zenon DEF Eligible
    <3>7. Status[u] # "READY"
      BY <3>4, <3>6, Zenon DEF Status
    <3> QED BY <2>8, <3>1, <3>7, ZenonT(30)
  <2>13. Status' = [Status EXCEPT
           ![current_thread] = IF @ = "RUNNING" THEN "READY" ELSE @,
           ![Abstract!Around(i, d)] = "RUNNING"]
    <3>1. Status' = [Status EXCEPT
            ![current_thread] = IF @ = "RUNNING" THEN "READY" ELSE @, ![s] = "RUNNING"]
      BY <1>1, <1>2, <1>4, <2>10, ZenonT(30) DEF Status
    <3> QED BY <2>9, <3>1, Zenon
  <2> HIDE DEF d
  <2>14. i \in 1 .. Len(LinkedQueue) /\ d \in 1 .. Len(LinkedQueue) - 1 /\ LinkedQueue[i] = current_thread
    BY <2>2, <2>7, Zenon
  <2>15. UNCHANGED LinkedQueue
    BY Zenon
  <2> QED BY <1>4, <2>9, <2>10, <2>11, <2>12, <2>13, <2>14, <2>15, ZenonT(30) DEF Abstract!Dispatch
<1> QED BY <1>2, <1>3, <1>4, Zenon DEF KeSelectNextThread, Abstract!Next

\* A list of the next state is its queue, and all QueueIsList asks for.
LEMMA NextList ==
    ASSUME NEW q \in Seq(Threads), Lists(q)', current_thread' # Null => current_thread' \in allocated'
    PROVE  LinkedQueue' = q /\ QueueIsList'
<1>1. LinkedQueue' = q
  BY ListIsNextQueue, Zenon
<1> QED BY <1>1, Zenon DEF QueueIsList, Lists

\* The boot code attaches to an empty queue.
LEMMA AttachFollows ==
    ASSUME IInv, NEW q \in Seq(Threads), Lists(q), LinkedQueue = q,
           NEW t \in Threads, KeAttachCurrentThread(t)
    PROVE  QueueIsList' /\ Abstract!Attach(t)
<1>1. Len(q) = 0 /\ allocated = {} /\ t # Null /\ next \in [Threads -> Threads \cup {Null}]
  BY ListFacts, NamesApart DEF KeAttachCurrentThread, IInv, TypeOK, Lists
<1>2. PICK p : p = <<t>>
  BY Zenon
<1>3. p \in Seq(Threads) /\ Len(p) = 1 /\ p[1] = t
  BY <1>2
<1>4. Lists(p)'
  BY <1>1, <1>3 DEF Lists, KeAttachCurrentThread
<1>5. LinkedQueue' = p /\ QueueIsList'
  BY <1>3, <1>4, NextList, Zenon DEF KeAttachCurrentThread
<1>6. Status' = [Status EXCEPT ![t] = "RUNNING"]
  BY <1>1, Zenon DEF Status, KeAttachCurrentThread, IInv, TypeOK
<1> QED BY <1>2, <1>5, <1>6, ZenonT(30) DEF Abstract!Attach, KeAttachCurrentThread

\* KeCreateThread puts its thread behind the others.
LEMMA CreateFollows ==
    ASSUME IInv, NEW q \in Seq(Threads), Lists(q), LinkedQueue = q, current_thread \in allocated,
           NEW t \in Threads, KeCreateThread(t)
    PROVE  QueueIsList' /\ Abstract!Create(t)
<1>1. /\ TypeOK /\ t \in Threads \ allocated /\ current_thread # Null
      /\ KeAppendReadyThread(t) /\ allocated' = allocated \cup {t}
      /\ state' = [state EXCEPT ![t] = "READY"]
      /\ UNCHANGED ready_queue /\ UNCHANGED current_thread
  BY Zenon DEF IInv, KeCreateThread, InCode
<1>2. PICK p : p = Append(q, t)
  BY Zenon
<1>3. p \in Seq(Threads) /\ Lists(p)'
  BY <1>1, <1>2, AppendExtends, Zenon
<1>4. LinkedQueue' = p /\ QueueIsList'
  BY <1>1, <1>3, NextList, Zenon
<1>5. Status[t] = "NONE" /\ Status' = [Status EXCEPT ![t] = "READY"]
  BY <1>1, Zenon DEF Status, TypeOK
<1> QED BY <1>1, <1>2, <1>4, <1>5, Zenon DEF Abstract!Create

\* Both ways a thread terminates leave it where it stands.
LEMMA TerminateFollows ==
    ASSUME TypeOK, QueueIsList, LinkedQueue' = LinkedQueue, NEW t \in allocated,
           state' = [state EXCEPT ![t] = "TERMINATED"], UNCHANGED <<allocated, current_thread>>
    PROVE  Abstract!Next
<1>1. t \in Threads /\ Status[t] # "NONE" /\ Status' = [Status EXCEPT ![t] = "TERMINATED"]
  BY Zenon DEF Status, TypeOK, States
<1>2. Abstract!Terminate(t)
  BY <1>1, Zenon DEF Abstract!Terminate
<1> QED BY <1>1, <1>2, Zenon DEF Abstract!Next

\* The loops of the kernel go on, or leave the queue alone.
LEMMA PollsSelect ==
    Polls => current_thread # Null /\ (KeSelectNextThread \/ UNCHANGED queueVars)
  BY Zenon DEF Polls, KeThreadBootstrapLoop, KeWaitEventLoop, KeWaitMutexLoop

\* Every step of the kernel keeps the list and is a step of Scheduler, or none.
LEMMA StepFollows ==
    ASSUME IInv, QueueIsList, [Next]_vars
    PROVE  QueueIsList' /\ [Abstract!Next]_(Abstract!vars)
<1>1. PICK q : q = LinkedQueue
  BY Zenon
<1>2. /\ q \in Seq(Threads) /\ Lists(q) /\ LinkedQueue = q /\ TypeOK
      /\ current_thread # Null => current_thread \in allocated
  BY <1>1, Zenon DEF QueueIsList, Lists, IInv
<1>3. ASSUME UNCHANGED <<allocated, next, ready_queue>>,
             current_thread' # Null => current_thread' \in allocated'
      PROVE  LinkedQueue' = q /\ QueueIsList'
  <2>1. Lists(q)'
    BY <1>2, <1>3, StillLists, Zenon
  <2> QED BY <1>2, <1>3, <2>1, NextList, Zenon
<1>4. CASE UNCHANGED queueVars
  <2>1. LinkedQueue' = q /\ QueueIsList'
    BY <1>2, <1>3, <1>4, Zenon DEF queueVars
  <2>2. Status' = Status
    BY <1>4, Zenon DEF Status, queueVars
  <2> QED BY <1>2, <1>4, <2>1, <2>2, ZenonT(30) DEF Abstract!vars, queueVars
<1>5. CASE current_thread # Null /\ KeSelectNextThread
  <2>1. UNCHANGED <<allocated, next, ready_queue>>
    BY <1>5, Zenon DEF KeSelectNextThread
  <2>2. Lists(q)'
    BY <1>2, <2>1, StillLists, ZenonT(30)
  <2>3. LinkedQueue' = q
    BY <1>2, <2>2, ListIsNextQueue, Zenon
  <2>4. [Abstract!Next]_(Abstract!vars) /\ current_thread' \in allocated
    BY <1>2, <1>5, <2>3, SelectDispatches, ZenonT(30)
  <2> QED BY <1>3, <2>1, <2>4, Zenon
<1>6. ASSUME NEW t \in allocated, state' = [state EXCEPT ![t] = "TERMINATED"],
             UNCHANGED <<allocated, next, ready_queue, current_thread>>
      PROVE  QueueIsList' /\ [Abstract!Next]_(Abstract!vars)
  <2>1. LinkedQueue' = LinkedQueue /\ QueueIsList'
    BY <1>2, <1>3, <1>6, ZenonT(30)
  <2> QED BY <1>2, <1>6, <2>1, TerminateFollows, Zenon
<1>7. ASSUME NEW t \in Threads, KeAttachCurrentThread(t)
      PROVE  QueueIsList' /\ [Abstract!Next]_(Abstract!vars)
  BY <1>2, <1>7, AttachFollows, ZenonT(30) DEF Abstract!Next
<1>8. ASSUME NEW t \in Threads, KeCreateThread(t)
      PROVE  QueueIsList' /\ [Abstract!Next]_(Abstract!vars)
  <2>1. current_thread \in allocated
    BY <1>2, <1>8, Zenon DEF KeCreateThread, InCode
  <2> QED BY <1>2, <1>8, <2>1, CreateFollows, ZenonT(30) DEF Abstract!Next
<1>9. ASSUME NEW t \in Threads, KeTerminateThread(t)
      PROVE  QueueIsList' /\ [Abstract!Next]_(Abstract!vars)
  BY <1>6, <1>9, Zenon DEF KeTerminateThread
<1>10. CASE KeThreadBootstrapEnds
  BY <1>2, <1>6, <1>10, ZenonT(30) DEF KeThreadBootstrapEnds, InCode
<1>11. CASE KeYield
  BY <1>5, <1>11, Zenon DEF KeYield, InCode
<1>12. CASE Polls
  BY <1>4, <1>5, <1>12, PollsSelect, ZenonT(30)
<1>13. ASSUME NEW e \in Events,
              \/ \E manual \in BOOLEAN : KeCreateEvent(e, manual)
              \/ KeSetEventHandle(e) \/ KeResetEventHandle(e) \/ KeWaitEvent(e)
       PROVE  UNCHANGED queueVars
  BY <1>13, Zenon DEF KeCreateEvent, KeSetEventHandle, KeResetEventHandle, KeWaitEvent
<1>14. ASSUME NEW m \in Mutexes, KeWaitMutex(m) \/ KeReleaseMutex(m)
       PROVE  UNCHANGED queueVars
  BY <1>14, Zenon DEF KeWaitMutex, KeReleaseMutex
<1>15. CASE UNCHANGED vars
  BY <1>4, <1>15, Zenon DEF vars
<1>16. CASE Next
  BY <1>4, <1>7, <1>8, <1>9, <1>10, <1>11, <1>12, <1>13, <1>14, <1>16, SMTT(30) DEF Next
<1> QED BY <1>15, <1>16, Zenon

\* At KeInit the list is empty, as Scheduler's queue is.
LEMMA InitFollows == KeInit => QueueIsList /\ Abstract!Init
<1> SUFFICES ASSUME KeInit PROVE QueueIsList /\ Abstract!Init
  BY Zenon
<1>1. << >> \in Seq(Threads) /\ Lists(<< >>)
  BY DEF KeInit, Lists
<1>2. LinkedQueue = << >>
  BY <1>1, ListIsQueue, Zenon
<1>3. QueueIsList
  BY <1>1, <1>2, Zenon DEF QueueIsList, KeInit
<1>4. Status = [t \in Threads |-> "NONE"]
  BY Zenon DEF Status, KeInit
<1> QED BY <1>2, <1>3, <1>4, Zenon DEF Abstract!Init, KeInit

\* As long as no record is freed while it is linked, the next fields join every live
\* thread, once, in one list from ready_queue on: KeCreateThread finds the tail of it,
\* and neither termination nor a switch takes a thread out.
THEOREM QueueStaysListed == Spec => []QueueIsList
<1>1. Spec => KeInit /\ [][Next]_vars
  BY Zenon DEF Spec
<1>2. KeInit => QueueIsList
  BY InitFollows, Zenon
<1>3. IInv /\ QueueIsList /\ [Next]_vars => QueueIsList'
  BY StepFollows, Zenon
<1> QED BY <1>1, <1>2, <1>3, NeverFreed, Invariance, PTL

\* KeYield finds every live thread that is ready: a walk from ready_queue along the next
\* fields comes to it, for any number of threads.
THEOREM ReadyThreadsQueued == Spec => []ReadyIsQueued
  BY QueueStaysListed, ListedIsReached, PTL

\* Every step ke.c takes with its pointers is a step of Scheduler with its queue, or
\* leaves that queue alone: the order of creation, the choice of the next thread around
\* the queue, and the place a terminated thread keeps.
THEOREM SchedulerSteps == Spec => TakesSchedulerSteps
<1>1. Spec => KeInit /\ [][Next]_vars
  BY Zenon DEF Spec
<1>2. KeInit => Abstract!Init
  BY InitFollows, Zenon
<1>3. IInv /\ QueueIsList /\ [Next]_vars => [Abstract!Next]_(Abstract!vars)
  BY StepFollows, Zenon
<1> QED
  BY <1>1, <1>2, <1>3, NeverFreed, Invariance, QueueStaysListed, PTL DEF TakesSchedulerSteps
=============================================================================
