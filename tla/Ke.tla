--------------------------------- MODULE Ke ---------------------------------
(***************************************************************************)
(* The kernel core, kernel/core/ke.c: THREAD records linked through their  *)
(* next fields into ready_queue, the cooperative switch of KeYield, and    *)
(* the events and mutexes that are built on it by polling.                 *)
(*                                                                         *)
(* Only the current thread runs, so every action is a step of              *)
(* current_thread and ends before, at, or after a call of KeYield.         *)
(* doing[t] is where thread t stands: "run" in its own code, "boot" in the *)
(* last loop of KeThreadBootstrap, e or m in the loop of KeWaitEvent(e) or *)
(* KeWaitMutex(m).                                                         *)
(***************************************************************************)
EXTENDS Integers, FiniteSets, Sequences

CONSTANTS
    Threads,   \* addresses kmalloc returns for THREAD records
    Events,    \* the EVENT bodies that can be created
    Mutexes,   \* the MUTEX bodies that can be created
    Null

ASSUME NamesApart ==
    /\ Null \notin Threads
    /\ {"run", "boot"} \cap (Events \cup Mutexes) = {}
    /\ Events \cap Mutexes = {}

ASSUME ThreadsFinite == IsFiniteSet(Threads)

VARIABLES
    allocated,       \* the THREAD records whose object is alive
    state,           \* thread->state, as the memory of the record holds it
    next,            \* thread->next, likewise
    ready_queue,
    current_thread,
    doing,           \* where each thread stands in its code
    event,           \* the events: signaled, manual_reset, and whether they exist
    mutex,           \* the mutexes: locked, owner
    holds,           \* history: the mutexes each thread has waited for and kept
    owed             \* history: waits the last KeSetEventHandle may still end, per event

queueVars == <<allocated, state, next, ready_queue, current_thread>>
eventVars == <<event, owed>>
mutexVars == <<mutex, holds>>
vars == <<queueVars, doing, eventVars, mutexVars>>

States == {"READY", "RUNNING", "TERMINATED"}   \* THREAD_WAITING is never stored
Event == [exists : BOOLEAN, signaled : BOOLEAN, manual_reset : BOOLEAN]
Mutex == [locked : BOOLEAN, owner : Threads \cup {Null}]

\* The current thread runs its own code and may call the kernel.
InCode == current_thread # Null /\ doing[current_thread] = "run"
-----------------------------------------------------------------------------
KeInit ==
    /\ allocated = {}
    /\ state = [t \in Threads |-> "READY"]
    /\ next = [t \in Threads |-> Null]
    /\ ready_queue = Null
    /\ current_thread = Null
    /\ doing = [t \in Threads |-> "run"]
    /\ event = [e \in Events |->
         [exists |-> FALSE, signaled |-> FALSE, manual_reset |-> FALSE]]
    /\ mutex = [m \in Mutexes |-> [locked |-> FALSE, owner |-> Null]]
    /\ holds = [t \in Threads |-> {}]
    /\ owed = [e \in Events |-> 0]

\* The boot code becomes a thread; it does not come through KeThreadBootstrap.
KeAttachCurrentThread(t) ==
    /\ current_thread = Null
    /\ allocated' = {t}
    /\ state' = [state EXCEPT ![t] = "RUNNING"]
    /\ next' = [next EXCEPT ![t] = Null]
    /\ ready_queue' = t
    /\ current_thread' = t
    /\ UNCHANGED <<doing, eventVars, mutexVars>>

Limit == Cardinality(Threads)

\* The records a walk along the next fields nx visits, from ready_queue on; Null once
\* the walk has passed the end.
Chain(nx) ==
    LET walk[k \in 0 .. Limit] ==
          IF k = 0 THEN ready_queue
          ELSE IF walk[k - 1] = Null THEN Null ELSE nx[walk[k - 1]]
    IN  walk

\* Faulty variant: the new thread is linked behind the first one.
AppendBehindHead(t) ==
    next' = [[next EXCEPT ![t] = Null] EXCEPT ![ready_queue] = t]

\* Faulty variant: the new thread goes in front of the others but the first.
AppendInFront(t) ==
    next' = [next EXCEPT ![t] = next[ready_queue], ![ready_queue] = t]

\* The record's own next is cleared first, then the walk looks for the tail.  The
\* queue is never empty here: whoever creates a thread is a thread.
KeAppendReadyThread(t) ==
    LET cleared == [next EXCEPT ![t] = Null] IN
    \E k \in 0 .. Limit :
      LET tail == Chain(cleared)[k] IN
      /\ tail # Null
      /\ cleared[tail] = Null
      /\ next' = [cleared EXCEPT ![tail] = t]

\* kmalloc returns a record that is not in use; KeThreadBootstrap will call its entry.
KeCreateThread(t) ==
    /\ InCode
    /\ t \notin allocated
    /\ KeAppendReadyThread(t)
    /\ allocated' = allocated \cup {t}
    /\ state' = [state EXCEPT ![t] = "READY"]
    /\ doing' = [doing EXCEPT ![t] = "run"]
    /\ holds' = [holds EXCEPT ![t] = {}]
    /\ UNCHANGED <<ready_queue, current_thread, eventVars, mutex>>

KeTerminateThread(t) ==
    /\ InCode
    /\ t \in allocated
    /\ state' = [state EXCEPT ![t] = "TERMINATED"]
    /\ UNCHANGED <<allocated, next, ready_queue, current_thread, doing,
                   eventVars, mutexVars>>
-----------------------------------------------------------------------------
\* Faulty variant: every scan starts at the head of the queue.
ScanFromHead == ready_queue

\* Where the scan of KeSelectNextThread starts.
ScanFirst ==
    IF next[current_thread] # Null THEN next[current_thread] ELSE ready_queue

\* The records the scan looks at: past the end it goes on at the head, unless it
\* started there; it ends when it comes back to the current thread.
Scan ==
    LET After(s) == IF next[s] = Null /\ current_thread # ready_queue
                      THEN ready_queue ELSE next[s]
        visit[k \in 0 .. Limit] ==
          IF k = 0 THEN ScanFirst
          ELSE IF visit[k - 1] = Null \/ After(visit[k - 1]) = current_thread THEN Null
          ELSE After(visit[k - 1])
    IN  visit

\* Faulty variant: any thread that does not run may be picked.
EligibleUnlessRunning(s) == s # current_thread /\ state[s] # "RUNNING"

Eligible(s) == s # current_thread /\ state[s] = "READY"

\* The first eligible record of the scan.
Selects(n) ==
    \E k \in 0 .. Limit :
      /\ Scan[k] = n
      /\ Eligible(n)
      /\ \A j \in 0 .. k - 1 : Scan[j] # Null /\ ~Eligible(Scan[j])

\* The scan ends without one.
SelectsNone ==
    \E k \in 0 .. Limit :
      /\ Scan[k] = Null
      /\ \A j \in 0 .. k - 1 : Scan[j] # Null /\ ~Eligible(Scan[j])

\* Faulty variant: the thread that is switched from stays RUNNING.
SelectLeavesRunning ==
    /\ \/ \E n \in Threads :
            /\ Selects(n)
            /\ state' = [state EXCEPT ![n] = "RUNNING"]
            /\ current_thread' = n
       \/ SelectsNone /\ UNCHANGED <<state, current_thread>>
    /\ UNCHANGED <<allocated, next, ready_queue>>

\* KeSelectNextThread, and the switch of contexts KeYield makes around it.
KeSelectNextThread ==
    /\ \/ \E n \in Threads :
            /\ Selects(n)
            /\ state' = [state EXCEPT ![current_thread] = IF @ = "RUNNING" THEN "READY" ELSE @,
                                      ![n] = "RUNNING"]
            /\ current_thread' = n
       \/ SelectsNone /\ UNCHANGED <<state, current_thread>>
    /\ UNCHANGED <<allocated, next, ready_queue>>

KeYield ==
    /\ InCode
    /\ KeSelectNextThread
    /\ UNCHANGED <<doing, eventVars, mutexVars>>

\* The entry routine returns; the boot thread has none.
KeThreadBootstrapEnds ==
    /\ InCode
    /\ current_thread # ready_queue
    /\ state' = [state EXCEPT ![current_thread] = "TERMINATED"]
    /\ doing' = [doing EXCEPT ![current_thread] = "boot"]
    /\ UNCHANGED <<allocated, next, ready_queue, current_thread, eventVars, mutexVars>>

\* for (;;) KeYield();
KeThreadBootstrapLoop ==
    /\ current_thread # Null
    /\ doing[current_thread] = "boot"
    /\ KeSelectNextThread
    /\ UNCHANGED <<doing, eventVars, mutexVars>>
-----------------------------------------------------------------------------
KeCreateEvent(e, manual) ==
    /\ InCode
    /\ ~event[e].exists
    /\ event' = [event EXCEPT ![e] =
         [exists |-> TRUE, signaled |-> FALSE, manual_reset |-> manual]]
    /\ UNCHANGED <<queueVars, doing, owed, mutexVars>>

KeSetEventHandle(e) ==
    /\ InCode
    /\ event[e].exists
    /\ event' = [event EXCEPT ![e].signaled = TRUE]
    /\ owed' = [owed EXCEPT ![e] = 1]
    /\ UNCHANGED <<queueVars, doing, mutexVars>>

KeResetEventHandle(e) ==
    /\ InCode
    /\ event[e].exists
    /\ event' = [event EXCEPT ![e].signaled = FALSE]
    /\ UNCHANGED <<queueVars, doing, owed, mutexVars>>

\* KeWaitEvent takes its reference and comes to its loop.
KeWaitEvent(e) ==
    /\ InCode
    /\ event[e].exists
    /\ doing' = [doing EXCEPT ![current_thread] = e]
    /\ UNCHANGED <<queueVars, eventVars, mutexVars>>

\* Faulty variant: a satisfied wait leaves an auto-reset event signaled.
WaitEventKeepsSignal(e) ==
    /\ current_thread # Null
    /\ doing[current_thread] = e
    /\ IF event[e].signaled
         THEN /\ owed' = [owed EXCEPT ![e] = IF event[e].manual_reset THEN @ ELSE @ - 1]
              /\ doing' = [doing EXCEPT ![current_thread] = "run"]
              /\ UNCHANGED <<queueVars, event, mutexVars>>
         ELSE KeSelectNextThread /\ UNCHANGED <<doing, eventVars, mutexVars>>

\* Faulty variant: signaled is read once, before the loop.
WaitEventReadsOnce(e) ==
    /\ current_thread # Null
    /\ doing[current_thread] = e
    /\ KeSelectNextThread
    /\ UNCHANGED <<doing, eventVars, mutexVars>>

\* One turn of the loop: the wait ends, or the thread yields and will look again.
KeWaitEventLoop(e) ==
    /\ current_thread # Null
    /\ doing[current_thread] = e
    /\ IF event[e].signaled
         THEN /\ event' = [event EXCEPT ![e].signaled = event[e].manual_reset]
              /\ owed' = [owed EXCEPT ![e] = IF event[e].manual_reset THEN @ ELSE @ - 1]
              /\ doing' = [doing EXCEPT ![current_thread] = "run"]
              /\ UNCHANGED <<queueVars, mutexVars>>
         ELSE KeSelectNextThread /\ UNCHANGED <<doing, eventVars, mutexVars>>
-----------------------------------------------------------------------------
\* A mutex that was never locked is as good as one KeCreateMutex has just made.
KeWaitMutex(m) ==
    /\ InCode
    /\ doing' = [doing EXCEPT ![current_thread] = m]
    /\ UNCHANGED <<queueVars, eventVars, mutexVars>>

\* Faulty variant: the owner is recorded, and the loop forgotten.
WaitMutexWithoutLoop(m) ==
    /\ current_thread # Null
    /\ doing[current_thread] = m
    /\ mutex' = [mutex EXCEPT ![m] = [locked |-> TRUE, owner |-> current_thread]]
    /\ holds' = [holds EXCEPT ![current_thread] = @ \cup {m}]
    /\ doing' = [doing EXCEPT ![current_thread] = "run"]
    /\ UNCHANGED <<queueVars, eventVars>>

KeWaitMutexLoop(m) ==
    /\ current_thread # Null
    /\ doing[current_thread] = m
    /\ IF mutex[m].locked
         THEN KeSelectNextThread /\ UNCHANGED <<doing, eventVars, mutexVars>>
         ELSE /\ mutex' = [mutex EXCEPT ![m] = [locked |-> TRUE, owner |-> current_thread]]
              /\ holds' = [holds EXCEPT ![current_thread] = @ \cup {m}]
              /\ doing' = [doing EXCEPT ![current_thread] = "run"]
              /\ UNCHANGED <<queueVars, eventVars>>

\* Anyone may call it; only the owner's call has an effect.
KeReleaseMutex(m) ==
    /\ InCode
    /\ mutex[m].owner = current_thread
    /\ mutex' = [mutex EXCEPT ![m] = [locked |-> FALSE, owner |-> Null]]
    /\ holds' = [holds EXCEPT ![current_thread] = @ \ {m}]
    /\ UNCHANGED <<queueVars, doing, eventVars>>

Polls ==
    \/ KeThreadBootstrapLoop
    \/ \E e \in Events : KeWaitEventLoop(e)
    \/ \E m \in Mutexes : KeWaitMutexLoop(m)

Next ==
    \/ \E t \in Threads :
         KeAttachCurrentThread(t) \/ KeCreateThread(t) \/ KeTerminateThread(t)
    \/ KeYield
    \/ KeThreadBootstrapEnds
    \/ Polls
    \/ \E e \in Events :
         \/ \E manual \in BOOLEAN : KeCreateEvent(e, manual)
         \/ KeSetEventHandle(e) \/ KeResetEventHandle(e) \/ KeWaitEvent(e)
    \/ \E m \in Mutexes : KeWaitMutex(m) \/ KeReleaseMutex(m)

\* Threads cooperate: none runs its own code for ever without calling KeYield (SF),
\* and a thread in a loop of the kernel goes on with it (WF).
Fairness == SF_vars(KeYield) /\ WF_vars(Polls)

Spec == KeInit /\ [][Next]_vars /\ Fairness
-----------------------------------------------------------------------------
\* csrss.c: the boot thread, which runs the CSRSS loop, drops the last reference of a
\* thread it finds terminated.  KeDeleteThreadObject frees the stack, the object manager
\* the record; its memory keeps what it held, and stays linked in the queue.
ReapThread(t) ==
    /\ InCode
    /\ current_thread = ready_queue
    /\ t \in allocated \ {current_thread}
    /\ state[t] = "TERMINATED"
    /\ allocated' = allocated \ {t}
    /\ UNCHANGED <<state, next, ready_queue, current_thread, doing, eventVars, mutexVars>>

\* KeCreateThread when the handle table is full: the record is queued, then freed.
KeCreateThreadFails(t) ==
    /\ InCode
    /\ t \notin allocated
    /\ KeAppendReadyThread(t)
    /\ state' = [state EXCEPT ![t] = "READY"]
    /\ doing' = [doing EXCEPT ![t] = "run"]
    /\ holds' = [holds EXCEPT ![t] = {}]
    /\ UNCHANGED <<allocated, ready_queue, current_thread, eventVars, mutex>>

NextReaping == Next \/ \E t \in Threads : ReapThread(t)

NextFreeing == NextReaping \/ \E t \in Threads : KeCreateThreadFails(t)

SpecReaping == KeInit /\ [][NextReaping]_vars
SpecFreeing == KeInit /\ [][NextFreeing]_vars
-----------------------------------------------------------------------------
\* Every variable has its type.
TypeOK ==
    /\ allocated \subseteq Threads
    /\ state \in [Threads -> States]
    /\ next \in [Threads -> Threads \cup {Null}]
    /\ ready_queue \in Threads \cup {Null}
    /\ current_thread \in Threads \cup {Null}
    /\ current_thread = Null <=> ready_queue = Null
    /\ doing \in [Threads -> {"run", "boot"} \cup Events \cup Mutexes]
    /\ event \in [Events -> Event]
    /\ mutex \in [Mutexes -> Mutex]
    /\ holds \in [Threads -> SUBSET Mutexes]
    /\ owed \in [Events -> Int]

\* At most one thread is marked RUNNING, and it is current_thread: KeSelectNextThread
\* never leaves a mark behind on the thread it switches from.
OneRunning == \A t \in Threads : state[t] = "RUNNING" => t = current_thread

\* Between the return of KeWaitMutex and KeReleaseMutex no other thread gets past
\* KeWaitMutex, although each waiter re-reads locked after other threads have run.
MutexExclusion ==
    \A t, u \in Threads : t # u => holds[t] \cap holds[u] = {}

\* One KeSetEventHandle of an auto-reset event ends at most one KeWaitEvent, however
\* many threads poll the event.
AutoResetWakesOne == \A e \in Events : owed[e] >= 0

\* A terminated thread is never switched to again, whoever terminated it and wherever
\* it stood.
TerminatedNeverResumes ==
    [][\A t \in Threads :
         state[t] = "TERMINATED" /\ current_thread' = t => current_thread = t]_vars

\* KeCreateThread puts the thread where KeYield finds it: every live thread that is
\* ready can be reached from ready_queue.
ReadyIsQueued ==
    \A t \in allocated : state[t] = "READY" => \E k \in 0 .. Limit : Chain(next)[k] = t

\* The pointers form the queue of module Scheduler: the same order of creation, the
\* same choice at each switch, and the same promise that switches go on happening.
LinkedQueue ==
    LET chain == Chain(next)
        len == Cardinality({k \in 0 .. Limit : chain[k] # Null})
    IN  [k \in 1 .. len |-> chain[k - 1]]

Status == [t \in Threads |-> IF t \in allocated THEN state[t] ELSE "NONE"]

Abstract ==
    INSTANCE Scheduler WITH
      queue <- LinkedQueue, status <- Status, current <- current_thread

ImplementsScheduler == Abstract!Spec

\* A ready thread runs again unless it is terminated first: KeYield goes round.
ReadyEventuallyRuns ==
    \A t \in Threads :
      t \in allocated /\ state[t] = "READY"
        ~> current_thread = t \/ state[t] = "TERMINATED"

\* A thread that waits for an event which stays signaled comes out of KeWaitEvent.
SignaledWaitEnds ==
    \A t \in Threads, e \in Events :
      (t \in allocated /\ doing[t] = e /\ []event[e].signaled)
        ~> (doing[t] # e \/ state[t] = "TERMINATED")

-----------------------------------------------------------------------------
\* The rest of the inductive invariant.

\* What a thread keeps is locked and its own.
HoldsIsOwned ==
    \A t \in Threads : \A m \in holds[t] : mutex[m].locked /\ mutex[m].owner = t

\* An auto-reset event that is signaled still owes its one wait.
SignaledIsOwed ==
    \A e \in Events :
      /\ owed[e] >= 0
      /\ event[e].signaled /\ ~event[e].manual_reset => owed[e] = 1

IInv ==
    /\ TypeOK
    /\ OneRunning
    /\ HoldsIsOwned
    /\ SignaledIsOwed

\* Before KeAttachCurrentThread no thread has been run or terminated.
BootIsClean == current_thread = Null => \A t \in Threads : state[t] = "READY"
-----------------------------------------------------------------------------
\* What the order of the queue rests on while no record is freed.

\* q lists the records the links join, from ready_queue to the end: every live thread,
\* each once.
Lists(q) ==
    /\ q \in Seq(Threads)
    /\ ready_queue = IF Len(q) = 0 THEN Null ELSE q[1]
    /\ \A k \in 1 .. Len(q) :
         /\ q[k] \in allocated
         /\ next[q[k]] = IF k < Len(q) THEN q[k + 1] ELSE Null
    /\ \A j, k \in 1 .. Len(q) : q[j] = q[k] => j = k
    /\ \A t \in allocated : \E k \in 1 .. Len(q) : q[k] = t

\* While no record is freed, the queue lists the live threads and the current one is live.
QueueIsList ==
    /\ Lists(LinkedQueue)
    /\ current_thread # Null => current_thread \in allocated

\* ImplementsScheduler without what Scheduler promises to do eventually.
TakesSchedulerSteps == Abstract!Init /\ [][Abstract!Next]_(Abstract!vars)
=============================================================================
