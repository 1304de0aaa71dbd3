------------------------------ MODULE Scheduler ------------------------------
(***************************************************************************)
(* What the cooperative scheduler promises: threads stand in a queue in    *)
(* the order they were created, one of them is current, and the processor  *)
(* passes from it to the next one around the queue that is ready.  A       *)
(* thread that has terminated keeps its place and is never chosen again.   *)
(***************************************************************************)
EXTENDS Naturals, Sequences

CONSTANTS Threads, Null

VARIABLES
    queue,    \* the threads in the order of their creation
    status,   \* thread -> its state, "NONE" before it is created
    current   \* the thread that runs

vars == <<queue, status, current>>

Init ==
    /\ queue = << >>
    /\ status = [t \in Threads |-> "NONE"]
    /\ current = Null

\* The code that booted the kernel becomes the first thread.
Attach(t) ==
    /\ current = Null
    /\ queue' = <<t>>
    /\ status' = [status EXCEPT ![t] = "RUNNING"]
    /\ current' = t

Create(t) ==
    /\ current # Null
    /\ status[t] = "NONE"
    /\ queue' = Append(queue, t)
    /\ status' = [status EXCEPT ![t] = "READY"]
    /\ UNCHANGED current

Terminate(t) ==
    /\ status[t] # "NONE"
    /\ status' = [status EXCEPT ![t] = "TERMINATED"]
    /\ UNCHANGED <<queue, current>>

\* The thread d places after place i around the queue.
Around(i, d) == queue[((i - 1 + d) % Len(queue)) + 1]

\* The current thread gives up the processor to the next ready one.
Dispatch ==
    \E i \in 1 .. Len(queue), d \in 1 .. Len(queue) - 1 :
      /\ queue[i] = current
      /\ status[Around(i, d)] = "READY"
      /\ \A e \in 1 .. d - 1 : status[Around(i, e)] # "READY"
      /\ current' = Around(i, d)
      /\ status' = [status EXCEPT
           ![current] = IF @ = "RUNNING" THEN "READY" ELSE @,
           ![Around(i, d)] = "RUNNING"]
      /\ UNCHANGED queue

Next ==
    \/ \E t \in Threads : Attach(t) \/ Create(t) \/ Terminate(t)
    \/ Dispatch

Spec == Init /\ [][Next]_vars /\ WF_vars(Dispatch)
=============================================================================
