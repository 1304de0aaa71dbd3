--------------------------- MODULE ServiceManager ---------------------------
(***************************************************************************)
(* The service manager, kernel/io/service.c: it starts the services of a   *)
(* descriptor table phase by phase, each one after the services it depends *)
(* on, through the recursive service_start_one.                            *)
(*                                                                         *)
(* The recursion is an explicit stack.  A frame holds the service and how  *)
(* many of its dependencies have been started; result is what the call     *)
(* that has just returned hands to the frame below.                        *)
(***************************************************************************)
EXTENDS Naturals, Sequences

CONSTANTS
    Names,   \* names of services, and of dependencies that may have no service
    Tables   \* the descriptor tables the kernel may be built with

\* Load phases, in their order; demand-start services are in none of the first three.
BOOT_START == 0
SYSTEM_START == 1
AUTO_START == 2
DEMAND_START == 3

Descriptor == [name : Names, start_type : BOOT_START .. DEMAND_START,
               dependencies : Seq(Names)]

ASSUME TablesAssumption ==
    \A t \in Tables :
      /\ Len(t) \in Nat \ {0}
      /\ DOMAIN t = 1 .. Len(t)
      /\ \A i \in DOMAIN t : t[i] \in Descriptor

VARIABLES
    table,    \* services
    state,    \* service_runtime[i].state
    stack,    \* the frames of service_start_one that are active
    result,   \* "none", or what the call that returned last has returned
    type,     \* the phase of the loops of ServiceManagerStart
    index,    \* and the entry they look at next
    starts    \* history: how often each service's start routine was called

vars == <<table, state, stack, result, type, index, starts>>

Services == DOMAIN table
States == {"STOPPED", "START_PENDING", "RUNNING", "FAILED"}
Frame == [service : Services, at : Nat]

Top == stack[Len(stack)]
Below == SubSeq(stack, 1, Len(stack) - 1)
Dependencies(s) == table[s].dependencies

\* service_index: the first service of that name.
service_index(name, i) ==
    /\ table[i].name = name
    /\ \A j \in 1 .. i - 1 : table[j].name # name

Missing(name) == \A i \in Services : table[i].name # name
IsRunning(name) == \E i \in Services : service_index(name, i) /\ state[i] = "RUNNING"

ServiceManagerInitialize ==
    /\ table \in Tables
    /\ state = [i \in DOMAIN table |-> "STOPPED"]
    /\ stack = << >>
    /\ result = "none"
    /\ type = BOOT_START
    /\ index = 1
    /\ starts = [i \in DOMAIN table |-> 0]
-----------------------------------------------------------------------------
\* Faulty variant: a service that is pending is taken for one that will be running.
EnterTrustsPending(i) ==
    \/ /\ state[i] \in {"RUNNING", "START_PENDING"}
       /\ result' = "ok"
       /\ UNCHANGED <<state, stack>>
    \/ /\ state[i] = "FAILED"
       /\ result' = "failed"
       /\ UNCHANGED <<state, stack>>
    \/ /\ state[i] = "STOPPED"
       /\ state' = [state EXCEPT ![i] = "START_PENDING"]
       /\ stack' = Append(stack, [service |-> i, at |-> 0])
       /\ result' = "none"

\* Faulty variant: a service that failed is tried again.
EnterRetriesFailed(i) ==
    \/ /\ state[i] = "RUNNING"
       /\ result' = "ok"
       /\ UNCHANGED <<state, stack>>
    \/ /\ state[i] = "START_PENDING"
       /\ state' = [state EXCEPT ![i] = "FAILED"]
       /\ result' = "failed"
       /\ UNCHANGED stack
    \/ /\ state[i] \in {"STOPPED", "FAILED"}
       /\ state' = [state EXCEPT ![i] = "START_PENDING"]
       /\ stack' = Append(stack, [service |-> i, at |-> 0])
       /\ result' = "none"

\* The first lines of service_start_one: it returns at once, or a frame is active.
Enter(i) ==
    \/ /\ state[i] = "RUNNING"
       /\ result' = "ok"
       /\ UNCHANGED <<state, stack>>
    \/ /\ state[i] = "START_PENDING"             \* dependency cycle
       /\ state' = [state EXCEPT ![i] = "FAILED"]
       /\ result' = "failed"
       /\ UNCHANGED stack
    \/ /\ state[i] = "FAILED"
       /\ result' = "failed"
       /\ UNCHANGED <<state, stack>>
    \/ /\ state[i] = "STOPPED"
       /\ state' = [state EXCEPT ![i] = "START_PENDING"]
       /\ stack' = Append(stack, [service |-> i, at |-> 0])
       /\ result' = "none"

\* The frame on top returns, leaving its service in state s.
Return(s) ==
    /\ state' = [state EXCEPT ![Top.service] = s]
    /\ stack' = Below
    /\ result' = IF s = "RUNNING" THEN "ok" ELSE "failed"

\* Faulty variant: the phases run to the last start type.
LoopStartsDemand ==
    /\ stack = << >>
    /\ type <= DEMAND_START
    /\ IF table[index].start_type = type
         THEN Enter(index)
         ELSE UNCHANGED <<state, stack, result>>
    /\ IF index = Len(table)
         THEN index' = 1 /\ type' = type + 1
         ELSE index' = index + 1 /\ UNCHANGED type
    /\ UNCHANGED <<table, starts>>

\* The two loops of ServiceManagerStart, one entry at a time; the result of the call
\* is not looked at.
ServiceManagerStart ==
    /\ stack = << >>
    /\ type <= AUTO_START
    /\ IF table[index].start_type = type
         THEN Enter(index)
         ELSE UNCHANGED <<state, stack, result>>
    /\ IF index = Len(table)
         THEN index' = 1 /\ type' = type + 1
         ELSE index' = index + 1 /\ UNCHANGED type
    /\ UNCHANGED <<table, starts>>

\* service_start_one asks for the next dependency of the service on top.
StartDependency ==
    /\ stack # << >>
    /\ result = "none"
    /\ Top.at < Len(Dependencies(Top.service))
    /\ LET name == Dependencies(Top.service)[Top.at + 1] IN
         \/ Missing(name) /\ Return("FAILED")
         \/ \E i \in Services : service_index(name, i) /\ Enter(i)
    /\ UNCHANGED <<table, type, index, starts>>

\* Faulty variant: the loop over the dependencies does not count.
DependencyNotCounted ==
    /\ stack # << >>
    /\ \/ /\ result = "ok"
          /\ result' = "none"
          /\ UNCHANGED <<state, stack>>
       \/ /\ result = "failed"
          /\ Return("FAILED")
    /\ UNCHANGED <<table, type, index, starts>>

\* Faulty variant: a failed dependency is passed on, but the service stays pending.
DependencyLeavesPending ==
    /\ stack # << >>
    /\ \/ /\ result = "ok"
          /\ stack' = [stack EXCEPT ![Len(stack)].at = @ + 1]
          /\ result' = "none"
          /\ UNCHANGED state
       \/ /\ result = "failed"
          /\ stack' = Below
          /\ UNCHANGED <<state, result>>
    /\ UNCHANGED <<table, type, index, starts>>

\* The recursive call comes back to the service on top.
DependencyReturns ==
    /\ stack # << >>
    /\ \/ /\ result = "ok"
          /\ stack' = [stack EXCEPT ![Len(stack)].at = @ + 1]
          /\ result' = "none"
          /\ UNCHANGED state
       \/ /\ result = "failed"
          /\ Return("FAILED")
    /\ UNCHANGED <<table, type, index, starts>>

\* All dependencies have been started: the start routine is called, and may fail.
StartService ==
    /\ stack # << >>
    /\ result = "none"
    /\ Top.at = Len(Dependencies(Top.service))
    /\ starts' = [starts EXCEPT ![Top.service] = @ + 1]
    /\ Return("RUNNING") \/ Return("FAILED")
    /\ UNCHANGED <<table, type, index>>

Done == stack = << >> /\ type > AUTO_START

\* ServiceManagerStart has returned.
Finished == Done /\ UNCHANGED vars

Next ==
    \/ ServiceManagerStart
    \/ StartDependency
    \/ DependencyReturns
    \/ StartService
    \/ Finished

\* The manager is one sequential call; start routines return.
Spec == ServiceManagerInitialize /\ [][Next]_vars /\ WF_vars(Next)
-----------------------------------------------------------------------------
\* Every variable has its type.
TypeOK ==
    /\ table \in Tables
    /\ state \in [Services -> States]
    /\ stack \in Seq(Frame)
    /\ result \in {"none", "ok", "failed"}
    /\ type \in BOOT_START .. AUTO_START + 1
    /\ index \in Services
    /\ starts \in [Services -> Nat]

\* A running service has all its dependencies running, whatever the table, its cycles,
\* its missing names and the failures of start routines.
RunningAboveRunning ==
    \A s \in Services : state[s] = "RUNNING" =>
      \A k \in 1 .. Len(Dependencies(s)) : IsRunning(Dependencies(s)[k])

\* service_start_one calls no start routine twice, not even one that failed, and never
\* recurses into a service that is already active.
StartedAtMostOnce ==
    /\ \A s \in Services : starts[s] <= 1
    /\ \A j, k \in 1 .. Len(stack) : stack[j].service = stack[k].service => j = k

\* Why service_start_one may have left s failed: its start routine said so, or one of
\* its dependencies is missing or failed.
Reason(s) ==
    \/ starts[s] = 1
    \/ \E k \in 1 .. Len(Dependencies(s)), i \in Services :
         \/ Missing(Dependencies(s)[k])
         \/ service_index(Dependencies(s)[k], i) /\ state[i] = "FAILED"

\* When ServiceManagerStart returns no service is left pending, every service of a load
\* phase has been decided, and a service that failed had a reason.
Settled ==
    Done => \A s \in Services :
      /\ state[s] # "START_PENDING"
      /\ table[s].start_type <= AUTO_START => state[s] # "STOPPED"
      /\ state[s] = "FAILED" => Reason(s)

\* A demand-start service is started only for the sake of another service: when it is
\* active, the frame below asks for it.
DemandOnlyByDependency ==
    \A k \in 1 .. Len(stack) :
      table[stack[k].service].start_type = DEMAND_START =>
        /\ k > 1
        /\ stack[k - 1].at < Len(Dependencies(stack[k - 1].service))
        /\ Dependencies(stack[k - 1].service)[stack[k - 1].at + 1] =
             table[stack[k].service].name

\* The start-up ends, cycles included.
StartupEnds == <>Done
-----------------------------------------------------------------------------
\* The rest of the inductive invariant.

\* What an active frame has counted is running.
Counted(f) ==
    /\ f.at <= Len(Dependencies(f.service))
    /\ \A j \in 1 .. f.at : IsRunning(Dependencies(f.service)[j])

CountedIsRunning == \A k \in 1 .. Len(stack) : Counted(stack[k])

\* Each frame but the top one waits for the frame above it.
Asks(f, i) ==
    /\ f.at < Len(Dependencies(f.service))
    /\ service_index(Dependencies(f.service)[f.at + 1], i)

FramesLinked == \A k \in 1 .. Len(stack) - 1 : Asks(stack[k], stack[k + 1].service)

\* A good result is about the dependency the frame on top has asked for.
ResultIsTrue ==
    stack # << >> /\ result = "ok" =>
      \E i \in Services : Asks(Top, i) /\ state[i] = "RUNNING"

\* Active services are each on the stack once, neither stopped nor running, and not
\* started; a service that is still stopped has not been started either.
ActiveOnce ==
    /\ \A j, k \in 1 .. Len(stack) : stack[j].service = stack[k].service => j = k
    /\ \A k \in 1 .. Len(stack) :
         /\ state[stack[k].service] \in {"START_PENDING", "FAILED"}
         /\ starts[stack[k].service] = 0
    /\ \A s \in Services :
         /\ starts[s] <= 1
         /\ state[s] = "STOPPED" => starts[s] = 0

\* The frame at the bottom comes from a load phase.
BottomInPhase == stack # << >> => table[stack[1].service].start_type <= AUTO_START

IInv ==
    /\ TypeOK
    /\ RunningAboveRunning
    /\ CountedIsRunning
    /\ FramesLinked
    /\ ResultIsTrue
    /\ ActiveOnce
    /\ BottomInPhase
-----------------------------------------------------------------------------
\* What is settled already while ServiceManagerStart runs.

Active(s) == \E k \in 1 .. Len(stack) : stack[k].service = s

\* A pending service has an active frame, so the frame's return decides it.
PendingIsActive == \A s \in Services : state[s] = "START_PENDING" => Active(s)

\* The entries the loops have passed are decided, or being decided.
PassedIsDecided ==
    \A s \in Services :
      table[s].start_type < type \/ (table[s].start_type = type /\ s < index) =>
        state[s] # "STOPPED"

\* A cycle marks a service that is active: the failure is then on its way back to it.
FailedWhileActive ==
    (\E k \in 1 .. Len(stack) : state[stack[k].service] = "FAILED") => result = "failed"

\* A bad result is about the dependency the frame on top has asked for.
FailureIsTrue ==
    stack # << >> /\ result = "failed" =>
      \E i \in Services : Asks(Top, i) /\ state[i] = "FAILED"

\* A service that failed has its reason once its frame has returned.
FailedHasReason == \A s \in Services : state[s] = "FAILED" => Active(s) \/ Reason(s)

\* The invariant Settled follows from.
SInv ==
    /\ PendingIsActive
    /\ PassedIsDecided
    /\ FailedWhileActive
    /\ FailureIsTrue
    /\ FailedHasReason
=============================================================================
