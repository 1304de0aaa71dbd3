------------------------ MODULE ServiceManagerProofs ------------------------
(***************************************************************************)
(* For every descriptor table, with any cycles, repeated or missing names, *)
(* and whatever start routines answer: a running service stands on running *)
(* dependencies, no start routine is called twice, the recursion never     *)
(* enters a service twice, demand-start services only follow others, and   *)
(* once ServiceManagerStart has returned every service of its phases is    *)
(* decided, a failure never without a reason (SInv).                       *)
(***************************************************************************)
EXTENDS ServiceManager, SequenceTheorems, TLAPS

-----------------------------------------------------------------------------
\* Tables are non-empty and finite sequences of descriptors.
LEMMA TableFacts ==
    ASSUME TypeOK
    PROVE  /\ Services = 1 .. Len(table)
           /\ Len(table) \in Nat \ {0}
           /\ \A s \in Services :
                /\ table[s].start_type \in 0 .. 3
                /\ Len(Dependencies(s)) \in Nat
<1>1. /\ Len(table) \in Nat \ {0}
      /\ DOMAIN table = 1 .. Len(table)
      /\ \A i \in DOMAIN table : table[i] \in Descriptor
  BY TablesAssumption, Zenon DEF TypeOK
<1>2. \A s \in Services : table[s].dependencies \in Seq(Names)
  BY <1>1, Zenon DEF Descriptor, Services
<1>3. \A s \in Services : Len(Dependencies(s)) \in Nat
  BY <1>2 DEF Dependencies
<1> QED BY <1>1, <1>3, Zenon
        DEF Services, Descriptor, BOOT_START, DEMAND_START

\* The stack without its top.
LEMMA BelowFacts ==
    ASSUME TypeOK, stack # << >>
    PROVE  /\ Len(stack) \in Nat \ {0}
           /\ Top \in Frame
           /\ Below \in Seq(Frame)
           /\ Len(Below) = Len(stack) - 1
           /\ \A k \in 1 .. Len(stack) - 1 : Below[k] = stack[k]
<1>1. stack \in Seq(Frame) /\ Len(stack) \in Nat \ {0}
  BY DEF TypeOK
<1>2. \A k \in 1 .. Len(stack) : stack[k] \in Frame
  BY <1>1
<1>3. Top \in Frame
  BY <1>1, <1>2 DEF Top
<1> DEFINE n == Len(stack) - 1
<1>4. /\ SubSeq(stack, 1, n) \in Seq(Frame)
      /\ Len(SubSeq(stack, 1, n)) = IF 1 <= n THEN n - 1 + 1 ELSE 0
      /\ \A k \in 1 .. n - 1 + 1 : SubSeq(stack, 1, n)[k] = stack[1 + k - 1]
  <2>1. n \in Int /\ 1 \in Int /\ \A i \in 1 .. n : stack[i] \in Frame
    BY <1>1, <1>2
  <2> HIDE DEF n
  <2> QED BY ONLY <2>1, SubSeqProperties
<1>5. Below = SubSeq(stack, 1, n)
  BY Zenon DEF Below
<1>6. n \in Nat
  BY <1>1
<1> HIDE DEF n
<1>7. Below \in Seq(Frame) /\ Len(Below) = n /\ \A k \in 1 .. n : Below[k] = stack[k]
  BY <1>4, <1>5, <1>6
<1> QED BY <1>1, <1>3, <1>7, Zenon DEF n

\* What service_start_one does to the stack when it starts on a stopped service.
LEMMA PushFacts ==
    ASSUME TypeOK, NEW i \in Services,
           stack' = Append(stack, [service |-> i, at |-> 0])
    PROVE  /\ stack' \in Seq(Frame)
           /\ Len(stack) \in Nat
           /\ Len(stack') = Len(stack) + 1
           /\ stack'[Len(stack) + 1].service = i
           /\ stack'[Len(stack) + 1].at = 0
           /\ \A k \in 1 .. Len(stack) : stack'[k] = stack[k]
           /\ stack' # << >>
<1>1. stack \in Seq(Frame) /\ [service |-> i, at |-> 0] \in Frame
  BY Zenon DEF TypeOK, Frame
<1>2. stack' \in Seq(Frame) /\ Len(stack') = Len(stack) + 1 /\ Len(stack) \in Nat
  BY <1>1
<1>3. stack'[Len(stack) + 1] = [service |-> i, at |-> 0]
  BY <1>1
<1>4. \A k \in 1 .. Len(stack) : stack'[k] = stack[k]
  BY <1>1
<1> QED BY <1>2, <1>3, <1>4

\* Every active frame is about a service of the table.
LEMMA FrameFacts ==
    ASSUME TypeOK
    PROVE  \A k \in 1 .. Len(stack) :
             /\ stack[k] \in Frame
             /\ stack[k].service \in Services
             /\ stack[k].at \in Nat
<1>1. \A k \in 1 .. Len(stack) : stack[k] \in Frame
  BY DEF TypeOK
<1> QED BY <1>1, Zenon DEF Frame

\* No step stops a running service, so what a frame has counted stays so.
LEMMA RunningIsStable ==
    ASSUME UNCHANGED table, \A i \in Services : state[i] = "RUNNING" => state'[i] = "RUNNING"
    PROVE  /\ \A name : IsRunning(name) => IsRunning(name)'
           /\ \A f : Counted(f) => Counted(f)'
<1>1. \A name : IsRunning(name) => IsRunning(name)'
  BY Zenon DEF IsRunning, Services, service_index
<1>2. ASSUME NEW f, Counted(f) PROVE Counted(f)'
  BY <1>1, <1>2, Zenon DEF Counted, Dependencies
<1> QED BY <1>1, <1>2, Zenon

\* What a frame asks for depends on the table only.
LEMMA AsksIsStable ==
    ASSUME UNCHANGED table
    PROVE  \A f, i : Asks(f, i)' <=> Asks(f, i)
BY Zenon DEF Asks, Dependencies, service_index

\* The invariant's parts about frames, one frame at a time.
LEMMA FramesByFrame ==
    ASSUME UNCHANGED table
    PROVE  /\ (\A k \in 1 .. Len(stack') : \A f : f = stack'[k] => Counted(f)')
                => CountedIsRunning'
           /\ (\A k \in 1 .. Len(stack') - 1 : Asks(stack'[k], stack'[k + 1].service))
                => FramesLinked'
<1>1. ASSUME \A k \in 1 .. Len(stack') : \A f : f = stack'[k] => Counted(f)'
      PROVE  CountedIsRunning'
  BY <1>1, Zenon DEF CountedIsRunning, Counted, IsRunning, Dependencies
<1>2. ASSUME \A k \in 1 .. Len(stack') - 1 : Asks(stack'[k], stack'[k + 1].service)
      PROVE  FramesLinked'
  BY <1>2, Zenon DEF FramesLinked, Asks, Dependencies, service_index
<1> QED BY <1>1, <1>2, Zenon

-----------------------------------------------------------------------------
\* The manager starts with everything stopped and no frame active.
LEMMA InitIInv == ServiceManagerInitialize => IInv
<1> SUFFICES ASSUME ServiceManagerInitialize PROVE IInv
  BY Zenon
<1> USE DEF ServiceManagerInitialize
<1>1. TypeOK
  <2>1. Len(table) \in Nat \ {0} /\ DOMAIN table = 1 .. Len(table)
    BY TablesAssumption, Zenon
  <2>2. 1 \in Services
    BY <2>1 DEF Services
  <2> QED BY <2>2 DEF TypeOK, Services, States, BOOT_START, AUTO_START
<1>2. Len(stack) = 0 /\ \A s \in Services : state[s] = "STOPPED" /\ starts[s] = 0
  BY Zenon DEF Services
<1>3. RunningAboveRunning /\ CountedIsRunning /\ FramesLinked /\ ResultIsTrue
  BY <1>2 DEF RunningAboveRunning, CountedIsRunning, FramesLinked, ResultIsTrue
<1>4. ActiveOnce /\ BottomInPhase
  BY <1>2 DEF ActiveOnce, BottomInPhase
<1> QED BY <1>1, <1>3, <1>4, Zenon DEF IInv

\* The part of the invariant a step keeps when it leaves the stack and the history
\* alone and moves one service that is neither running nor coming to run.
LEMMA EnterReturnsPreserves ==
    ASSUME IInv, UNCHANGED <<table, stack, starts>>, TypeOK',
           \A s \in Services : \/ state'[s] = state[s]
                               \/ state[s] = "START_PENDING" /\ state'[s] = "FAILED"
    PROVE  /\ RunningAboveRunning' /\ CountedIsRunning' /\ FramesLinked'
           /\ ActiveOnce' /\ BottomInPhase'
<1>1. /\ \A name : IsRunning(name) => IsRunning(name)'
      /\ \A f : Counted(f) => Counted(f)'
  BY RunningIsStable, Zenon
<1>2. RunningAboveRunning'
  BY <1>1, Zenon DEF IInv, RunningAboveRunning, Services, Dependencies
<1>3. CountedIsRunning' /\ FramesLinked'
  BY <1>1, FramesByFrame, Zenon DEF IInv, CountedIsRunning, FramesLinked
<1>4. BottomInPhase'
  BY Zenon DEF IInv, BottomInPhase
<1>5. ActiveOnce'
  BY FrameFacts, Zenon DEF IInv, ActiveOnce, Services
<1> QED BY <1>2, <1>3, <1>4, <1>5, Zenon

\* A call of service_start_one, from the main loop or for the dependency the frame on
\* top asks for.
LEMMA EnterPreserves ==
    ASSUME IInv, NEW i \in Services, Enter(i), UNCHANGED <<table, starts>>,
           type' \in BOOT_START .. AUTO_START + 1, index' \in Services,
           \/ stack = << >> /\ table[i].start_type <= AUTO_START
           \/ stack # << >> /\ Asks(Top, i)
    PROVE  IInv'
<1>1. CASE state[i] = "RUNNING" /\ result' = "ok" /\ UNCHANGED <<state, stack>>
  <2>1. TypeOK'
    BY <1>1, Zenon DEF IInv, TypeOK, Services, Frame
  <2>2. ResultIsTrue'
    BY <1>1, Zenon DEF ResultIsTrue, Asks, Top, Dependencies, service_index, Services
  <2> QED BY <1>1, <2>1, <2>2, EnterReturnsPreserves, Zenon DEF IInv
<1>2. CASE result' = "failed" /\ UNCHANGED <<state, stack>>
  <2>1. TypeOK'
    BY <1>2, Zenon DEF IInv, TypeOK, Services, Frame
  <2>2. ResultIsTrue'
    BY <1>2, Zenon DEF ResultIsTrue
  <2> QED BY <1>2, <2>1, <2>2, EnterReturnsPreserves, Zenon DEF IInv
<1>3. CASE /\ state[i] = "START_PENDING"
           /\ state' = [state EXCEPT ![i] = "FAILED"]
           /\ result' = "failed"
           /\ UNCHANGED stack
  <2>1. TypeOK'
    BY <1>3, Zenon DEF IInv, TypeOK, Services, Frame, States
  <2>2. ResultIsTrue'
    BY <1>3, Zenon DEF ResultIsTrue
  <2>3. \A s \in Services : \/ state'[s] = state[s]
                            \/ state[s] = "START_PENDING" /\ state'[s] = "FAILED"
    BY <1>3, Zenon DEF IInv, TypeOK
  <2> QED BY <1>3, <2>1, <2>2, <2>3, EnterReturnsPreserves, Zenon DEF IInv
<1>4. CASE /\ state[i] = "STOPPED"
           /\ state' = [state EXCEPT ![i] = "START_PENDING"]
           /\ stack' = Append(stack, [service |-> i, at |-> 0])
           /\ result' = "none"
  <2> DEFINE n == Len(stack)
  <2>1. /\ stack' \in Seq(Frame)
        /\ n \in Nat
        /\ Len(stack') = n + 1
        /\ stack'[n + 1].service = i
        /\ stack'[n + 1].at = 0
        /\ \A k \in 1 .. n : stack'[k] = stack[k]
        /\ stack' # << >>
    BY <1>4, PushFacts, Zenon DEF IInv
  <2>2. TypeOK'
    BY <1>4, <2>1, Zenon DEF IInv, TypeOK, Services, Frame, States
  <2>3. /\ \A name : IsRunning(name) => IsRunning(name)'
        /\ \A f : Counted(f) => Counted(f)'
    BY <1>4, RunningIsStable, Zenon DEF IInv, TypeOK
  <2>4. Len(Dependencies(i)) \in Nat
    BY TableFacts, Zenon DEF IInv
  <2> HIDE DEF n
  <2>5. RunningAboveRunning'
    BY <1>4, <2>3, Zenon DEF IInv, TypeOK, RunningAboveRunning, Services, Dependencies
  <2>6. CountedIsRunning'
    <3> SUFFICES ASSUME NEW k \in 1 .. Len(stack'), NEW f, f = stack'[k]
                 PROVE  Counted(f)'
      BY FramesByFrame, Zenon
    <3>1. CASE k = n + 1
      BY <3>1, <2>1, <2>4 DEF Counted, Dependencies
    <3>2. CASE k \in 1 .. n
      BY <3>2, <2>1, <2>3, Zenon DEF IInv, CountedIsRunning, n
    <3> QED BY <2>1, <3>1, <3>2
  <2>7. FramesLinked'
    <3> SUFFICES ASSUME NEW k \in 1 .. n PROVE Asks(stack'[k], stack'[k + 1].service)
      BY <2>1, FramesByFrame
    <3>1. CASE k = n
      <4>1. stack # << >> /\ Top = stack[k]
        BY <3>1, <2>1 DEF Top, n, IInv, TypeOK
      <4> QED BY <3>1, <4>1, <2>1, Zenon
    <3>2. CASE k \in 1 .. n - 1
      BY <3>2, <2>1 DEF IInv, FramesLinked, n
    <3> QED BY <2>1, <3>1, <3>2
  <2>8. ResultIsTrue'
    BY <1>4, Zenon DEF ResultIsTrue
  <2>9. ActiveOnce'
    <3>1. \A k \in 1 .. n : stack[k].service # i /\ stack[k].service \in Services
      BY <1>4, FrameFacts, Zenon DEF IInv, ActiveOnce, n
    <3>2. state'[i] = "START_PENDING" /\ \A s \in Services \ {i} : state'[s] = state[s]
      BY <1>4, Zenon DEF IInv, TypeOK
    <3>3. \A j, k \in 1 .. n + 1 : stack'[j].service = stack'[k].service => j = k
      BY <3>1, <2>1 DEF IInv, ActiveOnce, n
    <3>4. \A k \in 1 .. n + 1 :
            /\ state'[stack'[k].service] \in {"START_PENDING", "FAILED"}
            /\ starts[stack'[k].service] = 0
      BY <1>4, <3>1, <3>2, <2>1 DEF IInv, ActiveOnce, n
    <3> QED BY <2>1, <3>2, <3>3, <3>4, Zenon DEF IInv, ActiveOnce, Services
  <2>10. BottomInPhase'
    <3>1. CASE stack = << >>
      <4>1. n = 0
        BY <3>1, Zenon DEF n
      <4> QED BY <3>1, <4>1, <2>1 DEF BottomInPhase
    <3>2. CASE stack # << >>
      <4>1. n \in Nat \ {0}
        BY <3>2, BelowFacts, Zenon DEF IInv, n
      <4> QED BY <3>2, <4>1, <2>1 DEF IInv, BottomInPhase
    <3> QED BY <3>1, <3>2, Zenon
  <2> QED BY <2>2, <2>5, <2>6, <2>7, <2>8, <2>9, <2>10, Zenon DEF IInv
<1> QED BY <1>1, <1>2, <1>3, <1>4, Zenon DEF Enter

\* service_start_one returns from the frame on top.  If it leaves its service running,
\* every dependency has been counted, and the frame below had asked for this service.
LEMMA ReturnPreserves ==
    ASSUME IInv, stack # << >>, NEW s \in {"RUNNING", "FAILED"}, Return(s),
           UNCHANGED <<table, type, index>>,
           s = "RUNNING" => Top.at = Len(Dependencies(Top.service)),
           \/ UNCHANGED starts
           \/ starts' = [starts EXCEPT ![Top.service] = @ + 1]
    PROVE  IInv'
<1>1. PICK t \in Services : t = Top.service
  BY BelowFacts, Zenon DEF IInv, Frame
<1>2. /\ state' = [state EXCEPT ![t] = s]
      /\ stack' = Below
      /\ result' = IF s = "RUNNING" THEN "ok" ELSE "failed"
  BY <1>1, Zenon DEF Return
<1> DEFINE n == Len(stack) - 1
<1>3. /\ n \in Nat
      /\ stack' \in Seq(Frame)
      /\ Len(stack') = n
      /\ \A k \in 1 .. n : stack'[k] = stack[k]
      /\ Top = stack[n + 1]
  BY <1>2, BelowFacts DEF IInv, Top
<1>4. /\ \A k \in 1 .. n : stack[k].service \in Services \ {t}
      /\ state[t] \in {"START_PENDING", "FAILED"}
      /\ starts[t] = 0
  BY <1>1, <1>3, FrameFacts DEF IInv, ActiveOnce
<1>5. state'[t] = s /\ \A i \in Services \ {t} : state'[i] = state[i]
  BY <1>2, Zenon DEF IInv, TypeOK
<1>6. /\ \A i \in Services \ {t} : starts'[i] = starts[i]
      /\ starts'[t] <= 1
      /\ starts' \in [Services -> Nat]
  <2>1. CASE UNCHANGED starts
    BY <2>1, <1>4 DEF IInv, TypeOK
  <2>2. CASE starts' = [starts EXCEPT ![t] = @ + 1]
    BY <2>2, <1>4 DEF IInv, TypeOK
  <2> QED BY <1>1, <2>1, <2>2, Zenon
<1>7. TypeOK'
  BY <1>2, <1>3, <1>6, Zenon DEF IInv, TypeOK, Services, Frame, States
<1>8. /\ \A name : IsRunning(name) => IsRunning(name)'
      /\ \A f : Counted(f) => Counted(f)'
  BY <1>4, <1>5, RunningIsStable, Zenon
<1> HIDE DEF n
<1>9. RunningAboveRunning'
  <2> SUFFICES ASSUME NEW i \in Services, state'[i] = "RUNNING",
                      NEW k \in 1 .. Len(Dependencies(i)),
                      NEW name, name = Dependencies(i)[k]
               PROVE  IsRunning(name)'
    BY DEF RunningAboveRunning, Services, Dependencies, IsRunning
  <2>1. CASE i # t
    BY <2>1, <1>5, <1>8, Zenon DEF IInv, RunningAboveRunning
  <2>2. CASE i = t
    <3>1. Top.at = Len(Dependencies(t)) /\ Counted(Top)
      BY <2>2, <1>1, <1>3, <1>5, BelowFacts DEF IInv, CountedIsRunning, n
    <3> QED BY <3>1, <2>2, <1>1, <1>8, Zenon DEF Counted
  <2> QED BY <2>1, <2>2, Zenon
<1>10. CountedIsRunning'
  BY <1>3, <1>8, FramesByFrame DEF IInv, CountedIsRunning, n
<1>11. FramesLinked'
  BY <1>3, FramesByFrame DEF IInv, FramesLinked, n
<1>12. ResultIsTrue'
  <2> SUFFICES ASSUME stack' # << >>, result' = "ok"
               PROVE  \E i \in Services : Asks(stack'[n], i) /\ state'[i] = "RUNNING"
    BY <1>3, Zenon DEF ResultIsTrue, Top, Asks, Dependencies, service_index, Services
  <2>1. n \in 1 .. Len(stack) - 1
    BY <1>3 DEF n
  <2>2. Asks(stack[n], t)
    BY <1>1, <1>3, <2>1, Zenon DEF IInv, FramesLinked
  <2>3. s = "RUNNING"
    BY <1>2, Zenon
  <2> QED BY <2>1, <2>2, <2>3, <1>3, <1>5
<1>13. ActiveOnce'
  <2>1. \A j, k \in 1 .. n : stack'[j].service = stack'[k].service => j = k
    BY <1>3 DEF IInv, ActiveOnce, n
  <2>2. \A k \in 1 .. n :
          /\ state'[stack'[k].service] \in {"START_PENDING", "FAILED"}
          /\ starts'[stack'[k].service] = 0
    <3> SUFFICES ASSUME NEW k \in 1 .. n
                 PROVE  /\ state'[stack'[k].service] \in {"START_PENDING", "FAILED"}
                        /\ starts'[stack'[k].service] = 0
      BY Zenon
    <3>1. /\ stack'[k] = stack[k]
          /\ stack[k].service \in Services \ {t}
          /\ k \in 1 .. Len(stack)
      BY <1>3, <1>4 DEF n
    <3>2. /\ state'[stack[k].service] = state[stack[k].service]
          /\ starts'[stack[k].service] = starts[stack[k].service]
      BY <3>1, <1>5, <1>6, Zenon
    <3> QED BY <3>1, <3>2, Zenon DEF IInv, ActiveOnce
  <2>3. \A i \in Services : starts'[i] <= 1 /\ (state'[i] = "STOPPED" => starts'[i] = 0)
    BY <1>5, <1>6, Zenon DEF IInv, ActiveOnce
  <2> QED BY <1>3, <2>1, <2>2, <2>3, Zenon DEF ActiveOnce, Services
<1>14. BottomInPhase'
  <2> SUFFICES ASSUME stack' # << >> PROVE table[stack'[1].service].start_type <= AUTO_START
    BY Zenon DEF BottomInPhase
  <2>1. 1 \in 1 .. n
    BY <1>3
  <2> QED BY <2>1, <1>3, Zenon DEF IInv, BottomInPhase
<1> QED BY <1>7, <1>9, <1>10, <1>11, <1>12, <1>13, <1>14, Zenon DEF IInv

\* A dependency that was started is counted.
LEMMA CountPreserves ==
    ASSUME IInv, stack # << >>, result = "ok", result' = "none",
           stack' = [stack EXCEPT ![Len(stack)].at = @ + 1],
           UNCHANGED <<table, state, type, index, starts>>
    PROVE  IInv'
<1> DEFINE n == Len(stack)
           more == [stack[n] EXCEPT !.at = @ + 1]
<1>1. n \in Nat \ {0} /\ stack[n] \in Frame /\ Top = stack[n]
  BY BelowFacts, Zenon DEF IInv, Top
<1>2. more \in Frame /\ more.service = stack[n].service /\ more.at = stack[n].at + 1
  BY <1>1 DEF Frame
<1>3. stack' = [stack EXCEPT ![n] = more]
  BY Zenon
<1> HIDE DEF more
<1>4. /\ stack' \in Seq(Frame)
      /\ Len(stack') = n
      /\ stack'[n] = more
      /\ \A k \in 1 .. n - 1 : stack'[k] = stack[k]
  <2>1. stack \in Seq(Frame) /\ n \in 1 .. Len(stack)
    BY <1>1 DEF IInv, TypeOK
  <2>2. /\ stack' \in Seq(Frame)
        /\ Len(stack') = n
        /\ \A k \in 1 .. Len(stack) : stack'[k] = IF k = n THEN more ELSE stack[k]
    BY <2>1, <1>2, <1>3, ExceptSeq
  <2> QED BY <1>1, <2>1, <2>2
<1>5. TypeOK'
  BY <1>4, Zenon DEF IInv, TypeOK, Services, Frame
<1>6. /\ \A name : IsRunning(name) => IsRunning(name)'
      /\ \A f : Counted(f) => Counted(f)'
  BY RunningIsStable, Zenon
<1>7. \A k \in 1 .. n : stack'[k].service = stack[k].service
  BY <1>2, <1>4
<1> HIDE DEF n
<1>8. Counted(more)
  <2>1. PICK i \in Services : Asks(stack[n], i) /\ state[i] = "RUNNING"
    BY <1>1, Zenon DEF IInv, ResultIsTrue
  <2>2. Counted(stack[n])
    BY <1>1 DEF IInv, CountedIsRunning, n
  <2>3. IsRunning(Dependencies(stack[n].service)[stack[n].at + 1])
    BY <2>1, Zenon DEF Asks, IsRunning
  <2>4. stack[n].at \in Nat /\ Len(Dependencies(stack[n].service)) \in Nat
    BY <1>1, FrameFacts, TableFacts DEF IInv, n
  <2> QED BY <1>2, <2>1, <2>2, <2>3, <2>4 DEF Asks, Counted
<1>9. CountedIsRunning'
  BY <1>1, <1>4, <1>6, <1>8, FramesByFrame DEF IInv, CountedIsRunning, n
<1>10. FramesLinked'
  BY <1>1, <1>4, <1>7, FramesByFrame DEF IInv, FramesLinked, n
<1>11. RunningAboveRunning' /\ ResultIsTrue'
  BY <1>6, Zenon DEF IInv, RunningAboveRunning, ResultIsTrue, Services, Dependencies
<1>12. ActiveOnce'
  BY <1>4, <1>7 DEF IInv, ActiveOnce, Services, n
<1>13. BottomInPhase'
  BY <1>1, <1>4, <1>7 DEF IInv, BottomInPhase
<1> QED BY <1>5, <1>9, <1>10, <1>11, <1>12, <1>13, Zenon DEF IInv

-----------------------------------------------------------------------------
\* Every step of the manager preserves the invariant.
LEMMA StepPreserves == IInv /\ [Next]_vars => IInv'
<1> SUFFICES ASSUME IInv, [Next]_vars PROVE IInv'
  BY Zenon
<1>1. CASE ServiceManagerStart
  <2>1. /\ Services = 1 .. Len(table) /\ Len(table) \in Nat \ {0}
        /\ index \in Services /\ type \in Nat
    BY TableFacts DEF IInv, TypeOK, BOOT_START, AUTO_START
  <2>2. type' \in BOOT_START .. AUTO_START + 1 /\ index' \in Services
    BY <1>1, <2>1 DEF ServiceManagerStart, BOOT_START, AUTO_START
  <2>3. CASE table[index].start_type = type
    BY <1>1, <2>1, <2>2, <2>3, EnterPreserves, Zenon DEF ServiceManagerStart
  <2>4. CASE table[index].start_type # type
    <3>1. UNCHANGED <<table, stack, starts, state, result>>
      BY <1>1, <2>4, Zenon DEF ServiceManagerStart
    <3>2. TypeOK'
      BY <2>2, <3>1, Zenon DEF IInv, TypeOK, Services, Frame
    <3>3. ResultIsTrue'
      BY <1>1, <3>1, Zenon DEF ServiceManagerStart, ResultIsTrue
    <3> QED BY <3>1, <3>2, <3>3, EnterReturnsPreserves, Zenon DEF IInv
  <2> QED BY <2>3, <2>4, Zenon
<1>2. CASE StartDependency
  <2>1. CASE Return("FAILED")
    BY <1>2, <2>1, ReturnPreserves, Zenon DEF StartDependency
  <2>2. ASSUME NEW i \in Services, Enter(i),
               service_index(Dependencies(Top.service)[Top.at + 1], i)
        PROVE  IInv'
    <3>1. Asks(Top, i)
      BY <1>2, <2>2, Zenon DEF StartDependency, Asks
    <3>2. type' \in BOOT_START .. AUTO_START + 1 /\ index' \in Services
      BY <1>2, Zenon DEF StartDependency, IInv, TypeOK
    <3> QED BY <1>2, <2>2, <3>1, <3>2, EnterPreserves, Zenon DEF StartDependency
  <2> QED BY <1>2, <2>1, <2>2, Zenon DEF StartDependency
<1>3. CASE DependencyReturns
  BY <1>3, CountPreserves, ReturnPreserves, Zenon DEF DependencyReturns
<1>4. CASE StartService
  BY <1>4, ReturnPreserves, Zenon DEF StartService
<1>5. CASE UNCHANGED vars
  <2>1. TypeOK'
    BY <1>5, Zenon DEF IInv, TypeOK, Services, Frame, vars
  <2>2. ResultIsTrue'
    BY <1>5, Zenon DEF IInv, ResultIsTrue, Asks, Top, Dependencies, service_index, Services, vars
  <2> QED BY <1>5, <2>1, <2>2, EnterReturnsPreserves, Zenon DEF IInv, vars
<1> QED BY <1>1, <1>2, <1>3, <1>4, <1>5, Zenon DEF Next, Finished

\* The invariant holds while any table is being started, and afterwards.
THEOREM Invariance == Spec => []IInv
<1> QED BY InitIInv, StepPreserves, PTL DEF Spec

\* The runtime table and the recursion of service_start_one stay well typed.
THEOREM TypeCorrect == Spec => []TypeOK
<1>1. IInv => TypeOK
  BY Zenon DEF IInv
<1> QED BY <1>1, Invariance, PTL

\* service_start_one leaves no service running above one that is not.
THEOREM DependenciesRunFirst == Spec => []RunningAboveRunning
<1>1. IInv => RunningAboveRunning
  BY Zenon DEF IInv
<1> QED BY <1>1, Invariance, PTL

\* Each start routine is called at most once and the recursion is never deeper than the
\* table is long: an active service is not entered again.
THEOREM StartsAtMostOnce == Spec => []StartedAtMostOnce
<1>1. IInv => StartedAtMostOnce
  BY Zenon DEF IInv, ActiveOnce, StartedAtMostOnce
<1> QED BY <1>1, Invariance, PTL

\* ServiceManagerStart never starts a demand-start service for its own sake.
THEOREM DemandFollowsDependency == Spec => []DemandOnlyByDependency
<1>1. IInv => DemandOnlyByDependency
  <2> SUFFICES ASSUME IInv, NEW k \in 1 .. Len(stack),
                      table[stack[k].service].start_type = DEMAND_START
               PROVE  /\ k > 1
                      /\ Asks(stack[k - 1], stack[k].service)
    BY Zenon DEF DemandOnlyByDependency, Asks, service_index
  <2>1. stack # << >> /\ Len(stack) \in Nat
    BY DEF IInv, TypeOK
  <2>2. k # 1
    BY <2>1 DEF IInv, BottomInPhase, AUTO_START, DEMAND_START
  <2>3. k - 1 \in 1 .. Len(stack) - 1 /\ (k - 1) + 1 = k
    BY <2>1, <2>2
  <2> QED BY <2>3 DEF IInv, FramesLinked
<1> QED BY <1>1, Invariance, PTL

-----------------------------------------------------------------------------
\* What has failed stays failed and what was called stays called, so a reason found once
\* stays one.
LEMMA ReasonIsStable ==
    ASSUME UNCHANGED table,
           \A i \in Services : state[i] = "FAILED" => state'[i] = "FAILED",
           NEW s \in Services, Reason(s), starts[s] = 1 => starts'[s] = 1
    PROVE  \A t : t = s => Reason(t)'
BY DEF Reason, Missing, Dependencies, Services, service_index

\* A call of service_start_one keeps the account of what is pending and what failed.
LEMMA EnterSettles ==
    ASSUME IInv, IInv', SInv, NEW i \in Services, Enter(i), UNCHANGED <<table, starts>>,
           \/ stack = << >>
           \/ stack # << >> /\ result = "none" /\ Asks(Top, i)
    PROVE  /\ PendingIsActive' /\ FailedWhileActive' /\ FailureIsTrue' /\ FailedHasReason'
           /\ state'[i] # "STOPPED"
           /\ \A s \in Services : state[s] # "STOPPED" => state'[s] # "STOPPED"
<1>1. state \in [Services -> States] /\ Services' = Services
  BY Zenon DEF IInv, TypeOK, Services
<1>2. \A k \in 1 .. Len(stack) :
        stack[k].service \in Services /\ state[stack[k].service] # "FAILED"
  <2>1. CASE stack = << >>
    BY <2>1
  <2>2. CASE result = "none"
    BY <2>2, FrameFacts, Zenon DEF IInv, SInv, FailedWhileActive
  <2> QED BY <2>1, <2>2, Zenon
<1>3. \A s \in Services : state[s] = "FAILED" =>
        \A t : t = s => Reason(t)' \/ state'[s] # "FAILED"
  <2> SUFFICES ASSUME NEW s \in Services, state[s] = "FAILED"
               PROVE  \A t : t = s => Reason(t)'
    BY Zenon
  <2>1. \A j \in Services : state[j] = "FAILED" => state'[j] = "FAILED"
    BY <1>1, Zenon DEF Enter
  <2>2. Reason(s)
    BY <1>2, Zenon DEF SInv, FailedHasReason, Active
  <2> QED BY <2>1, <2>2, ReasonIsStable, Zenon
<1>4. CASE UNCHANGED <<state, stack>> /\ result' \in {"ok", "failed"}
           /\ (result' = "failed" => state[i] = "FAILED") /\ state[i] # "STOPPED"
  <2>1. PendingIsActive'
    BY <1>1, <1>4, Zenon DEF SInv, PendingIsActive, Active
  <2>2. FailedWhileActive'
    BY <1>2, <1>4, Zenon DEF FailedWhileActive
  <2>3. FailureIsTrue'
    BY <1>1, <1>4, AsksIsStable, Zenon DEF FailureIsTrue, Top
  <2>4. FailedHasReason'
    BY <1>1, <1>3, <1>4, Zenon DEF FailedHasReason
  <2> QED BY <1>4, <2>1, <2>2, <2>3, <2>4, Zenon
<1>5. CASE /\ state[i] = "START_PENDING"
           /\ state' = [state EXCEPT ![i] = "FAILED"]
           /\ result' = "failed"
           /\ UNCHANGED stack
  <2>1. state'[i] = "FAILED" /\ \A s \in Services \ {i} : state'[s] = state[s]
    BY <1>1, <1>5, Zenon
  <2>2. PendingIsActive'
    BY <1>1, <1>5, <2>1, Zenon DEF SInv, PendingIsActive, Active
  <2>3. FailedWhileActive'
    BY <1>5, Zenon DEF FailedWhileActive
  <2>4. FailureIsTrue'
    BY <1>1, <1>5, <2>1, AsksIsStable, Zenon DEF FailureIsTrue, Top
  <2>5. Active(i)
    BY <1>5, Zenon DEF SInv, PendingIsActive
  <2>6. FailedHasReason'
    BY <1>1, <1>3, <1>5, <2>1, <2>5, Zenon DEF FailedHasReason, Active
  <2> QED BY <1>5, <2>1, <2>2, <2>3, <2>4, <2>6, Zenon
<1>6. CASE /\ state[i] = "STOPPED"
           /\ state' = [state EXCEPT ![i] = "START_PENDING"]
           /\ stack' = Append(stack, [service |-> i, at |-> 0])
           /\ result' = "none"
  <2>1. state'[i] = "START_PENDING" /\ \A s \in Services \ {i} : state'[s] = state[s]
    BY <1>1, <1>6, Zenon
  <2>2. /\ Len(stack) \in Nat
        /\ Len(stack') = Len(stack) + 1
        /\ stack'[Len(stack) + 1].service = i
        /\ \A k \in 1 .. Len(stack) : stack'[k] = stack[k]
    BY <1>6, PushFacts, Zenon DEF IInv
  <2>3. \A s : Active(s) \/ s = i => \A t : t = s => Active(t)'
    BY <2>2 DEF Active
  <2>4. PendingIsActive'
    BY <1>1, <2>1, <2>3, Zenon DEF SInv, PendingIsActive
  <2>5. FailedWhileActive'
    <3> SUFFICES ASSUME NEW k \in 1 .. Len(stack') PROVE state'[stack'[k].service] # "FAILED"
      BY Zenon DEF FailedWhileActive
    <3>1. CASE k = Len(stack) + 1
      BY <3>1, <2>1, <2>2, Zenon
    <3>2. CASE k \in 1 .. Len(stack)
      BY <3>2, <1>2, <2>1, <2>2, Zenon
    <3> QED BY <3>1, <3>2, <2>2
  <2>6. FailureIsTrue'
    BY <1>6, Zenon DEF FailureIsTrue
  <2>7. FailedHasReason'
    BY <1>1, <1>3, <2>1, Zenon DEF FailedHasReason
  <2> QED BY <1>6, <2>1, <2>4, <2>5, <2>6, <2>7, Zenon
<1> QED BY <1>4, <1>5, <1>6, Zenon DEF Enter

\* service_start_one returns: the service on top is decided, with its reason if it failed.
LEMMA ReturnSettles ==
    ASSUME IInv, IInv', SInv, stack # << >>, NEW s \in {"RUNNING", "FAILED"}, Return(s),
           UNCHANGED <<table, type, index>>,
           s = "RUNNING" => result # "failed",
           s = "FAILED" => \A t : t = Top.service => Reason(t)',
           \/ UNCHANGED starts
           \/ starts' = [starts EXCEPT ![Top.service] = @ + 1]
    PROVE  SInv'
<1>1. PICK t \in Services : t = Top.service
  BY BelowFacts, Zenon DEF IInv, Frame
<1>2. /\ state' = [state EXCEPT ![t] = s]
      /\ stack' = Below
      /\ result' = IF s = "RUNNING" THEN "ok" ELSE "failed"
  BY <1>1, Zenon DEF Return
<1> DEFINE n == Len(stack) - 1
<1>3. /\ n \in Nat
      /\ Len(stack') = n
      /\ Len(stack) = n + 1
      /\ \A k \in 1 .. n : stack'[k] = stack[k]
      /\ stack[n + 1].service = t
  BY <1>1, <1>2, BelowFacts DEF IInv, Top
<1> HIDE DEF n
<1>4. /\ \A k \in 1 .. n : stack[k].service \in Services \ {t}
      /\ starts[t] = 0
  BY <1>1, <1>3, FrameFacts DEF IInv, ActiveOnce
<1>5. /\ state'[t] = s /\ \A i \in Services \ {t} : state'[i] = state[i]
      /\ Services' = Services
  BY <1>2, Zenon DEF IInv, TypeOK, Services
<1>6. \A i \in Services : Active(i) /\ i # t => \A j : j = i => Active(j)'
  BY <1>3 DEF Active
<1>7. PendingIsActive'
  BY <1>5, <1>6, Zenon DEF SInv, PendingIsActive
<1>8. PassedIsDecided'
  BY <1>5, Zenon DEF SInv, PassedIsDecided
<1>9. s = "RUNNING" => \A k \in 1 .. n + 1 : state[stack[k].service] # "FAILED"
  BY <1>3, Zenon DEF SInv, FailedWhileActive
<1>10. FailedWhileActive'
  <2>1. CASE s = "FAILED"
    BY <2>1, <1>2, Zenon DEF FailedWhileActive
  <2>2. CASE s = "RUNNING"
    BY <2>2, <1>3, <1>4, <1>5, <1>9 DEF FailedWhileActive
  <2> QED BY <2>1, <2>2, Zenon
<1>11. FailureIsTrue'
  <2> SUFFICES ASSUME stack' # << >>, result' = "failed"
               PROVE  \E i \in Services : Asks(stack'[n], i) /\ state'[i] = "FAILED"
    BY <1>3, <1>5, AsksIsStable, Zenon DEF FailureIsTrue, Top
  <2>1. n \in 1 .. Len(stack) - 1
    BY <1>3 DEF IInv, TypeOK
  <2>2. Asks(stack[n], t)
    BY <1>3, <2>1, Zenon DEF IInv, FramesLinked
  <2>3. s = "FAILED"
    BY <1>2, Zenon
  <2> QED BY <2>1, <2>2, <2>3, <1>3, <1>5
<1>12. \A i \in Services : state[i] = "FAILED" => state'[i] = "FAILED"
  BY <1>3, <1>5, <1>9
<1>13. \A i \in Services : starts[i] = 1 => starts'[i] = 1
  <2>1. CASE UNCHANGED starts
    BY <2>1, Zenon
  <2>2. CASE starts' = [starts EXCEPT ![t] = @ + 1]
    BY <2>2, <1>4 DEF IInv, TypeOK
  <2> QED BY <1>1, <2>1, <2>2, Zenon
<1>14. FailedHasReason'
  <2> SUFFICES ASSUME NEW i \in Services, state'[i] = "FAILED", NEW j, j = i
               PROVE  Active(j)' \/ Reason(j)'
    BY <1>5, Zenon DEF FailedHasReason
  <2>1. CASE i = t
    BY <2>1, <1>1, <1>5, Zenon
  <2>2. CASE i # t
    <3>1. Active(i) \/ Reason(i)
      BY <2>2, <1>5, Zenon DEF SInv, FailedHasReason
    <3> QED BY <3>1, <2>2, <1>6, <1>12, <1>13, ReasonIsStable, Zenon
  <2> QED BY <2>1, <2>2, Zenon
<1> QED BY <1>7, <1>8, <1>10, <1>11, <1>14, Zenon DEF SInv

\* A dependency that was started is counted, and nothing is decided.
LEMMA CountSettles ==
    ASSUME IInv, IInv', SInv, stack # << >>, result = "ok", result' = "none",
           stack' = [stack EXCEPT ![Len(stack)].at = @ + 1],
           UNCHANGED <<table, state, type, index, starts>>
    PROVE  SInv'
<1> DEFINE n == Len(stack)
           more == [stack[n] EXCEPT !.at = @ + 1]
<1>1. n \in Nat \ {0} /\ stack \in Seq(Frame) /\ stack[n] \in Frame
  BY BelowFacts, Zenon DEF IInv, Top, TypeOK
<1>2. more \in Frame /\ more.service = stack[n].service
  BY <1>1 DEF Frame
<1>3. stack' = [stack EXCEPT ![n] = more]
  BY Zenon
<1> HIDE DEF more
<1>4. Len(stack') = n /\ \A k \in 1 .. n : stack'[k].service = stack[k].service
  <2>1. /\ Len(stack') = n
        /\ \A k \in 1 .. Len(stack) : stack'[k] = IF k = n THEN more ELSE stack[k]
    BY <1>1, <1>2, <1>3, ExceptSeq
  <2> QED BY <1>2, <2>1, Zenon
<1>5. Services' = Services /\ \A s : Active(s) => \A t : t = s => Active(t)'
  BY <1>4, Zenon DEF Active, Services
<1>6. PendingIsActive' /\ PassedIsDecided'
  BY <1>5, Zenon DEF SInv, PendingIsActive, PassedIsDecided
<1>7. FailedWhileActive' /\ FailureIsTrue'
  BY <1>4, Zenon DEF SInv, FailedWhileActive, FailureIsTrue
<1>8. \A s \in Services : Reason(s) => \A t : t = s => Reason(t)'
  BY ReasonIsStable, Zenon
<1>9. FailedHasReason'
  BY <1>5, <1>8, Zenon DEF SInv, FailedHasReason
<1> QED BY <1>6, <1>7, <1>9, Zenon DEF SInv

\* Every step keeps what is settled.
LEMMA StepSettles == IInv /\ IInv' /\ SInv /\ [Next]_vars => SInv'
<1> SUFFICES ASSUME IInv, IInv', SInv, [Next]_vars PROVE SInv'
  BY Zenon
<1>0. UNCHANGED <<state, stack, result, table, starts>> =>
        PendingIsActive' /\ FailedWhileActive' /\ FailureIsTrue' /\ FailedHasReason'
  <2> SUFFICES ASSUME UNCHANGED <<state, stack, result, table, starts>>
               PROVE  PendingIsActive' /\ FailedWhileActive' /\ FailureIsTrue' /\ FailedHasReason'
    BY Zenon
  <2>1. /\ Services' = Services
        /\ \A s : Active(s) => \A t : t = s => Active(t)'
        /\ \A s \in Services : Reason(s) => \A t : t = s => Reason(t)'
    BY ReasonIsStable, Zenon DEF Active, Services
  <2>2. PendingIsActive' /\ FailedHasReason'
    BY <2>1, Zenon DEF SInv, PendingIsActive, FailedHasReason
  <2>3. FailedWhileActive' /\ FailureIsTrue'
    BY <2>1, AsksIsStable, Zenon DEF SInv, FailedWhileActive, FailureIsTrue, Top
  <2> QED BY <2>2, <2>3, Zenon
<1>1. CASE ServiceManagerStart
  <2>1. /\ Services = 1 .. Len(table) /\ Len(table) \in Nat \ {0}
        /\ index \in Services /\ type \in Nat /\ Services' = Services
        /\ \A s \in Services : table[s].start_type \in Nat
    <3>1. TypeOK
      BY Zenon DEF IInv
    <3>2. /\ Services = 1 .. Len(table) /\ Len(table) \in Nat \ {0}
          /\ \A s \in Services : table[s].start_type \in Nat
      BY <3>1, TableFacts
    <3>3. index \in Services /\ type \in Nat
      BY <3>1 DEF TypeOK, BOOT_START, AUTO_START
    <3>4. Services' = Services
      BY <1>1, Zenon DEF ServiceManagerStart, Services
    <3> QED BY <3>2, <3>3, <3>4, Zenon
  <2>2. /\ PendingIsActive' /\ FailedWhileActive' /\ FailureIsTrue' /\ FailedHasReason'
        /\ table[index].start_type = type => state'[index] # "STOPPED"
        /\ \A s \in Services : state[s] # "STOPPED" => state'[s] # "STOPPED"
    <3>1. CASE table[index].start_type = type
      BY <1>1, <2>1, <3>1, EnterSettles, Zenon DEF ServiceManagerStart
    <3>2. CASE table[index].start_type # type
      BY <1>1, <3>2, <1>0, Zenon DEF ServiceManagerStart
    <3> QED BY <3>1, <3>2, Zenon
  <2>3. PassedIsDecided'
    <3> SUFFICES ASSUME NEW s \in Services,
                        \/ table[s].start_type < type'
                        \/ table[s].start_type = type' /\ s < index'
                 PROVE  state'[s] # "STOPPED"
      BY <1>1, <2>1, Zenon DEF PassedIsDecided, ServiceManagerStart
    <3>1. \/ table[s].start_type < type
          \/ table[s].start_type = type /\ s < index
          \/ table[s].start_type = type /\ s = index
      <4>1. CASE index = Len(table) /\ index' = 1 /\ type' = type + 1
        BY <2>1, <4>1
      <4>2. CASE index # Len(table) /\ index' = index + 1 /\ type' = type
        BY <2>1, <4>2
      <4> QED BY <1>1, <4>1, <4>2, Zenon DEF ServiceManagerStart
    <3> QED BY <3>1, <2>2, Zenon DEF SInv, PassedIsDecided
  <2> QED BY <2>2, <2>3, Zenon DEF SInv
<1>2. CASE StartDependency
  <2>1. CASE Missing(Dependencies(Top.service)[Top.at + 1]) /\ Return("FAILED")
    <3>1. Top.service \in Services /\ Top.at + 1 \in 1 .. Len(Dependencies(Top.service))
      BY <1>2, BelowFacts, TableFacts DEF StartDependency, IInv, Frame
    <3>2. \A t : t = Top.service => Reason(t)'
      BY <1>2, <2>1, <3>1 DEF StartDependency, Reason, Missing, Dependencies, Services
    <3> QED BY <1>2, <2>1, <3>2, ReturnSettles, Zenon DEF StartDependency
  <2>2. ASSUME NEW i \in Services, Enter(i),
               service_index(Dependencies(Top.service)[Top.at + 1], i)
        PROVE  SInv'
    <3>1. Asks(Top, i)
      BY <1>2, <2>2, Zenon DEF StartDependency, Asks
    <3>2. /\ PendingIsActive' /\ FailedWhileActive' /\ FailureIsTrue' /\ FailedHasReason'
          /\ \A s \in Services : state[s] # "STOPPED" => state'[s] # "STOPPED"
      BY <1>2, <2>2, <3>1, EnterSettles, Zenon DEF StartDependency
    <3>3. PassedIsDecided'
      BY <1>2, <3>2, Zenon DEF SInv, PassedIsDecided, StartDependency, Services
    <3> QED BY <3>2, <3>3, Zenon DEF SInv
  <2> QED BY <1>2, <2>1, <2>2, Zenon DEF StartDependency
<1>3. CASE DependencyReturns
  <2>1. CASE result = "failed" /\ Return("FAILED")
    <3>1. PICK i \in Services : Asks(Top, i) /\ state[i] = "FAILED"
      BY <1>3, <2>1, Zenon DEF DependencyReturns, SInv, FailureIsTrue
    <3>2. /\ Top.service \in Services
          /\ Top.at + 1 \in 1 .. Len(Dependencies(Top.service))
          /\ service_index(Dependencies(Top.service)[Top.at + 1], i)
      BY <1>3, <3>1, BelowFacts, TableFacts DEF DependencyReturns, IInv, Frame, Asks
    <3>3. state'[i] = "FAILED"
      BY <2>1, <3>1, Zenon DEF Return, IInv, TypeOK
    <3>4. \A t : t = Top.service => Reason(t)'
      BY <1>3, <3>2, <3>3 DEF DependencyReturns, Reason, service_index, Dependencies, Services
    <3> QED BY <1>3, <2>1, <3>4, ReturnSettles, Zenon DEF DependencyReturns
  <2> QED BY <1>3, <2>1, CountSettles, Zenon DEF DependencyReturns
<1>4. CASE StartService
  <2>1. Top.service \in Services
    BY <1>4, BelowFacts, Zenon DEF StartService, IInv, Frame
  <2>2. starts[Top.service] = 0
    BY <1>4, BelowFacts DEF StartService, IInv, ActiveOnce, Top
  <2>3. \A t : t = Top.service => starts'[t] = 1
    BY <1>4, <2>1, <2>2 DEF StartService, IInv, TypeOK
  <2>4. \A t : t = Top.service => Reason(t)'
    BY <2>3, Zenon DEF Reason
  <2> QED BY <1>4, <2>4, ReturnSettles, Zenon DEF StartService
<1>5. CASE UNCHANGED vars
  <2>1. PassedIsDecided'
    BY <1>5, Zenon DEF SInv, PassedIsDecided, vars, Services
  <2> QED BY <1>5, <1>0, <2>1, Zenon DEF SInv, vars
<1> QED BY <1>1, <1>2, <1>3, <1>4, <1>5, Zenon DEF Next, Finished

\* When ServiceManagerStart has returned nothing is pending, every service of a load phase
\* is running or failed, and each failure has its reason.
THEOREM StartupSettles == Spec => []Settled
<1>1. ServiceManagerInitialize => SInv
  <2> SUFFICES ASSUME ServiceManagerInitialize PROVE SInv
    BY Zenon
  <2>1. Len(stack) = 0 /\ \A s \in Services : state[s] = "STOPPED"
    BY Zenon DEF ServiceManagerInitialize, Services
  <2>2. \A s \in Services : table[s].start_type \in Nat /\ s \in Nat \ {0}
    BY InitIInv, TableFacts DEF IInv
  <2>3. PassedIsDecided
    BY <2>2 DEF ServiceManagerInitialize, PassedIsDecided, BOOT_START
  <2> QED BY <2>1, <2>3 DEF SInv, PendingIsActive, FailedWhileActive, FailureIsTrue,
                            FailedHasReason, ServiceManagerInitialize
<1>2. IInv /\ SInv => Settled
  <2> SUFFICES ASSUME IInv, SInv, Done, NEW s \in Services
               PROVE  /\ state[s] # "START_PENDING"
                      /\ table[s].start_type <= AUTO_START => state[s] # "STOPPED"
                      /\ state[s] = "FAILED" => Reason(s)
    BY Zenon DEF Settled
  <2>1. ~Active(s)
    BY DEF Active, Done
  <2>2. table[s].start_type \in Nat /\ type \in Nat
    <3>1. TypeOK
      BY Zenon DEF IInv
    <3>2. table[s].start_type \in Nat
      BY <3>1, TableFacts
    <3> QED BY <3>1, <3>2 DEF TypeOK, BOOT_START, AUTO_START
  <2>3. table[s].start_type <= AUTO_START => state[s] # "STOPPED"
    BY <2>2 DEF SInv, PassedIsDecided, Done, AUTO_START
  <2> QED BY <2>1, <2>3, Zenon DEF SInv, PendingIsActive, FailedHasReason
<1> QED BY <1>1, <1>2, Invariance, StepSettles, PTL DEF Spec
=============================================================================
