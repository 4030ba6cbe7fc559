---------------------------- MODULE Sched_proofs ----------------------------
(***************************************************************************)
(* The scheduler, for any number of tasks.                                 *)
(*                                                                         *)
(* First what holds whatever the interrupts hit: types, the task count,    *)
(* and that at most one stack at a time holds an unfinished interrupt      *)
(* handler.                                                                *)
(*                                                                         *)
(* Then the ring of tasks. list_add and list_remove take no lock, so what  *)
(* keeps the ring sound is an argument about order: tasks can be given     *)
(* ranks, 0 for the idle task and a new maximum for each task added, such  *)
(* that every link goes to the next rank up and the last one back to the   *)
(* idle task. sched_next then meets only tasks of a higher rank than the   *)
(* running one before it comes to the idle task: it never reaches the task *)
(* it runs on, so it never frees its own stack, and the lap it counts is   *)
(* never a second one.                                                     *)
(*                                                                         *)
(* Last, that the tasks take turns (SchedTurns implements RoundRobin):     *)
(* going round the ring from the running task, a task that waits comes     *)
(* before every task that has overtaken it, so sched_next, which starts    *)
(* there, meets it first.                                                  *)
(*                                                                         *)
(* All of it holds until a timer interrupt reschedules inside a            *)
(* sched_yield (hit): nothing is promised after that.                      *)
(***************************************************************************)
EXTENDS SchedTurns, NatSets

\* multitask_start creates no more tasks than it has tried to; its frame is the
\* one the CPU is on, since the keyboard handler never switches stacks.
StartOK ==
    /\ made <= tried
    /\ \A t \in AllTasks : irq_pc[t] = "start" => t = cpu

IInv == TypeOK /\ CountOK /\ StartOK /\ OnePreempted

LEMMA InitInv == Init => IInv
<1> SUFFICES ASSUME Init PROVE IInv
  OBVIOUS
<1>1. RingType
  BY SlotAssumption DEF Init, RingType, AllTasks, Pointer
<1>2. TaskType
  BY BoundAssumption DEF Init, TaskType, AllTasks
<1>3. FrameType
  BY DEF Init, FrameType, AllTasks, Pointer, TaskPoints, IrqPoints, NoScan,
         LocalType
<1>4. DemoType
  <2>1. 0 \in 0..DemoCount /\ 0 \in 0..StopYields
    BY BoundAssumption
  <2> QED
    BY <2>1, Zenon DEF Init, DemoType
<1>5. CountOK
  BY FS_EmptySet DEF Init, CountOK
<1>6. StartOK /\ OnePreempted
  BY BoundAssumption DEF Init, StartOK, OnePreempted, TimerPoints, YieldPoints
<1> QED
  BY <1>1, <1>2, <1>3, <1>4, <1>5, <1>6 DEF IInv, TypeOK, Init

-----------------------------------------------------------------------------
\* Moving within a frame keeps both program counters in their sets, and leaves
\* every frame of every other stack alone.
LEMMA GotoFrame ==
    ASSUME FrameType, NEW point, Goto(point),
           Level = "irq" => point \in TimerPoints,
           Level = "task" => point \in TaskPoints
    PROVE  /\ task_pc' \in [AllTasks -> TaskPoints]
           /\ irq_pc' \in [AllTasks -> IrqPoints]
           /\ \A t \in AllTasks : t # cpu => irq_pc'[t] = irq_pc[t]
           /\ irq_pc'[cpu] = IF Level = "irq" THEN point ELSE "none"
<1>1. CASE irq_pc[cpu] = "none"
  BY <1>1 DEF FrameType, Goto, Level, IrqPoints
<1>2. CASE irq_pc[cpu] # "none"
  BY <1>2 DEF FrameType, Goto, Level, IrqPoints
<1> QED
  BY <1>1, <1>2

LEMMA YieldPointsEverywhere ==
    ASSUME NEW point \in YieldPoints
    PROVE  point \in TimerPoints /\ point \in TaskPoints /\ point # "none" /\ point # "start"
BY DEF YieldPoints, TimerPoints, TaskPoints

\* The locals keep their type.
LEMMA LocalFrame ==
    ASSUME FrameType, NEW r \in LocalType, SetLocal(r)
    PROVE  scan' \in [AllTasks -> [Levels -> LocalType]]
BY DEF FrameType, SetLocal, Level, Levels

LEMMA LocalTyped ==
    ASSUME FrameType
    PROVE  Local \in LocalType
BY DEF FrameType, Local, Level, Levels

\* The frame the CPU is on moves to another point of the code it is in.
Moves(to) ==
    /\ Goto(to)
    /\ Level = "irq" => irq_pc[cpu] \in TimerPoints /\ to \in TimerPoints
    /\ Level = "task" => to \in TaskPoints
    /\ UNCHANGED <<in_service, made, tried>>

LEMMA MoveInv ==
    ASSUME IInv, NEW to, Moves(to), cpu' = cpu,
           scan' \in [AllTasks -> [Levels -> LocalType]]
    PROVE  FrameType' /\ StartOK' /\ OnePreempted'
<1>1. FrameType /\ StartOK /\ OnePreempted
  BY DEF IInv, TypeOK
<1>2. /\ task_pc' \in [AllTasks -> TaskPoints]
      /\ irq_pc' \in [AllTasks -> IrqPoints]
      /\ \A t \in AllTasks : t # cpu => irq_pc'[t] = irq_pc[t]
      /\ irq_pc'[cpu] = IF Level = "irq" THEN to ELSE "none"
  BY <1>1, GotoFrame DEF Moves
<1>3. FrameType'
  BY <1>1, <1>2 DEF FrameType, Moves
<1>4. Level = "irq" => irq_pc[cpu] \in TimerPoints /\ to \in TimerPoints
  BY DEF Moves
<1>5. Level = "task" => irq_pc[cpu] = "none"
  BY DEF Level
<1>6. Level \in {"task", "irq"}
  BY DEF Level
<1>7. "none" \notin TimerPoints /\ "start" \notin TimerPoints
  BY DEF TimerPoints, YieldPoints
<1>8. StartOK'
  BY <1>1, <1>2, <1>4, <1>6, <1>7 DEF StartOK, Moves
<1>9. OnePreempted'
  BY <1>1, <1>2, <1>4, <1>5, <1>6, <1>7 DEF OnePreempted, Moves, FrameType
<1> QED
  BY <1>3, <1>8, <1>9

\* Wherever a frame is inside sched_yield or sched_tick, it can move on.
LEMMA YieldMoves ==
    ASSUME FrameType, NEW from \in YieldPoints \cup {"tick"}, At(from), NEW to \in YieldPoints,
           Goto(to), UNCHANGED <<in_service, made, tried>>
    PROVE  Moves(to)
BY DEF FrameType, At, Here, Level, Moves, TimerPoints, TaskPoints, YieldPoints

LEMMA ReturnMoves ==
    ASSUME FrameType, NEW from \in YieldPoints, At(from), Goto(Return),
           UNCHANGED <<in_service, made, tried>>
    PROVE  Moves(Return)
BY DEF FrameType, At, Here, Level, Moves, Return, TimerPoints, TaskPoints, YieldPoints

LEMMA TaskMoves ==
    ASSUME FrameType, NEW from, AtTask(from), NEW to \in TaskPoints, Goto(to),
           UNCHANGED <<in_service, made, tried>>
    PROVE  Moves(to)
BY DEF AtTask, Level, Moves

-----------------------------------------------------------------------------
LEMMA UndefinedInv == ASSUME IInv, Undefined PROVE IInv'
<1>1. hit' \in BOOLEAN /\ ub' \in BOOLEAN
  BY DEF Undefined
<1> QED
  BY <1>1 DEF IInv, Undefined, TypeOK, RingType, TaskType, FrameType, DemoType, CountOK,
         StartOK, OnePreempted, ringVars, taskVars, frameVars, demoVars

LEMMA ListAddType ==
    ASSUME RingType, TailOK, TaskType, NEW t \in Slots, ListAdd(t)
    PROVE  RingType'
<1>1. CASE task_list_head = NULL
  BY <1>1 DEF RingType, ListAdd, AllTasks, Pointer
<1>2. CASE task_list_head # NULL
  <2>1. task_list_head \in AllTasks /\ last_task[task_list_head] \in AllTasks
    BY <1>2 DEF RingType, TailOK, Allocated, TaskType, AllTasks, Pointer
  <2> QED
    BY <1>2, <2>1 DEF RingType, ListAdd, AllTasks, Pointer
<1> QED
  BY <1>1, <1>2

\* One more task is allocated and counted.
LEMMA CountAdd ==
    ASSUME TaskType, CountOK, NEW t \in Slots \ live,
           task_count' = task_count + 1, live' = live \cup {t}
    PROVE  CountOK'
<1>1. IsFiniteSet(live)
  BY FiniteAssumption, FS_Subset DEF TaskType, Slots
<1>2. Cardinality(live) \in Nat
  BY <1>1, FS_CardinalityType
<1>3. Cardinality(live \cup {t}) = Cardinality(live) + 1
  BY <1>1, FS_AddElement
<1> QED
  BY <1>2, <1>3 DEF CountOK

LEMMA CountFree ==
    ASSUME TaskType, CountOK, NEW t \in live,
           task_count' = task_count - 1, live' = live \ {t}
    PROVE  CountOK' /\ task_count' \in Nat
<1>1. IsFiniteSet(live)
  BY FiniteAssumption, FS_Subset DEF TaskType, Slots
<1>2. Cardinality(live) \in Nat
  BY <1>1, FS_CardinalityType
<1>3. Cardinality(live \ {t}) = Cardinality(live) - 1
  BY <1>1, FS_RemoveElement
<1>4. IsFiniteSet(live \ {t}) /\ Cardinality(live \ {t}) \in Nat
  BY <1>1, FS_Subset, FS_CardinalityType
<1> QED
  BY <1>2, <1>3, <1>4 DEF CountOK

-----------------------------------------------------------------------------
\* sched_next, sched_tick and sched_yield.

LEMMA ScanInv == ASSUME IInv, Scan PROVE IInv'
<1>1. CASE Undefined
  BY <1>1, UndefinedInv
<1>2. CASE ~Undefined
  <2>1. /\ SetLocal([NoScan EXCEPT !.start = First, !.t = First])
        /\ Goto("test")
        /\ UNCHANGED <<ringVars, taskVars, steadyVars>>
    BY <1>2 DEF Scan
  <2>2. First \in Pointer /\ NULL \in Pointer
    BY DEF IInv, TypeOK, RingType, TaskType, First, Pointer
  <2>3. [NoScan EXCEPT !.start = First, !.t = First] \in LocalType
    BY <2>2 DEF NoScan, LocalType
  <2>4. scan' \in [AllTasks -> [Levels -> LocalType]]
    BY <2>1, <2>3, LocalFrame DEF IInv, TypeOK
  <2>5. Moves("test")
    BY <2>1, YieldMoves DEF Scan, YieldPoints, IInv, TypeOK, steadyVars, demoVars
  <2>6. FrameType' /\ StartOK' /\ OnePreempted'
    BY <2>1, <2>4, <2>5, MoveInv DEF steadyVars
  <2> QED
    BY <2>1, <2>6 DEF IInv, TypeOK, RingType, TaskType, DemoType, CountOK,
         ringVars, taskVars, steadyVars, demoVars, ghostVars
<1> QED
  BY <1>1, <1>2

LEMMA AdvanceFacts ==
    ASSUME IInv, NEW u \in Pointer, Advance(u)
    PROVE  /\ scan' \in [AllTasks -> [Levels -> LocalType]]
           /\ Goto("test") \/ Goto("pick")
<1>1. Local \in LocalType
  BY LocalTyped DEF IInv, TypeOK
<1>2. /\ [Local EXCEPT !.t = u] \in LocalType
      /\ [Local EXCEPT !.t = Idle] \in LocalType
  BY <1>1 DEF LocalType, Pointer, AllTasks
<1> QED
  BY <1>2, LocalFrame DEF Advance, IInv, TypeOK

LEMMA TestInv == ASSUME IInv, Test PROVE IInv'
<1>1. CASE Undefined
  BY <1>1, UndefinedInv
<1>2. CASE ~Undefined
  <2> DEFINE t == Local.t
  <2>0. FrameType
    BY DEF IInv, TypeOK
  <2>1. /\ Allocated(t)
        /\ \/ Reap(t) /\ UNCHANGED suspended
           \/ Advance(next_task[t]) /\ UNCHANGED suspended
           \/ suspended' = Awake(t) /\ Goto("pick") /\ UNCHANGED scan
        /\ UNCHANGED <<ringVars, killed, wake_in, live, steadyVars>>
    BY <1>2 DEF Test
  <2>2. t \in AllTasks /\ next_task[t] \in Pointer
    BY <2>1 DEF Allocated, IInv, TypeOK, TaskType, RingType, AllTasks
  <2>3. /\ scan' \in [AllTasks -> [Levels -> LocalType]]
        /\ \E to \in YieldPoints : Goto(to)
    <3>1. CASE Reap(t)
      <4>1. Local \in LocalType
        BY <2>0, LocalTyped
      <4>2. [Local EXCEPT !.victim = t, !.t = next_task[t]] \in LocalType
        BY <4>1, <2>2 DEF LocalType, Pointer
      <4> QED
        BY <3>1, <4>2, <2>0, LocalFrame DEF Reap, YieldPoints
    <3>2. CASE Advance(next_task[t])
      BY <3>2, <2>2, AdvanceFacts DEF YieldPoints
    <3>3. CASE Goto("pick") /\ UNCHANGED scan
      BY <3>3, <2>0 DEF FrameType, YieldPoints
    <3> QED
      BY <2>1, <3>1, <3>2, <3>3
  <2>4. PICK to \in YieldPoints : Goto(to)
    BY <2>3
  <2>5. UNCHANGED <<in_service, made, tried, cpu>>
    BY <2>1 DEF steadyVars, demoVars
  <2>6. Moves(to)
    BY <2>0, <2>4, <2>5, YieldMoves DEF Test, YieldPoints
  <2>7. FrameType' /\ StartOK' /\ OnePreempted'
    BY <2>3, <2>5, <2>6, MoveInv
  <2>8. suspended' \subseteq AllTasks
    BY <2>1 DEF Awake, Reap, IInv, TypeOK, TaskType
  <2> QED
    BY <2>1, <2>7, <2>8 DEF IInv, TypeOK, RingType, TaskType, DemoType, CountOK,
         ringVars, steadyVars, demoVars, ghostVars
<1> QED
  BY <1>1, <1>2

LEMMA UnlinkPrevInv == ASSUME IInv, UnlinkPrev PROVE IInv'
<1>1. CASE Undefined
  BY <1>1, UndefinedInv
<1>2. CASE ~Undefined
  <2> DEFINE v == Local.victim
  <2>0. FrameType
    BY DEF IInv, TypeOK
  <2>1. /\ Allocated(v) /\ Allocated(last_task[v])
        /\ \/ task_list_head' = NULL /\ UNCHANGED next_task /\ Goto("free")
           \/ next_task' = SkipVictim(v) /\ UNCHANGED task_list_head /\ Goto("unlink_next")
        /\ UNCHANGED <<last_task, task_count, taskVars, scan, steadyVars>>
    BY <1>2 DEF UnlinkPrev
  <2>2. UNCHANGED <<in_service, made, tried, cpu>>
    BY <2>1 DEF steadyVars, demoVars
  <2>3. PICK to \in YieldPoints : Goto(to)
    BY <2>1 DEF YieldPoints
  <2>4. Moves(to)
    BY <2>0, <2>2, <2>3, YieldMoves DEF UnlinkPrev, YieldPoints
  <2>5. FrameType' /\ StartOK' /\ OnePreempted'
    BY <2>0, <2>1, <2>2, <2>4, MoveInv DEF FrameType
  <2>6. v \in AllTasks /\ NULL \in Pointer
    BY <2>1 DEF Allocated, IInv, TypeOK, TaskType, AllTasks, Pointer
  <2>7. RingType'
    BY <2>1, <2>6 DEF IInv, TypeOK, RingType, SkipVictim
  <2> QED
    BY <2>1, <2>5, <2>7 DEF IInv, TypeOK, TaskType, DemoType, CountOK,
         taskVars, steadyVars, demoVars, ghostVars
<1> QED
  BY <1>1, <1>2

LEMMA UnlinkNextInv == ASSUME IInv, UnlinkNext PROVE IInv'
<1>1. CASE Undefined
  BY <1>1, UndefinedInv
<1>2. CASE ~Undefined
  <2> DEFINE v == Local.victim
             n == next_task[v]
  <2>0. FrameType
    BY DEF IInv, TypeOK
  <2>1. /\ Allocated(v) /\ Allocated(n)
        /\ last_task' = [last_task EXCEPT ![n] = last_task[v]]
        /\ task_list_head' = NextHead(v)
        /\ Goto("free")
        /\ UNCHANGED <<next_task, task_count, taskVars, scan, steadyVars>>
    BY <1>2 DEF UnlinkNext
  <2>2. UNCHANGED <<in_service, made, tried, cpu>>
    BY <2>1 DEF steadyVars, demoVars
  <2>4. Moves("free")
    BY <2>0, <2>1, <2>2, YieldMoves DEF UnlinkNext, YieldPoints
  <2>5. FrameType' /\ StartOK' /\ OnePreempted'
    BY <2>0, <2>1, <2>2, <2>4, MoveInv DEF FrameType
  <2>6. v \in AllTasks
    BY <2>1 DEF Allocated, IInv, TypeOK, TaskType, AllTasks
  <2>7. RingType'
    BY <2>1, <2>6 DEF IInv, TypeOK, RingType, NextHead
  <2> QED
    BY <2>1, <2>5, <2>7 DEF IInv, TypeOK, TaskType, DemoType, CountOK,
         taskVars, steadyVars, demoVars, ghostVars
<1> QED
  BY <1>1, <1>2

\* The victim's own frames vanish with its stack, the CPU's frame moves on.
LEMMA FreeInv == ASSUME IInv, Free PROVE IInv'
<1>1. CASE Undefined
  BY <1>1, UndefinedInv
<1>2. CASE ~Undefined
  <2> DEFINE v == Local.victim
             lap == Local.t = Local.start
             after == IF lap THEN "pick" ELSE "test"
             irq == Level = "irq"
             r == [Local EXCEPT !.victim = NULL, !.t = IF lap THEN Idle ELSE @]
  <2>0. FrameType /\ StartOK /\ OnePreempted /\ TaskType /\ CountOK
    BY DEF IInv, TypeOK
  <2>1. /\ v \in live /\ v # cpu
        /\ next_task' = [next_task EXCEPT ![v] = NULL]
        /\ last_task' = [last_task EXCEPT ![v] = NULL]
        /\ task_count' = task_count - 1
        /\ live' = live \ {v}
        /\ killed' = killed \ {v}
        /\ suspended' = suspended \ {v}
        /\ wake_in' = [wake_in EXCEPT ![v] = 0]
        /\ hit' = (hit \/ Hit)
        /\ UNCHANGED <<task_list_head, current_task, tick_counter, cpu,
                       in_service, demoVars, ub>>
    BY <1>2 DEF Free
  <2>2. /\ task_pc' = [task_pc EXCEPT ![v] = "run", ![cpu] = IF irq THEN @ ELSE after]
        /\ irq_pc' = [irq_pc EXCEPT ![v] = "none", ![cpu] = IF irq THEN after ELSE @]
    BY <1>2 DEF Free
  <2>3. scan' = [scan EXCEPT ![v] = [l \in Levels |-> NoScan], ![cpu][Level] = r]
    BY <1>2 DEF Free
  <2>4. v \in AllTasks /\ cpu \in AllTasks
    BY <2>0, <2>1 DEF TaskType, FrameType, AllTasks
  <2>5. r \in LocalType /\ NoScan \in LocalType
    <3>1. Local \in LocalType
      BY <2>0, LocalTyped
    <3>2. NULL \in Pointer /\ Idle \in Pointer
      BY DEF Pointer, AllTasks
    <3> QED
      BY <3>1, <3>2 DEF LocalType, NoScan
  <2>6. scan' \in [AllTasks -> [Levels -> LocalType]]
    BY <2>0, <2>3, <2>4, <2>5 DEF FrameType, Level, Levels
  <2>7. task_pc' \in [AllTasks -> TaskPoints]
    BY <2>0, <2>2, <2>4 DEF FrameType, TaskPoints, YieldPoints
  <2>8. irq_pc' \in [AllTasks -> IrqPoints]
    BY <2>0, <2>2, <2>4 DEF FrameType, IrqPoints, TimerPoints, YieldPoints
  <2>9. /\ irq => irq_pc[cpu] \in TimerPoints /\ irq_pc[cpu] # "none"
        /\ ~irq => irq_pc[cpu] = "none"
    BY DEF Free, At, Here, Level, TimerPoints, YieldPoints
  <2>10. /\ irq_pc'[v] = "none"
         /\ irq_pc'[cpu] = IF irq THEN after ELSE "none"
         /\ \A t \in AllTasks : t # v /\ t # cpu => irq_pc'[t] = irq_pc[t]
    BY <2>0, <2>1, <2>2, <2>4, <2>9 DEF FrameType
  <2>11. after \in TimerPoints /\ "none" \notin TimerPoints /\ "start" \notin TimerPoints
    BY DEF TimerPoints, YieldPoints
  <2>12. FrameType'
    BY <2>0, <2>1, <2>6, <2>7, <2>8 DEF FrameType
  <2>13. StartOK'
    BY <2>0, <2>1, <2>4, <2>10, <2>11 DEF StartOK, demoVars
  <2>14. OnePreempted'
    BY <2>0, <2>1, <2>4, <2>9, <2>10, <2>11 DEF OnePreempted
  <2>15. CountOK' /\ task_count' \in Nat
    BY <2>0, <2>1, CountFree
  <2>16. RingType'
    BY <2>1, <2>4, <2>15 DEF IInv, TypeOK, RingType, Pointer
  <2>17. TaskType'
    BY <2>0, <2>1, <2>4, BoundAssumption DEF TaskType
  <2>18. hit' \in BOOLEAN /\ ub' \in BOOLEAN
    BY <2>1 DEF IInv, TypeOK
  <2> QED
    BY <2>1, <2>12, <2>13, <2>14, <2>15, <2>16, <2>17, <2>18
    DEF IInv, TypeOK, DemoType, demoVars
<1> QED
  BY <1>1, <1>2

LEMMA PickInv == ASSUME IInv, Pick PROVE IInv'
<1>0. FrameType
  BY DEF IInv, TypeOK
<1>1. CASE Undefined
  BY <1>1, UndefinedInv
<1>2. CASE /\ Goto(Return) /\ SetLocal(NoScan)
           /\ UNCHANGED <<ringVars, taskVars, steadyVars>>
  <2>1. NoScan \in LocalType
    BY DEF NoScan, LocalType, Pointer
  <2>2. scan' \in [AllTasks -> [Levels -> LocalType]]
    BY <1>0, <1>2, <2>1, LocalFrame
  <2>3. Moves(Return)
    BY <1>0, <1>2, ReturnMoves DEF Pick, YieldPoints, steadyVars, demoVars
  <2>4. FrameType' /\ StartOK' /\ OnePreempted'
    BY <1>2, <2>2, <2>3, MoveInv DEF steadyVars
  <2> QED
    BY <1>2, <2>4 DEF IInv, TypeOK, RingType, TaskType, DemoType, CountOK,
         ringVars, taskVars, steadyVars, demoVars, ghostVars
<1>3. CASE /\ Allocated(Local.t)
           /\ SetLocal([NoScan EXCEPT !.t = Local.t, !.prev = current_task])
           /\ current_task' = Local.t
           /\ Goto("switch")
           /\ UNCHANGED <<ringVars, taskVars, tick_counter, cpu, in_service,
                          demoVars, ghostVars>>
  <2>1. Local.t \in AllTasks /\ current_task \in AllTasks
    BY <1>3 DEF Allocated, IInv, TypeOK, TaskType, AllTasks
  <2>2. [NoScan EXCEPT !.t = Local.t, !.prev = current_task] \in LocalType
    BY <2>1 DEF NoScan, LocalType, Pointer
  <2>3. scan' \in [AllTasks -> [Levels -> LocalType]]
    BY <1>0, <1>3, <2>2, LocalFrame
  <2>4. Moves("switch")
    BY <1>0, <1>3, YieldMoves DEF Pick, YieldPoints, demoVars
  <2>5. FrameType' /\ StartOK' /\ OnePreempted'
    BY <1>3, <2>3, <2>4, MoveInv
  <2> QED
    BY <1>3, <2>1, <2>5 DEF IInv, TypeOK, RingType, TaskType, DemoType, CountOK,
         ringVars, taskVars, demoVars, ghostVars
<1> QED
  BY <1>1, <1>2, <1>3 DEF Pick

\* The abandoned frame stays where it is, with its EOI still to send.
LEMMA SwitchInv == ASSUME IInv, Switch PROVE IInv'
<1>0. FrameType /\ StartOK /\ OnePreempted
  BY DEF IInv, TypeOK
<1>1. CASE Undefined
  BY <1>1, UndefinedInv
<1>2. CASE ~Undefined
  <2>1. /\ Allocated(Local.t)
        /\ cpu' = Local.t
        /\ Goto(Return)
        /\ SetLocal(NoScan)
        /\ hit' = (hit \/ Hit)
        /\ UNCHANGED <<ringVars, taskVars, current_task, tick_counter,
                       in_service, demoVars, ub>>
    BY <1>2 DEF Switch
  <2>2. cpu' \in AllTasks
    BY <2>1 DEF Allocated, IInv, TypeOK, TaskType, AllTasks
  <2>3. scan' \in [AllTasks -> [Levels -> LocalType]]
    <3>1. NoScan \in LocalType
      BY DEF NoScan, LocalType, Pointer
    <3> QED
      BY <1>0, <2>1, <3>1, LocalFrame
  <2>4. Moves(Return)
    BY <1>0, <2>1, ReturnMoves DEF Switch, YieldPoints, demoVars
  <2>5. /\ task_pc' \in [AllTasks -> TaskPoints]
        /\ irq_pc' \in [AllTasks -> IrqPoints]
        /\ \A t \in AllTasks : t # cpu => irq_pc'[t] = irq_pc[t]
        /\ irq_pc'[cpu] = IF Level = "irq" THEN Return ELSE "none"
    BY <1>0, <2>4, GotoFrame DEF Moves
  <2>6. FrameType'
    BY <1>0, <2>1, <2>2, <2>3, <2>5 DEF FrameType
  <2>7. /\ Level = "irq" => irq_pc[cpu] \in TimerPoints /\ Return = "eoi"
        /\ Level = "task" => irq_pc[cpu] = "none"
        /\ Level \in {"irq", "task"}
    BY <2>4 DEF Moves, Return, Level
  <2>8. /\ "eoi" \in TimerPoints /\ "none" \notin TimerPoints
        /\ "start" \notin TimerPoints
    BY DEF TimerPoints, YieldPoints
  <2>9. StartOK'
    BY <1>0, <2>1, <2>5, <2>7, <2>8 DEF StartOK, demoVars
  <2>10. OnePreempted'
    BY <1>0, <2>1, <2>5, <2>7, <2>8 DEF OnePreempted, FrameType
  <2> QED
    BY <2>1, <2>6, <2>9, <2>10 DEF IInv, TypeOK, RingType, TaskType, DemoType,
         CountOK, ringVars, taskVars, demoVars
<1> QED
  BY <1>1, <1>2

-----------------------------------------------------------------------------
\* Interrupts.

LEMMA TickInv == ASSUME IInv, Tick PROVE IInv'
<1>0. FrameType
  BY DEF IInv, TypeOK
<1>1. PICK to \in YieldPoints \cup {"eoi"} : Goto(to)
  BY DEF Tick, YieldPoints
<1>2. UNCHANGED <<ringVars, killed, suspended, live, current_task, cpu, scan,
                  in_service, demoVars, ghostVars>>
  BY DEF Tick
<1>3. irq_pc[cpu] = "tick" \/ task_pc[cpu] = "tick"
  BY DEF Tick, At, Here
<1>4. Level = "irq" /\ irq_pc[cpu] = "tick"
  BY <1>0, <1>3 DEF FrameType, Level, TaskPoints, YieldPoints, Tick, At, Here
<1>5. Moves(to)
  BY <1>1, <1>2, <1>4 DEF Moves, TimerPoints, demoVars
<1>6. FrameType' /\ StartOK' /\ OnePreempted'
  BY <1>0, <1>2, <1>5, MoveInv DEF FrameType
<1>7. wake_in' \in [AllTasks -> 0..MaxSleep]
  BY BoundAssumption DEF Tick, LessOne, IInv, TypeOK, TaskType
<1>8. tick_counter' \in 0..TickSlice
  BY BoundAssumption DEF Tick, IInv, TypeOK, TaskType
<1> QED
  BY <1>2, <1>6, <1>7, <1>8 DEF IInv, TypeOK, RingType, TaskType, DemoType, CountOK,
     ringVars, demoVars, ghostVars

\* A handler starts on the CPU's own stack: a timer handler with IRQ0 put in
\* service, or multitask_start from the keyboard's.
LEMMA EnterInv ==
    ASSUME IInv, Interruptible, NEW to \in {"tick", "start"},
           irq_pc' = [irq_pc EXCEPT ![cpu] = to],
           in_service' \in BOOLEAN, to = "tick" => in_service',
           UNCHANGED <<cpu, scan, task_pc, made, tried>>
    PROVE  FrameType' /\ StartOK' /\ OnePreempted'
<1>1. FrameType /\ StartOK /\ OnePreempted
  BY DEF IInv, TypeOK
<1>2. irq_pc[cpu] = "none" /\ ~in_service
  BY DEF Interruptible, Level
<1>3. \A t \in AllTasks : irq_pc[t] = "none"
  BY <1>1, <1>2 DEF OnePreempted, StartOK, FrameType, IrqPoints
<1>4. FrameType'
  BY <1>1 DEF FrameType, IrqPoints, TimerPoints
<1>5. StartOK'
  BY <1>1, <1>3 DEF StartOK, FrameType
<1>6. OnePreempted'
  BY <1>1, <1>3 DEF OnePreempted, FrameType, TimerPoints, YieldPoints
<1> QED
  BY <1>4, <1>5, <1>6

\* A handler ends, and hlt with it.
LEMMA LeaveInv ==
    ASSUME IInv, NEW point, task_pc' = [task_pc EXCEPT ![cpu] = Wake(@)],
           irq_pc' = [irq_pc EXCEPT ![cpu] = "none"],
           in_service' \in BOOLEAN,
           in_service' = in_service \/ irq_pc[cpu] \in TimerPoints,
           made' <= tried',
           UNCHANGED <<cpu, scan>>
    PROVE  FrameType' /\ StartOK' /\ OnePreempted'
<1>1. FrameType /\ StartOK /\ OnePreempted
  BY DEF IInv, TypeOK
<1>2. FrameType'
  BY <1>1 DEF FrameType, Wake, TaskPoints, IrqPoints
<1>3. StartOK'
  BY <1>1 DEF StartOK, FrameType
<1>4. OnePreempted'
  BY <1>1 DEF OnePreempted, FrameType, TimerPoints, YieldPoints
<1> QED
  BY <1>2, <1>3, <1>4

LEMMA EoiInv == ASSUME IInv, Eoi PROVE IInv'
<1>1. irq_pc[cpu] = "eoi" /\ "eoi" \in TimerPoints
  BY DEF Eoi, At, Here, Level, IInv, TypeOK, FrameType, TaskPoints, YieldPoints, TimerPoints
<1>2. FrameType' /\ StartOK' /\ OnePreempted'
  BY <1>1, LeaveInv DEF Eoi, AfterEoi, demoVars, IInv, StartOK
<1> QED
  BY <1>2 DEF Eoi, IInv, TypeOK, RingType, TaskType, DemoType, CountOK,
     ringVars, taskVars, demoVars, ghostVars

LEMMA TimerInv == ASSUME IInv, TimerIrq PROVE IInv'
<1>1. FrameType' /\ StartOK' /\ OnePreempted'
  BY EnterInv DEF TimerIrq, demoVars
<1> QED
  BY <1>1 DEF TimerIrq, IInv, TypeOK, RingType, TaskType, DemoType, CountOK,
     ringVars, taskVars, demoVars, ghostVars

LEMMA StartKeyInv == ASSUME IInv, StartKey PROVE IInv'
<1>1. in_service' \in BOOLEAN
  BY DEF StartKey, IInv, TypeOK, FrameType
<1>2. FrameType' /\ StartOK' /\ OnePreempted'
  BY <1>1, EnterInv DEF StartKey
<1> QED
  BY <1>2 DEF StartKey, IInv, TypeOK, RingType, TaskType, DemoType, CountOK,
     ringVars, taskVars, ghostVars

\* The keyboard handlers that return at once.
LEMMA KeyFrame ==
    ASSUME IInv, Interruptible, task_pc' = [task_pc EXCEPT ![cpu] = Wake(@)],
           UNCHANGED <<cpu, scan, irq_pc, in_service, made, tried>>
    PROVE  FrameType' /\ StartOK' /\ OnePreempted'
<1>1. FrameType /\ StartOK /\ OnePreempted
  BY DEF IInv, TypeOK
<1>2. FrameType'
  BY <1>1 DEF FrameType, Wake, TaskPoints
<1> QED
  BY <1>1, <1>2 DEF StartOK, OnePreempted

LEMMA StopKeyInv == ASSUME IInv, StopKey PROVE IInv'
<1>1. FrameType' /\ StartOK' /\ OnePreempted'
  BY KeyFrame DEF StopKey
<1> QED
  BY <1>1 DEF StopKey, IInv, TypeOK, RingType, TaskType, DemoType, CountOK,
     ringVars, taskVars, ghostVars

LEMMA ExecKeyInv == ASSUME IInv, NEW p \in Programs, ExecKey(p) PROVE IInv'
<1>1. CASE Undefined
  BY <1>1, UndefinedInv
<1>2. CASE ~Undefined
  <2>1. /\ TailOK /\ ListAdd(p) /\ p \notin live /\ p \in Slots
        /\ live' = live \cup {p}
        /\ task_pc' = [task_pc EXCEPT ![cpu] = Wake(@)]
        /\ UNCHANGED <<killed, suspended, wake_in, irq_pc, scan, steadyVars>>
    BY <1>2 DEF ExecKey, Slots
  <2>2. FrameType' /\ StartOK' /\ OnePreempted'
    BY <2>1, KeyFrame DEF ExecKey, steadyVars, demoVars
  <2>3. RingType'
    BY <2>1, ListAddType DEF IInv, TypeOK
  <2>4. CountOK'
    BY <2>1, CountAdd DEF IInv, TypeOK, ListAdd
  <2>5. TaskType'
    BY <2>1 DEF IInv, TypeOK, TaskType, steadyVars
  <2> QED
    BY <2>1, <2>2, <2>3, <2>4, <2>5 DEF IInv, TypeOK, DemoType, steadyVars,
       demoVars, ghostVars
<1> QED
  BY <1>1, <1>2

LEMMA StartOneInv == ASSUME IInv, StartOne PROVE IInv'
<1>0. /\ made \in 0..DemoCount /\ tried \in 0..DemoCount /\ made <= tried
      /\ tried < DemoCount
  BY DEF IInv, TypeOK, DemoType, StartOK, StartOne
<1>1. CASE Undefined
  BY <1>1, UndefinedInv
<1>2. CASE /\ tried' = tried + 1
           /\ UNCHANGED <<ringVars, taskVars, current_task, tick_counter,
                          frameVars, in_service, demo_running, stop_requested,
                          callback, pump, made, ghostVars>>
  <2>1. tried' \in 0..DemoCount /\ made' <= tried' /\ made' \in 0..DemoCount
    BY <1>0, <1>2, BoundAssumption
  <2> QED
    BY <1>2, <2>1 DEF IInv, TypeOK, RingType, TaskType, FrameType, DemoType, CountOK,
       StartOK, OnePreempted, ringVars, taskVars, frameVars, ghostVars
<1>3. ASSUME NEW d \in Demos \ live, TailOK,
             tried' = tried + 1,
             made' = made + 1,
             live' = live \cup {d},
             ListAdd(d),
             UNCHANGED <<killed, suspended, wake_in, current_task,
                         tick_counter, frameVars, in_service, demo_running,
                         stop_requested, callback, pump, ghostVars>>
      PROVE  IInv'
  <2>1. /\ tried' \in 0..DemoCount /\ made' <= tried' /\ made' \in 0..DemoCount
        /\ d \in Slots \ live
    BY <1>0, <1>3, BoundAssumption DEF Slots
  <2>2. RingType'
    BY <1>3, <2>1, ListAddType DEF IInv, TypeOK
  <2>3. CountOK'
    BY <1>3, <2>1, CountAdd DEF IInv, TypeOK, ListAdd
  <2>4. TaskType' /\ FrameType' /\ OnePreempted'
    BY <1>3, <2>1 DEF IInv, TypeOK, TaskType, FrameType, OnePreempted, frameVars
  <2>5. StartOK'
    BY <1>3, <2>1 DEF IInv, StartOK, frameVars
  <2> QED
    BY <1>3, <2>1, <2>2, <2>3, <2>4, <2>5 DEF IInv, TypeOK, DemoType, ghostVars
<1> QED
  BY <1>1, <1>2, <1>3 DEF StartOne

LEMMA StartEndInv == ASSUME IInv, StartEnd PROVE IInv'
<1>1. irq_pc[cpu] = "start"
  BY DEF StartEnd, At, Here, Level, IInv, TypeOK, FrameType, TaskPoints, YieldPoints
<1>2. irq_pc[cpu] \notin TimerPoints
  BY <1>1 DEF TimerPoints, YieldPoints
<1>3. FrameType' /\ StartOK' /\ OnePreempted'
  BY <1>2, LeaveInv DEF StartEnd, IInv, TypeOK, FrameType
<1>4. 0 \in 0..DemoCount
  BY BoundAssumption
<1> QED
  BY <1>3, <1>4 DEF StartEnd, IInv, TypeOK, RingType, TaskType, DemoType, CountOK,
     ringVars, taskVars, ghostVars

-----------------------------------------------------------------------------
\* The tasks' own code moves its frame and changes flags, never the ring.

LEMMA TaskFrame ==
    ASSUME IInv, NEW from, AtTask(from), NEW to \in TaskPoints, Goto(to),
           UNCHANGED <<ringVars, live, scan, current_task, tick_counter, cpu,
                       in_service, made, tried>>,
           killed' \subseteq AllTasks, suspended' \subseteq AllTasks,
           wake_in' \in [AllTasks -> 0..MaxSleep]
    PROVE  /\ RingType' /\ TaskType' /\ FrameType'
           /\ CountOK' /\ StartOK' /\ OnePreempted'
<1>1. FrameType
  BY DEF IInv, TypeOK
<1>2. Moves(to)
  BY <1>1, TaskMoves
<1>3. FrameType' /\ StartOK' /\ OnePreempted'
  BY <1>1, <1>2, MoveInv DEF FrameType
<1> QED
  BY <1>3 DEF IInv, TypeOK, RingType, TaskType, CountOK, ringVars

\* What a task can have called when it moves on.
LEMMA CallFacts ==
    ASSUME IInv,
           KillSelf \/ Yield \/ \E jiffies \in 0..MaxSleep : SetWake(jiffies)
    PROVE  /\ \E to \in TaskPoints : Goto(to)
           /\ killed' \subseteq AllTasks /\ suspended' \subseteq AllTasks
           /\ wake_in' \in [AllTasks -> 0..MaxSleep]
<1>1. CASE KillSelf
  BY <1>1 DEF KillSelf, AfterKill, TaskPoints, IInv, TypeOK, TaskType
<1>2. CASE Yield
  BY <1>2 DEF Yield, TaskPoints, YieldPoints, IInv, TypeOK, TaskType
<1>3. ASSUME NEW jiffies \in 0..MaxSleep, SetWake(jiffies)
      PROVE  /\ \E to \in TaskPoints : Goto(to)
             /\ killed' \subseteq AllTasks /\ suspended' \subseteq AllTasks
             /\ wake_in' \in [AllTasks -> 0..MaxSleep]
  BY <1>3 DEF SetWake, TaskPoints, IInv, TypeOK, TaskType
<1> QED
  BY <1>1, <1>2, <1>3

LEMMA ProgramInv == ASSUME IInv, Program \/ Demo PROVE IInv'
<1>1. /\ AtTask("run")
      /\ UNCHANGED <<ringVars, live, scan, steadyVars>>
      /\ KillSelf \/ Yield \/ \E jiffies \in 0..MaxSleep : SetWake(jiffies)
  BY DEF Program, Demo, DemoBody
<1>2. PICK to \in TaskPoints : Goto(to)
  BY <1>1, CallFacts
<1>3. /\ RingType' /\ TaskType' /\ FrameType'
      /\ CountOK' /\ StartOK' /\ OnePreempted'
  BY <1>1, <1>2, CallFacts, TaskFrame DEF steadyVars, demoVars
<1> QED
  BY <1>1, <1>3 DEF IInv, TypeOK, DemoType, steadyVars, demoVars, ghostVars

LEMMA ExitInv == ASSUME IInv, Exit PROVE IInv'
<1>1. /\ AtTask("exit") /\ Goto("scan") /\ "scan" \in TaskPoints
      /\ UNCHANGED <<ringVars, taskVars, scan, steadyVars>>
  BY DEF Exit, TaskPoints, YieldPoints
<1>2. /\ killed' \subseteq AllTasks /\ suspended' \subseteq AllTasks
      /\ wake_in' \in [AllTasks -> 0..MaxSleep]
  BY <1>1 DEF taskVars, IInv, TypeOK, TaskType
<1>3. /\ RingType' /\ TaskType' /\ FrameType'
      /\ CountOK' /\ StartOK' /\ OnePreempted'
  BY <1>1, <1>2, TaskFrame DEF taskVars, steadyVars, demoVars
<1> QED
  BY <1>1, <1>3 DEF IInv, TypeOK, DemoType, steadyVars, demoVars, ghostVars

LEMMA SleepInv == ASSUME IInv, Sleep PROVE IInv'
<1>1. /\ AtTask("sleep") /\ Goto("scan") /\ "scan" \in TaskPoints
      /\ UNCHANGED <<ringVars, killed, wake_in, live, scan, steadyVars>>
  BY DEF Sleep, TaskPoints, YieldPoints
<1>2. /\ killed' \subseteq AllTasks /\ suspended' \subseteq AllTasks
      /\ wake_in' \in [AllTasks -> 0..MaxSleep]
  BY <1>1 DEF Sleep, IInv, TypeOK, TaskType
<1>3. /\ RingType' /\ TaskType' /\ FrameType'
      /\ CountOK' /\ StartOK' /\ OnePreempted'
  BY <1>1, <1>2, TaskFrame DEF steadyVars, demoVars
<1> QED
  BY <1>1, <1>3 DEF IInv, TypeOK, DemoType, steadyVars, demoVars, ghostVars

LEMMA MainLoopInv == ASSUME IInv, MainLoop PROVE IInv'
<1>1. /\ AtTask("run")
      /\ UNCHANGED <<ringVars, taskVars, current_task, tick_counter, cpu, scan,
                     in_service, stop_requested, made, tried, ghostVars>>
  BY DEF MainLoop
<1>2. /\ killed' \subseteq AllTasks /\ suspended' \subseteq AllTasks
      /\ wake_in' \in [AllTasks -> 0..MaxSleep]
  BY <1>1 DEF taskVars, IInv, TypeOK, TaskType
<1>3. /\ demo_running' \in BOOLEAN /\ callback' \in {"shell", "demo"}
      /\ pump' \in 0..StopYields
  <2>1. demo_running' \in BOOLEAN /\ callback' \in {"shell", "demo"}
    BY Zenon DEF MainLoop, IInv, TypeOK, DemoType
  <2>2. pump' = pump \/ pump' = StopYields \/ pump' = 0 \/ (pump > 1 /\ pump' = pump - 1)
    BY Zenon DEF MainLoop
  <2>3. pump \in 0..StopYields
    BY DEF IInv, TypeOK, DemoType
  <2>4. pump' \in 0..StopYields
    BY <2>2, <2>3, BoundAssumption
  <2> QED
    BY <2>1, <2>4
<1>4. /\ RingType' /\ TaskType' /\ FrameType'
      /\ CountOK' /\ StartOK' /\ OnePreempted'
  <2>1. CASE \E to \in TaskPoints : Goto(to)
    BY <1>1, <1>2, <2>1, TaskFrame DEF taskVars
  <2>2. CASE UNCHANGED <<task_pc, irq_pc>>
    BY <1>1, <2>2 DEF IInv, TypeOK, RingType, TaskType, FrameType, CountOK, StartOK,
       OnePreempted, ringVars, taskVars
  <2> QED
    BY <2>1, <2>2 DEF MainLoop, TaskPoints, YieldPoints
<1> QED
  BY <1>1, <1>3, <1>4 DEF IInv, TypeOK, DemoType, ghostVars

-----------------------------------------------------------------------------
\* Every step keeps the invariant: one step per action of Next.
LEMMA NextInv == ASSUME IInv, [Next]_vars PROVE IInv'
<1>1. CASE SchedStep
  BY <1>1, ScanInv, TestInv, UnlinkPrevInv, UnlinkNextInv, FreeInv, PickInv, SwitchInv
  DEF SchedStep
<1>2. CASE IrqStep
  BY <1>2, TickInv, EoiInv, StartOneInv, StartEndInv DEF IrqStep
<1>3. CASE TaskStep
  BY <1>3, ProgramInv, ExitInv, SleepInv, MainLoopInv DEF TaskStep
<1>4. CASE TimerIrq
  BY <1>4, TimerInv
<1>5. CASE Key
  BY <1>5, StopKeyInv, ExecKeyInv, StartKeyInv DEF Key
<1>6. CASE UNCHANGED vars
  BY <1>6 DEF vars, ringVars, taskVars, frameVars, demoVars, ghostVars, IInv, TypeOK,
     RingType, TaskType, FrameType, DemoType, CountOK, StartOK, OnePreempted
<1> QED
  BY <1>1, <1>2, <1>3, <1>4, <1>5, <1>6 DEF Next, CpuStep

THEOREM Invariance == Spec => []IInv
<1>1. Init => IInv
  BY InitInv
<1>2. IInv /\ [Next]_vars => IInv'
  BY NextInv
<1> QED
  BY <1>1, <1>2, PTL DEF Spec

\* Every variable keeps its type, for any number of tasks and any interleaving of
\* ticks, keys and tasks, the undefined ones included.
THEOREM TypeCorrect == Spec => []TypeOK
<1>1. IInv => TypeOK
  BY DEF IInv
<1> QED
  BY <1>1, Invariance, PTL

\* The task preempted before its EOI keeps every other task from being preempted:
\* interrupt handlers never nest, on one stack or across stacks.
THEOREM AtMostOnePreempted == Spec => []OnePreempted
<1>1. IInv => OnePreempted
  BY DEF IInv
<1> QED
  BY <1>1, Invariance, PTL

\* task_count is one more than the number of allocated tasks, so it never reaches
\* zero and the early return of list_remove is dead code.
THEOREM CountCorrect == Spec => [](CountOK /\ task_count > 0)
<1>1. IInv => CountOK /\ task_count > 0
  <2> SUFFICES ASSUME IInv PROVE CountOK /\ task_count > 0
    OBVIOUS
  <2>1. IsFiniteSet(live)
    BY FiniteAssumption, FS_Subset DEF IInv, TypeOK, TaskType, Slots
  <2>2. Cardinality(live) \in Nat
    BY <2>1, FS_CardinalityType
  <2> QED
    BY <2>2 DEF IInv, CountOK
<1> QED
  BY <1>1, Invariance, PTL


-----------------------------------------------------------------------------
\* The ring of tasks.

InRing == live \cup {Idle}

\* The sched_yield or sched_tick in progress on this stack: the task-level one
\* when there is one, whatever an interrupt does above it.
Outer == IF task_pc[cpu] \in YieldPoints THEN "task" ELSE "irq"
Pc == IF Outer = "task" THEN task_pc[cpu] ELSE irq_pc[cpu]
Mine == scan[cpu][Outer]

\* An interrupt above a task-level sched_yield has stored to the ring, or is about
\* to switch: its next step but one sets hit.
BusyRemove == Outer = "task" /\ irq_pc[cpu] \in {"unlink_next", "free"}
Torn == Outer = "task" /\ irq_pc[cpu] \in {"unlink_next", "free", "switch"}

-----------------------------------------------------------------------------
\* Ranks: t comes after s in the ring S.
After(rank, S, s, t) ==
    \/ rank[s] < rank[t] /\ \A u \in S : ~(rank[s] < rank[u] /\ rank[u] < rank[t])
    \/ t = Idle /\ \A u \in S : rank[u] <= rank[s]

Ranked(rank, S) ==
    /\ rank \in [AllTasks -> Nat]
    /\ rank[Idle] = 0
    /\ S \subseteq AllTasks /\ Idle \in S
    /\ \A s, t \in S : rank[s] = rank[t] => s = t

Forward(rank, S, next) == \A t \in S : next[t] \in S /\ After(rank, S, t, next[t])
Backward(rank, S, last) == \A t \in S : last[t] \in S /\ After(rank, S, last[t], t)

\* A task has one successor and one predecessor.
LEMMA NextUnique ==
    ASSUME NEW rank, NEW S, Ranked(rank, S), NEW s \in S, NEW t \in S, NEW u \in S,
           After(rank, S, s, t), After(rank, S, s, u)
    PROVE  t = u
<1>1. rank[s] \in Nat /\ rank[t] \in Nat /\ rank[u] \in Nat
  BY DEF Ranked
<1>2. CASE rank[s] < rank[t] /\ rank[s] < rank[u]
  <2>1. ~(t = Idle) /\ ~(u = Idle)
    BY <1>1, <1>2 DEF Ranked
  <2>2. ~(rank[u] < rank[t]) /\ ~(rank[t] < rank[u])
    BY <1>2, <2>1 DEF After
  <2> QED
    BY <1>1, <2>2 DEF Ranked
<1>3. CASE ~(rank[s] < rank[t]) \/ ~(rank[s] < rank[u])
  BY <1>1, <1>3 DEF After
<1> QED
  BY <1>2, <1>3

LEMMA LastUnique ==
    ASSUME NEW rank, NEW S, Ranked(rank, S), NEW s \in S, NEW t \in S, NEW u \in S,
           After(rank, S, s, t), After(rank, S, u, t)
    PROVE  s = u
<1>1. rank[s] \in Nat /\ rank[t] \in Nat /\ rank[u] \in Nat
  BY DEF Ranked
<1>2. CASE t = Idle
  <2>1. rank[t] = 0
    BY <1>2 DEF Ranked
  <2>2. rank[u] <= rank[s] /\ rank[s] <= rank[u]
    BY <1>1, <2>1 DEF After
  <2> QED
    BY <1>1, <2>2 DEF Ranked
<1>3. CASE t # Idle
  <2>1. ~(rank[s] < rank[u]) /\ ~(rank[u] < rank[s])
    BY <1>3 DEF After
  <2> QED
    BY <1>1, <2>1 DEF Ranked
<1> QED
  BY <1>2, <1>3

\* No task but a lone idle task follows itself.
LEMMA NotOwnNext ==
    ASSUME NEW rank, NEW S, Ranked(rank, S), NEW s \in S \ {Idle}, NEW t \in S,
           After(rank, S, s, t) \/ After(rank, S, t, s)
    PROVE  t # s
BY DEF After, Ranked

LEMMA Shrink ==
    ASSUME NEW rank, NEW S, NEW T, T \subseteq S, NEW s, NEW t, After(rank, S, s, t)
    PROVE  After(rank, T, s, t)
BY DEF After

LEMMA RankedSubset ==
    ASSUME NEW rank, NEW S, Ranked(rank, S), NEW v \in S \ {Idle}
    PROVE  Ranked(rank, S \ {v})
BY DEF Ranked

\* Without v, the task after v comes after the one before it.
LEMMA Bridge ==
    ASSUME NEW rank, NEW S, Ranked(rank, S), NEW v \in S \ {Idle}, NEW p \in S, NEW n \in S,
           After(rank, S, p, v), After(rank, S, v, n)
    PROVE  After(rank, S \ {v}, p, n)
<1>1. /\ rank[p] \in Nat /\ rank[v] \in Nat /\ rank[n] \in Nat
      /\ \A u \in S : rank[u] \in Nat
  BY DEF Ranked
<1>2. rank[p] < rank[v] /\ \A u \in S : ~(rank[p] < rank[u] /\ rank[u] < rank[v])
  BY DEF After
<1>3. \A u \in S \ {v} : rank[u] # rank[v]
  BY DEF Ranked
<1>4. CASE rank[v] < rank[n] /\ \A u \in S : ~(rank[v] < rank[u] /\ rank[u] < rank[n])
  <2>1. rank[p] < rank[n]
    BY <1>1, <1>2, <1>4
  <2>2. ASSUME NEW u \in S \ {v}, rank[p] < rank[u], rank[u] < rank[n]
        PROVE  FALSE
    BY <2>2, <1>1, <1>2, <1>3, <1>4
  <2> QED
    BY <2>1, <2>2 DEF After
<1>5. CASE n = Idle /\ \A u \in S : rank[u] <= rank[v]
  <2>1. ASSUME NEW u \in S \ {v}
        PROVE  rank[u] <= rank[p]
    BY <2>1, <1>1, <1>2, <1>3, <1>5
  <2> QED
    BY <1>5, <2>1 DEF After
<1> QED
  BY <1>4, <1>5 DEF After

-----------------------------------------------------------------------------
\* list_remove's first store: the forward links without v.
LEMMA RemoveForward ==
    ASSUME NEW rank, NEW S, Ranked(rank, S), NEW v \in S \ {Idle},
           NEW next, NEW last, NEW next2,
           Forward(rank, S, next), Backward(rank, S, last),
           next2[last[v]] = next[v],
           \A t \in S : t # last[v] => next2[t] = next[t]
    PROVE  Forward(rank, S \ {v}, next2)
<1> DEFINE p == last[v]
           n == next[v]
<1>1. /\ p \in S /\ n \in S
      /\ After(rank, S, p, v) /\ After(rank, S, v, n)
  BY DEF Forward, Backward
<1>2. p # v /\ n # v
  BY <1>1, NotOwnNext
<1>3. After(rank, S \ {v}, p, n)
  BY <1>1, Bridge
<1>4. SUFFICES ASSUME NEW t \in S \ {v}
      PROVE  next2[t] \in S \ {v} /\ After(rank, S \ {v}, t, next2[t])
  BY DEF Forward
<1>5. CASE t = p
  BY <1>1, <1>2, <1>3, <1>5
<1>6. CASE t # p
  <2>1. next2[t] = next[t] /\ next[t] \in S /\ After(rank, S, t, next[t])
    BY <1>6 DEF Forward
  <2>2. next[t] # v
    BY <2>1, <1>1, <1>6, LastUnique
  <2> QED
    BY <2>1, <2>2, Shrink
<1> QED
  BY <1>5, <1>6

\* list_remove's second store: the backward links without v.
LEMMA RemoveBackward ==
    ASSUME NEW rank, NEW S, Ranked(rank, S), NEW v \in S \ {Idle}, NEW n \in S,
           NEW last, NEW last2,
           After(rank, S, v, n), Backward(rank, S, last),
           last2[n] = last[v],
           \A t \in S : t # n => last2[t] = last[t]
    PROVE  Backward(rank, S \ {v}, last2)
<1> DEFINE p == last[v]
<1>1. p \in S /\ After(rank, S, p, v)
  BY DEF Backward
<1>2. p # v /\ n # v
  BY <1>1, NotOwnNext
<1>3. After(rank, S \ {v}, p, n)
  BY <1>1, Bridge
<1>4. SUFFICES ASSUME NEW t \in S \ {v}
      PROVE  last2[t] \in S \ {v} /\ After(rank, S \ {v}, last2[t], t)
  BY DEF Backward
<1>5. CASE t = n
  BY <1>1, <1>2, <1>3, <1>5
<1>6. CASE t # n
  <2>1. last2[t] = last[t] /\ last[t] \in S /\ After(rank, S, last[t], t)
    BY <1>6 DEF Backward
  <2>2. last[t] # v
    BY <2>1, <1>6, NextUnique
  <2> QED
    BY <2>1, <2>2, Shrink
<1> QED
  BY <1>5, <1>6

\* list_add links t in before the idle task; its rank is above all others.
Appended(S, t, next, last, next2, last2) ==
    /\ next2[last[Idle]] = t /\ next2[t] = Idle
    /\ \A s \in S : s # last[Idle] => next2[s] = next[s]
    /\ last2[Idle] = t /\ last2[t] = last[Idle]
    /\ \A s \in S : s # Idle => last2[s] = last[s]

Raised(rank, S, t, tail, rank2) ==
    /\ rank2 \in [AllTasks -> Nat]
    /\ rank2[t] = rank[tail] + 1
    /\ \A s \in S : rank2[s] = rank[s]

LEMMA AddTask ==
    ASSUME NEW rank, NEW S, Ranked(rank, S), NEW t \in AllTasks \ S,
           NEW next, NEW last, NEW next2, NEW last2, NEW rank2,
           Forward(rank, S, next), Backward(rank, S, last),
           Raised(rank, S, t, last[Idle], rank2),
           Appended(S, t, next, last, next2, last2)
    PROVE  /\ Ranked(rank2, S \cup {t})
           /\ Forward(rank2, S \cup {t}, next2)
           /\ Backward(rank2, S \cup {t}, last2)
<1> DEFINE z == last[Idle]
           S2 == S \cup {t}
<1>1. Idle \in S /\ z \in S /\ After(rank, S, z, Idle) /\ S \subseteq AllTasks
  BY DEF Backward, Ranked
<1>2. \A u \in S : rank[u] \in Nat
  BY DEF Ranked
<1>3. \A u \in S : rank[u] <= rank[z]
  BY <1>1, <1>2 DEF After, Ranked
<1>4. /\ rank2[t] = rank[z] + 1
      /\ \A u \in S : rank2[u] = rank[u]
      /\ \A u \in S : rank2[u] < rank2[t]
  BY <1>1, <1>2, <1>3 DEF Ranked, Raised
<1>5. /\ rank2 \in [AllTasks -> Nat]
      /\ next2[z] = t /\ next2[t] = Idle /\ \A s \in S : s # z => next2[s] = next[s]
      /\ last2[Idle] = t /\ last2[t] = z /\ \A s \in S : s # Idle => last2[s] = last[s]
  BY DEF Raised, Appended
<1>6. Ranked(rank2, S2)
  <2>1. ASSUME NEW s \in S2, NEW u \in S2, rank2[s] = rank2[u] PROVE s = u
    BY <2>1, <1>2, <1>4 DEF Ranked
  <2> QED
    BY <1>1, <1>4, <1>5, <2>1 DEF Ranked
<1>7. ASSUME NEW s \in S, NEW u \in S, rank[s] < rank[u], After(rank, S, s, u)
      PROVE  After(rank2, S2, s, u)
  <2>1. \A w \in S : ~(rank[s] < rank[w] /\ rank[w] < rank[u])
    BY <1>7, <1>2 DEF After, Ranked
  <2>2. rank2[s] < rank2[u]
    BY <1>4, <1>7
  <2>3. ASSUME NEW w \in S2, rank2[s] < rank2[w], rank2[w] < rank2[u] PROVE FALSE
    <3>1. w # t
      BY <2>3, <1>1, <1>2, <1>4
    <3> QED
      BY <2>1, <2>3, <3>1, <1>4
  <2> QED
    BY <2>2, <2>3 DEF After
<1>8. After(rank2, S2, z, t)
  BY <1>1, <1>2, <1>3, <1>4 DEF After
<1>9. After(rank2, S2, t, Idle)
  BY <1>1, <1>2, <1>4 DEF After
<1>10. Forward(rank2, S2, next2)
  <2>1. SUFFICES ASSUME NEW s \in S2
        PROVE  next2[s] \in S2 /\ After(rank2, S2, s, next2[s])
    BY DEF Forward
  <2>2. CASE s = t
    BY <2>2, <1>1, <1>5, <1>9
  <2>3. CASE s = z
    BY <2>3, <1>5, <1>8
  <2>4. CASE s # t /\ s # z
    <3>1. s \in S /\ next2[s] = next[s] /\ next[s] \in S /\ After(rank, S, s, next[s])
      BY <2>4, <1>5 DEF Forward
    <3>2. rank[s] # rank[z]
      BY <2>4, <3>1, <1>1 DEF Ranked
    <3>3. rank[s] < rank[next[s]]
      BY <3>1, <3>2, <1>1, <1>2, <1>3 DEF After
    <3> QED
      BY <3>1, <3>3, <1>7
  <2> QED
    BY <2>2, <2>3, <2>4
<1>11. Backward(rank2, S2, last2)
  <2>1. SUFFICES ASSUME NEW s \in S2
        PROVE  last2[s] \in S2 /\ After(rank2, S2, last2[s], s)
    BY DEF Backward
  <2>2. CASE s = t
    BY <2>2, <1>1, <1>5, <1>8
  <2>3. CASE s = Idle
    BY <2>3, <1>5, <1>9
  <2>4. CASE s # t /\ s # Idle
    <3>1. s \in S /\ last2[s] = last[s] /\ last[s] \in S /\ After(rank, S, last[s], s)
      BY <2>4, <1>5 DEF Backward
    <3>2. rank[last[s]] < rank[s]
      BY <2>4, <3>1 DEF After
    <3> QED
      BY <3>1, <3>2, <1>7
  <2> QED
    BY <2>2, <2>3, <2>4
<1> QED
  BY <1>6, <1>10, <1>11

-----------------------------------------------------------------------------
\* The tasks list_remove has unlinked one way, and both ways but not yet freed.
Unlinking == IF Pc = "unlink_next" THEN {Mine.victim} ELSE {}
Freeing == IF Pc = "free" THEN {Mine.victim} ELSE {}

\* The links follow the ranks, between the two stores of list_remove as well.
Linked(rank, U, F) ==
    /\ task_list_head = Idle
    /\ Forward(rank, InRing \ (U \cup F), next_task)
    /\ Backward(rank, InRing \ F, last_task)
    /\ \A v \in U : next_task[v] \in InRing /\ After(rank, InRing, v, next_task[v])

\* sched_next's loop has the idle task or a task it has not met yet in hand.
Ahead(rank, t) == t = Idle \/ rank[t] > rank[cpu]

\* A loop over the ring S has come to t on its first lap: it began at t or before it.
FirstLap(rank, S, start, t) == start # Idle /\ (start \in S => rank[start] <= rank[t])
Beyond(rank, s, t) == t = Idle \/ rank[s] < rank[t]

\* The locals of sched_next and its caller, where they will still be used.
LocalsOK(rank) ==
    /\ Pc = "test" =>
         /\ Mine.t \in InRing /\ Ahead(rank, Mine.t)
         /\ Mine.t = Idle \/ FirstLap(rank, InRing, Mine.start, Mine.t)
    /\ Pc \in {"unlink_prev", "unlink_next", "free"} =>
         /\ Mine.victim \in live \cap killed /\ rank[Mine.victim] > rank[cpu]
         /\ Mine.t \in InRing \ {Mine.victim} /\ Ahead(rank, Mine.t)
         /\ FirstLap(rank, InRing, Mine.start, Mine.victim)
         /\ Beyond(rank, Mine.victim, Mine.t)
    /\ Pc \in {"pick", "switch"} =>
         Mine.t \in InRing \ (suspended \cup killed) /\ Ahead(rank, Mine.t)
    /\ Pc = "switch" => Mine.prev = cpu

\* current_task is the task the CPU is on, but for the instant before the switch.
CurrentOK == current_task = IF Pc = "switch" THEN Mine.t ELSE cpu

\* A stack the CPU has left is not inside sched_yield: it will return from it.
FramesOK ==
    \A t \in AllTasks \ {cpu} : task_pc[t] \notin YieldPoints /\ irq_pc[t] \in {"none", "eoi"}

TasksOK ==
    /\ cpu \in InRing
    /\ killed \subseteq live /\ suspended \subseteq live
    /\ \A t \in killed : task_pc[t] \in YieldPoints \cup {"exit"}
    /\ task_pc[Idle] # "sleep"

\* While the keyboard belongs to the shell no demo runs, the main loop does not
\* yield, and it is the only task an interrupt can be taken on: a key never adds
\* a task while another is being removed.
KeysOK ==
    /\ irq_pc[cpu] = "start" => callback = "shell"
    /\ pump > 0 => ~demo_running
    /\ callback = "shell" =>
        /\ task_pc[Idle] \in {"run", "hlt"} /\ pump = 0
        /\ demo_running => irq_pc[Idle] = "start"
        /\ cpu # Idle => irq_pc[Idle] = "eoi"

RingInv(rank) ==
    /\ Ranked(rank, InRing)
    /\ Torn \/ (LocalsOK(rank) /\ CurrentOK)
    /\ BusyRemove \/ Linked(rank, Unlinking, Freeing)

CalmAt(rank) ==
    /\ ~ub /\ FramesOK /\ TasksOK /\ KeysOK
    /\ rank \in [AllTasks -> Nat] /\ RingInv(rank)

Calm == \E rank : CalmAt(rank)

\* The ranks of the tasks in the ring stay; a new task may have got one.
Extends(rank, rank2) == \A t \in InRing : rank2[t] = rank[t]

SInv == IInv /\ (hit \/ Calm)

-----------------------------------------------------------------------------
\* Where the prover is told what the code's conditions mean.

\* Program points sched_next and its caller reach with locals they will use.
Scanning == {"test", "unlink_prev", "unlink_next", "free", "pick", "switch"}

LEMMA Points ==
    /\ YieldPoints = Scanning \cup {"scan"}
    /\ "none" \notin YieldPoints /\ "tick" \notin YieldPoints /\ "eoi" \notin YieldPoints
    /\ "start" \notin YieldPoints /\ "run" \notin YieldPoints /\ "hlt" \notin YieldPoints
    /\ "exit" \notin YieldPoints /\ "sleep" \notin YieldPoints
BY DEF YieldPoints, Scanning

LEMMA RingTypes ==
    ASSUME IInv
    PROVE  /\ InRing \subseteq AllTasks /\ Idle \in InRing /\ Idle \notin live
           /\ \A t : t \in InRing => Allocated(t)
           /\ cpu \in AllTasks
BY SlotAssumption DEF IInv, TypeOK, TaskType, FrameType, InRing, AllTasks, Slots, Allocated

\* sched_next at point p on a stack where no interrupt cuts into a sched_yield.
LEMMA Alone ==
    ASSUME NEW p \in YieldPoints, At(p), ~Hit
    PROVE  /\ Outer = Level /\ Pc = p /\ Mine = Local /\ ~Torn /\ ~BusyRemove
           /\ Level = "irq" => task_pc[cpu] \notin YieldPoints
           /\ Level = "task" => irq_pc[cpu] = "none"
BY DEF At, Here, Hit, Outer, Pc, Mine, Local, Torn, BusyRemove, Level

\* Above a task-level sched_yield, an interrupt handler leaves its locals alone.
LEMMA Cut ==
    ASSUME IInv, Hit, NEW to, Goto(to), cpu' = cpu,
           scan'[cpu]["task"] = scan[cpu]["task"]
    PROVE  /\ Level = "irq" /\ Outer = "task" /\ Outer' = "task" /\ Pc' = Pc /\ Mine' = Mine
           /\ task_pc' = task_pc /\ irq_pc'[cpu] = to
           /\ BusyRemove' <=> to \in {"unlink_next", "free"}
           /\ Torn' <=> to \in {"unlink_next", "free", "switch"}
BY DEF IInv, TypeOK, FrameType, Hit, Goto, Outer, Pc, Mine, BusyRemove, Torn, Level

\* A frame that moves on inside sched_yield.
LEMMA AloneMove ==
    ASSUME IInv, NEW p \in YieldPoints, At(p), ~Hit, NEW to \in YieldPoints, Goto(to),
           cpu' = cpu
    PROVE  /\ Outer' = Level /\ Pc' = to /\ Mine' = scan'[cpu][Level] /\ ~Torn' /\ ~BusyRemove'
<1>1. /\ Level = "irq" => task_pc[cpu] \notin YieldPoints
      /\ Level = "task" => irq_pc[cpu] = "none"
  BY Alone
<1>2. FrameType /\ Level \in {"task", "irq"}
  BY DEF IInv, TypeOK, Level
<1>3. CASE Level = "irq"
  <2>1. task_pc'[cpu] = task_pc[cpu] /\ irq_pc'[cpu] = to
    BY <1>2, <1>3 DEF Goto, FrameType
  <2>2. Outer' = "irq"
    BY <1>1, <1>3, <2>1 DEF Outer
  <2> QED
    BY <1>3, <2>1, <2>2 DEF Pc, Mine, Torn, BusyRemove
<1>4. CASE Level = "task"
  <2>1. task_pc'[cpu] = to /\ irq_pc'[cpu] = "none"
    BY <1>1, <1>2, <1>4 DEF Goto, FrameType
  <2>2. Outer' = "task"
    BY <2>1 DEF Outer
  <2> QED
    BY <1>4, <2>1, <2>2 DEF Pc, Mine, Torn, BusyRemove
<1> QED
  BY <1>2, <1>3, <1>4

\* A frame that returns from sched_yield or sched_tick.
LEMMA AloneReturn ==
    ASSUME IInv, NEW p \in YieldPoints, At(p), ~Hit, Goto(Return), cpu' = cpu
    PROVE  Pc' \notin YieldPoints /\ Outer' = "irq"
<1>1. /\ Level = "irq" => task_pc[cpu] \notin YieldPoints
      /\ Level = "task" => irq_pc[cpu] = "none"
  BY Alone
<1>2. FrameType /\ Level \in {"task", "irq"}
  BY DEF IInv, TypeOK, Level
<1>3. CASE Level = "irq"
  <2>1. task_pc'[cpu] = task_pc[cpu] /\ irq_pc'[cpu] = "eoi"
    BY <1>2, <1>3 DEF Goto, Return, FrameType
  <2>2. Outer' = "irq"
    BY <1>1, <1>3, <2>1 DEF Outer
  <2> QED
    BY <2>1, <2>2, Points DEF Pc
<1>4. CASE Level = "task"
  <2>1. task_pc'[cpu] \in {"exit", "run"} /\ irq_pc'[cpu] = "none"
    BY <1>1, <1>2, <1>4 DEF Goto, Return, FrameType
  <2>2. Outer' = "irq"
    BY <2>1, Points DEF Outer
  <2> QED
    BY <2>1, <2>2, Points DEF Pc
<1> QED
  BY <1>2, <1>3, <1>4

-----------------------------------------------------------------------------
\* The frames, flags and keys when the CPU stays on its stack.

LEMMA MoveBasics ==
    ASSUME IInv, FramesOK, TasksOK, NEW to, Goto(to), cpu' = cpu,
           UNCHANGED <<live, killed>>, suspended' \subseteq live,
           Level = "task" /\ cpu \in killed => to \in YieldPoints \cup {"exit"},
           Level = "task" => to # "sleep"
    PROVE  FramesOK' /\ TasksOK'
<1>1. FrameType /\ Level \in {"task", "irq"}
  BY DEF IInv, TypeOK, Level
<1>2. /\ \A t \in AllTasks \ {cpu} : task_pc'[t] = task_pc[t] /\ irq_pc'[t] = irq_pc[t]
      /\ task_pc'[cpu] = IF Level = "task" THEN to ELSE task_pc[cpu]
  BY <1>1 DEF Goto, FrameType
<1>3. FramesOK'
  BY <1>2 DEF FramesOK
<1>4. TasksOK'
  <2>1. ASSUME NEW t \in killed PROVE task_pc'[t] \in YieldPoints \cup {"exit"}
    <3>1. t \in AllTasks
      BY RingTypes DEF TasksOK, InRing
    <3> QED
      BY <3>1, <1>1, <1>2 DEF TasksOK
  <2>2. task_pc'[Idle] # "sleep"
    BY <1>1, <1>2 DEF TasksOK, AllTasks
  <2> QED
    BY <2>1, <2>2 DEF TasksOK, InRing
<1> QED
  BY <1>3, <1>4

LEMMA MoveKeys ==
    ASSUME IInv, KeysOK, NEW from \in YieldPoints \cup {"tick"}, At(from), NEW to, Goto(to),
           to # "start", cpu' = cpu, UNCHANGED <<callback, pump, demo_running>>
    PROVE  KeysOK'
<1>1. FrameType /\ Level \in {"task", "irq"} /\ Idle \in AllTasks
  BY DEF IInv, TypeOK, Level, AllTasks
<1>2. /\ Level = "irq" => irq_pc[cpu] = from
      /\ Level = "task" => task_pc[cpu] = from /\ irq_pc[cpu] = "none"
  BY DEF At, Here, Level
<1>3. CASE Level = "irq"
  <2>1. task_pc' = task_pc /\ irq_pc' = [irq_pc EXCEPT ![cpu] = to] /\ cpu \in AllTasks
    BY <1>1, <1>3 DEF Goto, FrameType
  <2>2. irq_pc[cpu] # "start"
    BY <1>2, <1>3, Points
  <2> QED
    BY <1>1, <2>1, <2>2 DEF KeysOK, FrameType
<1>4. CASE Level = "task"
  <2>1. irq_pc' = irq_pc /\ task_pc' = [task_pc EXCEPT ![cpu] = to] /\ cpu \in AllTasks
    BY <1>1, <1>4 DEF Goto, FrameType
  <2>2. callback = "shell" => cpu # Idle
    <3>1. from \notin {"run", "hlt"}
      BY Points
    <3> QED
      BY <1>2, <1>4, <3>1 DEF KeysOK
  <2>3. callback = "shell" => task_pc'[Idle] = task_pc[Idle]
    BY <1>1, <2>1, <2>2 DEF FrameType
  <2> QED
    BY <2>1, <2>3 DEF KeysOK
<1> QED
  BY <1>1, <1>3, <1>4

\* A step that touches neither the ring nor the locals in use.
LEMMA RingKept ==
    ASSUME IInv, NEW rank, RingInv(rank), ~Torn,
           UNCHANGED <<ringVars, live, cpu, current_task>>,
           \/ Pc' = Pc /\ Mine' = Mine /\ killed' = killed /\ suspended' \subseteq suspended
           \/ Pc \notin Scanning /\ Pc' \notin Scanning
    PROVE  RingInv(rank)'
<1>1. /\ Ranked(rank, InRing) /\ LocalsOK(rank) /\ CurrentOK
      /\ Linked(rank, Unlinking, Freeing)
  BY DEF RingInv, Torn, BusyRemove
<1>2. InRing' = InRing
  BY DEF InRing
<1>3. Unlinking' = Unlinking /\ Freeing' = Freeing
  BY DEF Unlinking, Freeing, Scanning
<1>4. Linked(rank, Unlinking, Freeing)'
  BY <1>1, <1>2, <1>3 DEF Linked, Forward, Backward, ringVars
<1>5. CurrentOK'
  BY <1>1 DEF CurrentOK, Scanning
<1>6. LocalsOK(rank)'
  BY <1>1, <1>2 DEF LocalsOK, Scanning, Ahead, FirstLap, Beyond
<1>7. Ranked(rank, InRing)'
  BY <1>1, <1>2
<1> QED
  BY <1>4, <1>5, <1>6, <1>7 DEF RingInv

-----------------------------------------------------------------------------
\* An interrupt that reschedules above a task-level sched_yield: until it frees or
\* switches, the task-level call finds everything as it left it.
LEMMA HitMoves ==
    ASSUME IInv, ~ub, Hit, SchedStep, ~hit'
    PROVE  /\ UNCHANGED <<live, cpu, killed, callback, pump, demo_running, ub>>
           /\ suspended' \subseteq suspended
           /\ \E from \in YieldPoints, to \in YieldPoints \cup {"eoi"} :
                /\ At(from) /\ Goto(to) /\ scan'[cpu]["task"] = scan[cpu]["task"]
                /\ from \in {"unlink_next", "free", "switch"} <=> UnlinkNext
<1>0. FrameType /\ Level = "irq"
  BY DEF IInv, TypeOK, Hit
<1>2. ~Undefined /\ ~Free /\ ~Switch
  BY DEF Undefined, Free, Switch
<1>3. /\ UNCHANGED <<live, cpu, killed, callback, pump, demo_running, ub>>
      /\ suspended' \subseteq suspended
  BY <1>2 DEF SchedStep, Scan, Test, UnlinkPrev, UnlinkNext, Pick, taskVars, steadyVars,
     demoVars, ghostVars, Awake
<1>4. ASSUME NEW r, SetLocal(r) PROVE scan'[cpu]["task"] = scan[cpu]["task"]
  BY <1>0, <1>4 DEF SetLocal, FrameType, Levels
<1>5. \E from \in YieldPoints, to \in YieldPoints \cup {"eoi"} :
        /\ At(from) /\ Goto(to) /\ scan'[cpu]["task"] = scan[cpu]["task"]
        /\ from \in {"unlink_next", "free", "switch"} <=> UnlinkNext
  <2>1. CASE Scan
    BY <1>2, <1>4, <2>1 DEF Scan, YieldPoints, UnlinkNext, At
  <2>2. CASE Test
    BY <1>2, <1>4, <2>2 DEF Test, Reap, Advance, YieldPoints, UnlinkNext, At
  <2>3. CASE UnlinkPrev
    BY <1>2, <2>3 DEF UnlinkPrev, YieldPoints, UnlinkNext, At
  <2>4. CASE UnlinkNext
    BY <1>2, <2>4 DEF UnlinkNext, YieldPoints
  <2>5. CASE Pick
    BY <1>0, <1>2, <1>4, <2>5 DEF Pick, Return, YieldPoints, UnlinkNext, At
  <2> QED
    BY <1>2, <2>1, <2>2, <2>3, <2>4, <2>5 DEF SchedStep
<1> QED
  BY <1>3, <1>5

LEMMA HitStep == ASSUME IInv, NEW rank, CalmAt(rank), Hit, SchedStep, ~hit' PROVE CalmAt(rank)'
<1>0. FrameType /\ ~ub /\ FramesOK /\ TasksOK /\ KeysOK /\ Level = "irq"
  BY DEF IInv, TypeOK, CalmAt, Hit
<1>1. rank \in [AllTasks -> Nat] /\ RingInv(rank)
  BY DEF CalmAt
<1>2. ~Undefined /\ ~Free /\ ~Switch
  BY DEF Undefined, Free, Switch
<1>3. /\ UNCHANGED <<live, cpu, killed, callback, pump, demo_running, ub>>
      /\ suspended' \subseteq suspended
  BY <1>0, HitMoves
<1>4. PICK from \in YieldPoints, to \in YieldPoints \cup {"eoi"} :
         /\ At(from) /\ Goto(to) /\ scan'[cpu]["task"] = scan[cpu]["task"]
         /\ from \in {"unlink_next", "free", "switch"} <=> UnlinkNext
  BY <1>0, HitMoves
<1>5. /\ Outer = "task" /\ Outer' = "task" /\ Pc' = Pc /\ Mine' = Mine
      /\ BusyRemove' <=> to \in {"unlink_next", "free"}
      /\ Torn' <=> to \in {"unlink_next", "free", "switch"}
      /\ BusyRemove <=> from \in {"unlink_next", "free"}
      /\ Torn <=> from \in {"unlink_next", "free", "switch"}
  <2>1. irq_pc[cpu] = from
    BY <1>0, <1>4 DEF At, Here
  <2> QED
    BY <1>3, <1>4, <2>1, Cut DEF BusyRemove, Torn
<1>6. FramesOK' /\ TasksOK'
  BY <1>0, <1>3, <1>4, MoveBasics DEF TasksOK
<1>7. KeysOK'
  BY <1>0, <1>3, <1>4, MoveKeys, Points
<1>8. InRing' = InRing /\ Ranked(rank, InRing)'
  BY <1>1, <1>3 DEF RingInv, InRing
<1>9. RingInv(rank)'
  <2>1. CASE Scan \/ Test
    <3>1. UNCHANGED <<ringVars, current_task>>
      BY <1>2, <2>1 DEF Scan, Test, steadyVars
    <3>2. ~Torn
      BY <1>4, <1>5, <2>1 DEF Scan, Test, UnlinkNext, At
    <3> QED
      BY <1>1, <1>3, <1>5, <3>1, <3>2, RingKept
  <2>2. CASE UnlinkPrev \/ UnlinkNext
    <3>1. irq_pc'[cpu] \in {"unlink_next", "free"}
      BY <1>0, <1>2, <2>2 DEF UnlinkPrev, UnlinkNext, Goto, FrameType
    <3>2. BusyRemove' /\ Torn'
      BY <1>3, <1>5, <3>1 DEF BusyRemove, Torn
    <3> QED
      BY <1>8, <3>2 DEF RingInv
  <2>3. CASE Pick
    <3>1. UNCHANGED ringVars /\ irq_pc[cpu] = "pick" /\ irq_pc'[cpu] \in {"eoi", "switch"}
      BY <1>0, <1>2, <2>3 DEF Pick, Goto, Return, FrameType, At, Here
    <3>2. ~Torn /\ ~BusyRemove'
      BY <1>3, <3>1 DEF Torn, BusyRemove
    <3>3. CASE UNCHANGED current_task
      BY <1>1, <1>3, <1>5, <3>1, <3>2, <3>3, RingKept
    <3>4. CASE Torn'
      <4>1. Linked(rank, Unlinking, Freeing)
        BY <1>1, <3>2 DEF RingInv, Torn, BusyRemove
      <4>2. Unlinking' = Unlinking /\ Freeing' = Freeing
        BY <1>5 DEF Unlinking, Freeing
      <4>3. Linked(rank, Unlinking, Freeing)'
        BY <1>8, <3>1, <4>1, <4>2 DEF Linked, Forward, Backward, ringVars
      <4> QED
        BY <1>8, <3>4, <4>3 DEF RingInv
    <3>5. UNCHANGED current_task \/ Goto("switch")
      BY <1>2, <2>3 DEF Pick, steadyVars
    <3>6. Goto("switch") => irq_pc'[cpu] = "switch"
      BY <1>0 DEF Goto, FrameType
    <3> QED
      BY <1>3, <1>5, <3>3, <3>4, <3>5, <3>6 DEF Torn
  <2> QED
    BY <1>2, <2>1, <2>2, <2>3 DEF SchedStep
<1> QED
  BY <1>0, <1>1, <1>3, <1>6, <1>7, <1>9 DEF CalmAt

-----------------------------------------------------------------------------
\* sched_next, sched_yield and sched_tick with no sched_yield below them.

LEMMA CalmParts ==
    ASSUME IInv, NEW rank, CalmAt(rank), NEW p \in YieldPoints, At(p), ~Hit
    PROVE  /\ rank \in [AllTasks -> Nat]
           /\ Ranked(rank, InRing) /\ LocalsOK(rank) /\ CurrentOK
           /\ Linked(rank, Unlinking, Freeing)
BY Alone DEF CalmAt, RingInv

LEMMA ScanStep == ASSUME IInv, NEW rank, CalmAt(rank), ~Hit, Scan PROVE CalmAt(rank)'
<1>0. FrameType /\ ~ub /\ FramesOK /\ TasksOK /\ KeysOK
  BY DEF IInv, TypeOK, CalmAt
<1>1. At("scan") /\ "scan" \in YieldPoints /\ "test" \in YieldPoints
  BY DEF Scan, YieldPoints
<1>2. /\ rank \in [AllTasks -> Nat]
      /\ Ranked(rank, InRing) /\ LocalsOK(rank) /\ CurrentOK
      /\ Linked(rank, Unlinking, Freeing)
  BY <1>1, CalmParts
<1>3. Outer = Level /\ Pc = "scan" /\ Mine = Local
  BY <1>1, Alone
<1>4. current_task = cpu /\ cpu \in InRing
  BY <1>0, <1>2, <1>3 DEF CurrentOK, TasksOK
<1>5. /\ SetLocal([NoScan EXCEPT !.start = First, !.t = First])
      /\ Goto("test")
      /\ UNCHANGED <<ringVars, taskVars, steadyVars>>
  BY <1>4, RingTypes DEF Scan
<1>6. UNCHANGED <<live, killed, suspended, cpu, current_task, callback, pump, demo_running, ub>>
  BY <1>5 DEF taskVars, steadyVars, demoVars, ghostVars
<1>7. FramesOK' /\ TasksOK' /\ KeysOK'
  BY <1>0, <1>1, <1>5, <1>6, MoveBasics, MoveKeys, Points DEF TasksOK
<1>8. Outer' = Level /\ Pc' = "test" /\ Mine' = scan'[cpu][Level]
  BY <1>0, <1>1, <1>5, <1>6, AloneMove
<1>9. Mine'.t = First /\ Mine'.start = First
  BY <1>0, <1>5, <1>8 DEF SetLocal, FrameType, Level, Levels, NoScan
<1>10. First \in InRing /\ Ahead(rank, First)
  BY <1>2, <1>3, <1>4 DEF First, Linked, Forward, Unlinking, Freeing, After, Ahead
<1>11. InRing' = InRing /\ Unlinking' = {} /\ Freeing' = {} /\ Unlinking = {} /\ Freeing = {}
  BY <1>3, <1>6, <1>8 DEF InRing, Unlinking, Freeing
<1>12. Linked(rank, Unlinking, Freeing)'
  BY <1>2, <1>5, <1>11 DEF Linked, Forward, Backward, ringVars
<1>13. LocalsOK(rank)'
  BY <1>2, <1>6, <1>8, <1>9, <1>10, <1>11 DEF LocalsOK, Ahead, FirstLap, Ranked
<1>14. CurrentOK'
  BY <1>4, <1>6, <1>8 DEF CurrentOK
<1>15. RingInv(rank)'
  BY <1>2, <1>11, <1>12, <1>13, <1>14 DEF RingInv
<1> QED
  BY <1>0, <1>6, <1>7, <1>15 DEF CalmAt

\* What sched_next's loop does with the task in hand; a task it passes over cannot
\* run, and it never comes back to where it began.
LEMMA TestMoves ==
    ASSUME IInv, NEW rank, CalmAt(rank), ~Hit, Test, NEW t, t = Local.t
    PROVE  /\ Outer = Level /\ Pc = "test" /\ Mine = Local
           /\ t \in InRing /\ next_task[t] \in InRing /\ After(rank, InRing, t, next_task[t])
           /\ UNCHANGED <<ringVars, live, killed, wake_in, steadyVars>>
           /\ Outer' = Level /\ Mine' = scan'[cpu][Level] /\ ~Torn' /\ ~BusyRemove'
           /\ \/ /\ Pc' = "test" /\ t # Idle /\ ~Due(t) /\ suspended' = suspended
                 /\ Mine'.t = next_task[t] /\ Mine'.start = Local.start
              \/ /\ Pc' = "pick" /\ Mine'.t = t /\ Due(t) /\ ~Doomed(t) /\ suspended' = Awake(t)
              \/ /\ Pc' = "unlink_prev" /\ t \in killed \ {Idle} /\ suspended' = suspended
                 /\ Mine'.victim = t /\ Mine'.t = next_task[t] /\ Mine'.start = Local.start
           /\ \E to \in YieldPoints : Goto(to)
<1>0. FrameType /\ ~ub /\ TasksOK
  BY DEF IInv, TypeOK, CalmAt
<1>1. At("test") /\ "test" \in YieldPoints
  BY DEF Test, YieldPoints
<1>2. /\ rank \in [AllTasks -> Nat]
      /\ Ranked(rank, InRing) /\ LocalsOK(rank) /\ CurrentOK
      /\ Linked(rank, Unlinking, Freeing)
  BY <1>1, CalmParts
<1>3. Outer = Level /\ Pc = "test" /\ Mine = Local
  BY <1>1, Alone
<1>4. /\ t \in InRing /\ Unlinking = {} /\ Freeing = {}
      /\ t = Idle \/ FirstLap(rank, InRing, Local.start, t)
  BY <1>2, <1>3 DEF LocalsOK, Unlinking, Freeing
<1>5. next_task[t] \in InRing /\ After(rank, InRing, t, next_task[t])
  BY <1>2, <1>4 DEF Linked, Forward
<1>6. UNCHANGED <<ringVars, live, killed, wake_in, steadyVars>> /\ cpu' = cpu
  BY <1>4, RingTypes DEF Test, steadyVars
<1>7. t # Idle => next_task[t] # Local.start
  <2>1. rank[t] \in Nat /\ rank[next_task[t]] \in Nat
    BY <1>2, <1>4, <1>5, RingTypes
  <2> QED
    BY <1>3, <1>4, <1>5, <2>1 DEF FirstLap, After
<1>8. PICK to \in YieldPoints :
        /\ Goto(to)
        /\ \/ /\ to = "test" /\ t # Idle /\ ~Due(t) /\ suspended' = suspended
              /\ scan'[cpu][Level].t = next_task[t] /\ scan'[cpu][Level].start = Local.start
           \/ /\ to = "pick" /\ scan'[cpu][Level].t = t
              /\ Due(t) /\ ~Doomed(t) /\ suspended' = Awake(t)
           \/ /\ to = "unlink_prev" /\ t \in killed \ {Idle} /\ suspended' = suspended
              /\ scan'[cpu][Level].victim = t /\ scan'[cpu][Level].t = next_task[t]
              /\ scan'[cpu][Level].start = Local.start
  <2>1. Local \in [start : Pointer, t : Pointer, victim : Pointer, prev : Pointer]
    BY <1>0, LocalTyped DEF LocalType
  <2>2. /\ cpu \in AllTasks /\ Level \in Levels /\ scan \in [AllTasks -> [Levels -> LocalType]]
    BY <1>0 DEF FrameType, Level, Levels
  <2>3. ASSUME NEW r, SetLocal(r) PROVE scan'[cpu][Level] = r
    BY <2>2, <2>3 DEF SetLocal
  <2>4. CASE Reap(t) /\ Doomed(t) /\ UNCHANGED suspended
    BY <2>1, <2>3, <2>4 DEF Reap, Doomed, YieldPoints
  <2>5. CASE Advance(next_task[t]) /\ ~Due(t) /\ UNCHANGED suspended
    <3>1. t # Idle
      BY <1>0, <2>5, RingTypes DEF Due, TasksOK
    <3> QED
      BY <1>7, <2>1, <2>3, <2>5, <3>1 DEF Advance, YieldPoints
  <2>6. CASE suspended' = Awake(t) /\ Goto("pick") /\ UNCHANGED scan /\ Due(t) /\ ~Doomed(t)
    BY <2>6 DEF Local, YieldPoints
  <2> QED
    BY <1>4, RingTypes, <2>4, <2>5, <2>6 DEF Test
<1>9. Outer' = Level /\ Pc' = to /\ Mine' = scan'[cpu][Level] /\ ~Torn' /\ ~BusyRemove'
  BY <1>1, <1>6, <1>8, AloneMove
<1> QED
  BY <1>3, <1>4, <1>5, <1>6, <1>8, <1>9

LEMMA TestStep == ASSUME IInv, NEW rank, CalmAt(rank), ~Hit, Test PROVE CalmAt(rank)'
<1> DEFINE t == Local.t
<1>0. FrameType /\ ~ub /\ FramesOK /\ TasksOK /\ KeysOK
  BY DEF IInv, TypeOK, CalmAt
<1>1. At("test") /\ "test" \in YieldPoints
  BY DEF Test, YieldPoints
<1>2. /\ rank \in [AllTasks -> Nat]
      /\ Ranked(rank, InRing) /\ LocalsOK(rank) /\ CurrentOK
      /\ Linked(rank, Unlinking, Freeing)
  BY <1>1, CalmParts
<1> HIDE DEF t
<1>3. /\ Outer = Level /\ Pc = "test" /\ Mine = Local
      /\ t \in InRing /\ next_task[t] \in InRing /\ After(rank, InRing, t, next_task[t])
      /\ UNCHANGED <<ringVars, live, killed, wake_in, steadyVars>>
      /\ Outer' = Level /\ Mine' = scan'[cpu][Level] /\ ~Torn' /\ ~BusyRemove'
      /\ \/ /\ Pc' = "test" /\ t # Idle /\ ~Due(t) /\ suspended' = suspended
            /\ Mine'.t = next_task[t] /\ Mine'.start = Local.start
         \/ /\ Pc' = "pick" /\ Mine'.t = t /\ Due(t) /\ ~Doomed(t) /\ suspended' = Awake(t)
         \/ /\ Pc' = "unlink_prev" /\ t \in killed \ {Idle} /\ suspended' = suspended
            /\ Mine'.victim = t /\ Mine'.t = next_task[t] /\ Mine'.start = Local.start
      /\ \E to \in YieldPoints : Goto(to)
  BY TestMoves DEF t
<1>4. /\ Ahead(rank, t) /\ Unlinking = {} /\ Freeing = {} /\ current_task = cpu
      /\ t = Idle \/ FirstLap(rank, InRing, Local.start, t)
  BY <1>2, <1>3 DEF LocalsOK, Unlinking, Freeing, CurrentOK, t
<1>5. rank[t] \in Nat /\ rank[next_task[t]] \in Nat /\ rank[cpu] \in Nat
  BY <1>2, <1>3, RingTypes
<1>6. t # Idle => Ahead(rank, next_task[t]) /\ Beyond(rank, t, next_task[t])
  BY <1>3, <1>4, <1>5 DEF Ahead, After, Beyond
<1>7. /\ suspended' \subseteq suspended
      /\ UNCHANGED <<cpu, current_task, callback, pump, demo_running, ub>>
  BY <1>3 DEF Awake, steadyVars, demoVars, ghostVars
<1>8. PICK to \in YieldPoints : Goto(to)
  BY <1>3
<1>9. FramesOK' /\ TasksOK'
  BY <1>0, <1>3, <1>7, <1>8, MoveBasics, Points DEF TasksOK
<1>10. KeysOK'
  BY <1>0, <1>1, <1>7, <1>8, MoveKeys, Points
<1>11. InRing' = InRing /\ Unlinking' = {} /\ Freeing' = {}
  BY <1>3 DEF InRing, Unlinking, Freeing
<1>12. Linked(rank, Unlinking, Freeing)'
  BY <1>2, <1>3, <1>4, <1>11 DEF Linked, Forward, Backward, ringVars
<1>13. CurrentOK'
  BY <1>3, <1>4, <1>7 DEF CurrentOK
<1>14. LocalsOK(rank)'
  <2>1. Idle \in InRing /\ Idle \notin live /\ killed \subseteq live
    BY <1>0, RingTypes DEF TasksOK
  <2>2. CASE Pc' = "test" /\ Mine'.t = next_task[t] /\ t # Idle /\ Mine'.start = Local.start
    <3>1. next_task[t] = Idle \/ FirstLap(rank, InRing, Local.start, next_task[t])
      <4>1. Local.start \in InRing => rank[Local.start] \in Nat
        BY <1>2, RingTypes
      <4> QED
        BY <1>4, <1>5, <1>6, <2>2, <4>1 DEF FirstLap, Beyond
    <3> QED
      BY <1>3, <1>6, <1>7, <1>11, <2>2, <3>1 DEF LocalsOK, Ahead
  <2>3. CASE Pc' = "pick" /\ Mine'.t = t /\ ~Doomed(t) /\ suspended' = Awake(t)
    BY <1>3, <1>4, <1>7, <1>11, <2>1, <2>3 DEF LocalsOK, Ahead, Doomed, Awake
  <2>4. CASE Pc' = "unlink_prev" /\ t \in killed \ {Idle} /\ Mine'.victim = t
             /\ Mine'.t = next_task[t] /\ Mine'.start = Local.start
    <3>1. next_task[t] # t
      BY <1>2, <1>3, <2>4, NotOwnNext
    <3>2. rank[t] > rank[cpu]
      BY <1>4, <2>4 DEF Ahead
    <3> QED
      BY <1>3, <1>4, <1>6, <1>7, <1>11, <2>1, <2>4, <3>1, <3>2 DEF LocalsOK, Ahead
  <2> QED
    BY <1>3, <2>2, <2>3, <2>4
<1>15. RingInv(rank)'
  BY <1>2, <1>11, <1>12, <1>13, <1>14 DEF RingInv
<1> QED
  BY <1>0, <1>7, <1>9, <1>10, <1>15 DEF CalmAt

\* The parts of Calm that do not speak of ranks, for a step inside sched_yield.
LEMMA YieldBasics ==
    ASSUME IInv, NEW rank, CalmAt(rank), NEW from \in YieldPoints, At(from), NEW to \in YieldPoints, Goto(to),
           UNCHANGED <<taskVars, cpu, demoVars>>
    PROVE  FramesOK' /\ TasksOK' /\ KeysOK'
<1>1. FramesOK /\ TasksOK /\ KeysOK
  BY DEF CalmAt
<1>2. UNCHANGED <<live, killed, suspended, callback, pump, demo_running>>
  BY DEF taskVars, demoVars
<1>3. FramesOK' /\ TasksOK'
  BY <1>1, <1>2, MoveBasics, Points DEF TasksOK
<1>4. KeysOK'
  BY <1>1, <1>2, MoveKeys, Points
<1> QED
  BY <1>3, <1>4

\* The links read forward from the victim and backward to it.
LEMMA UnlinkPrevStep == ASSUME IInv, NEW rank, CalmAt(rank), ~Hit, UnlinkPrev PROVE CalmAt(rank)'
<1> DEFINE v == Local.victim
<1>0. FrameType /\ RingType /\ ~ub /\ TasksOK
  BY DEF IInv, TypeOK, CalmAt
<1>1. At("unlink_prev") /\ "unlink_prev" \in YieldPoints /\ "unlink_next" \in YieldPoints
  BY DEF UnlinkPrev, YieldPoints
<1>2. /\ rank \in [AllTasks -> Nat]
      /\ Ranked(rank, InRing) /\ LocalsOK(rank) /\ CurrentOK
      /\ Linked(rank, Unlinking, Freeing)
  BY <1>1, CalmParts
<1>3. Outer = Level /\ Pc = "unlink_prev" /\ Mine = Local
  BY <1>1, Alone
<1>4. /\ Unlinking = {} /\ Freeing = {}
      /\ task_list_head = Idle
      /\ Forward(rank, InRing, next_task) /\ Backward(rank, InRing, last_task)
  BY <1>2, <1>3 DEF Unlinking, Freeing, Linked
<1>5. v \in InRing \ {Idle} /\ InRing \subseteq AllTasks
  BY <1>2, <1>3, RingTypes DEF LocalsOK, InRing
<1>6. /\ next_task[v] \in InRing /\ After(rank, InRing, v, next_task[v])
      /\ last_task[v] \in InRing /\ After(rank, InRing, last_task[v], v)
  BY <1>4, <1>5 DEF Forward, Backward
<1>7. next_task[v] # v
  BY <1>2, <1>5, <1>6, NotOwnNext
<1>8. /\ next_task' = SkipVictim(v) /\ UNCHANGED task_list_head /\ Goto("unlink_next")
      /\ UNCHANGED <<last_task, task_count, taskVars, scan, steadyVars>>
  BY <1>5, <1>6, <1>7, RingTypes DEF UnlinkPrev
<1>9. UNCHANGED <<live, killed, suspended, cpu, current_task, demoVars, ub>>
  BY <1>8 DEF taskVars, steadyVars, ghostVars
<1>10. FramesOK' /\ TasksOK' /\ KeysOK'
  BY <1>1, <1>8, <1>9, YieldBasics
<1>11. Outer' = Level /\ Pc' = "unlink_next" /\ Mine' = Local
  BY <1>0, <1>1, <1>8, <1>9, AloneMove DEF Local
<1>12. InRing' = InRing /\ Unlinking' = {v} /\ Freeing' = {}
  BY <1>9, <1>11 DEF InRing, Unlinking, Freeing
<1>13. Forward(rank, InRing \ {v}, next_task')
  <2>1. next_task'[last_task[v]] = next_task[v]
    BY <1>0, <1>5, <1>6, <1>8 DEF SkipVictim, RingType
  <2>2. \A t \in InRing : t # last_task[v] => next_task'[t] = next_task[t]
    BY <1>0, <1>5, <1>8 DEF SkipVictim, RingType
  <2> QED
    BY <1>2, <1>4, <1>5, <2>1, <2>2, RemoveForward
<1>14. next_task'[v] = next_task[v]
  <2>1. last_task[v] # v
    BY <1>2, <1>5, <1>6, NotOwnNext
  <2> QED
    BY <1>0, <1>5, <1>8, <2>1 DEF SkipVictim, RingType
<1>15. Linked(rank, Unlinking, Freeing)'
  BY <1>4, <1>6, <1>8, <1>12, <1>13, <1>14 DEF Linked, Backward
<1>16. LocalsOK(rank)' /\ CurrentOK'
  BY <1>2, <1>3, <1>9, <1>11, <1>12 DEF LocalsOK, CurrentOK, Ahead, FirstLap, Beyond
<1>17. RingInv(rank)'
  BY <1>2, <1>12, <1>15, <1>16 DEF RingInv
<1> QED
  BY <1>0, <1>9, <1>10, <1>17 DEF CalmAt

LEMMA UnlinkNextStep == ASSUME IInv, NEW rank, CalmAt(rank), ~Hit, UnlinkNext PROVE CalmAt(rank)'
<1> DEFINE v == Local.victim
           n == next_task[v]
<1>0. FrameType /\ RingType /\ ~ub /\ TasksOK
  BY DEF IInv, TypeOK, CalmAt
<1>1. At("unlink_next") /\ "unlink_next" \in YieldPoints /\ "free" \in YieldPoints
  BY DEF UnlinkNext, YieldPoints
<1>2. /\ rank \in [AllTasks -> Nat]
      /\ Ranked(rank, InRing) /\ LocalsOK(rank) /\ CurrentOK
      /\ Linked(rank, Unlinking, Freeing)
  BY <1>1, CalmParts
<1>3. Outer = Level /\ Pc = "unlink_next" /\ Mine = Local
  BY <1>1, Alone
<1>4. /\ Unlinking = {v} /\ Freeing = {}
      /\ task_list_head = Idle
      /\ Forward(rank, InRing \ {v}, next_task) /\ Backward(rank, InRing, last_task)
      /\ n \in InRing /\ After(rank, InRing, v, n)
  BY <1>2, <1>3 DEF Unlinking, Freeing, Linked
<1>5. v \in InRing \ {Idle} /\ InRing \subseteq AllTasks
  BY <1>2, <1>3, RingTypes DEF LocalsOK, InRing
<1>6. /\ last_task' = [last_task EXCEPT ![n] = last_task[v]]
      /\ task_list_head' = task_list_head
      /\ Goto("free")
      /\ UNCHANGED <<next_task, task_count, taskVars, scan, steadyVars>>
  BY <1>4, <1>5, RingTypes DEF UnlinkNext, NextHead
<1>7. UNCHANGED <<live, killed, suspended, cpu, current_task, demoVars, ub>>
  BY <1>6 DEF taskVars, steadyVars, ghostVars
<1>8. FramesOK' /\ TasksOK' /\ KeysOK'
  BY <1>1, <1>6, <1>7, YieldBasics
<1>9. Outer' = Level /\ Pc' = "free" /\ Mine' = Local
  BY <1>0, <1>1, <1>6, <1>7, AloneMove DEF Local
<1>10. InRing' = InRing /\ Unlinking' = {} /\ Freeing' = {v}
  BY <1>7, <1>9 DEF InRing, Unlinking, Freeing
<1>11. Backward(rank, InRing \ {v}, last_task')
  <2>1. last_task'[n] = last_task[v] /\ \A t \in InRing : t # n => last_task'[t] = last_task[t]
    BY <1>0, <1>4, <1>5, <1>6 DEF RingType
  <2> QED
    BY <1>2, <1>4, <1>5, <2>1, RemoveBackward
<1>12. Linked(rank, Unlinking, Freeing)'
  BY <1>4, <1>6, <1>10, <1>11 DEF Linked, Forward
<1>13. LocalsOK(rank)' /\ CurrentOK'
  BY <1>2, <1>3, <1>7, <1>9, <1>10 DEF LocalsOK, CurrentOK, Ahead, FirstLap, Beyond
<1>14. RingInv(rank)'
  BY <1>2, <1>10, <1>12, <1>13 DEF RingInv
<1> QED
  BY <1>0, <1>7, <1>8, <1>14 DEF CalmAt

LEMMA PickStep == ASSUME IInv, NEW rank, CalmAt(rank), ~Hit, Pick PROVE CalmAt(rank)'
<1>0. FrameType /\ ~ub /\ TasksOK /\ FramesOK /\ KeysOK
  BY DEF IInv, TypeOK, CalmAt
<1>1. At("pick") /\ "pick" \in YieldPoints /\ "switch" \in YieldPoints
  BY DEF Pick, YieldPoints
<1>2. /\ rank \in [AllTasks -> Nat]
      /\ Ranked(rank, InRing) /\ LocalsOK(rank) /\ CurrentOK
      /\ Linked(rank, Unlinking, Freeing)
  BY <1>1, CalmParts
<1>3. Outer = Level /\ Pc = "pick" /\ Mine = Local
  BY <1>1, Alone
<1>4. /\ Local.t \in InRing \ (suspended \cup killed) /\ Ahead(rank, Local.t)
      /\ Unlinking = {} /\ Freeing = {} /\ current_task = cpu
  BY <1>2, <1>3 DEF LocalsOK, Unlinking, Freeing, CurrentOK
<1>5. UNCHANGED <<ringVars, taskVars, live, killed, suspended, cpu, demoVars,
                  callback, pump, demo_running, ub>>
  BY <1>4, RingTypes DEF Pick, taskVars, steadyVars, demoVars, ghostVars
<1>6. InRing' = InRing
  BY <1>5 DEF InRing
<1>7. CASE Local.t = current_task
  <2>1. Goto(Return) /\ UNCHANGED current_task
    BY <1>7 DEF Pick, steadyVars
  <2>2. Pc' \notin YieldPoints
    BY <1>1, <1>5, <2>1, AloneReturn
  <2>3. FramesOK' /\ TasksOK'
    BY <1>0, <1>5, <2>1, MoveBasics DEF TasksOK, Return
  <2>4. KeysOK'
    BY <1>0, <1>1, <1>5, <2>1, MoveKeys DEF Return
  <2>5. Unlinking' = {} /\ Freeing' = {} /\ LocalsOK(rank)' /\ CurrentOK'
    BY <1>4, <1>5, <2>1, <2>2, Points DEF Scanning, Unlinking, Freeing, LocalsOK, CurrentOK
  <2>6. Linked(rank, Unlinking, Freeing)'
    BY <1>2, <1>4, <1>5, <1>6, <2>5 DEF Linked, Forward, Backward, ringVars
  <2>7. RingInv(rank)'
    BY <1>2, <1>6, <2>5, <2>6 DEF RingInv
  <2> QED
    BY <1>0, <1>5, <2>3, <2>4, <2>7 DEF CalmAt
<1>8. CASE Local.t # current_task
  <2>1. /\ SetLocal([NoScan EXCEPT !.t = Local.t, !.prev = current_task])
        /\ current_task' = Local.t
        /\ Goto("switch")
    BY <1>4, <1>8, RingTypes DEF Pick
  <2>2. Outer' = Level /\ Pc' = "switch" /\ Mine' = scan'[cpu][Level]
    BY <1>0, <1>1, <1>5, <2>1, AloneMove
  <2>3. Mine'.t = Local.t /\ Mine'.prev = cpu
    BY <1>0, <1>4, <2>1, <2>2 DEF SetLocal, FrameType, Level, Levels, NoScan
  <2>4. FramesOK' /\ TasksOK' /\ KeysOK'
    BY <1>1, <1>5, <2>1, YieldBasics
  <2>5. Unlinking' = {} /\ Freeing' = {} /\ LocalsOK(rank)' /\ CurrentOK'
    BY <1>4, <1>5, <1>6, <2>1, <2>2, <2>3 DEF Unlinking, Freeing, LocalsOK, CurrentOK, Ahead
  <2>6. Linked(rank, Unlinking, Freeing)'
    BY <1>2, <1>4, <1>5, <1>6, <2>5 DEF Linked, Forward, Backward, ringVars
  <2>7. RingInv(rank)'
    BY <1>2, <1>6, <2>5, <2>6 DEF RingInv
  <2> QED
    BY <1>0, <1>5, <2>4, <2>7 DEF CalmAt
<1> QED
  BY <1>7, <1>8

\* The CPU leaves a stack that has returned from sched_yield or sched_tick for one
\* that will.
LEMMA SwitchMoves ==
    ASSUME IInv, NEW rank, CalmAt(rank), ~Hit, Switch
    PROVE  /\ Outer = Level /\ Pc = "switch" /\ Mine = Local
           /\ Local.t \in InRing \ (suspended \cup killed) /\ Ahead(rank, Local.t)
           /\ cpu' = Local.t
           /\ UNCHANGED <<ringVars, taskVars, live, killed, suspended, current_task, demoVars,
                          callback, pump, demo_running, ub>>
           /\ cpu \in AllTasks /\ cpu' \in AllTasks /\ Idle \in AllTasks
           /\ \A t \in AllTasks \ {cpu} : task_pc'[t] = task_pc[t] /\ irq_pc'[t] = irq_pc[t]
           /\ Level = "irq" => task_pc'[cpu] = task_pc[cpu] /\ irq_pc'[cpu] = "eoi"
           /\ Level = "task" => /\ task_pc'[cpu] = IF cpu \in killed THEN "exit" ELSE "run"
                                /\ irq_pc'[cpu] = "none"
           /\ \A t \in AllTasks : task_pc'[t] \notin YieldPoints /\ irq_pc'[t] \in {"none", "eoi"}
           /\ Pc' \notin YieldPoints /\ Outer' = "irq"
<1>0. FrameType /\ FramesOK
  BY DEF IInv, TypeOK, CalmAt
<1>1. At("switch") /\ "switch" \in YieldPoints
  BY DEF Switch, YieldPoints
<1>2. LocalsOK(rank)
  BY <1>1, CalmParts
<1>3. /\ Outer = Level /\ Pc = "switch" /\ Mine = Local
      /\ Level = "irq" => task_pc[cpu] \notin YieldPoints
      /\ Level = "task" => irq_pc[cpu] = "none"
  BY <1>1, Alone
<1>4. /\ Local.t \in InRing \ (suspended \cup killed) /\ Local.prev = cpu /\ Ahead(rank, Local.t)
  BY <1>2, <1>3 DEF LocalsOK
<1>5. /\ cpu' = Local.t /\ Goto(Return)
      /\ UNCHANGED <<ringVars, taskVars, live, killed, suspended, current_task, demoVars,
                     callback, pump, demo_running, ub>>
  BY <1>4, RingTypes DEF Switch, taskVars, demoVars
<1>6. /\ cpu \in AllTasks /\ cpu' \in AllTasks /\ Idle \in AllTasks
      /\ \A t \in AllTasks \ {cpu} : task_pc'[t] = task_pc[t] /\ irq_pc'[t] = irq_pc[t]
      /\ Level = "irq" => task_pc'[cpu] = task_pc[cpu] /\ irq_pc'[cpu] = "eoi"
      /\ Level = "task" => /\ task_pc'[cpu] = IF cpu \in killed THEN "exit" ELSE "run"
                           /\ irq_pc'[cpu] = "none"
  BY <1>0, <1>3, <1>4, <1>5, RingTypes DEF Goto, Return, FrameType, Level
<1>7. \A t \in AllTasks : task_pc'[t] \notin YieldPoints /\ irq_pc'[t] \in {"none", "eoi"}
  BY <1>0, <1>3, <1>6, Points DEF FramesOK, Level
<1>8. Pc' \notin YieldPoints /\ Outer' = "irq"
  BY <1>6, <1>7, Points DEF Pc, Outer
<1> QED
  BY <1>3, <1>4, <1>5, <1>6, <1>7, <1>8

LEMMA SwitchStep == ASSUME IInv, NEW rank, CalmAt(rank), ~Hit, Switch PROVE CalmAt(rank)'
<1>0. FrameType /\ ~ub /\ TasksOK /\ FramesOK /\ KeysOK /\ StartOK
  BY DEF IInv, TypeOK, CalmAt
<1>1. At("switch") /\ "switch" \in YieldPoints
  BY DEF Switch, YieldPoints
<1>2. /\ rank \in [AllTasks -> Nat]
      /\ Ranked(rank, InRing) /\ LocalsOK(rank) /\ CurrentOK
      /\ Linked(rank, Unlinking, Freeing)
  BY <1>1, CalmParts
<1>3. /\ Outer = Level /\ Pc = "switch" /\ Mine = Local
      /\ Level = "irq" => task_pc[cpu] \notin YieldPoints
      /\ Level = "task" => irq_pc[cpu] = "none"
      /\ Level \in {"task", "irq"}
  BY <1>1, Alone DEF Level
<1>4. /\ Local.t \in InRing \ (suspended \cup killed) /\ Unlinking = {} /\ Freeing = {}
      /\ current_task = Local.t
  BY <1>2, <1>3 DEF LocalsOK, Unlinking, Freeing, CurrentOK
<1>5. /\ cpu' = Local.t
      /\ UNCHANGED <<ringVars, taskVars, live, killed, suspended, current_task, demoVars,
                     callback, pump, demo_running, ub>>
  BY SwitchMoves
<1>6. /\ cpu \in AllTasks /\ cpu' \in AllTasks /\ Idle \in AllTasks
      /\ \A t \in AllTasks \ {cpu} : task_pc'[t] = task_pc[t] /\ irq_pc'[t] = irq_pc[t]
      /\ Level = "irq" => task_pc'[cpu] = task_pc[cpu] /\ irq_pc'[cpu] = "eoi"
      /\ Level = "task" => /\ task_pc'[cpu] = IF cpu \in killed THEN "exit" ELSE "run"
                           /\ irq_pc'[cpu] = "none"
  BY SwitchMoves
<1>7. \A t \in AllTasks : task_pc'[t] \notin YieldPoints /\ irq_pc'[t] \in {"none", "eoi"}
  BY SwitchMoves
<1>8. FramesOK'
  BY <1>7 DEF FramesOK
<1>9. TasksOK'
  <2>1. ASSUME NEW t \in killed PROVE task_pc'[t] \in YieldPoints \cup {"exit"}
    <3>1. t \in AllTasks /\ task_pc[t] \in YieldPoints \cup {"exit"}
      BY <1>0, RingTypes DEF TasksOK, InRing
    <3> QED
      BY <3>1, <1>3, <1>6
  <2>2. task_pc'[Idle] # "sleep"
    BY <1>0, <1>3, <1>6 DEF TasksOK
  <2> QED
    BY <1>0, <1>4, <1>5, <2>1, <2>2 DEF TasksOK, InRing
<1>10. KeysOK'
  <2>1. irq_pc'[cpu'] # "start"
    BY <1>6, <1>7
  <2>2. CASE callback = "shell"
    <3>1. task_pc[cpu] = "switch" => Level = "irq" \/ cpu # Idle
      BY <1>0, <2>2 DEF KeysOK
    <3>2. Level = "task" => task_pc[cpu] = "switch"
      BY <1>1 DEF At, Here
    <3>3. Level = "irq" => irq_pc[cpu] = "switch"
      BY <1>1 DEF At, Here
    <3>4. task_pc'[Idle] \in {"run", "hlt"} /\ pump' = 0
      BY <1>0, <1>3, <1>5, <1>6, <2>2, <3>1, <3>2 DEF KeysOK
    <3>5. ~demo_running
      <4>1. demo_running => irq_pc[Idle] = "start"
        BY <1>0, <2>2 DEF KeysOK
      <4>2. irq_pc[Idle] = "start" => cpu = Idle
        BY <1>0, <1>6 DEF StartOK
      <4> QED
        BY <1>3, <3>3, <4>1, <4>2
    <3>6. irq_pc'[Idle] = "eoi" \/ cpu' = Idle
      <4>1. CASE cpu = Idle
        BY <1>3, <1>6, <3>1, <3>2, <4>1
      <4>2. CASE cpu # Idle
        BY <1>0, <1>6, <2>2, <4>2 DEF KeysOK
      <4> QED
        BY <4>1, <4>2
    <3> QED
      BY <1>5, <2>1, <2>2, <3>4, <3>5, <3>6 DEF KeysOK
  <2>3. CASE callback # "shell"
    BY <1>0, <1>5, <2>1, <2>3 DEF KeysOK
  <2> QED
    BY <2>2, <2>3
<1>11. Pc' \notin YieldPoints /\ Outer' = "irq"
  BY SwitchMoves
<1>12. Unlinking' = {} /\ Freeing' = {} /\ LocalsOK(rank)' /\ CurrentOK' /\ InRing' = InRing
  BY <1>4, <1>5, <1>11, Points DEF Scanning, Unlinking, Freeing, LocalsOK, CurrentOK, InRing
<1>13. Linked(rank, Unlinking, Freeing)'
  BY <1>2, <1>4, <1>5, <1>12 DEF Linked, Forward, Backward, ringVars
<1>14. RingInv(rank)'
  BY <1>2, <1>12, <1>13 DEF RingInv
<1> QED
  BY <1>0, <1>5, <1>8, <1>9, <1>10, <1>14 DEF CalmAt

\* The victim is in no ring any more, is neither the task that frees it nor the one
\* the loop goes on with, and the loop has not come round to where it began.
LEMMA FreeMoves ==
    ASSUME IInv, NEW rank, CalmAt(rank), ~Hit, Free, NEW v, v = Local.victim
    PROVE  /\ At("free") /\ Level \in {"task", "irq"} /\ Pc = "free" /\ Mine = Local
           /\ v \in live /\ v \in AllTasks \ {cpu, Idle} /\ rank[v] > rank[cpu]
           /\ Local.t \in InRing \ {v} /\ Ahead(rank, Local.t)
           /\ FirstLap(rank, InRing, Local.start, v) /\ Beyond(rank, v, Local.t)
           /\ Local.t # Local.start
           /\ next_task' = [next_task EXCEPT ![v] = NULL]
           /\ last_task' = [last_task EXCEPT ![v] = NULL]
           /\ live' = live \ {v}
           /\ killed' = killed \ {v}
           /\ suspended' = suspended \ {v}
           /\ UNCHANGED <<task_list_head, current_task, cpu, callback, pump, demo_running, ub>>
           /\ task_pc'[v] = "run" /\ irq_pc'[v] = "none"
           /\ \A t \in AllTasks : t # v /\ t # cpu => task_pc'[t] = task_pc[t] /\ irq_pc'[t] = irq_pc[t]
           /\ Level = "irq" => task_pc'[cpu] = task_pc[cpu] /\ irq_pc'[cpu] = "test"
           /\ Level = "task" => task_pc'[cpu] = "test" /\ irq_pc'[cpu] = "none"
           /\ Pc' = "test" /\ Mine'.t = Local.t /\ Mine'.start = Local.start
<1> DEFINE irq == Level = "irq"
<1>0. FrameType
  BY DEF IInv, TypeOK
<1>1. At("free") /\ "free" \in YieldPoints /\ "test" \in YieldPoints
  BY DEF Free, YieldPoints
<1>2. /\ rank \in [AllTasks -> Nat]
      /\ Ranked(rank, InRing) /\ LocalsOK(rank) /\ CurrentOK
      /\ Linked(rank, Unlinking, Freeing)
  BY <1>1, CalmParts
<1>3. /\ Pc = "free" /\ Mine = Local /\ Level \in {"task", "irq"}
      /\ irq => task_pc[cpu] \notin YieldPoints
      /\ ~irq => irq_pc[cpu] = "none"
  BY <1>1, Alone DEF Level
<1>4. /\ v \in live /\ rank[v] > rank[cpu]
      /\ Local.t \in InRing \ {v} /\ Ahead(rank, Local.t)
      /\ FirstLap(rank, InRing, Local.start, v) /\ Beyond(rank, v, Local.t)
  BY <1>2, <1>3 DEF LocalsOK
<1>5. v # cpu /\ v \in AllTasks /\ cpu \in AllTasks /\ v # Idle
      /\ rank[v] \in Nat /\ rank[Local.t] \in Nat
  <2>1. rank[cpu] \in Nat
    BY <1>2, RingTypes
  <2> QED
    BY <1>2, <1>4, <2>1, RingTypes DEF InRing
<1>6. Local.t # Local.start
  BY <1>4, <1>5 DEF FirstLap, Beyond
<1>7. /\ next_task' = [next_task EXCEPT ![v] = NULL]
      /\ last_task' = [last_task EXCEPT ![v] = NULL]
      /\ live' = live \ {v}
      /\ killed' = killed \ {v}
      /\ suspended' = suspended \ {v}
      /\ task_pc' = [task_pc EXCEPT ![v] = "run", ![cpu] = IF irq THEN @ ELSE "test"]
      /\ irq_pc' = [irq_pc EXCEPT ![v] = "none", ![cpu] = IF irq THEN "test" ELSE @]
      /\ UNCHANGED <<task_list_head, current_task, cpu, callback, pump, demo_running, ub>>
  BY <1>4, <1>5, <1>6 DEF Free, demoVars
<1>8. scan' = [scan EXCEPT ![v] = [l \in Levels |-> NoScan],
                 ![cpu][Level] = [Local EXCEPT !.victim = NULL, !.t = Local.t]]
  BY <1>4, <1>5, <1>6, LocalTyped, <1>0 DEF Free, LocalType
<1>9. scan'[cpu][Level] = [Local EXCEPT !.victim = NULL, !.t = Local.t]
  BY <1>0, <1>3, <1>5, <1>8 DEF FrameType, Levels
<1>10. /\ task_pc'[v] = "run" /\ irq_pc'[v] = "none"
       /\ \A t \in AllTasks : t # v /\ t # cpu => task_pc'[t] = task_pc[t] /\ irq_pc'[t] = irq_pc[t]
       /\ irq => task_pc'[cpu] = task_pc[cpu] /\ irq_pc'[cpu] = "test"
       /\ ~irq => task_pc'[cpu] = "test" /\ irq_pc'[cpu] = "none"
  BY <1>0, <1>3, <1>5, <1>7 DEF FrameType
<1>11. Pc' = "test" /\ Mine' = scan'[cpu][Level]
  <2>1. cpu' = cpu
    BY <1>7
  <2>2. CASE irq
    <3>1. task_pc'[cpu] \notin YieldPoints /\ irq_pc'[cpu] = "test"
      BY <1>3, <1>10, <2>2
    <3> QED
      BY <2>1, <2>2, <3>1 DEF Outer, Pc, Mine
  <2>3. CASE ~irq
    <3>1. task_pc'[cpu] \in YieldPoints /\ task_pc'[cpu] = "test"
      BY <1>1, <1>10, <2>3
    <3> QED
      BY <1>3, <2>1, <2>3, <3>1 DEF Outer, Pc, Mine
  <2> QED
    BY <2>2, <2>3
<1>12. Mine'.t = Local.t /\ Mine'.start = Local.start
  BY <1>0, <1>9, <1>11, LocalTyped DEF LocalType
<1> QED
  BY <1>1, <1>3, <1>4, <1>5, <1>6, <1>7, <1>10, <1>11, <1>12

LEMMA FreeStep == ASSUME IInv, NEW rank, CalmAt(rank), ~Hit, Free PROVE CalmAt(rank)'
<1> DEFINE v == Local.victim
           irq == Level = "irq"
<1> HIDE DEF v
<1>0. FrameType /\ RingType /\ ~ub /\ TasksOK /\ FramesOK /\ KeysOK
  BY DEF IInv, TypeOK, CalmAt
<1>1. At("free") /\ "free" \in YieldPoints /\ "test" \in YieldPoints
  BY DEF Free, YieldPoints
<1>2. /\ rank \in [AllTasks -> Nat]
      /\ Ranked(rank, InRing) /\ LocalsOK(rank) /\ CurrentOK
      /\ Linked(rank, Unlinking, Freeing)
  BY <1>1, CalmParts
<1>3. /\ Pc = "free" /\ Mine = Local /\ Level \in {"task", "irq"}
      /\ irq => task_pc[cpu] \notin YieldPoints
      /\ ~irq => irq_pc[cpu] = "none"
  BY <1>1, Alone DEF Level
<1>4. /\ Unlinking = {} /\ Freeing = {v} /\ current_task = cpu
      /\ task_list_head = Idle
      /\ Forward(rank, InRing \ {v}, next_task) /\ Backward(rank, InRing \ {v}, last_task)
  BY <1>2, <1>3 DEF Unlinking, Freeing, Linked, CurrentOK, v
<1>5. /\ v \in live /\ rank[v] > rank[cpu]
      /\ Local.t \in InRing \ {v} /\ Ahead(rank, Local.t)
      /\ FirstLap(rank, InRing, Local.start, v) /\ Beyond(rank, v, Local.t)
  BY FreeMoves DEF v
<1>6. v # cpu /\ v \in AllTasks /\ cpu \in AllTasks /\ v # Idle /\ Idle \in AllTasks
  BY FreeMoves, RingTypes DEF v, AllTasks
<1>7. /\ next_task' = [next_task EXCEPT ![v] = NULL]
      /\ last_task' = [last_task EXCEPT ![v] = NULL]
      /\ live' = live \ {v}
      /\ killed' = killed \ {v}
      /\ suspended' = suspended \ {v}
      /\ UNCHANGED <<task_list_head, current_task, cpu, callback, pump, demo_running, ub>>
  BY FreeMoves DEF v
<1>10. /\ task_pc'[v] = "run" /\ irq_pc'[v] = "none"
       /\ \A t \in AllTasks : t # v /\ t # cpu => task_pc'[t] = task_pc[t] /\ irq_pc'[t] = irq_pc[t]
       /\ irq => task_pc'[cpu] = task_pc[cpu] /\ irq_pc'[cpu] = "test"
       /\ ~irq => task_pc'[cpu] = "test" /\ irq_pc'[cpu] = "none"
  BY <1>3, FreeMoves DEF v
<1>11. Pc' = "test" /\ Mine'.t = Local.t /\ Mine'.start = Local.start
  BY FreeMoves
<1>13. FramesOK'
  <2>1. ASSUME NEW t \in AllTasks \ {cpu}
        PROVE  task_pc'[t] \notin YieldPoints /\ irq_pc'[t] \in {"none", "eoi"}
    BY <1>0, <1>10, Points DEF FramesOK
  <2>2. cpu' = cpu
    BY <1>7
  <2> QED
    BY <2>1, <2>2 DEF FramesOK
<1>14. TasksOK'
  <2>1. ASSUME NEW t \in killed \ {v} PROVE task_pc'[t] \in YieldPoints \cup {"exit"}
    <3>1. t \in AllTasks /\ task_pc[t] \in YieldPoints \cup {"exit"}
      BY <1>0, RingTypes DEF TasksOK, InRing
    <3> QED
      BY <3>1, <1>1, <1>10
  <2>2. task_pc'[Idle] # "sleep"
    BY <1>0, <1>6, <1>10 DEF TasksOK
  <2>3. cpu \in InRing \ {v}
    BY <1>0, <1>6 DEF TasksOK
  <2>4. live' \cup {Idle} = InRing \ {v}
    BY <1>6, <1>7 DEF InRing
  <2> QED
    BY <1>0, <1>7, <2>1, <2>2, <2>3, <2>4 DEF TasksOK, InRing
<1>15. KeysOK'
  <2>1. irq_pc'[cpu] # "start"
    BY <1>1, <1>3, <1>10, Points
  <2>2. /\ irq => irq_pc[cpu] = "free"
        /\ ~irq => task_pc[cpu] = "free"
    BY <1>1, <1>3 DEF At, Here
  <2>3. CASE cpu = Idle
    <3>1. callback = "shell" => irq
      BY <1>0, <2>2, <2>3 DEF KeysOK
    <3> QED
      BY <1>0, <1>7, <1>10, <2>1, <2>2, <2>3, <3>1 DEF KeysOK
  <2>4. CASE cpu # Idle
    BY <1>0, <1>6, <1>7, <1>10, <2>1, <2>4 DEF KeysOK
  <2> QED
    BY <2>3, <2>4
<1>16. InRing' = InRing \ {v} /\ Unlinking' = {} /\ Freeing' = {}
  BY <1>6, <1>7, <1>11 DEF InRing, Unlinking, Freeing
<1>17. Linked(rank, Unlinking, Freeing)'
  <2>1. \A t \in InRing \ {v} : next_task'[t] = next_task[t] /\ last_task'[t] = last_task[t]
    BY <1>0, <1>7, RingTypes DEF RingType
  <2>2. Forward(rank, InRing \ {v}, next_task')
    BY <1>4, <2>1 DEF Forward
  <2>3. Backward(rank, InRing \ {v}, last_task')
    BY <1>4, <2>1 DEF Backward
  <2> QED
    BY <1>4, <1>7, <1>16, <2>2, <2>3 DEF Linked
<1>18. LocalsOK(rank)'
  <2>1. Local.t = Idle \/ FirstLap(rank, InRing \ {v}, Local.start, Local.t)
    <3>1. rank[v] \in Nat /\ rank[Local.t] \in Nat
          /\ (Local.start \in InRing => rank[Local.start] \in Nat)
      BY <1>2, <1>5, <1>6, RingTypes
    <3> QED
      BY <1>5, <3>1 DEF FirstLap, Beyond
  <2> QED
    BY <1>5, <1>7, <1>11, <1>16, <2>1 DEF LocalsOK, Ahead
<1>19. CurrentOK'
  BY <1>4, <1>7, <1>11 DEF CurrentOK
<1>20. Ranked(rank, InRing)'
  BY <1>2, <1>5, <1>6, <1>16, RankedSubset DEF InRing
<1>21. RingInv(rank)'
  BY <1>17, <1>18, <1>19, <1>20 DEF RingInv
<1> QED
  BY <1>0, <1>7, <1>13, <1>14, <1>15, <1>21 DEF CalmAt

LEMMA SchedSafe == ASSUME IInv, NEW rank, CalmAt(rank), SchedStep, ~hit' PROVE CalmAt(rank)'
BY HitStep, ScanStep, TestStep, UnlinkPrevStep, UnlinkNextStep, FreeStep, PickStep,
   SwitchStep DEF SchedStep

-----------------------------------------------------------------------------
\* Interrupts and tasks: none of them is inside sched_next.

LEMMA AsideStep ==
    ASSUME IInv, NEW rank, CalmAt(rank), ~Torn, UNCHANGED <<ringVars, live, cpu, current_task, scan>>,
           irq_pc[cpu] \notin Scanning, irq_pc'[cpu] \notin Scanning,
           \/ task_pc'[cpu] = task_pc[cpu] /\ killed' = killed /\ suspended' \subseteq suspended
           \/ task_pc[cpu] \notin YieldPoints /\ task_pc'[cpu] \notin Scanning
    PROVE  RingInv(rank)'
<1>1. rank \in [AllTasks -> Nat] /\ RingInv(rank)
  BY DEF CalmAt
<1>2. CASE task_pc[cpu] \in YieldPoints /\ task_pc'[cpu] = task_pc[cpu]
           /\ killed' = killed /\ suspended' \subseteq suspended
  <2>1. Pc' = Pc /\ Mine' = Mine
    BY <1>2 DEF Outer, Pc, Mine
  <2> QED
    BY <1>1, <1>2, <2>1, RingKept
<1>3. CASE task_pc[cpu] \notin YieldPoints /\ task_pc'[cpu] \notin Scanning
  <2>1. Pc \notin Scanning /\ Pc' \notin Scanning
    BY <1>3 DEF Outer, Pc
  <2> QED
    BY <1>1, <2>1, RingKept
<1> QED
  BY <1>2, <1>3, Points

\* Where the CPU is when a handler or a task moves on.
LEMMA IrqPoint ==
    ASSUME IInv, NEW p \in {"tick", "eoi", "start"}, At(p)
    PROVE  Level = "irq" /\ irq_pc[cpu] = p /\ irq_pc[cpu] \notin Scanning /\ ~Torn
BY Points DEF IInv, TypeOK, FrameType, TaskPoints, YieldPoints, Scanning, At, Here, Level, Torn

LEMMA TaskPoint ==
    ASSUME IInv, Level = "task"
    PROVE  irq_pc[cpu] = "none" /\ irq_pc[cpu] \notin Scanning /\ ~Torn /\ ~Hit
BY DEF Scanning, Level, Torn, Hit

\* A handler that ends wakes its own task from hlt, and changes no other frame.
LEMMA WakeFrames ==
    ASSUME IInv, FramesOK, TasksOK, task_pc' = [task_pc EXCEPT ![cpu] = Wake(@)],
           \/ irq_pc' = [irq_pc EXCEPT ![cpu] = "none"]
           \/ irq_pc' = irq_pc,
           UNCHANGED <<live, killed, suspended, cpu>>
    PROVE  /\ FramesOK' /\ TasksOK'
           /\ \A t \in AllTasks \ {cpu} : task_pc'[t] = task_pc[t] /\ irq_pc'[t] = irq_pc[t]
           /\ \/ task_pc'[cpu] = task_pc[cpu]
              \/ task_pc[cpu] \notin YieldPoints /\ task_pc'[cpu] = "run" /\ task_pc[cpu] = "hlt"
<1>1. FrameType /\ cpu \in AllTasks /\ Idle \in AllTasks
  BY RingTypes DEF IInv, TypeOK, AllTasks
<1>2. /\ \A t \in AllTasks \ {cpu} : task_pc'[t] = task_pc[t] /\ irq_pc'[t] = irq_pc[t]
      /\ \/ task_pc'[cpu] = task_pc[cpu]
         \/ task_pc[cpu] \notin YieldPoints /\ task_pc'[cpu] = "run" /\ task_pc[cpu] = "hlt"
  BY <1>1, Points DEF Wake, FrameType
<1>3. FramesOK'
  BY <1>2 DEF FramesOK
<1>4. \A t \in killed : task_pc'[t] \in YieldPoints \cup {"exit"}
  BY <1>1, <1>2, RingTypes, Points DEF TasksOK, InRing
<1>5. task_pc'[Idle] # "sleep"
  BY <1>1, <1>2 DEF TasksOK
<1> QED
  BY <1>2, <1>3, <1>4, <1>5 DEF TasksOK, InRing

LEMMA TickStep == ASSUME IInv, NEW rank, CalmAt(rank), Tick PROVE CalmAt(rank)'
<1>0. FrameType /\ ~ub /\ TasksOK /\ FramesOK /\ KeysOK
  BY DEF IInv, TypeOK, CalmAt
<1>1. At("tick") /\ Level = "irq" /\ irq_pc[cpu] \notin Scanning /\ ~Torn
  BY IrqPoint DEF Tick
<1>2. PICK to \in {"eoi", "scan"} : Goto(to)
  BY DEF Tick
<1>3. UNCHANGED <<ringVars, live, killed, suspended, cpu, current_task, scan, callback, pump,
                  demo_running, ub>>
  BY DEF Tick, demoVars, ghostVars
<1>4. FramesOK' /\ TasksOK'
  BY <1>0, <1>1, <1>2, <1>3, MoveBasics DEF TasksOK
<1>5. KeysOK'
  BY <1>0, <1>1, <1>2, <1>3, MoveKeys
<1>6. task_pc'[cpu] = task_pc[cpu] /\ irq_pc'[cpu] \notin Scanning
  BY <1>0, <1>1, <1>2 DEF Goto, FrameType, Scanning
<1>7. RingInv(rank)'
  BY <1>1, <1>3, <1>6, AsideStep
<1> QED
  BY <1>0, <1>3, <1>4, <1>5, <1>7 DEF CalmAt

LEMMA EoiStep == ASSUME IInv, NEW rank, CalmAt(rank), Eoi PROVE CalmAt(rank)'
<1>0. FrameType /\ ~ub /\ TasksOK /\ FramesOK /\ KeysOK
  BY DEF IInv, TypeOK, CalmAt
<1>1. Level = "irq" /\ irq_pc[cpu] = "eoi" /\ irq_pc[cpu] \notin Scanning /\ ~Torn
  BY IrqPoint DEF Eoi
<1>2. /\ irq_pc' = [irq_pc EXCEPT ![cpu] = "none"]
      /\ task_pc' = [task_pc EXCEPT ![cpu] = Wake(@)]
      /\ UNCHANGED <<ringVars, live, killed, suspended, cpu, current_task, scan, callback, pump,
                     demo_running, ub>>
  BY DEF Eoi, taskVars, demoVars, ghostVars
<1>3. /\ FramesOK' /\ TasksOK'
      /\ \A t \in AllTasks \ {cpu} : task_pc'[t] = task_pc[t] /\ irq_pc'[t] = irq_pc[t]
      /\ \/ task_pc'[cpu] = task_pc[cpu]
         \/ task_pc[cpu] \notin YieldPoints /\ task_pc'[cpu] = "run" /\ task_pc[cpu] = "hlt"
  BY <1>0, <1>2, WakeFrames
<1>4. irq_pc'[cpu] = "none" /\ Idle \in AllTasks /\ cpu \in AllTasks
  BY <1>0, <1>2, RingTypes DEF FrameType, AllTasks
<1>5. KeysOK'
  <2>1. CASE cpu = Idle
    BY <1>0, <1>1, <1>2, <1>3, <1>4, <2>1 DEF KeysOK
  <2>2. CASE cpu # Idle
    BY <1>0, <1>1, <1>2, <1>3, <1>4, <2>2 DEF KeysOK
  <2> QED
    BY <2>1, <2>2
<1>6. irq_pc'[cpu] \notin Scanning /\ "run" \notin Scanning
  BY <1>4 DEF Scanning
<1>7. RingInv(rank)'
  BY <1>1, <1>2, <1>3, <1>6, AsideStep
<1> QED
  BY <1>0, <1>2, <1>3, <1>5, <1>7 DEF CalmAt

\* Who an interrupt is taken on while the keyboard belongs to the shell.
LEMMA ShellOnIdle ==
    ASSUME IInv, NEW rank, CalmAt(rank), callback = "shell", Interruptible \/ irq_pc[cpu] = "start"
    PROVE  /\ cpu = Idle /\ task_pc[cpu] \in {"run", "hlt"} /\ pump = 0
           /\ Outer = "irq" /\ Pc \in {"none", "start"} /\ ~Torn
<1>0. KeysOK /\ OnePreempted /\ FrameType
  BY DEF IInv, TypeOK, CalmAt
<1>1. cpu \in AllTasks /\ Idle \in AllTasks /\ "eoi" \in TimerPoints
  BY RingTypes DEF AllTasks, TimerPoints
<1>2. cpu = Idle
  <2>1. SUFFICES ASSUME cpu # Idle PROVE FALSE
    OBVIOUS
  <2>2. irq_pc[Idle] = "eoi"
    BY <1>0, <2>1 DEF KeysOK
  <2>3. in_service /\ irq_pc[cpu] = "none"
    BY <1>0, <1>1, <2>1, <2>2 DEF OnePreempted
  <2> QED
    BY <2>3 DEF Interruptible
<1>3. task_pc[cpu] \in {"run", "hlt"} /\ pump = 0
  BY <1>0, <1>2 DEF KeysOK
<1>4. Outer = "irq"
  BY <1>3, Points DEF Outer
<1>5. irq_pc[cpu] \in {"none", "start"}
  BY DEF Interruptible, Level
<1> QED
  BY <1>2, <1>3, <1>4, <1>5 DEF Pc, Torn

LEMMA TimerStep == ASSUME IInv, NEW rank, CalmAt(rank), TimerIrq PROVE CalmAt(rank)'
<1>0. FrameType /\ ~ub /\ TasksOK /\ FramesOK /\ KeysOK
  BY DEF IInv, TypeOK, CalmAt
<1>1. irq_pc[cpu] = "none" /\ irq_pc[cpu] \notin Scanning /\ ~Torn
  BY TaskPoint DEF TimerIrq, Interruptible
<1>2. /\ irq_pc' = [irq_pc EXCEPT ![cpu] = "tick"]
      /\ UNCHANGED <<ringVars, live, killed, suspended, cpu, current_task, task_pc, scan,
                     callback, pump, demo_running, ub>>
  BY DEF TimerIrq, taskVars, demoVars, ghostVars
<1>3. /\ irq_pc'[cpu] = "tick" /\ cpu \in AllTasks /\ Idle \in AllTasks
      /\ \A t \in AllTasks \ {cpu} : irq_pc'[t] = irq_pc[t]
  BY <1>0, <1>2, RingTypes DEF FrameType, AllTasks
<1>4. FramesOK' /\ TasksOK'
  BY <1>0, <1>2, <1>3 DEF FramesOK, TasksOK, InRing
<1>5. KeysOK'
  BY <1>0, <1>1, <1>2, <1>3 DEF KeysOK
<1>6. irq_pc'[cpu] \notin Scanning
  BY <1>3 DEF Scanning
<1>7. RingInv(rank)'
  BY <1>1, <1>2, <1>6, AsideStep
<1> QED
  BY <1>0, <1>2, <1>4, <1>5, <1>7 DEF CalmAt

LEMMA StopKeyStep == ASSUME IInv, NEW rank, CalmAt(rank), StopKey PROVE CalmAt(rank)'
<1>0. FrameType /\ ~ub /\ TasksOK /\ FramesOK /\ KeysOK
  BY DEF IInv, TypeOK, CalmAt
<1>1. irq_pc[cpu] = "none" /\ irq_pc[cpu] \notin Scanning /\ ~Torn /\ callback = "demo"
  BY TaskPoint DEF StopKey, Interruptible
<1>2. /\ task_pc' = [task_pc EXCEPT ![cpu] = Wake(@)]
      /\ UNCHANGED <<ringVars, live, killed, suspended, cpu, current_task, irq_pc, scan,
                     callback, pump, demo_running, ub>>
  BY DEF StopKey, taskVars, ghostVars
<1>3. /\ FramesOK' /\ TasksOK'
      /\ \/ task_pc'[cpu] = task_pc[cpu]
         \/ task_pc[cpu] \notin YieldPoints /\ task_pc'[cpu] = "run"
  BY <1>0, <1>2, WakeFrames
<1>5. KeysOK'
  BY <1>0, <1>1, <1>2 DEF KeysOK
<1>6. irq_pc'[cpu] \notin Scanning /\ "run" \notin Scanning
  BY <1>1, <1>2 DEF Scanning
<1>7. RingInv(rank)'
  BY <1>1, <1>2, <1>3, <1>6, AsideStep
<1> QED
  BY <1>0, <1>2, <1>3, <1>5, <1>7 DEF CalmAt

LEMMA StartKeyStep == ASSUME IInv, NEW rank, CalmAt(rank), StartKey PROVE CalmAt(rank)'
<1>0. FrameType /\ ~ub /\ TasksOK /\ FramesOK /\ KeysOK
  BY DEF IInv, TypeOK, CalmAt
<1>1. /\ irq_pc[cpu] = "none" /\ irq_pc[cpu] \notin Scanning /\ ~Torn
      /\ cpu = Idle /\ task_pc[cpu] \in {"run", "hlt"} /\ pump = 0 /\ callback = "shell"
  BY TaskPoint, ShellOnIdle DEF StartKey, Interruptible
<1>2. /\ irq_pc' = [irq_pc EXCEPT ![cpu] = "start"] /\ demo_running' = TRUE
      /\ UNCHANGED <<ringVars, live, killed, suspended, cpu, current_task, task_pc, scan,
                     callback, pump, ub>>
  BY DEF StartKey, taskVars, ghostVars
<1>3. /\ irq_pc'[cpu] = "start" /\ cpu \in AllTasks
      /\ \A t \in AllTasks \ {cpu} : irq_pc'[t] = irq_pc[t]
  BY <1>0, <1>2, RingTypes DEF FrameType
<1>4. FramesOK' /\ TasksOK'
  BY <1>0, <1>2, <1>3 DEF FramesOK, TasksOK, InRing
<1>5. KeysOK'
  BY <1>0, <1>1, <1>2, <1>3 DEF KeysOK
<1>6. irq_pc'[cpu] \notin Scanning
  BY <1>3 DEF Scanning
<1>7. RingInv(rank)'
  BY <1>1, <1>2, <1>6, AsideStep
<1> QED
  BY <1>0, <1>2, <1>4, <1>5, <1>7 DEF CalmAt

-----------------------------------------------------------------------------
\* A key adds a task to the ring while no sched_yield is in progress.
LEMMA AddRing ==
    ASSUME IInv, NEW rank, CalmAt(rank), callback = "shell", Interruptible \/ irq_pc[cpu] = "start",
           NEW t \in Slots \ live, ListAdd(t), live' = live \cup {t},
           Outer' = "irq", Pc' \in {"none", "start"}, UNCHANGED <<cpu, current_task>>
    PROVE  \E rank2 \in [AllTasks -> Nat] : RingInv(rank2)' /\ Extends(rank, rank2)
<1>1. Outer = "irq" /\ Pc \in {"none", "start"} /\ ~Torn
  BY ShellOnIdle
<1>2. rank \in [AllTasks -> Nat] /\ RingInv(rank)
  BY DEF CalmAt
<1>3. Unlinking = {} /\ Freeing = {} /\ Unlinking' = {} /\ Freeing' = {}
  BY <1>1 DEF Unlinking, Freeing
<1>4. /\ Ranked(rank, InRing) /\ current_task = cpu /\ task_list_head = Idle
      /\ Forward(rank, InRing, next_task) /\ Backward(rank, InRing, last_task)
  BY <1>1, <1>2, <1>3 DEF RingInv, CurrentOK, Linked, Torn, BusyRemove
<1>5. /\ RingType /\ InRing \subseteq AllTasks /\ Idle \in InRing /\ t \in AllTasks \ InRing
      /\ Idle # NULL
  BY SlotAssumption, RingTypes DEF IInv, TypeOK, InRing, AllTasks, Slots
<1> DEFINE z == last_task[Idle]
<1>6. z \in InRing
  BY <1>4, <1>5 DEF Backward
<1>7. /\ next_task' = [next_task EXCEPT ![z] = t, ![t] = Idle]
      /\ last_task' = [last_task EXCEPT ![Idle] = t, ![t] = z]
      /\ task_list_head' = Idle
  BY <1>4, <1>5 DEF ListAdd
<1>8. Appended(InRing, t, next_task, last_task, next_task', last_task')
  BY <1>5, <1>6, <1>7 DEF RingType, Appended
<1>9. PICK rank2 : Raised(rank, InRing, t, z, rank2)
  <2>1. Raised(rank, InRing, t, z, [rank EXCEPT ![t] = rank[z] + 1])
    BY <1>4, <1>5, <1>6 DEF Ranked, Raised
  <2> QED
    BY <2>1
<1>11. /\ Ranked(rank2, InRing \cup {t})
       /\ Forward(rank2, InRing \cup {t}, next_task')
       /\ Backward(rank2, InRing \cup {t}, last_task')
  BY <1>4, <1>5, <1>8, <1>9, AddTask
<1>12. InRing' = InRing \cup {t}
  BY DEF InRing
<1>13. rank2 \in [AllTasks -> Nat]
  BY <1>11 DEF Ranked
<1>14. CurrentOK' /\ LocalsOK(rank2)'
  BY <1>4 DEF CurrentOK, LocalsOK
<1>15. Linked(rank2, Unlinking, Freeing)'
  BY <1>3, <1>7, <1>11, <1>12 DEF Linked
<1>16. RingInv(rank2)' /\ Extends(rank, rank2)
  BY <1>9, <1>11, <1>12, <1>14, <1>15 DEF RingInv, Extends, Raised
<1> QED
  BY <1>13, <1>16

\* The tail is allocated, so list_add is defined.
LEMMA TailFound ==
    ASSUME IInv, NEW rank, CalmAt(rank), callback = "shell", Interruptible \/ irq_pc[cpu] = "start"
    PROVE  TailOK
<1>1. Outer = "irq" /\ Pc \in {"none", "start"} /\ ~Torn
  BY ShellOnIdle
<1>2. rank \in [AllTasks -> Nat] /\ RingInv(rank)
  BY DEF CalmAt
<1>3. task_list_head = Idle /\ Backward(rank, InRing, last_task)
  BY <1>1, <1>2 DEF RingInv, Unlinking, Freeing, Linked, Torn, BusyRemove
<1> QED
  BY <1>3, RingTypes DEF Backward, TailOK

LEMMA ExecKeyStep ==
    ASSUME IInv, NEW rank, CalmAt(rank), NEW p \in Programs, ExecKey(p)
    PROVE  \E rank2 : /\ CalmAt(rank2)' /\ Extends(rank, rank2)
                      /\ Pc' \in Scanning => rank2 = rank
<1>0. FrameType /\ ~ub /\ TasksOK /\ FramesOK /\ KeysOK
  BY DEF IInv, TypeOK, CalmAt
<1>1. /\ callback = "shell" /\ Interruptible
      /\ cpu = Idle /\ task_pc[cpu] \in {"run", "hlt"} /\ irq_pc[cpu] = "none"
  BY ShellOnIdle, TaskPoint DEF ExecKey, Interruptible
<1>2. /\ p \in Slots \ live /\ ListAdd(p) /\ live' = live \cup {p}
      /\ task_pc' = [task_pc EXCEPT ![cpu] = Wake(@)]
      /\ UNCHANGED <<killed, suspended, cpu, current_task, irq_pc, callback, pump,
                     demo_running, ub>>
  BY <1>1, TailFound DEF ExecKey, Slots, steadyVars, demoVars, ghostVars
<1>3. /\ task_pc'[cpu] = "run" /\ cpu \in AllTasks
      /\ \A t \in AllTasks \ {cpu} : task_pc'[t] = task_pc[t]
  BY <1>0, <1>1, <1>2, RingTypes DEF FrameType, Wake
<1>4. FramesOK'
  BY <1>0, <1>2, <1>3 DEF FramesOK
<1>5. TasksOK'
  <2>1. ASSUME NEW t \in killed PROVE task_pc'[t] \in YieldPoints \cup {"exit"}
    <3>1. t # cpu /\ t \in AllTasks
      BY <1>0, <1>1, RingTypes DEF TasksOK, InRing
    <3> QED
      BY <3>1, <1>0, <1>3 DEF TasksOK
  <2> QED
    BY <1>0, <1>1, <1>2, <1>3, <2>1 DEF TasksOK, InRing
<1>6. KeysOK'
  BY <1>0, <1>1, <1>2, <1>3 DEF KeysOK
<1>7. Outer' = "irq" /\ Pc' = "none"
  BY <1>1, <1>2, <1>3, Points DEF Outer, Pc
<1>8. PICK rank2 \in [AllTasks -> Nat] : RingInv(rank2)' /\ Extends(rank, rank2)
  BY <1>1, <1>2, <1>7, AddRing
<1> QED
  BY <1>0, <1>2, <1>4, <1>5, <1>6, <1>7, <1>8 DEF CalmAt, Scanning

LEMMA StartOneStep ==
    ASSUME IInv, NEW rank, CalmAt(rank), StartOne
    PROVE  \E rank2 : /\ CalmAt(rank2)' /\ Extends(rank, rank2)
                      /\ Pc' \in Scanning => rank2 = rank
<1>0. FrameType /\ ~ub /\ TasksOK /\ FramesOK /\ KeysOK
  BY DEF IInv, TypeOK, CalmAt
<1>1. irq_pc[cpu] = "start" /\ irq_pc[cpu] \notin Scanning /\ ~Torn
  BY IrqPoint DEF StartOne
<1>2. callback = "shell" /\ TailOK /\ Outer = "irq"
  <2>1. callback = "shell"
    BY <1>0, <1>1 DEF KeysOK
  <2> QED
    BY <2>1, <1>1, ShellOnIdle, TailFound
<1>3. UNCHANGED <<killed, suspended, current_task, frameVars, callback, pump, demo_running, ub>>
  BY <1>2 DEF StartOne, taskVars, ghostVars
<1>4. UNCHANGED <<cpu, task_pc, irq_pc, scan>>
  BY <1>3 DEF frameVars
<1>5. /\ live \subseteq live'
      /\ \E rank2 \in [AllTasks -> Nat] :
            RingInv(rank2)' /\ Extends(rank, rank2) /\ (Pc' \in Scanning => rank2 = rank)
  <2>1. CASE UNCHANGED <<ringVars, live>>
    <3>1. RingInv(rank)'
      BY <1>1, <1>3, <1>4, <2>1, AsideStep
    <3> QED
      BY <2>1, <3>1 DEF CalmAt, Extends
  <2>2. ASSUME NEW d \in Demos \ live, live' = live \cup {d}, ListAdd(d)
        PROVE  \E rank2 \in [AllTasks -> Nat] :
                  RingInv(rank2)' /\ Extends(rank, rank2) /\ (Pc' \in Scanning => rank2 = rank)
    <3>1. d \in Slots \ live
      BY <2>2 DEF Slots
    <3>2. Outer' = "irq" /\ Pc' = "start"
      BY <1>1, <1>2, <1>4 DEF Outer, Pc
    <3> QED
      BY <1>1, <1>2, <1>3, <1>4, <2>2, <3>1, <3>2, AddRing DEF Scanning
  <2> QED
    BY <1>2, <2>1, <2>2 DEF StartOne, taskVars
<1>6. FramesOK' /\ TasksOK' /\ KeysOK'
  BY <1>0, <1>3, <1>4, <1>5 DEF FramesOK, TasksOK, KeysOK, InRing
<1> QED
  BY <1>0, <1>3, <1>5, <1>6 DEF CalmAt

LEMMA StartEndStep == ASSUME IInv, NEW rank, CalmAt(rank), StartEnd PROVE CalmAt(rank)'
<1>0. FrameType /\ ~ub /\ TasksOK /\ FramesOK /\ KeysOK
  BY DEF IInv, TypeOK, CalmAt
<1>1. irq_pc[cpu] = "start" /\ irq_pc[cpu] \notin Scanning /\ ~Torn
  BY IrqPoint DEF StartEnd
<1>2. callback = "shell" /\ cpu = Idle /\ pump = 0
  <2>1. callback = "shell"
    BY <1>0, <1>1 DEF KeysOK
  <2> QED
    BY <2>1, <1>1, ShellOnIdle
<1>3. /\ task_pc' = [task_pc EXCEPT ![cpu] = Wake(@)] /\ irq_pc' = [irq_pc EXCEPT ![cpu] = "none"]
      /\ UNCHANGED <<ringVars, live, killed, suspended, cpu, current_task, scan, pump, ub>>
      /\ callback' = "demo" \/ (callback' = callback /\ demo_running' = FALSE)
  BY DEF StartEnd, taskVars, ghostVars
<1>4. /\ FramesOK' /\ TasksOK'
      /\ \/ task_pc'[cpu] = task_pc[cpu]
         \/ task_pc[cpu] \notin YieldPoints /\ task_pc'[cpu] = "run" /\ task_pc[cpu] = "hlt"
  BY <1>0, <1>3, WakeFrames
<1>5. irq_pc'[cpu] = "none"
  BY <1>0, <1>3, RingTypes DEF FrameType
<1>6. KeysOK'
  BY <1>0, <1>2, <1>3, <1>4, <1>5, BoundAssumption DEF KeysOK
<1>7. irq_pc'[cpu] \notin Scanning /\ "run" \notin Scanning
  BY <1>5 DEF Scanning
<1>8. RingInv(rank)'
  BY <1>1, <1>3, <1>4, <1>7, AsideStep
<1> QED
  BY <1>0, <1>3, <1>4, <1>6, <1>8 DEF CalmAt

-----------------------------------------------------------------------------
\* The tasks' own code runs on the stack of current_task.
LEMMA OwnCode ==
    ASSUME IInv, NEW rank, CalmAt(rank), NEW from \in {"run", "exit", "sleep"}, AtTask(from)
    PROVE  /\ task_pc[cpu] = from /\ task_pc[cpu] \notin YieldPoints /\ Level = "task"
           /\ irq_pc[cpu] = "none" /\ current_task = cpu /\ ~Torn
<1>1. task_pc[cpu] = from /\ Level = "task" /\ irq_pc[cpu] = "none" /\ ~Torn
  BY TaskPoint DEF AtTask, At, Here
<1>2. task_pc[cpu] \notin YieldPoints
  BY <1>1, Points
<1>3. Pc = "none"
  BY <1>1, <1>2 DEF Outer, Pc
<1> QED
  BY <1>1, <1>2, <1>3 DEF CalmAt, RingInv, CurrentOK

\* A task calls task_kill, task_yield or task_sleep.
LEMMA OwnStep ==
    ASSUME IInv, NEW rank, CalmAt(rank), NEW from \in {"run", "exit", "sleep"}, AtTask(from), cpu # Idle,
           NEW to \in {"scan", "exit", "sleep"}, Goto(to),
           killed' \in {killed, killed \cup {cpu}}, suspended' \in {suspended, suspended \cup {cpu}},
           cpu \in killed' => to # "sleep",
           UNCHANGED <<ringVars, live, scan, steadyVars>>
    PROVE  CalmAt(rank)'
<1>0. FrameType /\ ~ub /\ TasksOK /\ FramesOK /\ KeysOK
  BY DEF IInv, TypeOK, CalmAt
<1>1. /\ task_pc[cpu] \notin YieldPoints /\ Level = "task"
      /\ irq_pc[cpu] = "none" /\ ~Torn
  BY OwnCode
<1>2. UNCHANGED <<cpu, current_task, callback, pump, demo_running, ub>>
  BY DEF steadyVars, demoVars, ghostVars
<1>3. /\ irq_pc' = irq_pc /\ task_pc'[cpu] = to /\ cpu \in live /\ Idle \in AllTasks
      /\ \A t \in AllTasks \ {cpu} : task_pc'[t] = task_pc[t]
  BY <1>0, <1>1, RingTypes DEF Goto, FrameType, TasksOK, InRing, AllTasks
<1>4. FramesOK'
  BY <1>0, <1>2, <1>3 DEF FramesOK
<1>5. TasksOK'
  <2>1. ASSUME NEW t \in killed' PROVE task_pc'[t] \in YieldPoints \cup {"exit"}
    <3>1. CASE t = cpu
      BY <2>1, <3>1, <1>3, Points
    <3>2. CASE t # cpu
      <4>1. t \in killed /\ t \in AllTasks
        BY <2>1, <3>2, <1>0, RingTypes DEF TasksOK, InRing
      <4> QED
        BY <4>1, <3>2, <1>0, <1>3 DEF TasksOK
    <3> QED
      BY <3>1, <3>2
  <2> QED
    BY <1>0, <1>2, <1>3, <2>1 DEF TasksOK, InRing
<1>6. KeysOK'
  BY <1>0, <1>2, <1>3 DEF KeysOK
<1>7. irq_pc[cpu] \notin Scanning /\ irq_pc'[cpu] \notin Scanning /\ task_pc'[cpu] \notin Scanning
  BY <1>1, <1>3 DEF Scanning
<1>8. RingInv(rank)'
  BY <1>1, <1>2, <1>7, AsideStep
<1> QED
  BY <1>0, <1>2, <1>4, <1>5, <1>6, <1>8 DEF CalmAt

LEMMA ProgramStep == ASSUME IInv, NEW rank, CalmAt(rank), Program \/ Demo PROVE CalmAt(rank)'
<1>1. /\ AtTask("run") /\ cpu # Idle
      /\ UNCHANGED <<ringVars, live, scan, steadyVars>>
      /\ KillSelf \/ Yield \/ \E jiffies \in 0..MaxSleep : SetWake(jiffies)
  BY SlotAssumption DEF Program, Demo, DemoBody
<1>2. current_task = cpu /\ task_pc[cpu] = "run"
  BY <1>1, OwnCode
<1>3. cpu \notin killed
  BY <1>2, Points DEF CalmAt, TasksOK
<1>4. PICK to \in {"scan", "exit", "sleep"} :
        /\ Goto(to) /\ suspended' = suspended
        /\ killed' \in {killed, killed \cup {cpu}}
        /\ cpu \in killed' => to # "sleep"
  BY <1>1, <1>2, <1>3 DEF KillSelf, AfterKill, Yield, SetWake
<1> QED
  BY <1>1, <1>4, OwnStep

LEMMA ExitStep == ASSUME IInv, NEW rank, CalmAt(rank), Exit PROVE CalmAt(rank)'
<1>0. FrameType /\ ~ub /\ TasksOK /\ FramesOK /\ KeysOK
  BY DEF IInv, TypeOK, CalmAt
<1>1. /\ AtTask("exit") /\ Goto("scan")
      /\ UNCHANGED <<ringVars, taskVars, scan, steadyVars>>
  BY DEF Exit
<1>2. /\ task_pc[cpu] = "exit" /\ task_pc[cpu] \notin YieldPoints /\ Level = "task"
      /\ irq_pc[cpu] = "none" /\ ~Torn
  BY <1>1, OwnCode
<1>3. UNCHANGED <<live, killed, suspended, cpu, current_task, callback, pump, demo_running, ub>>
  BY <1>1 DEF taskVars, steadyVars, demoVars, ghostVars
<1>4. FramesOK' /\ TasksOK'
  BY <1>0, <1>1, <1>3, MoveBasics, Points DEF TasksOK
<1>5. irq_pc' = irq_pc /\ task_pc' = [task_pc EXCEPT ![cpu] = "scan"] /\ cpu \in AllTasks
  BY <1>1, <1>2, RingTypes DEF Goto
<1>6. KeysOK'
  <2>1. callback = "shell" => cpu # Idle
    BY <1>0, <1>2 DEF KeysOK
  <2> QED
    BY <1>0, <1>3, <1>5, <2>1 DEF KeysOK, FrameType, AllTasks
<1>7. irq_pc[cpu] \notin Scanning /\ irq_pc'[cpu] \notin Scanning /\ task_pc'[cpu] \notin Scanning
  BY <1>0, <1>2, <1>5 DEF Scanning, FrameType
<1>8. RingInv(rank)'
  BY <1>1, <1>2, <1>3, <1>7, AsideStep
<1> QED
  BY <1>0, <1>3, <1>4, <1>6, <1>8 DEF CalmAt

LEMMA SleepStep == ASSUME IInv, NEW rank, CalmAt(rank), Sleep PROVE CalmAt(rank)'
<1>1. /\ AtTask("sleep") /\ Goto("scan")
      /\ suspended' = suspended \cup {current_task}
      /\ UNCHANGED <<ringVars, killed, wake_in, live, scan, steadyVars>>
  BY DEF Sleep
<1>2. current_task = cpu /\ task_pc[cpu] = "sleep"
  BY <1>1, OwnCode
<1>3. cpu # Idle
  BY <1>2 DEF CalmAt, TasksOK
<1> QED
  BY <1>1, <1>2, <1>3, OwnStep

LEMMA MainLoopStep == ASSUME IInv, NEW rank, CalmAt(rank), MainLoop PROVE CalmAt(rank)'
<1>0. FrameType /\ ~ub /\ TasksOK /\ FramesOK /\ KeysOK
  BY DEF IInv, TypeOK, CalmAt
<1>1. /\ task_pc[cpu] = "run" /\ task_pc[cpu] \notin YieldPoints /\ Level = "task"
      /\ irq_pc[cpu] = "none" /\ ~Torn /\ cpu = Idle
  BY OwnCode DEF MainLoop
<1>2. UNCHANGED <<ringVars, taskVars, live, killed, suspended, current_task, cpu, scan, ub>>
  BY DEF MainLoop, taskVars, ghostVars
<1>3. /\ cpu \in AllTasks /\ pump \in Nat /\ StopYields \in Nat
      /\ cpu \notin killed
  BY <1>0, <1>1, RingTypes, BoundAssumption DEF IInv, TypeOK, DemoType, TasksOK
<1>4. /\ irq_pc' = irq_pc
      /\ \A t \in AllTasks \ {cpu} : task_pc'[t] = task_pc[t]
      /\ task_pc'[cpu] \in {"scan", "hlt", "run"}
  BY <1>0, <1>1, <1>3 DEF MainLoop, Goto, FrameType
<1>5. FramesOK'
  BY <1>0, <1>2, <1>4 DEF FramesOK
<1>6. TasksOK'
  <2>1. ASSUME NEW t \in killed PROVE task_pc'[t] \in YieldPoints \cup {"exit"}
    BY <1>0, <1>3, <1>4, RingTypes DEF TasksOK, InRing
  <2> QED
    BY <1>0, <1>1, <1>2, <1>4, <2>1 DEF TasksOK, InRing
<1>7. KeysOK'
  <2>1. callback = "shell" => ~demo_running /\ pump = 0
    BY <1>0, <1>1 DEF KeysOK
  <2>2. Goto("hlt") => task_pc'[cpu] = "hlt"
    BY <1>0, <1>1, <1>3 DEF Goto, FrameType
  <2>3. CASE pump = 0 /\ demo_running /\ ~stop_requested /\ UNCHANGED <<demo_running, callback, pump>>
    BY <1>0, <1>1, <1>2, <1>4, <2>1, <2>3 DEF KeysOK
  <2>4. CASE pump = 0 /\ demo_running /\ stop_requested /\ demo_running' = FALSE
             /\ pump' = StopYields /\ UNCHANGED callback
    BY <1>0, <1>1, <1>2, <1>4, <2>1, <2>4 DEF KeysOK
  <2>5. CASE pump > 1 /\ pump' = pump - 1 /\ UNCHANGED <<demo_running, callback>>
    BY <1>0, <1>1, <1>2, <1>3, <1>4, <2>1, <2>5 DEF KeysOK
  <2>6. CASE pump = 1 /\ pump' = 0 /\ callback' = "shell" /\ UNCHANGED <<demo_running, task_pc, irq_pc>>
    BY <1>0, <1>1, <1>2, <2>6 DEF KeysOK
  <2>7. CASE pump = 0 /\ ~demo_running /\ Goto("hlt") /\ UNCHANGED <<demo_running, callback, pump>>
    BY <1>0, <1>1, <1>2, <1>4, <2>2, <2>7 DEF KeysOK
  <2> QED
    BY <2>3, <2>4, <2>5, <2>6, <2>7 DEF MainLoop
<1>8. irq_pc[cpu] \notin Scanning /\ irq_pc'[cpu] \notin Scanning /\ task_pc'[cpu] \notin Scanning
  BY <1>1, <1>4 DEF Scanning
<1>9. RingInv(rank)'
  BY <1>1, <1>2, <1>8, AsideStep
<1> QED
  BY <1>0, <1>2, <1>5, <1>6, <1>7, <1>9 DEF CalmAt

-----------------------------------------------------------------------------
LEMMA HitStays == ASSUME [Next]_vars, hit PROVE hit'
<1>1. CASE SchedStep
  BY <1>1 DEF SchedStep, Scan, Test, UnlinkPrev, UnlinkNext, Free, Pick, Switch, Undefined,
     steadyVars, ghostVars
<1>2. CASE IrqStep
  BY <1>2 DEF IrqStep, Tick, Eoi, StartOne, StartEnd, Undefined, ghostVars
<1>3. CASE TaskStep
  BY <1>3 DEF TaskStep, Program, Demo, Exit, Sleep, MainLoop, steadyVars, ghostVars
<1>4. CASE TimerIrq \/ Key
  BY <1>4 DEF TimerIrq, Key, StopKey, ExecKey, StartKey, Undefined, steadyVars, ghostVars
<1>5. CASE UNCHANGED vars
  BY <1>5 DEF vars, ghostVars
<1> QED
  BY <1>1, <1>2, <1>3, <1>4, <1>5 DEF Next, CpuStep

LEMMA InitCalm == Init => Calm
<1> SUFFICES ASSUME Init PROVE Calm
  OBVIOUS
<1>1. /\ InRing = {Idle} /\ cpu = Idle /\ current_task = Idle /\ Outer = "irq" /\ Pc = "none"
      /\ Idle \in AllTasks
  BY Points DEF Init, InRing, Outer, Pc, AllTasks
<1>2. FramesOK /\ TasksOK /\ KeysOK
  BY <1>1, Points DEF Init, FramesOK, TasksOK, KeysOK, InRing
<1>3. PICK rank \in [AllTasks -> Nat] : \A t \in AllTasks : rank[t] = 0
  <2>1. [t \in AllTasks |-> 0] \in [AllTasks -> Nat]
    OBVIOUS
  <2> QED
    BY <2>1
<1>4. Ranked(rank, InRing) /\ LocalsOK(rank) /\ CurrentOK
  BY <1>1, <1>3 DEF Ranked, LocalsOK, CurrentOK
<1>5. Linked(rank, Unlinking, Freeing)
  BY <1>1, <1>3 DEF Init, Linked, Forward, Backward, After, Unlinking, Freeing
<1>6. RingInv(rank)
  BY <1>4, <1>5 DEF RingInv
<1> QED
  BY <1>2, <1>3, <1>6 DEF Calm, CalmAt, Init

LEMMA CalmNext ==
    ASSUME IInv, NEW rank, CalmAt(rank), [Next]_vars, ~hit'
    PROVE  \E rank2 : /\ CalmAt(rank2)' /\ Extends(rank, rank2)
                      /\ SchedStep \/ Pc' \in Scanning => rank2 = rank
<1>0. Extends(rank, rank)
  BY DEF Extends
<1>1. CASE SchedStep
  BY <1>0, <1>1, SchedSafe
<1>2. CASE IrqStep /\ ~SchedStep
  <2>1. CASE StartOne
    <3>1. PICK rank2 : CalmAt(rank2)' /\ Extends(rank, rank2) /\ (Pc' \in Scanning => rank2 = rank)
      BY <2>1, StartOneStep
    <3> QED
      BY <1>2, <3>1
  <2> QED
    BY <1>0, <1>2, <2>1, TickStep, EoiStep, StartEndStep DEF IrqStep
<1>3. CASE TaskStep
  BY <1>0, <1>3, ProgramStep, ExitStep, SleepStep, MainLoopStep DEF TaskStep
<1>4. CASE TimerIrq
  BY <1>0, <1>4, TimerStep
<1>5. CASE Key /\ ~SchedStep
  <2>1. ASSUME NEW p \in Programs, ExecKey(p)
        PROVE  \E rank2 : CalmAt(rank2)' /\ Extends(rank, rank2) /\ (Pc' \in Scanning => rank2 = rank)
    BY <2>1, ExecKeyStep
  <2>2. CASE StopKey \/ StartKey
    BY <1>0, <2>2, StopKeyStep, StartKeyStep
  <2> QED
    BY <1>5, <2>1, <2>2 DEF Key
<1>6. CASE UNCHANGED vars
  <2>1. UNCHANGED <<ringVars, next_task, last_task, task_list_head, live, killed, suspended, cpu,
                    current_task, task_pc, irq_pc, scan, callback, pump, demo_running, ub>>
    BY <1>6 DEF vars, ringVars, taskVars, frameVars, demoVars, ghostVars
  <2>2. InRing' = InRing /\ Outer' = Outer
    BY <2>1 DEF InRing, Outer
  <2>3. Pc' = Pc /\ Mine' = Mine /\ BusyRemove' = BusyRemove /\ Torn' = Torn
    BY <2>1, <2>2 DEF Pc, Mine, BusyRemove, Torn
  <2>4. Unlinking' = Unlinking /\ Freeing' = Freeing
    BY <2>3 DEF Unlinking, Freeing
  <2>5. RingInv(rank)'
    <3>1. RingInv(rank) /\ Ranked(rank, InRing)'
      BY <2>2 DEF CalmAt, RingInv
    <3>2. LocalsOK(rank) => LocalsOK(rank)'
      BY <2>1, <2>2, <2>3 DEF LocalsOK, Ahead, FirstLap, Beyond
    <3>3. CurrentOK => CurrentOK'
      BY <2>1, <2>3 DEF CurrentOK
    <3>4. Linked(rank, Unlinking, Freeing) => Linked(rank, Unlinking, Freeing)'
      BY <2>1, <2>2, <2>4 DEF Linked, Forward, Backward
    <3> QED
      BY <2>3, <3>1, <3>2, <3>3, <3>4 DEF RingInv
  <2>6. FramesOK' /\ TasksOK' /\ KeysOK'
    BY <2>1 DEF CalmAt, FramesOK, TasksOK, KeysOK, InRing
  <2> QED
    BY <1>0, <2>1, <2>5, <2>6 DEF CalmAt
<1> QED
  BY <1>1, <1>2, <1>3, <1>4, <1>5, <1>6 DEF Next, CpuStep

THEOREM RingInvariance == Spec => []SInv
<1>1. Init => SInv
  BY InitInv, InitCalm DEF SInv
<1>2. SInv /\ [Next]_vars => SInv'
  BY NextInv, HitStays, CalmNext DEF SInv, Calm
<1> QED
  BY <1>1, <1>2, PTL DEF Spec

-----------------------------------------------------------------------------
\* Walking the ring from its head the way sched_print_tasks does.

LEMMA WalkSteps ==
    ASSUME NEW S, task_list_head \in S, \A t \in S : next_task[t] \in S
    PROVE  /\ Walk[0] = task_list_head
           /\ \A k \in Nat : Walk[k] \in S /\ Walk[k + 1] = next_task[Walk[k]]
<1> DEFINE f == [t \in S |-> next_task[t]]
<1>1. f \in [S -> S] /\ \A t \in S : f[t] = next_task[t]
  OBVIOUS
<1> HIDE DEF f
<1>2. PICK g \in [Nat -> S] : Iterates(g, f, task_list_head)
  BY <1>1, Iteration
<1>3. ASSUME NEW n \in Nat PROVE g[n] = IF n = 0 THEN task_list_head ELSE next_task[g[n - 1]]
  <2>1. CASE n = 0
    BY <1>2, <2>1 DEF Iterates
  <2>2. CASE n # 0
    <3>1. n - 1 \in Nat /\ (n - 1) + 1 = n
      BY <2>2
    <3> QED
      BY <1>1, <1>2, <2>2, <3>1 DEF Iterates
  <2> QED
    BY <2>1, <2>2
<1>4. g = [n \in Nat |-> IF n = 0 THEN task_list_head ELSE next_task[g[n - 1]]]
  BY <1>2, <1>3
<1>5. Walk = [n \in Nat |-> IF n = 0 THEN task_list_head ELSE next_task[Walk[n - 1]]]
  BY <1>4 DEF Walk
<1>6. \A n \in Nat : Walk[n] = IF n = 0 THEN task_list_head ELSE next_task[Walk[n - 1]]
  BY <1>5
<1>7. Walk[0] = task_list_head /\ \A k \in Nat : Walk[k + 1] = next_task[Walk[k]]
  BY <1>6
<1> DEFINE T == {k \in Nat : Walk[k] \in S}
<1>8. 0 \in T /\ \A k \in Nat : k \in T => k + 1 \in T
  <2>1. 0 \in T
    BY <1>7
  <2>2. ASSUME NEW k \in Nat, k \in T PROVE k + 1 \in T
    BY <1>7, <2>2
  <2> QED
    BY <2>1, <2>2
<1>9. Nat \subseteq T
  <2> HIDE DEF T
  <2> QED
    BY <1>8, SetInduction
<1> QED
  BY <1>7, <1>9

\* How many tasks of the ring come before t.
Before(rank, S, t) == {s \in S : rank[s] < rank[t]}
Place(rank, S, t) == Cardinality(Before(rank, S, t))

LEMMA PlaceType ==
    ASSUME NEW rank, NEW S, Ranked(rank, S), IsFiniteSet(S), NEW t \in S
    PROVE  /\ Cardinality(S) \in Nat /\ IsFiniteSet(Before(rank, S, t))
           /\ Place(rank, S, t) \in Nat /\ Place(rank, S, t) < Cardinality(S)
<1>1. Before(rank, S, t) \subseteq S /\ t \notin Before(rank, S, t)
  BY DEF Before, Ranked
<1>2. IsFiniteSet(Before(rank, S, t)) /\ Cardinality(Before(rank, S, t)) <= Cardinality(S)
      /\ (Cardinality(S) = Cardinality(Before(rank, S, t)) => S = Before(rank, S, t))
  BY <1>1, FS_Subset
<1>3. Cardinality(S) \in Nat /\ Cardinality(Before(rank, S, t)) \in Nat
  BY <1>2, FS_CardinalityType
<1> QED
  BY <1>1, <1>2, <1>3 DEF Place

LEMMA PlaceNext ==
    ASSUME NEW rank, NEW S, Ranked(rank, S), IsFiniteSet(S), NEW s \in S, NEW t \in S,
           After(rank, S, s, t)
    PROVE  \/ Place(rank, S, t) = Place(rank, S, s) + 1
           \/ t = Idle /\ Place(rank, S, s) = Cardinality(S) - 1
<1>1. IsFiniteSet(Before(rank, S, s)) /\ s \notin Before(rank, S, s)
  BY PlaceType DEF Before, Ranked
<1>2. \A u \in S : rank[u] \in Nat /\ (rank[u] = rank[s] => u = s)
  BY DEF Ranked
<1>3. CASE rank[s] < rank[t] /\ \A u \in S : ~(rank[s] < rank[u] /\ rank[u] < rank[t])
  <2>1. Before(rank, S, t) = Before(rank, S, s) \cup {s}
    BY <1>2, <1>3 DEF Before
  <2> QED
    BY <1>1, <2>1, FS_AddElement DEF Place
<1>4. CASE t = Idle /\ \A u \in S : rank[u] <= rank[s]
  <2>1. Before(rank, S, s) = S \ {s}
    BY <1>2, <1>4 DEF Before
  <2> QED
    BY <1>4, <2>1, FS_RemoveElement DEF Place
<1> QED
  BY <1>3, <1>4 DEF After

LEMMA PlaceUnique ==
    ASSUME NEW rank, NEW S, Ranked(rank, S), IsFiniteSet(S), NEW s \in S, NEW t \in S,
           Place(rank, S, s) = Place(rank, S, t)
    PROVE  s = t
<1>1. ASSUME NEW u \in S, NEW w \in S, rank[u] < rank[w]
      PROVE  Place(rank, S, u) # Place(rank, S, w)
  <2>1. /\ Before(rank, S, u) \subseteq Before(rank, S, w)
        /\ u \in Before(rank, S, w) \ Before(rank, S, u)
    BY <1>1 DEF Before, Ranked
  <2>2. IsFiniteSet(Before(rank, S, w))
    BY PlaceType
  <2>3. Cardinality(Before(rank, S, w)) = Cardinality(Before(rank, S, u))
            => Before(rank, S, w) = Before(rank, S, u)
    BY <2>1, <2>2, FS_Subset
  <2> QED
    BY <2>1, <2>3 DEF Place
<1> QED
  BY <1>1 DEF Ranked

\* One lap from the head meets every task of the ring once and ends at the head.
LEMMA WalkRound ==
    ASSUME NEW rank, NEW S, Ranked(rank, S), IsFiniteSet(S),
           task_list_head = Idle, Forward(rank, S, next_task)
    PROVE  /\ {Walk[k] : k \in 0..(Cardinality(S) - 1)} = S
           /\ Walk[Cardinality(S)] = task_list_head
<1> DEFINE n == Cardinality(S)
<1>1. Idle \in S /\ \A t \in S : next_task[t] \in S /\ After(rank, S, t, next_task[t])
  BY DEF Ranked, Forward
<1>2. /\ Walk[0] = Idle
      /\ \A k \in Nat : Walk[k] \in S /\ Walk[k + 1] = next_task[Walk[k]]
  BY <1>1, WalkSteps
<1>3. Place(rank, S, Idle) = 0
  <2>1. Before(rank, S, Idle) = {}
    BY DEF Before, Ranked
  <2> QED
    BY <2>1, FS_EmptySet DEF Place
<1>4. n \in Nat /\ n # 0
  BY <1>1, PlaceType
<1> DEFINE T == {k \in Nat : k < n => Place(rank, S, Walk[k]) = k}
<1>5. 0 \in T
  BY <1>2, <1>3
<1>6. ASSUME NEW k \in Nat, k \in T PROVE k + 1 \in T
  <2>1. SUFFICES ASSUME k + 1 < n PROVE Place(rank, S, Walk[k + 1]) = k + 1
    OBVIOUS
  <2>2. Place(rank, S, Walk[k]) = k
    BY <1>4, <1>6, <2>1
  <2>3. After(rank, S, Walk[k], Walk[k + 1]) /\ Walk[k] \in S /\ Walk[k + 1] \in S
    BY <1>1, <1>2
  <2> QED
    BY <1>4, <2>1, <2>2, <2>3, PlaceNext
<1>7. Nat \subseteq T
  <2> HIDE DEF T
  <2> QED
    BY <1>5, <1>6, SetInduction
<1>8. ASSUME NEW t \in S PROVE \E k \in 0..(n - 1) : Walk[k] = t
  <2>1. Place(rank, S, t) \in 0..(n - 1)
    BY <1>4, PlaceType
  <2>2. Place(rank, S, Walk[Place(rank, S, t)]) = Place(rank, S, t)
    BY <1>4, <1>7, <2>1
  <2>3. Walk[Place(rank, S, t)] = t
    BY <1>2, <2>1, <2>2, PlaceUnique
  <2> QED
    BY <2>1, <2>3
<1>9. {Walk[k] : k \in 0..(n - 1)} = S
  BY <1>2, <1>4, <1>8
<1>10. Walk[n] = Idle
  <2>1. n - 1 \in Nat /\ (n - 1) + 1 = n
    BY <1>4
  <2>2. Place(rank, S, Walk[n - 1]) = n - 1
    BY <1>4, <1>7, <2>1
  <2>3. After(rank, S, Walk[n - 1], Walk[n]) /\ Walk[n - 1] \in S /\ Walk[n] \in S
    BY <1>1, <1>2, <1>4, <2>1
  <2>4. Place(rank, S, Walk[n]) < n
    BY <2>3, PlaceType
  <2> QED
    BY <1>4, <2>2, <2>3, <2>4, PlaceNext
<1> QED
  BY <1>9, <1>10

\* What the invariant says of the ring between two calls of list_remove.
LEMMA WholeRing ==
    ASSUME IInv, Calm, ~InsideRemove
    PROVE  \E rank : /\ Ranked(rank, InRing) /\ task_list_head = Idle
                     /\ Forward(rank, InRing, next_task)
                     /\ Backward(rank, InRing, last_task)
<1>1. PICK rank : RingInv(rank)
  BY DEF Calm, CalmAt
<1>2. {task_pc[cpu], irq_pc[cpu]} \cap {"unlink_next", "free"} = {}
  BY RingTypes DEF InsideRemove
<1>3. ~BusyRemove /\ Unlinking = {} /\ Freeing = {}
  BY <1>2 DEF BusyRemove, Unlinking, Freeing, Pc
<1> QED
  BY <1>1, <1>3 DEF RingInv, Linked

LEMMA CalmRing == ASSUME SInv PROVE RingOK
<1> SUFFICES ASSUME ~hit, ~InsideRemove
             PROVE  LET n == Cardinality(live) + 1 IN
                    /\ CountOK
                    /\ {Walk[k] : k \in 0..(n - 1)} = live \cup {Idle}
                    /\ Walk[n] = task_list_head
                    /\ \A t \in live \cup {Idle} : last_task[next_task[t]] = t
  BY DEF RingOK
<1>1. IInv /\ Calm
  BY DEF SInv
<1>2. PICK rank : /\ Ranked(rank, InRing) /\ task_list_head = Idle
                  /\ Forward(rank, InRing, next_task)
                  /\ Backward(rank, InRing, last_task)
  BY <1>1, WholeRing
<1>3. IsFiniteSet(live) /\ Idle \notin live
  BY <1>1, RingTypes, FiniteAssumption, FS_Subset DEF IInv, TypeOK, TaskType, Slots
<1>4. IsFiniteSet(InRing) /\ Cardinality(InRing) = Cardinality(live) + 1
  BY <1>3, FS_AddElement DEF InRing
<1>5. /\ {Walk[k] : k \in 0..(Cardinality(InRing) - 1)} = InRing
      /\ Walk[Cardinality(InRing)] = task_list_head
  BY <1>2, <1>4, WalkRound
<1>6. ASSUME NEW t \in InRing PROVE last_task[next_task[t]] = t
  <2> DEFINE u == next_task[t]
  <2>1. u \in InRing /\ After(rank, InRing, t, u)
    BY <1>2 DEF Forward
  <2>2. last_task[u] \in InRing /\ After(rank, InRing, last_task[u], u)
    BY <1>2, <2>1 DEF Backward
  <2> QED
    BY <1>2, <2>1, <2>2, LastUnique
<1>7. CountOK
  BY <1>1 DEF IInv
<1> QED
  BY <1>4, <1>5, <1>6, <1>7 DEF InRing

\* For any number of tasks, and whatever is added, killed, reaped and preempted in
\* whatever order, the ring is the idle task and the allocated tasks, each once,
\* and nothing that was freed is used, as long as no timer interrupt reschedules
\* inside a sched_yield (sched.c list_add, list_remove, sched_next).
THEOREM RingCorrect == Spec => []RingSound
<1>1. SInv => RingSound
  BY CalmRing DEF RingSound, UndefinedNeedsHit, SInv, Calm, CalmAt
<1> QED
  BY <1>1, RingInvariance, PTL

-----------------------------------------------------------------------------
\* No step but Free takes a handler away from a task, and Free takes it from a
\* task that has killed itself.
EoiStepOK ==
    EoiHeld /\ ~EoiHeld' /\ ~hit' =>
        \E v \in live \ live' : irq_pc[v] = "eoi" /\ task_pc[v] = "exit"

\* A step that keeps every timer handler where it is, or moves the CPU's on.
LEMMA HolderStays ==
    ASSUME IInv, EoiHeld, ~EoiHeld', ~ub \/ ub', live \subseteq live',
           in_service' = in_service,
           \A t \in AllTasks : irq_pc[t] \in TimerPoints => irq_pc'[t] \in TimerPoints
    PROVE  FALSE
<1>1. ~ub' /\ in_service'
  BY DEF EoiHeld
<1>2. PICK t \in live \cup {Idle} : irq_pc[t] \in TimerPoints
  BY <1>1 DEF EoiHeld
<1>3. t \in AllTasks /\ irq_pc'[t] \in TimerPoints /\ t \in live' \cup {Idle}
  BY <1>2, RingTypes DEF InRing
<1> QED
  BY <1>3 DEF EoiHeld

\* A frame inside sched_yield or sched_tick moves within the handler it is in.
LEMMA GotoHolder ==
    ASSUME IInv, NEW from \in YieldPoints \cup {"tick"}, At(from), NEW to, Goto(to),
           to \in TimerPoints \/ Level = "task"
    PROVE  \A t \in AllTasks : irq_pc[t] \in TimerPoints => irq_pc'[t] \in TimerPoints
BY DEF IInv, TypeOK, FrameType, Goto, Level, TimerPoints, YieldPoints

LEMMA SchedHolder ==
    ASSUME IInv, Scan \/ Test \/ UnlinkPrev \/ UnlinkNext \/ Pick \/ Switch, ~Undefined
    PROVE  /\ UNCHANGED <<live, in_service>>
           /\ \A t \in AllTasks : irq_pc[t] \in TimerPoints => irq_pc'[t] \in TimerPoints
<1>1. UNCHANGED <<live, in_service>>
  BY DEF Scan, Test, UnlinkPrev, UnlinkNext, Pick, Switch, taskVars, steadyVars
<1>2. \E from \in YieldPoints : At(from)
  BY DEF Scan, Test, UnlinkPrev, UnlinkNext, Pick, Switch, YieldPoints
<1>3. \E to : Goto(to) /\ (to \in TimerPoints \/ Level = "task")
  <2>1. \A to \in YieldPoints \cup {"eoi"} : to \in TimerPoints
    BY DEF TimerPoints
  <2>2. CASE Scan \/ UnlinkPrev \/ UnlinkNext
    BY <2>1, <2>2 DEF Scan, UnlinkPrev, UnlinkNext, YieldPoints
  <2>3. CASE Test
    BY <2>1, <2>3 DEF Test, Reap, Advance, YieldPoints
  <2>4. CASE Pick \/ Switch
    <3>1. Goto(Return) \/ Goto("switch")
      BY <2>4 DEF Pick, Switch
    <3>2. Return \in TimerPoints \/ Level = "task"
      BY <2>1 DEF Return, Level
    <3>3. "switch" \in TimerPoints
      BY <2>1 DEF YieldPoints
    <3> QED
      BY <3>1, <3>2, <3>3
  <2> QED
    BY <2>2, <2>3, <2>4
<1> QED
  BY <1>1, <1>2, <1>3, GotoHolder

LEMMA FreeHolder ==
    ASSUME IInv, NEW rank, CalmAt(rank), ~Hit, Free, EoiHeld, ~EoiHeld'
    PROVE  \E v \in live \ live' : irq_pc[v] = "eoi" /\ task_pc[v] = "exit"
<1> DEFINE v == Local.victim
<1>0. FrameType /\ TasksOK /\ FramesOK /\ "free" \in YieldPoints /\ "free" \in TimerPoints
      /\ "pick" \in TimerPoints /\ "test" \in TimerPoints
  BY DEF IInv, TypeOK, CalmAt, YieldPoints, TimerPoints
<1>1. At("free") /\ ~ub
  BY DEF Free, At
<1>2. /\ rank \in [AllTasks -> Nat]
      /\ Ranked(rank, InRing) /\ LocalsOK(rank) /\ CurrentOK
      /\ Linked(rank, Unlinking, Freeing)
  BY <1>0, <1>1, CalmParts
<1>3. /\ Pc = "free" /\ Mine = Local
      /\ Level = "irq" => irq_pc[cpu] = "free"
      /\ Level = "task" => irq_pc[cpu] = "none"
      /\ Level \in {"task", "irq"}
  BY <1>0, <1>1, Alone DEF At, Here, Level
<1>4. v \in live \cap killed /\ rank[v] > rank[cpu]
  BY <1>2, <1>3 DEF LocalsOK
<1>5. v # cpu /\ v \in AllTasks /\ cpu \in AllTasks
  <2>1. rank[cpu] \in Nat
    BY <1>2, RingTypes
  <2> QED
    BY <1>4, <2>1, RingTypes DEF InRing
<1>6. /\ live' = live \ {v} /\ in_service' = in_service
      /\ \E to \in {"pick", "test"} :
            irq_pc' = [irq_pc EXCEPT ![v] = "none", ![cpu] = IF Level = "irq" THEN to ELSE @]
  BY <1>4, <1>5 DEF Free
<1>7. \A t \in AllTasks \ {v} : irq_pc[t] \in TimerPoints => irq_pc'[t] \in TimerPoints
  BY <1>0, <1>3, <1>5, <1>6 DEF FrameType
<1>8. in_service /\ ~ub'
  BY <1>6 DEF EoiHeld
<1>9. PICK t \in InRing : irq_pc[t] \in TimerPoints
  BY <1>1, <1>8 DEF EoiHeld, InRing
<1>10. t = v
  <2>1. SUFFICES ASSUME t # v PROVE FALSE
    OBVIOUS
  <2>2. irq_pc'[t] \in TimerPoints /\ t \in live' \cup {Idle}
    BY <1>6, <1>7, <1>9, <2>1, RingTypes DEF InRing
  <2> QED
    BY <2>2 DEF EoiHeld
<1>11. irq_pc[v] = "eoi"
  BY <1>0, <1>5, <1>9, <1>10 DEF FramesOK, TimerPoints, YieldPoints
<1>12. task_pc[v] = "exit"
  BY <1>0, <1>4, <1>5 DEF FramesOK, TasksOK
<1> QED
  BY <1>4, <1>6, <1>11, <1>12

LEMMA EoiStepHolds == ASSUME SInv, [Next]_vars PROVE EoiStepOK
<1> SUFFICES ASSUME EoiHeld, ~EoiHeld', ~hit'
             PROVE  \E v \in live \ live' : irq_pc[v] = "eoi" /\ task_pc[v] = "exit"
  BY DEF EoiStepOK
<1>1. IInv /\ Calm /\ FrameType
  BY HitStays DEF SInv, IInv, TypeOK
<1>2. ~ub' /\ in_service'
  BY DEF EoiHeld
<1>3. ~Undefined
  BY <1>2 DEF Undefined
<1>4. ~ub
  BY <1>1 DEF Calm, CalmAt
<1>5. CASE Free
  <2>1. ~Hit
    BY <1>3, <1>5 DEF Free
  <2> QED
    BY <1>1, <1>5, <2>1, FreeHolder DEF Calm
<1>6. CASE Scan \/ Test \/ UnlinkPrev \/ UnlinkNext \/ Pick \/ Switch
  BY <1>1, <1>3, <1>4, <1>6, SchedHolder, HolderStays
<1>7. CASE Tick
  <2>1. \E to \in TimerPoints : Goto(to)
    BY <1>7 DEF Tick, TimerPoints, YieldPoints
  <2>2. UNCHANGED <<live, in_service>> /\ At("tick")
    BY <1>7 DEF Tick
  <2> QED
    BY <1>1, <1>4, <2>1, <2>2, GotoHolder, HolderStays
<1>8. CASE Eoi
  BY <1>2, <1>8 DEF Eoi, AfterEoi
<1>9. CASE StartOne
  <2>1. live \subseteq live' /\ UNCHANGED <<irq_pc, in_service>>
    BY <1>3, <1>9 DEF StartOne, taskVars, frameVars
  <2> QED
    BY <1>1, <1>4, <2>1, HolderStays
<1>10. CASE StartEnd
  <2>1. irq_pc[cpu] = "start" /\ UNCHANGED <<live, in_service>>
        /\ irq_pc' = [irq_pc EXCEPT ![cpu] = "none"]
    BY <1>1, <1>10, IrqPoint DEF StartEnd, taskVars
  <2>2. "start" \notin TimerPoints
    BY DEF TimerPoints, YieldPoints
  <2> QED
    BY <1>1, <1>4, <2>1, <2>2, HolderStays DEF FrameType
<1>11. CASE TaskStep
  <2>1. Level = "task" => \A to : Goto(to) => irq_pc' = irq_pc
    BY DEF Goto
  <2>2. UNCHANGED <<live, in_service, irq_pc>>
    BY <1>11, <2>1 DEF TaskStep, Program, Demo, DemoBody, KillSelf, Yield, SetWake, Exit, Sleep,
       MainLoop, AtTask, taskVars, steadyVars
  <2> QED
    BY <1>1, <1>4, <2>2, HolderStays
<1>12. CASE TimerIrq
  <2>1. irq_pc'[cpu] = "tick" /\ cpu \in live' \cup {Idle} /\ "tick" \in TimerPoints
    BY <1>1, <1>12 DEF TimerIrq, FrameType, Calm, CalmAt, TasksOK, InRing, taskVars, TimerPoints
  <2> QED
    BY <2>1 DEF EoiHeld
<1>13. CASE Key
  <2>1. live \subseteq live' /\ in_service' = in_service
        /\ \A t \in AllTasks : irq_pc[t] \in TimerPoints => irq_pc'[t] \in TimerPoints
    <3>1. "none" \notin TimerPoints
      BY DEF TimerPoints, YieldPoints
    <3>2. CASE StopKey \/ \E p \in Programs : ExecKey(p)
      BY <1>3, <3>2 DEF StopKey, ExecKey, taskVars, steadyVars
    <3>3. CASE StartKey
      BY <1>1, <3>1, <3>3 DEF StartKey, Interruptible, Level, FrameType, taskVars
    <3> QED
      BY <1>13, <3>2, <3>3 DEF Key
  <2> QED
    BY <1>1, <1>4, <2>1, HolderStays
<1>14. CASE UNCHANGED vars
  BY <1>14 DEF vars, taskVars, frameVars, ghostVars, EoiHeld
<1> QED
  BY <1>5, <1>6, <1>7, <1>8, <1>9, <1>10, <1>11, <1>12, <1>13, <1>14
  DEF Next, CpuStep, SchedStep, IrqStep

\* The EOI of the timer interrupt can be lost in one way only: sched_next frees a
\* task preempted between its task_kill and its task_yield (sched.c:268-284).
THEOREM EoiLostOnlyWithTheDead == Spec => EoiLostOnlyAtExit
<1>1. SInv /\ [Next]_vars => [EoiStepOK]_vars
  BY EoiStepHolds
<1> QED
  BY <1>1, RingInvariance, PTL DEF Spec, EoiLostOnlyAtExit, EoiStepOK

-----------------------------------------------------------------------------
\* Only sched_next wakes a task, when its time has come, and the CPU only moves to
\* a task that is awake.
WakeStepOK ==
    ~hit' =>
       /\ cpu' # cpu => cpu' \notin suspended
       /\ \A t \in live \cap live' :
            t \in suspended /\ t \notin suspended' => wake_in[t] = 0

LEMMA WakeStepHolds == ASSUME SInv, [Next]_vars PROVE WakeStepOK
<1> SUFFICES ASSUME ~hit'
             PROVE  /\ cpu' # cpu => cpu' \notin suspended
                    /\ \A t \in live \cap live' :
                         t \in suspended /\ t \notin suspended' => wake_in[t] = 0
  BY DEF WakeStepOK
<1>1. IInv /\ Calm
  BY HitStays DEF SInv
<1>2. CASE Undefined
  BY <1>2 DEF Undefined, taskVars, frameVars
<1>3. CASE Switch
  <2>1. CASE Undefined
    BY <1>2, <2>1
  <2>2. CASE ~Undefined
    <3>1. ~Hit /\ cpu' = Local.t /\ suspended' = suspended /\ At("switch")
      BY <1>3, <2>2 DEF Switch, taskVars
    <3>2. "switch" \in YieldPoints
      BY DEF YieldPoints
    <3>3. PICK rank \in [AllTasks -> Nat] : LocalsOK(rank)
      BY <1>1, <3>1, <3>2, CalmParts DEF Calm
    <3>4. Pc = "switch" /\ Mine = Local
      BY <3>1, <3>2, Alone
    <3>5. Local.t \notin suspended
      BY <3>3, <3>4 DEF LocalsOK
    <3> QED
      BY <3>1, <3>5
  <2> QED
    BY <2>1, <2>2
<1>4. CASE Test
  <2>1. CASE Undefined
    BY <1>2, <2>1
  <2>2. CASE ~Undefined
    <3>1. cpu' = cpu
      BY <1>4, <2>2 DEF Test, steadyVars
    <3>2. suspended' = suspended \/ (suspended' = suspended \ {Local.t} /\ Due(Local.t))
      BY <1>4, <2>2 DEF Test, Awake
    <3> QED
      BY <3>1, <3>2 DEF Due
  <2> QED
    BY <2>1, <2>2
<1>5. CASE Free
  BY <1>2, <1>5 DEF Free
<1>6. CASE Scan \/ UnlinkPrev \/ UnlinkNext \/ Pick
  BY <1>2, <1>6 DEF Scan, UnlinkPrev, UnlinkNext, Pick, taskVars, steadyVars
<1>7. CASE IrqStep
  BY <1>2, <1>7 DEF IrqStep, Tick, Eoi, StartOne, StartEnd, taskVars, frameVars
<1>8. CASE TaskStep
  BY <1>8 DEF TaskStep, Program, Demo, DemoBody, KillSelf, Yield, SetWake, Exit, Sleep, MainLoop,
     taskVars, steadyVars
<1>9. CASE TimerIrq \/ Key
  BY <1>2, <1>9 DEF TimerIrq, Key, StopKey, ExecKey, StartKey, taskVars, steadyVars
<1>10. CASE UNCHANGED vars
  BY <1>10 DEF vars, taskVars, frameVars
<1> QED
  BY <1>3, <1>4, <1>5, <1>6, <1>7, <1>8, <1>9, <1>10 DEF Next, CpuStep, SchedStep

\* A sleeping task is woken only when its jiffies have passed and is never
\* switched to before (sched_next, sched.c:287-295).
THEOREM SleepersSleep == Spec => NoEarlyWake
<1>1. SInv /\ [Next]_vars => [WakeStepOK]_vars
  BY WakeStepHolds
<1> QED
  BY <1>1, RingInvariance, PTL DEF Spec, NoEarlyWake, WakeStepOK

-----------------------------------------------------------------------------
\* Without demo tasks the keyboard is the shell's for good, so the main loop
\* never yields and whatever is in service was delivered on its stack.
AloneInv ==
    /\ ~hit /\ callback = "shell" /\ made = 0
    /\ in_service => irq_pc[Idle] \in TimerPoints

LEMMA AloneOwes ==
    ASSUME SInv, AloneInv
    PROVE  /\ IInv /\ Calm /\ ~Hit /\ task_pc[Idle] \in {"run", "hlt"} /\ pump = 0 /\ ~ub
           /\ \A t \in AllTasks : irq_pc[t] # "none" => t = Idle
<1>1. IInv /\ Calm /\ OnePreempted /\ Idle \in AllTasks /\ cpu \in AllTasks
  BY RingTypes DEF SInv, AloneInv, IInv, AllTasks
<1>2. KeysOK /\ FramesOK /\ ~ub
  BY <1>1 DEF Calm, CalmAt
<1>3. /\ task_pc[Idle] \in {"run", "hlt"} /\ pump = 0
      /\ cpu # Idle => irq_pc[Idle] = "eoi"
  BY <1>2 DEF AloneInv, KeysOK
<1>4. ASSUME NEW t \in AllTasks, irq_pc[t] # "none" PROVE t = Idle
  <2>1. "none" \notin TimerPoints /\ "eoi" \in TimerPoints
    BY DEF TimerPoints, YieldPoints
  <2>2. CASE cpu # Idle
    BY <1>1, <1>3, <1>4, <2>2 DEF OnePreempted
  <2>3. CASE t # cpu
    <3>1. irq_pc[t] = "eoi"
      BY <1>2, <1>4, <2>3 DEF FramesOK
    <3>2. irq_pc[Idle] \in TimerPoints
      BY <1>1, <2>1, <3>1 DEF OnePreempted, AloneInv
    <3> QED
      BY <1>1, <1>4, <2>1, <3>2 DEF OnePreempted
  <2> QED
    BY <2>2, <2>3
<1>5. ~Hit
  <2>1. Level = "irq" => cpu = Idle
    BY <1>1, <1>4 DEF Level
  <2> QED
    BY <1>3, <2>1, Points DEF Hit
<1> QED
  BY <1>1, <1>2, <1>3, <1>4, <1>5

LEMMA AloneNext ==
    ASSUME Demos = {}, SInv, AloneInv, [Next]_vars
    PROVE  AloneInv'
<1>1. /\ IInv /\ Calm /\ ~Hit /\ pump = 0 /\ ~ub /\ callback = "shell" /\ made = 0 /\ ~hit
      /\ task_pc[Idle] \in {"run", "hlt"} /\ Idle \in AllTasks /\ cpu \in AllTasks
  BY AloneOwes, RingTypes DEF AloneInv, AllTasks
<1>2. "none" \notin TimerPoints /\ "start" \notin TimerPoints
      /\ "pick" \in TimerPoints /\ "test" \in TimerPoints /\ "free" \in TimerPoints
  BY DEF TimerPoints, YieldPoints
<1>3. FrameType
  BY <1>1 DEF IInv, TypeOK
<1>4. CASE Undefined
  BY <1>1, <1>4 DEF Undefined, AloneInv, frameVars, demoVars
<1>5. CASE ~Undefined
  <2>1. CASE Scan \/ Test \/ UnlinkPrev \/ UnlinkNext \/ Pick \/ Switch
    <3>1. ~hit' /\ UNCHANGED <<callback, made>>
      BY <1>1, <1>5, <2>1 DEF Scan, Test, UnlinkPrev, UnlinkNext, Pick, Switch, steadyVars,
         demoVars, ghostVars
    <3> QED
      BY <1>1, <1>5, <2>1, <3>1, SchedHolder DEF AloneInv
  <2>2. CASE Free
    <3> DEFINE v == Local.victim
    <3>1. /\ v \in live /\ UNCHANGED <<in_service, callback, made>> /\ ~hit'
          /\ \E to \in {"pick", "test"} :
                irq_pc' = [irq_pc EXCEPT ![v] = "none", ![cpu] = IF Level = "irq" THEN to ELSE @]
      BY <1>1, <1>5, <2>2 DEF Free, demoVars
    <3>2. v \in AllTasks /\ v # Idle
      BY <1>1, <3>1, RingTypes DEF InRing
    <3>3. irq_pc[Idle] \in TimerPoints => irq_pc'[Idle] \in TimerPoints
      BY <1>1, <1>2, <1>3, <3>1, <3>2 DEF Level, FrameType
    <3> QED
      BY <3>1, <3>3 DEF AloneInv
  <2>3. CASE Tick
    <3>1. \E to \in TimerPoints : Goto(to)
      BY <2>3 DEF Tick, TimerPoints, YieldPoints
    <3>2. At("tick") /\ ~hit' /\ UNCHANGED <<in_service, callback, made>>
      BY <1>1, <2>3 DEF Tick, demoVars, ghostVars
    <3> QED
      BY <1>1, <3>1, <3>2, GotoHolder DEF AloneInv
  <2>4. CASE Eoi
    BY <1>1, <2>4 DEF Eoi, AfterEoi, AloneInv, demoVars, ghostVars
  <2>5. CASE StartOne
    BY <1>1, <1>5, <2>5 DEF StartOne, AloneInv, frameVars, ghostVars
  <2>6. CASE StartEnd
    <3>1. irq_pc[cpu] = "start"
      BY <1>1, <2>6, IrqPoint DEF StartEnd
    <3>2. cpu = Idle
      BY <1>1, <3>1, ShellOnIdle DEF Calm
    <3>3. ~in_service
      BY <1>2, <3>1, <3>2 DEF AloneInv
    <3> QED
      BY <1>1, <2>6, <3>3, BoundAssumption DEF StartEnd, AloneInv, ghostVars
  <2>7. CASE Program \/ Demo \/ Exit \/ Sleep
    <3>1. UNCHANGED <<in_service, callback, made, hit>>
      BY <2>7 DEF Program, Demo, Exit, Sleep, steadyVars, demoVars, ghostVars
    <3>2. irq_pc' = irq_pc
      BY <2>7 DEF Program, Demo, DemoBody, KillSelf, Yield, SetWake, Exit, Sleep, AtTask, Goto
    <3> QED
      BY <3>1, <3>2 DEF AloneInv
  <2>8. CASE MainLoop
    <3>1. UNCHANGED <<in_service, callback, made, hit>>
      BY <1>1, <2>8 DEF MainLoop, ghostVars
    <3>2. irq_pc' = irq_pc
      BY <2>8 DEF MainLoop, AtTask, Goto
    <3> QED
      BY <3>1, <3>2 DEF AloneInv
  <2>9. CASE TimerIrq
    <3>1. cpu = Idle
      BY <1>1, <2>9, ShellOnIdle DEF TimerIrq, Calm
    <3> QED
      BY <1>1, <1>3, <2>9, <3>1 DEF FrameType, TimerIrq, AloneInv, demoVars, ghostVars, TimerPoints
  <2>10. CASE StopKey \/ \E p \in Programs : ExecKey(p)
    BY <1>1, <1>5, <2>10 DEF StopKey, ExecKey, AloneInv, steadyVars, demoVars, ghostVars
  <2>11. CASE StartKey
    <3>1. ~in_service
      BY <2>11 DEF StartKey, Interruptible
    <3> QED
      BY <1>1, <2>11, <3>1 DEF StartKey, AloneInv, ghostVars
  <2>12. CASE UNCHANGED vars
    BY <2>12 DEF vars, frameVars, demoVars, ghostVars, AloneInv
  <2> QED
    BY <2>1, <2>2, <2>3, <2>4, <2>5, <2>6, <2>7, <2>8, <2>9, <2>10, <2>11, <2>12
    DEF Next, CpuStep, SchedStep, IrqStep, TaskStep, Key
<1> QED
  BY <1>4, <1>5

\* With no demo only the main loop is ever preempted, no sched_yield is ever cut
\* into, and the main loop never executes hlt with its own EOI still pending
\* (idt_dispatch, idt.c:161-163): for any number of programs.
THEOREM MainLoopPays ==
    ASSUME Demos = {}
    PROVE  Spec => []IdleAlonePays
<1>1. Init => AloneInv
  BY DEF Init, AloneInv
<1>2. SInv /\ AloneInv /\ [Next]_vars => AloneInv'
  BY AloneNext
<1>3. SInv /\ AloneInv => IdleAlonePays
  <2> SUFFICES ASSUME SInv, AloneInv PROVE IdleAlonePays
    OBVIOUS
  <2>1. OnlyIdlePreempted
    BY AloneOwes DEF OnlyIdlePreempted, AloneInv
  <2>2. ~Hung
    BY DEF Hung, Level, AloneInv, TimerPoints, YieldPoints
  <2> QED
    BY <2>1, <2>2 DEF IdleAlonePays
<1> QED
  BY <1>1, <1>2, <1>3, RingInvariance, PTL DEF Spec

\* With no demo the ring is sound and no freed memory is used, with no proviso.
THEOREM RingAlwaysSound ==
    ASSUME Demos = {}
    PROVE  Spec => [](~ub /\ (~InsideRemove =>
                        /\ {Walk[k] : k \in 0..(task_count - 1)} = InRing
                        /\ \A t \in InRing : last_task[next_task[t]] = t))
<1>1. IdleAlonePays /\ RingSound => ~ub /\ (~InsideRemove =>
                        /\ {Walk[k] : k \in 0..(task_count - 1)} = InRing
                        /\ \A t \in InRing : last_task[next_task[t]] = t)
  BY DEF IdleAlonePays, OnlyIdlePreempted, RingSound, UndefinedNeedsHit, RingOK, CountOK, InRing
<1> QED
  BY <1>1, MainLoopPays, RingCorrect, PTL

-----------------------------------------------------------------------------
\* Taking turns.  From the running task round the ring, a waiting task always comes
\* before those that have overtaken it, so the loop of sched_next meets it first.

\* Going round from p, which comes last, t comes before u.
Sooner(rank, p, t, u) ==
    IF rank[t] > rank[p] THEN rank[u] <= rank[p] \/ rank[t] < rank[u]
    ELSE rank[u] <= rank[p] /\ rank[t] < rank[u]

\* The loop has gone past t.
Passed(rank, t) == rank[t] > rank[cpu] /\ (Mine.t = Idle \/ rank[t] < rank[Mine.t])

Waits(rank) ==
    /\ \A t \in Runnable : \A u \in ahead[t] : u \in InRing /\ Sooner(rank, cpu, t, u)
    /\ Pc \in Scanning => \A t \in Runnable : ahead[t] # {} => ~Passed(rank, t)

TurnInv == IInv /\ (hit \/ \E rank : CalmAt(rank) /\ Waits(rank))

\* A step that leaves the CPU where it is.
LEMMA WaitsKept ==
    ASSUME IInv, NEW rank, CalmAt(rank), Waits(rank), NEW rank2, Extends(rank, rank2),
           cpu' = cpu,
           \A t \in Runnable' : ahead'[t] # {} => t \in Runnable /\ ahead'[t] = ahead[t],
           \A t \in Runnable : ahead[t] \cap InRing \subseteq InRing',
           Pc' \in Scanning => \A t \in Runnable : ahead[t] # {} => ~Passed(rank2, t)'
    PROVE  Waits(rank2)'
<1>1. ASSUME NEW t \in Runnable', NEW u \in ahead'[t]
      PROVE  u \in InRing' /\ Sooner(rank2, cpu', t, u)
  <2>1. t \in Runnable /\ u \in ahead[t]
    BY <1>1
  <2>2. u \in InRing /\ Sooner(rank, cpu, t, u)
    BY <2>1 DEF Waits
  <2>3. t \in InRing /\ cpu \in InRing
    BY <2>1 DEF Runnable, InRing, CalmAt, TasksOK
  <2>4. rank2[t] = rank[t] /\ rank2[u] = rank[u] /\ rank2[cpu] = rank[cpu]
    BY <2>2, <2>3 DEF Extends
  <2> QED
    BY <2>1, <2>2, <2>4 DEF Sooner
<1>2. Pc' \in Scanning => \A t \in Runnable' : ahead'[t] # {} => ~Passed(rank2, t)'
  OBVIOUS
<1> QED
  BY <1>1, <1>2 DEF Waits

LEMMA StillWaiting ==
    ASSUME IInv', cpu' = cpu, ahead' = Overtaken
    PROVE  \A t \in Runnable' : ahead'[t] # {} => t \in Runnable /\ ahead'[t] = ahead[t]
<1>1. Runnable' \subseteq AllTasks
  BY DEF IInv, TypeOK, TaskType, Runnable, AllTasks
<1> QED
  BY <1>1 DEF Overtaken

\* A step of the loop that stays on the task in hand.
LEMMA SameTask ==
    ASSUME IInv, IInv', NEW rank, CalmAt(rank), Waits(rank), cpu' = cpu, live' = live,
           ahead' = Overtaken, Pc' \in Scanning => Pc \in Scanning /\ Mine'.t = Mine.t
    PROVE  Waits(rank)'
<1>1. \A t \in Runnable' : ahead'[t] # {} => t \in Runnable /\ ahead'[t] = ahead[t]
  BY StillWaiting
<1>2. Pc' \in Scanning => \A t \in Runnable : ahead[t] # {} => ~Passed(rank, t)'
  BY DEF Waits, Passed
<1>3. InRing' = InRing /\ Extends(rank, rank)
  BY DEF InRing, Extends
<1> QED
  BY <1>1, <1>2, <1>3, WaitsKept

LEMMA ScanTurn ==
    ASSUME IInv, IInv', NEW rank, CalmAt(rank), Waits(rank), ~Hit, Scan, ahead' = Overtaken, ~ub'
    PROVE  Waits(rank)'
<1>0. FrameType /\ TasksOK
  BY DEF IInv, TypeOK, CalmAt
<1>1. At("scan") /\ "scan" \in YieldPoints /\ "test" \in YieldPoints
  BY DEF Scan, YieldPoints
<1>2. /\ rank \in [AllTasks -> Nat]
      /\ Ranked(rank, InRing) /\ CurrentOK
      /\ Linked(rank, Unlinking, Freeing)
  BY <1>1, CalmParts
<1>3. Pc = "scan"
  BY <1>1, Alone
<1>4. current_task = cpu /\ cpu \in InRing
  BY <1>0, <1>2, <1>3 DEF CurrentOK, TasksOK
<1>5. /\ SetLocal([NoScan EXCEPT !.start = First, !.t = First])
      /\ Goto("test") /\ cpu' = cpu /\ live' = live
  BY DEF Scan, Undefined, taskVars, steadyVars
<1>6. Pc' = "test" /\ Mine' = scan'[cpu][Level]
  BY <1>1, <1>5, AloneMove
<1>7. Mine'.t = First
  BY <1>0, <1>5, <1>6 DEF SetLocal, FrameType, Level, Levels, NoScan
<1>8. First \in InRing /\ After(rank, InRing, cpu, First)
  BY <1>2, <1>3, <1>4 DEF First, Linked, Forward, Unlinking, Freeing
<1>9. ASSUME NEW t \in Runnable PROVE ~Passed(rank, t)'
  <2>1. t \in InRing /\ rank[t] \in Nat /\ rank[cpu] \in Nat /\ rank[First] \in Nat
    BY <1>2, <1>4, <1>8, RingTypes DEF Runnable, InRing
  <2>2. First = Idle => rank[t] <= rank[cpu]
    BY <1>2, <1>8, <2>1 DEF After, Ranked
  <2> QED
    BY <1>5, <1>7, <1>8, <2>1, <2>2 DEF Passed, After
<1>10. \A t \in Runnable' : ahead'[t] # {} => t \in Runnable /\ ahead'[t] = ahead[t]
  BY <1>5, StillWaiting
<1>11. InRing' = InRing /\ Extends(rank, rank)
  BY <1>5 DEF InRing, Extends
<1> QED
  BY <1>5, <1>9, <1>10, <1>11, WaitsKept

\* A task the loop goes past is one that may not run.
LEMMA TestTurn ==
    ASSUME IInv, IInv', NEW rank, CalmAt(rank), Waits(rank), ~Hit, Test, ahead' = Overtaken
    PROVE  Waits(rank)'
<1> DEFINE s == Local.t
<1> HIDE DEF s
<1>1. /\ Pc = "test" /\ Mine.t = s
      /\ s \in InRing /\ next_task[s] \in InRing /\ After(rank, InRing, s, next_task[s])
      /\ live' = live /\ cpu' = cpu
      /\ \/ Pc' = "test" /\ ~Due(s) /\ s # Idle /\ Mine'.t = next_task[s]
         \/ Pc' = "pick" /\ Mine'.t = s
         \/ Pc' = "unlink_prev" /\ s \in killed \ {Idle} /\ Mine'.t = next_task[s]
  BY TestMoves DEF s, steadyVars
<1>2. CASE Mine'.t = s
  BY <1>1, <1>2, SameTask DEF Scanning
<1>3. CASE s \notin Runnable /\ s # Idle /\ Mine'.t = next_task[s]
  <2>1. ASSUME NEW t \in Runnable, ahead[t] # {} PROVE ~Passed(rank, t)'
    <3>1. ~Passed(rank, t) /\ t # s
      BY <1>1, <1>3, <2>1 DEF Waits, Scanning
    <3>2. t \in InRing /\ Ranked(rank, InRing)
      BY DEF Runnable, InRing, CalmAt, RingInv
    <3>3. /\ rank[t] \in Nat /\ rank[cpu] \in Nat /\ rank[s] \in Nat /\ rank[next_task[s]] \in Nat
          /\ rank[t] # rank[s]
      BY <1>1, <3>1, <3>2, RingTypes DEF Ranked
    <3>4. rank[t] <= rank[cpu] \/ rank[t] > rank[s]
      BY <1>1, <1>3, <3>1, <3>3 DEF Passed
    <3>5. rank[t] > rank[s] => next_task[s] # Idle /\ rank[next_task[s]] <= rank[t]
      BY <1>1, <3>2, <3>3 DEF After, Ranked
    <3> QED
      BY <1>1, <1>3, <3>3, <3>4, <3>5 DEF Passed
  <2>2. \A t \in Runnable' : ahead'[t] # {} => t \in Runnable /\ ahead'[t] = ahead[t]
    BY <1>1, StillWaiting
  <2>3. InRing' = InRing /\ Extends(rank, rank)
    BY <1>1 DEF InRing, Extends
  <2> QED
    BY <1>1, <2>1, <2>2, <2>3, WaitsKept
<1> QED
  BY <1>1, <1>2, <1>3 DEF Runnable, Doomed

LEMMA UnlinkTurn ==
    ASSUME IInv, IInv', NEW rank, CalmAt(rank), Waits(rank), ~Hit, UnlinkPrev \/ UnlinkNext, ~ub',
           ahead' = Overtaken
    PROVE  Waits(rank)'
<1>1. PICK p \in {"unlink_prev", "unlink_next"} : At(p)
  BY DEF UnlinkPrev, UnlinkNext
<1>2. p \in YieldPoints /\ p \in Scanning
  BY <1>1 DEF YieldPoints, Scanning
<1>3. Pc = p /\ Mine = Local
  BY <1>1, <1>2, Alone
<1>4. PICK to \in YieldPoints : Goto(to)
  BY DEF UnlinkPrev, UnlinkNext, Undefined, YieldPoints
<1>5. UNCHANGED <<cpu, live, scan>>
  BY DEF UnlinkPrev, UnlinkNext, Undefined, taskVars, steadyVars
<1>6. Mine' = scan'[cpu][Level]
  BY <1>1, <1>2, <1>4, <1>5, AloneMove
<1> QED
  BY <1>2, <1>3, <1>5, <1>6, SameTask DEF Local

\* The task sched_next frees has overtaken nobody: it would have met them first.
LEMMA FreeTurn ==
    ASSUME IInv, IInv', NEW rank, CalmAt(rank), Waits(rank), ~Hit, Free, ahead' = Overtaken
    PROVE  Waits(rank)'
<1> DEFINE v == Local.victim
<1> HIDE DEF v
<1>1. /\ Pc = "free" /\ Mine = Local /\ Pc' = "test" /\ Mine'.t = Local.t
      /\ cpu' = cpu /\ live' = live \ {v} /\ v \in live \ {cpu}
      /\ rank[v] > rank[cpu] /\ Local.t \in InRing /\ Beyond(rank, v, Local.t)
  BY FreeMoves DEF v
<1>2. ASSUME NEW t \in Runnable, ahead[t] # {} PROVE ~Passed(rank, t) /\ v \notin ahead[t]
  <2>1. ~Passed(rank, t)
    BY <1>1, <1>2 DEF Waits, Scanning
  <2>2. v \in ahead[t] => Sooner(rank, cpu, t, v)
    BY DEF Waits
  <2>3. rank[t] \in Nat /\ rank[v] \in Nat /\ rank[cpu] \in Nat /\ rank[Local.t] \in Nat
    BY <1>1, RingTypes DEF CalmAt, Runnable, InRing
  <2> QED
    BY <1>1, <2>1, <2>2, <2>3 DEF Sooner, Passed, Beyond
<1>3. \A t \in Runnable' : ahead'[t] # {} => t \in Runnable /\ ahead'[t] = ahead[t]
  BY <1>1, StillWaiting
<1>4. \A t \in Runnable : ahead[t] \cap InRing \subseteq InRing'
  BY <1>1, <1>2 DEF InRing
<1>5. \A t \in Runnable : ahead[t] # {} => ~Passed(rank, t)'
  BY <1>1, <1>2 DEF Passed
<1>6. Extends(rank, rank)
  BY DEF Extends
<1> QED
  BY <1>1, <1>3, <1>4, <1>5, <1>6, WaitsKept

LEMMA PickTurn ==
    ASSUME IInv, IInv', NEW rank, CalmAt(rank), Waits(rank), ~Hit, Pick, ~ub', ahead' = Overtaken
    PROVE  Waits(rank)'
<1>1. /\ At("pick") /\ "pick" \in YieldPoints /\ "switch" \in YieldPoints /\ "pick" \in Scanning
      /\ UNCHANGED <<cpu, live>>
  BY DEF Pick, YieldPoints, Scanning, Undefined, taskVars, steadyVars
<1>2. Pc = "pick" /\ Mine = Local
  BY <1>1, Alone
<1>3. CASE Goto(Return)
  BY <1>1, <1>3, AloneReturn, SameTask, Points
<1>4. CASE Goto("switch") /\ SetLocal([NoScan EXCEPT !.t = Local.t, !.prev = current_task])
  <2>1. Mine' = scan'[cpu][Level]
    BY <1>1, <1>4, AloneMove
  <2>2. Mine'.t = Local.t
    BY <1>4, <2>1 DEF IInv, TypeOK, FrameType, SetLocal, Level, Levels, NoScan
  <2> QED
    BY <1>1, <1>2, <2>2, SameTask
<1> QED
  BY <1>3, <1>4 DEF Pick, Undefined

\* The CPU goes to a task that may run and has overtaken no other that may.
LEMMA SwitchTurn ==
    ASSUME IInv, NEW rank, CalmAt(rank), Waits(rank), ~Hit, Switch, ahead' = Overtaken
    PROVE  /\ Waits(rank)'
           /\ Runnable' = Runnable /\ cpu' \in Runnable
           /\ \A t \in Runnable \ {cpu'} : cpu' \notin ahead[t]
<1> DEFINE u == Local.t
<1> HIDE DEF u
<1>1. At("switch") /\ "switch" \in YieldPoints
  BY DEF Switch, YieldPoints
<1>2. /\ rank \in [AllTasks -> Nat] /\ Ranked(rank, InRing)
      /\ Pc = "switch" /\ Mine.t = u
  BY <1>1, CalmParts, SwitchMoves DEF u
<1>3. u \in InRing \ (suspended \cup killed) /\ Ahead(rank, u)
  BY SwitchMoves DEF u
<1>4. cpu' = u /\ Pc' \notin YieldPoints /\ UNCHANGED <<live, killed, suspended, wake_in>>
  BY SwitchMoves DEF taskVars, u
<1>5. Runnable' = Runnable /\ InRing' = InRing /\ u \in Runnable /\ Runnable \subseteq InRing
  BY <1>3, <1>4 DEF Runnable, InRing, Doomed, Due
<1>6. cpu \in InRing /\ InRing \subseteq AllTasks /\ rank[Idle] = 0 /\ Idle \in InRing
  BY <1>2, RingTypes DEF CalmAt, TasksOK, Ranked
<1>7. ASSUME NEW t \in Runnable \ {u}, NEW w \in ahead[t]
      PROVE  w # u /\ w \in InRing /\ Sooner(rank, u, t, w)
  <2>1. w \in InRing /\ Sooner(rank, cpu, t, w) /\ ~Passed(rank, t)
    BY <1>2, <1>7 DEF Waits, Scanning
  <2>2. /\ rank[t] \in Nat /\ rank[u] \in Nat /\ rank[w] \in Nat /\ rank[cpu] \in Nat
        /\ rank[t] # rank[u]
    BY <1>2, <1>3, <1>5, <1>6, <1>7, <2>1 DEF Ranked
  <2>3. u = Idle \/ rank[u] > rank[cpu]
    BY <1>3 DEF Ahead
  <2>4. rank[t] <= rank[cpu] \/ (u # Idle /\ rank[t] > rank[u])
    BY <1>2, <2>1, <2>2 DEF Passed
  <2> QED
    BY <1>6, <2>1, <2>2, <2>3, <2>4 DEF Sooner
<1>8. ASSUME NEW t \in Runnable, NEW w \in ahead'[t]
      PROVE  w \in InRing /\ Sooner(rank, u, t, w)
  <2>1. t \in AllTasks /\ t \in Runnable'
    BY <1>5, <1>6
  <2>2. ahead'[t] = IF cpu' = cpu THEN ahead[t] ELSE IF t = u THEN {} ELSE ahead[t] \cup {u}
    BY <1>4, <2>1 DEF Overtaken
  <2>3. CASE cpu' = cpu
    BY <1>4, <1>8, <2>2, <2>3 DEF Waits
  <2>4. CASE cpu' # cpu /\ w \in ahead[t]
    BY <1>7, <1>8, <2>2, <2>4
  <2>5. CASE cpu' # cpu /\ w = u /\ t # u
    <3>1. rank[t] \in Nat /\ rank[u] \in Nat /\ rank[t] # rank[u]
      BY <1>2, <1>3, <1>5, <1>6, <2>5 DEF Ranked
    <3> QED
      BY <1>3, <2>5, <3>1 DEF Sooner
  <2> QED
    BY <1>8, <2>2, <2>3, <2>4, <2>5
<1>9. Waits(rank)'
  BY <1>4, <1>5, <1>8, Points DEF Waits
<1> QED
  BY <1>4, <1>5, <1>7, <1>9

LEMMA SchedTurn ==
    ASSUME IInv, IInv', NEW rank, CalmAt(rank), Waits(rank), CalmAt(rank)', SchedStep, ~hit',
           ahead' = Overtaken
    PROVE  Waits(rank)'
<1>1. ~ub /\ ~ub'
  BY DEF CalmAt
<1>2. CASE Hit
  <2>1. UNCHANGED <<live, cpu>>
    BY <1>1, <1>2, HitMoves
  <2>2. PICK from \in YieldPoints, to \in YieldPoints \cup {"eoi"} :
           At(from) /\ Goto(to) /\ scan'[cpu]["task"] = scan[cpu]["task"]
    BY <1>1, <1>2, HitMoves
  <2>3. Pc' = Pc /\ Mine' = Mine
    BY <1>2, <2>1, <2>2, Cut
  <2> QED
    BY <2>1, <2>3, SameTask
<1>3. CASE ~Hit
  BY <1>1, <1>3, ScanTurn, TestTurn, UnlinkTurn, FreeTurn, PickTurn, SwitchTurn DEF SchedStep
<1> QED
  BY <1>2, <1>3

-----------------------------------------------------------------------------
\* The other steps leave the CPU where it is, take no task out of the ring and do
\* not touch a scan in progress.
LEMMA OtherMoves ==
    ASSUME IInv, NEW rank, CalmAt(rank), IrqStep \/ TaskStep \/ TimerIrq \/ Key, ~ub'
    PROVE  /\ cpu' = cpu /\ live \subseteq live'
           /\ Pc' \in Scanning => Pc' = Pc /\ Mine' = Mine
<1>0. FrameType /\ cpu \in AllTasks
  BY RingTypes DEF IInv, TypeOK
<1>1. /\ cpu' = cpu /\ scan' = scan /\ live \subseteq live'
      /\ irq_pc'[cpu] \notin Scanning
      /\ task_pc'[cpu] = task_pc[cpu] \/ task_pc'[cpu] \notin Scanning
  <2>1. CASE IrqStep
    <3>1. CASE Tick
      <4>1. Level = "irq"
        BY <3>1, IrqPoint DEF Tick
      <4>2. PICK to \in {"eoi", "scan"} : Goto(to)
        BY <3>1 DEF Tick
      <4>3. irq_pc'[cpu] = to /\ task_pc' = task_pc
        BY <1>0, <4>1, <4>2 DEF Goto, FrameType
      <4> QED
        BY <3>1, <4>3 DEF Tick, Scanning
    <3>2. CASE Eoi \/ StartEnd
      <4>1. /\ irq_pc' = [irq_pc EXCEPT ![cpu] = "none"]
            /\ task_pc' = [task_pc EXCEPT ![cpu] = Wake(@)]
            /\ UNCHANGED <<cpu, scan, live>>
        BY <3>2 DEF Eoi, StartEnd, taskVars
      <4> QED
        BY <1>0, <4>1 DEF FrameType, Wake, Scanning
    <3>3. CASE StartOne
      <4>1. irq_pc[cpu] \notin Scanning
        BY <3>3, IrqPoint DEF StartOne
      <4>2. UNCHANGED <<cpu, task_pc, irq_pc, scan>> /\ live \subseteq live'
        BY <3>3 DEF StartOne, Undefined, frameVars, taskVars
      <4> QED
        BY <4>1, <4>2
    <3> QED
      BY <2>1, <3>1, <3>2, <3>3 DEF IrqStep
  <2>2. CASE TaskStep
    <3>1. irq_pc[cpu] = "none" /\ Level = "task"
      BY <2>2, TaskPoint DEF TaskStep, Program, Demo, Exit, Sleep, MainLoop, AtTask
    <3>2. UNCHANGED <<cpu, scan, live>>
      BY <2>2 DEF TaskStep, Program, Demo, Exit, Sleep, MainLoop, steadyVars, taskVars
    <3>3. (\E to \in {"scan", "exit", "sleep", "hlt"} : Goto(to)) \/ UNCHANGED <<task_pc, irq_pc>>
      BY <2>2 DEF TaskStep, Program, Demo, DemoBody, KillSelf, AfterKill, Yield, SetWake, Exit,
         Sleep, MainLoop
    <3>4. CASE UNCHANGED <<task_pc, irq_pc>>
      BY <3>1, <3>2, <3>4 DEF Scanning
    <3>5. ASSUME NEW to \in {"scan", "exit", "sleep", "hlt"}, Goto(to)
          PROVE  irq_pc'[cpu] = "none" /\ task_pc'[cpu] = to
      BY <1>0, <3>1, <3>5 DEF Goto, FrameType
    <3> QED
      BY <3>2, <3>3, <3>4, <3>5 DEF Scanning
  <2>3. CASE TimerIrq
    <3>1. irq_pc'[cpu] = "tick" /\ UNCHANGED <<cpu, scan, live, task_pc>>
      BY <1>0, <2>3 DEF TimerIrq, taskVars, FrameType
    <3> QED
      BY <3>1 DEF Scanning
  <2>4. CASE Key
    <3>1. irq_pc[cpu] = "none"
      BY <2>4, TaskPoint DEF Key, StopKey, ExecKey, StartKey, Interruptible
    <3>2. UNCHANGED <<cpu, scan>> /\ live \subseteq live'
      BY <2>4 DEF Key, StopKey, ExecKey, StartKey, Undefined, steadyVars, taskVars
    <3>3. irq_pc' = irq_pc \/ irq_pc' = [irq_pc EXCEPT ![cpu] = "start"]
      BY <2>4 DEF Key, StopKey, ExecKey, StartKey, Undefined, frameVars
    <3>4. task_pc' = task_pc \/ task_pc' = [task_pc EXCEPT ![cpu] = Wake(@)]
      BY <2>4 DEF Key, StopKey, ExecKey, StartKey, Undefined, frameVars
    <3>5. irq_pc'[cpu] \in {"none", "start"}
      BY <1>0, <3>1, <3>3 DEF FrameType
    <3>6. task_pc'[cpu] = task_pc[cpu] \/ task_pc'[cpu] = "run"
      BY <1>0, <3>4 DEF FrameType, Wake
    <3> QED
      BY <3>2, <3>5, <3>6 DEF Scanning
  <2> QED
    BY <2>1, <2>2, <2>3, <2>4
<1>2. ASSUME Pc' \in Scanning PROVE Pc' = Pc /\ Mine' = Mine
  <2>1. Outer' = "task" /\ task_pc'[cpu] = task_pc[cpu] /\ task_pc[cpu] \in YieldPoints
    BY <1>1, <1>2, Points DEF Pc, Outer
  <2> QED
    BY <1>1, <2>1 DEF Pc, Outer, Mine
<1> QED
  BY <1>1, <1>2

LEMMA TurnKept ==
    ASSUME IInv, IInv', NEW rank, CalmAt(rank), Waits(rank), [TurnNext]_turnVars, ~hit'
    PROVE  \E rank2 : CalmAt(rank2)' /\ Waits(rank2)'
<1>1. [Next]_vars
  BY DEF TurnNext, turnVars
<1>2. PICK rank2 : /\ CalmAt(rank2)' /\ Extends(rank, rank2)
                   /\ SchedStep \/ Pc' \in Scanning => rank2 = rank
  BY <1>1, CalmNext
<1>3. CASE SchedStep /\ ahead' = Overtaken
  BY <1>2, <1>3, SchedTurn
<1>4. CASE (IrqStep \/ TaskStep \/ TimerIrq \/ Key) /\ ahead' = Overtaken
  <2>1. /\ cpu' = cpu /\ live \subseteq live'
        /\ Pc' \in Scanning => Pc' = Pc /\ Mine' = Mine
    BY <1>2, <1>4, OtherMoves DEF CalmAt
  <2>2. \A t \in Runnable' : ahead'[t] # {} => t \in Runnable /\ ahead'[t] = ahead[t]
    BY <1>4, <2>1, StillWaiting
  <2>3. Pc' \in Scanning => \A t \in Runnable : ahead[t] # {} => ~Passed(rank2, t)'
    BY <1>2, <2>1 DEF Waits, Passed
  <2>4. InRing \subseteq InRing'
    BY <2>1 DEF InRing
  <2> QED
    BY <1>2, <2>1, <2>2, <2>3, <2>4, WaitsKept
<1>5. CASE UNCHANGED turnVars
  <2>1. UNCHANGED <<cpu, live, killed, suspended, wake_in, task_pc, irq_pc, scan, ahead>>
    BY <1>5 DEF turnVars, vars, taskVars, frameVars
  <2>2. InRing' = InRing /\ Runnable' = Runnable /\ Pc' = Pc /\ Mine' = Mine
    BY <2>1 DEF InRing, Runnable, Doomed, Due, Outer, Pc, Mine
  <2>3. Pc' \in Scanning => \A t \in Runnable : ahead[t] # {} => ~Passed(rank2, t)'
    BY <1>2, <2>1, <2>2 DEF Waits, Passed
  <2> QED
    BY <1>2, <2>1, <2>2, <2>3, WaitsKept
<1> QED
  BY <1>3, <1>4, <1>5 DEF TurnNext, Next, CpuStep

LEMMA TurnInitial == TurnInit => TurnInv
<1> SUFFICES ASSUME TurnInit PROVE TurnInv
  OBVIOUS
<1>1. IInv /\ Calm
  BY InitInv, InitCalm DEF TurnInit
<1>2. PICK rank : CalmAt(rank)
  BY <1>1 DEF Calm
<1>3. Runnable \subseteq AllTasks /\ Pc = "none"
  BY <1>1, Points DEF TurnInit, Init, Runnable, AllTasks, Outer, Pc
<1>4. Waits(rank)
  BY <1>3, Points DEF TurnInit, Waits
<1> QED
  BY <1>1, <1>2, <1>4 DEF TurnInv

THEOREM TurnInvariance == TurnSpec => []TurnInv
<1>1. TurnInv /\ [TurnNext]_turnVars => TurnInv'
  <2> SUFFICES ASSUME TurnInv, [TurnNext]_turnVars PROVE TurnInv'
    OBVIOUS
  <2>1. [Next]_vars
    BY DEF TurnNext, turnVars
  <2>2. IInv /\ IInv' /\ (hit => hit')
    BY <2>1, NextInv, HitStays DEF TurnInv
  <2>3. ASSUME ~hit' PROVE \E rank2 : CalmAt(rank2)' /\ Waits(rank2)'
    <3>1. PICK rank : CalmAt(rank) /\ Waits(rank)
      BY <2>2, <2>3 DEF TurnInv
    <3> QED
      BY <2>2, <2>3, <3>1, TurnKept
  <2> QED
    BY <2>2, <2>3 DEF TurnInv
<1> QED
  BY <1>1, TurnInitial, PTL DEF TurnSpec

\* A step that leaves the CPU where it is only changes who may run.
LEMMA TurnStep ==
    ASSUME TurnInv, TurnInv', TurnNext
    PROVE  Turns!Next
<1>1. IInv /\ IInv' /\ [Next]_vars /\ Next /\ ahead' = Overtaken
  BY DEF TurnInv, TurnNext
<1>2. CASE hit'
  BY <1>1, <1>2 DEF Turns!Next, Turns!Lose, IInv, TypeOK
<1>3. CASE ~hit'
  <2>1. ~hit
    BY <1>1, <1>3, HitStays
  <2>2. PICK rank : CalmAt(rank) /\ Waits(rank)
    BY <2>1 DEF TurnInv
  <2>3. hit' = hit /\ Runnable' \subseteq AllTasks
    BY <1>1, <1>3, <2>1 DEF IInv, TypeOK, TaskType, Runnable, AllTasks
  <2>4. CASE cpu' = cpu
    <3>1. ahead' = [t \in AllTasks |-> IF t \in Runnable \cap Runnable' THEN ahead[t] ELSE {}]
      BY <1>1, <2>4 DEF Overtaken
    <3> QED
      BY <2>3, <2>4, <3>1 DEF Turns!Next, Turns!Change
  <2>5. CASE cpu' # cpu
    <3>1. Switch /\ ~Hit
      <4>1. SchedStep
        <5>1. ~ub'
          BY <1>3 DEF TurnInv, CalmAt
        <5> QED
          BY <1>1, <2>2, <2>5, <5>1, OtherMoves DEF Next, CpuStep
      <4>2. ~Hit \/ UNCHANGED cpu
        BY <1>1, <1>3, <2>2, <4>1, HitMoves DEF CalmAt
      <4> QED
        BY <2>5, <4>1, <4>2 DEF SchedStep, Scan, Test, UnlinkPrev, UnlinkNext, Free, Pick,
           Undefined, steadyVars, frameVars
    <3>2. /\ Runnable' = Runnable /\ cpu' \in Runnable
          /\ \A t \in Runnable \ {cpu'} : cpu' \notin ahead[t]
      BY <1>1, <2>2, <3>1, SwitchTurn
    <3>3. ahead' = [t \in AllTasks |-> IF t \in Runnable \ {cpu'} THEN ahead[t] \cup {cpu'} ELSE {}]
      BY <1>1, <2>5, <3>2 DEF Overtaken
    <3>4. cpu' \in AllTasks
      BY <2>3, <3>2
    <3>5. Turns!Turn(cpu')
      BY <2>3, <3>2, <3>3 DEF Turns!Turn
    <3> QED
      BY <3>4, <3>5 DEF Turns!Next
  <2> QED
    BY <2>4, <2>5
<1> QED
  BY <1>2, <1>3

\* The scheduler takes turns, for any number of tasks: from the moment a task may run
\* until it does, each other task gets the CPU at most once, whatever interrupts,
\* keys, exits and sleeps come between, until a timer interrupt has rescheduled
\* inside a sched_yield (sched_next, sched.c:256-305).
THEOREM SchedIsRoundRobin == TurnSpec => IsRoundRobin
<1>1. TurnInit => Turns!Init
  <2> SUFFICES ASSUME TurnInit PROVE Turns!Init
    OBVIOUS
  <2>1. IInv
    BY TurnInitial DEF TurnInv
  <2> QED
    BY <2>1, RingTypes DEF TurnInit, Init, Turns!Init, IInv, TypeOK, TaskType, Runnable, AllTasks
<1>2. TurnInv /\ TurnInv' /\ [TurnNext]_turnVars => [Turns!Next]_<<cpu, Runnable, ahead, hit>>
  <2>1. ASSUME UNCHANGED turnVars PROVE UNCHANGED <<cpu, Runnable, ahead, hit>>
    BY <2>1 DEF turnVars, vars, taskVars, frameVars, ghostVars, Runnable, Doomed, Due
  <2> QED
    BY <2>1, TurnStep
<1> QED
  BY <1>1, <1>2, TurnInvariance, PTL DEF TurnSpec, IsRoundRobin, Turns!Spec

=============================================================================
