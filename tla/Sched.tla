-------------------------------- MODULE Sched --------------------------------
(***************************************************************************)
(* The TKOS scheduler (kernel/sched.c) on the one CPU it runs on, with the *)
(* interrupts that cut into it (pit.c, idt.c, pic.c), the tasks it runs    *)
(* (syscall.c, kernel_main.c) and the main loop, which is the idle task.   *)
(*                                                                         *)
(* Every task has one stack, and a stack holds at most two frames: the     *)
(* task's own code ("task" level) and, above it, an interrupt handler      *)
(* ("irq" level).  Interrupt gates clear IF, so a handler is not itself    *)
(* interrupted; but sched_tick switches stacks INSIDE the timer handler,   *)
(* before idt_dispatch sends the EOI, and the abandoned frame sends it     *)
(* only when its task is switched to again.  Until then IRQ0 stays in      *)
(* service and the PIC delivers neither IRQ0 nor anything below it.        *)
(*                                                                         *)
(* sched_yield runs the same code at task level with interrupts enabled,   *)
(* so each of its steps is an action of its own here.                      *)
(***************************************************************************)
EXTENDS Naturals, FiniteSets

CONSTANTS
    Demos,          \* the task_t slots multitask_start can fill
    Programs,       \* the task_t slots shell_cmd_exec can fill
    Idle,           \* idle_task_struct: kernel_main itself
    NULL,
    DemoCount,      \* DEMO_TASK_COUNT
    TickSlice,      \* SCHED_TICK_SLICE
    MaxSleep,       \* bound: the longest SYS_SLEEP, in jiffies
    StopYields      \* yields multitask_pump makes once a stop is requested

ASSUME SlotAssumption ==
    /\ Demos \cap Programs = {}
    /\ Idle \notin Demos \cup Programs
    /\ NULL \notin Demos \cup Programs \cup {Idle}
ASSUME FiniteAssumption == IsFiniteSet(Demos \cup Programs)
ASSUME BoundAssumption ==
    /\ DemoCount \in Nat \ {0}
    /\ TickSlice \in Nat
    /\ MaxSleep \in Nat
    /\ StopYields \in Nat \ {0}

Slots == Demos \cup Programs
AllTasks == Slots \cup {Idle}
Pointer == AllTasks \cup {NULL}

\* Program points.  A task-level frame is in the task's own code ("run"), in
\* hlt, between task_kill and the next task_yield ("exit"), between the two
\* statements of task_sleep ("sleep"), or inside sched_yield.
YieldPoints == {"scan", "test", "unlink_prev", "unlink_next", "free",
                "pick", "switch"}
TaskPoints == {"run", "hlt", "exit", "sleep"} \cup YieldPoints
\* An irq-level frame is absent, in the timer handler, or in multitask_start
\* called from the keyboard handler.
TimerPoints == {"tick", "eoi"} \cup YieldPoints
IrqPoints == {"none", "start"} \cup TimerPoints
Levels == {"task", "irq"}

VARIABLES
    next_task, last_task, task_list_head, task_count,   \* the task ring
    killed,         \* tasks with TASKf_KILL_TASK
    suspended,      \* tasks with TASKf_SUSPENDED
    wake_in,        \* wake_jiffy - total_jiffies, never below 0
    live,           \* slots whose task_t, stack and image are allocated
    current_task, tick_counter,
    cpu,            \* the task whose stack the CPU is on
    task_pc, irq_pc, \* where each stack's two frames are
    scan,           \* scan[t][level]: the locals of sched_next and its caller
    in_service,     \* IRQ0 has been delivered and not yet acknowledged
    demo_running, stop_requested, callback,
    pump,           \* yields left in multitask_pump's stop loop
    made,           \* multitask_start: task_create calls that succeeded
    tried,          \* and those already made
    ub,             \* a freed task_t, a freed stack or a lost context was used
    hit             \* the timer has interrupted sched_yield

ringVars == <<next_task, last_task, task_list_head, task_count>>
taskVars == <<killed, suspended, wake_in, live>>
frameVars == <<cpu, task_pc, irq_pc, scan>>
demoVars == <<demo_running, stop_requested, callback, pump, made, tried>>
ghostVars == <<ub, hit>>
steadyVars == <<current_task, tick_counter, cpu, in_service, demoVars, ghostVars>>
vars == <<ringVars, taskVars, current_task, tick_counter, frameVars,
          in_service, demoVars, ghostVars>>

NoScan == [start |-> NULL, t |-> NULL, victim |-> NULL, prev |-> NULL]

LocalType == [start : Pointer, t : Pointer, victim : Pointer, prev : Pointer]

RingType ==
    /\ next_task \in [AllTasks -> Pointer]
    /\ last_task \in [AllTasks -> Pointer]
    /\ task_list_head \in Pointer
    /\ task_count \in Nat

TaskType ==
    /\ killed \subseteq AllTasks
    /\ suspended \subseteq AllTasks
    /\ wake_in \in [AllTasks -> 0..MaxSleep]
    /\ live \subseteq Slots
    /\ current_task \in AllTasks
    /\ tick_counter \in 0..TickSlice

FrameType ==
    /\ cpu \in AllTasks
    /\ task_pc \in [AllTasks -> TaskPoints]
    /\ irq_pc \in [AllTasks -> IrqPoints]
    /\ scan \in [AllTasks -> [Levels -> LocalType]]
    /\ in_service \in BOOLEAN

DemoType ==
    /\ demo_running \in BOOLEAN
    /\ stop_requested \in BOOLEAN
    /\ callback \in {"shell", "demo"}
    /\ pump \in 0..StopYields
    /\ made \in 0..DemoCount
    /\ tried \in 0..DemoCount

TypeOK ==
    /\ RingType
    /\ TaskType
    /\ FrameType
    /\ DemoType
    /\ ub \in BOOLEAN
    /\ hit \in BOOLEAN

-----------------------------------------------------------------------------
\* The state kernel_main's loop starts in: sched_init has put the idle task in
\* the ring and sti has run.
Init ==
    /\ next_task = [t \in AllTasks |-> IF t = Idle THEN Idle ELSE NULL]
    /\ last_task = [t \in AllTasks |-> IF t = Idle THEN Idle ELSE NULL]
    /\ task_list_head = Idle
    /\ task_count = 1
    /\ killed = {}
    /\ suspended = {}
    /\ wake_in = [t \in AllTasks |-> 0]
    /\ live = {}
    /\ current_task = Idle
    /\ tick_counter = 0
    /\ cpu = Idle
    /\ task_pc = [t \in AllTasks |-> "run"]
    /\ irq_pc = [t \in AllTasks |-> "none"]
    /\ scan = [t \in AllTasks |-> [l \in Levels |-> NoScan]]
    /\ in_service = FALSE
    /\ demo_running = FALSE
    /\ stop_requested = FALSE
    /\ callback = "shell"
    /\ pump = 0
    /\ made = 0
    /\ tried = 0
    /\ ub = FALSE
    /\ hit = FALSE

-----------------------------------------------------------------------------
\* The frame the CPU is executing.
Level == IF irq_pc[cpu] = "none" THEN "task" ELSE "irq"
Here == IF Level = "irq" THEN irq_pc[cpu] ELSE task_pc[cpu]
At(point) == ~ub /\ Here = point
AtTask(point) == At(point) /\ Level = "task"
Local == scan[cpu][Level]

Goto(point) ==
    IF Level = "irq"
    THEN irq_pc' = [irq_pc EXCEPT ![cpu] = point] /\ UNCHANGED task_pc
    ELSE task_pc' = [task_pc EXCEPT ![cpu] = point] /\ UNCHANGED irq_pc
SetLocal(r) == scan' = [scan EXCEPT ![cpu][Level] = r]

\* Where sched_yield or sched_tick returns to.  A task that has killed itself
\* loops on task_yield.
Return == IF Level = "irq" THEN "eoi"
          ELSE IF cpu \in killed THEN "exit" ELSE "run"

Allocated(t) == t \in live \cup {Idle}

\* An interrupt handler changes the schedule under a sched_yield it cut into.
Hit == Level = "irq" /\ task_pc[cpu] \in YieldPoints

\* The code went on with memory it no longer owns: nothing after it is defined.
Undefined ==
    /\ ub' = TRUE
    /\ hit' = (hit \/ Hit)
    /\ UNCHANGED <<ringVars, taskVars, current_task, tick_counter, frameVars,
                   in_service, demoVars>>

-----------------------------------------------------------------------------
TailOK == task_list_head = NULL \/ Allocated(last_task[task_list_head])

\* list_add: append before the head.  The tail is read through the head.
ListAdd(t) ==
    /\ task_count' = task_count + 1
    /\ IF task_list_head = NULL
       THEN /\ task_list_head' = t
            /\ next_task' = [next_task EXCEPT ![t] = t]
            /\ last_task' = [last_task EXCEPT ![t] = t]
       ELSE LET tail == last_task[task_list_head] IN
            /\ next_task' = [next_task EXCEPT ![tail] = t, ![t] = task_list_head]
            /\ last_task' = [last_task EXCEPT ![task_list_head] = t, ![t] = tail]
            /\ UNCHANGED task_list_head

\* mutant: every scan begins after the head of the ring
FirstAfterHead == next_task[task_list_head]
\* sched_next: the scan begins after the current task.
First == next_task[current_task]

Scan ==
    /\ At("scan")
    /\ IF ~Allocated(current_task) THEN Undefined ELSE
       /\ SetLocal([NoScan EXCEPT !.start = First, !.t = First])
       /\ Goto("test")
       /\ UNCHANGED <<ringVars, taskVars, steadyVars>>

\* sched_next's loop condition, after t has moved on to u: back to the loop, or
\* a whole lap without a runnable task.
Advance(u) ==
    IF u # Local.start
    THEN /\ SetLocal([Local EXCEPT !.t = u])
         /\ Goto("test")
    ELSE /\ SetLocal([Local EXCEPT !.t = Idle])
         /\ Goto("pick")

\* TASKf_KILL_TASK is honoured for every task but the idle one.
Doomed(t) == t \in killed /\ t # Idle

\* mutant: the wake-up test is off by one
DueEarly(t) == t \in suspended => wake_in[t] <= 1
Due(t) == t \in suspended => wake_in[t] = 0

Awake(t) == suspended \ {t}

\* mutant: a killed task is passed over and never freed
ReapNever(t) == Advance(next_task[t])
Reap(t) ==
    /\ SetLocal([Local EXCEPT !.victim = t, !.t = next_task[t]])
    /\ Goto("unlink_prev")

\* One turn of sched_next's loop: t is freed, passed over, or chosen.
Test ==
    /\ At("test")
    /\ LET t == Local.t IN
       IF ~Allocated(t) THEN Undefined ELSE
       /\ \/ /\ Doomed(t)
             /\ Reap(t)
             /\ UNCHANGED suspended
          \/ /\ ~Doomed(t) /\ ~Due(t)
             /\ Advance(next_task[t])
             /\ UNCHANGED suspended
          \/ /\ ~Doomed(t) /\ Due(t)
             /\ suspended' = Awake(t)
             /\ Goto("pick")
             /\ UNCHANGED scan
       /\ UNCHANGED <<ringVars, killed, wake_in, live, steadyVars>>

\* mutant: the predecessor's link is left alone
SkipNothing(v) == next_task
SkipVictim(v) == [next_task EXCEPT ![last_task[v]] = next_task[v]]

\* list_remove, first store: the predecessor skips the victim.  (Its early return
\* when task_count is 0 is dead code: CountOK below.)
UnlinkPrev ==
    /\ At("unlink_prev")
    /\ LET v == Local.victim IN
       IF ~Allocated(v) \/ ~Allocated(last_task[v]) THEN Undefined ELSE
       /\ IF next_task[v] = v
          THEN task_list_head' = NULL /\ UNCHANGED next_task /\ Goto("free")
          ELSE /\ next_task' = SkipVictim(v)
               /\ UNCHANGED task_list_head
               /\ Goto("unlink_next")
       /\ UNCHANGED <<last_task, task_count, taskVars, scan, steadyVars>>

NextHead(v) == IF task_list_head = v THEN next_task[v] ELSE task_list_head

\* list_remove, second store: the successor skips it too, and the head moves on.
UnlinkNext ==
    /\ At("unlink_next")
    /\ LET v == Local.victim
           n == next_task[v]
       IN IF ~Allocated(v) \/ ~Allocated(n) THEN Undefined ELSE
          /\ last_task' = [last_task EXCEPT ![n] = last_task[v]]
          /\ task_list_head' = NextHead(v)
          /\ Goto("free")
          /\ UNCHANGED <<next_task, task_count, taskVars, scan, steadyVars>>

\* The end of list_remove and the calls of free_pages: image, stack and task_t
\* go, and with them whatever frames the victim's stack held.
Free ==
    /\ At("free")
    /\ LET v == Local.victim IN
       IF v \notin live \/ v = cpu THEN Undefined ELSE
       /\ next_task' = [next_task EXCEPT ![v] = NULL]
       /\ last_task' = [last_task EXCEPT ![v] = NULL]
       /\ task_count' = task_count - 1
       /\ live' = live \ {v}
       /\ killed' = killed \ {v}
       /\ suspended' = suspended \ {v}
       /\ wake_in' = [wake_in EXCEPT ![v] = 0]
       /\ LET lap == Local.t = Local.start IN
          /\ LET after == IF lap THEN "pick" ELSE "test"
                 irq == Level = "irq"
             IN /\ task_pc' = [task_pc EXCEPT ![v] = "run",
                                              ![cpu] = IF irq THEN @ ELSE after]
                /\ irq_pc' = [irq_pc EXCEPT ![v] = "none",
                                            ![cpu] = IF irq THEN after ELSE @]
          /\ scan' = [scan EXCEPT ![v] = [l \in Levels |-> NoScan],
                ![cpu][Level] = [Local EXCEPT !.victim = NULL,
                                              !.t = IF lap THEN Idle ELSE @]]
       /\ hit' = (hit \/ Hit)
       /\ UNCHANGED <<task_list_head, current_task, tick_counter, cpu,
                      in_service, demoVars, ub>>

\* sched_yield / sched_tick once sched_next has returned.
Pick ==
    /\ At("pick")
    /\ IF Local.t = current_task
       THEN /\ Goto(Return)
            /\ SetLocal(NoScan)
            /\ UNCHANGED <<ringVars, taskVars, steadyVars>>
       ELSE IF ~Allocated(Local.t) THEN Undefined ELSE
            /\ SetLocal([NoScan EXCEPT !.t = Local.t, !.prev = current_task])
            /\ current_task' = Local.t
            /\ Goto("switch")
            /\ UNCHANGED <<ringVars, taskVars, tick_counter, cpu, in_service,
                           demoVars, ghostVars>>

\* sched_context_switch(prev, next): this stack's registers are saved in prev,
\* next's are loaded.  If prev is not the task this stack belongs to, the
\* context saved in prev is lost.
Switch ==
    /\ At("switch")
    /\ IF Local.prev # cpu \/ ~Allocated(Local.t) THEN Undefined ELSE
       /\ cpu' = Local.t
       /\ Goto(Return)
       /\ SetLocal(NoScan)
       /\ hit' = (hit \/ Hit)
       /\ UNCHANGED <<ringVars, taskVars, current_task, tick_counter,
                      in_service, demoVars, ub>>

-----------------------------------------------------------------------------
\* Interrupts.  idt_dispatch runs the handler with IF clear.

\* mutant: automatic EOI, the PIC delivers again before the handler is done
InterruptibleAeoi == ~ub /\ Level = "task"
\* Interrupts are taken at task level (IF set) while the PIC has none in service.
Interruptible == ~ub /\ Level = "task" /\ ~in_service

\* An interrupt that has returned takes hlt with it.
Wake(point) == IF point = "hlt" THEN "run" ELSE point

TimerIrq ==
    /\ Interruptible
    /\ in_service' = TRUE
    /\ irq_pc' = [irq_pc EXCEPT ![cpu] = "tick"]
    /\ UNCHANGED <<ringVars, taskVars, current_task, tick_counter, cpu, task_pc, scan,
                   demoVars, ghostVars>>

\* mutant: the remaining time is decremented past zero
LessOneWraps(n) == n - 1
\* total_jiffies++, seen from a task's wake_jiffy.
LessOne(n) == IF n > 0 THEN n - 1 ELSE 0

\* sched_tick up to its call of sched_next.
Tick ==
    /\ At("tick")
    /\ wake_in' = [t \in AllTasks |-> LessOne(wake_in[t])]
    /\ IF tick_counter > 0
       THEN tick_counter' = tick_counter - 1 /\ Goto("eoi")
       ELSE tick_counter' = TickSlice /\ Goto("scan")
    /\ UNCHANGED <<ringVars, killed, suspended, live, current_task, cpu, scan,
                   in_service, demoVars, ghostVars>>

\* mutant: idt_dispatch sends no EOI
NoEoi == in_service
\* pic_send_eoi.
AfterEoi == FALSE

\* idt_dispatch after pit_irq_handler, and iretq.
Eoi ==
    /\ At("eoi")
    /\ in_service' = AfterEoi
    /\ irq_pc' = [irq_pc EXCEPT ![cpu] = "none"]
    /\ task_pc' = [task_pc EXCEPT ![cpu] = Wake(@)]
    /\ UNCHANGED <<ringVars, taskVars, current_task, tick_counter, cpu, scan,
                   demoVars, ghostVars>>

\* demo_stop_key_handler.
StopKey ==
    /\ Interruptible
    /\ callback = "demo"
    /\ stop_requested' = TRUE
    /\ task_pc' = [task_pc EXCEPT ![cpu] = Wake(@)]
    /\ UNCHANGED <<ringVars, taskVars, current_task, tick_counter, cpu, irq_pc, scan,
                   in_service, demo_running, callback, pump, made, tried,
                   ghostVars>>

\* shell_cmd_exec: exec_load gave a task in slot p, sched_add links it.
ExecKey(p) ==
    /\ Interruptible
    /\ callback = "shell"
    /\ p \in Programs \ live
    /\ IF ~TailOK THEN Undefined ELSE
       /\ ListAdd(p)
       /\ live' = live \cup {p}
       /\ task_pc' = [task_pc EXCEPT ![cpu] = Wake(@)]
       /\ UNCHANGED <<killed, suspended, wake_in, irq_pc, scan, steadyVars>>

\* multitask_start, up to its first task_create.
StartKey ==
    /\ Interruptible
    /\ callback = "shell"
    /\ ~demo_running
    /\ demo_running' = TRUE
    /\ stop_requested' = FALSE
    /\ irq_pc' = [irq_pc EXCEPT ![cpu] = "start"]
    /\ UNCHANGED <<ringVars, taskVars, current_task, tick_counter, cpu, task_pc, scan,
                   in_service, callback, pump, made, tried, ghostVars>>

\* One task_create and sched_add of multitask_start; memory may have run out.
StartOne ==
    /\ At("start")
    /\ tried < DemoCount
    /\ \/ /\ tried' = tried + 1
          /\ UNCHANGED <<ringVars, taskVars, current_task, tick_counter,
                         frameVars, in_service, demo_running, stop_requested,
                         callback, pump, made, ghostVars>>
       \/ \E d \in Demos \ live :
            IF ~TailOK THEN Undefined ELSE
            /\ tried' = tried + 1
            /\ made' = made + 1
            /\ live' = live \cup {d}
            /\ ListAdd(d)
            /\ UNCHANGED <<killed, suspended, wake_in, current_task,
                           tick_counter, frameVars, in_service, demo_running,
                           stop_requested, callback, pump, ghostVars>>

\* The end of multitask_start.
StartEnd ==
    /\ At("start")
    /\ tried = DemoCount
    /\ IF made = DemoCount
       THEN callback' = "demo" /\ UNCHANGED demo_running
       ELSE demo_running' = FALSE /\ UNCHANGED callback
    /\ made' = 0
    /\ tried' = 0
    /\ irq_pc' = [irq_pc EXCEPT ![cpu] = "none"]
    /\ task_pc' = [task_pc EXCEPT ![cpu] = Wake(@)]
    /\ UNCHANGED <<ringVars, taskVars, current_task, tick_counter, cpu, scan,
                   in_service, stop_requested, pump, ghostVars>>

-----------------------------------------------------------------------------
\* The tasks' own code.

\* mutant: the task goes on running after task_kill
AfterKillRun == "run"
\* for (;;) task_yield().
AfterKill == "exit"

\* task_kill(sched_get_current()), by SYS_EXIT, by a demo task that has seen the
\* stop, or by task_auto_exit when the entry function returns.
KillSelf ==
    /\ killed' = killed \cup {current_task}
    /\ Goto(AfterKill)
    /\ UNCHANGED <<suspended, wake_in>>

\* sched_yield is entered with task-level locals of its own.
Yield ==
    /\ Goto("scan")
    /\ UNCHANGED <<killed, suspended, wake_in>>

\* task_sleep's first statement.
SetWake(jiffies) ==
    /\ wake_in' = [wake_in EXCEPT ![current_task] = jiffies]
    /\ Goto("sleep")
    /\ UNCHANGED <<killed, suspended>>

Program ==
    /\ AtTask("run")
    /\ cpu \in Programs
    /\ KillSelf \/ Yield \/ \E jiffies \in 0..MaxSleep : SetWake(jiffies)
    /\ UNCHANGED <<ringVars, live, scan, steadyVars>>

\* mutant: the demo tasks never look at demo_tasks_running
DemoBodyForever == Yield
DemoBody == IF demo_running THEN Yield ELSE KillSelf

\* demo_task_1 .. demo_task_3.
Demo ==
    /\ AtTask("run")
    /\ cpu \in Demos
    /\ DemoBody
    /\ UNCHANGED <<ringVars, live, scan, steadyVars>>

\* for (;;) task_yield(), after task_kill.
Exit ==
    /\ AtTask("exit")
    /\ Goto("scan")
    /\ UNCHANGED <<ringVars, taskVars, scan, steadyVars>>

\* task_sleep's second statement and its call of sched_yield.
Sleep ==
    /\ AtTask("sleep")
    /\ suspended' = suspended \cup {current_task}
    /\ Goto("scan")
    /\ UNCHANGED <<ringVars, killed, wake_in, live, scan, steadyVars>>

\* One turn of kernel_main's loop: multitask_pump while the demo runs, hlt when
\* there is nothing to do.
MainLoop ==
    /\ AtTask("run")
    /\ cpu = Idle
    /\ \/ /\ pump = 0 /\ demo_running /\ ~stop_requested
          /\ Goto("scan")
          /\ UNCHANGED <<demo_running, callback, pump>>
       \/ /\ pump = 0 /\ demo_running /\ stop_requested
          /\ demo_running' = FALSE
          /\ pump' = StopYields
          /\ Goto("scan")
          /\ UNCHANGED callback
       \/ /\ pump > 1
          /\ pump' = pump - 1
          /\ Goto("scan")
          /\ UNCHANGED <<demo_running, callback>>
       \/ /\ pump = 1
          /\ pump' = 0
          /\ callback' = "shell"
          /\ UNCHANGED <<demo_running, task_pc, irq_pc>>
       \/ /\ pump = 0 /\ ~demo_running
          /\ Goto("hlt")
          /\ UNCHANGED <<demo_running, callback, pump>>
    /\ UNCHANGED <<ringVars, taskVars, current_task, tick_counter, cpu, scan,
                   in_service, stop_requested, made, tried, ghostVars>>

-----------------------------------------------------------------------------
SchedStep == Scan \/ Test \/ UnlinkPrev \/ UnlinkNext \/ Free \/ Pick \/ Switch
IrqStep == Tick \/ Eoi \/ StartOne \/ StartEnd
TaskStep == Program \/ Demo \/ Exit \/ Sleep \/ MainLoop
CpuStep == SchedStep \/ IrqStep \/ TaskStep
Key == StopKey \/ (\E p \in Programs : ExecKey(p)) \/ StartKey

Next == CpuStep \/ TimerIrq \/ Key

Spec == Init /\ [][Next]_vars

\* The CPU never stops and a program makes a system call or returns sooner or
\* later.  A jiffy is a millisecond, so however often a task is interrupted its own
\* code moves on between two ticks; and the PIC keeps the PIT's request and
\* ranks it above the keyboard's, so keys cannot hold it off.
TaskLevel(t) == cpu = t /\ Level = "task" /\ CpuStep
FairSpec ==
    /\ Spec
    /\ WF_vars(CpuStep)
    /\ \A t \in AllTasks : SF_vars(TaskLevel(t))
    /\ SF_vars(TimerIrq)

-----------------------------------------------------------------------------
\* Linked tasks, walked from the head the way sched_print_tasks does.
Walk[n \in Nat] == IF n = 0 THEN task_list_head ELSE next_task[Walk[n - 1]]

InsideRemove == \E t \in AllTasks :
                    {task_pc[t], irq_pc[t]} \cap {"unlink_next", "free"} # {}

\* task_count counts the idle task and the allocated ones.
CountOK == task_count = Cardinality(live) + 1

\* Whatever was added and reaped, in whatever order, the ring read from the head
\* is exactly the idle task and the allocated tasks, each once, the backward
\* links mirror the forward ones and task_count counts them: as long as no timer
\* interrupt has rescheduled inside a sched_yield (sched.c list_add, list_remove).
RingOK ==
    ~hit /\ ~InsideRemove =>
        LET n == Cardinality(live) + 1 IN
        /\ CountOK
        /\ {Walk[k] : k \in 0..(n - 1)} = live \cup {Idle}
        /\ Walk[n] = task_list_head
        /\ \A t \in live \cup {Idle} : last_task[next_task[t]] = t

\* The only way the scheduler reaches a freed task_t, frees the stack it runs on
\* or saves a context over another task's is a timer interrupt that reschedules
\* between the first and the last instruction of a task-level sched_yield.
UndefinedNeedsHit == ub => hit

\* The ring and the tasks in it survive any order of preemptions, exits and reaping:
\* tasks are added and removed without a lock (list_add, sched.c:50-65,
\* list_remove, 68-80), and sched_next reaps the killed ones it passes (268-284).
RingSound == RingOK /\ UndefinedNeedsHit

\* At most one stack holds an unfinished interrupt handler, and while the timer's
\* handler is unfinished IRQ0 is in service: a task preempted before its EOI
\* keeps every other task from being preempted.
OnePreempted ==
    /\ \A s, t \in AllTasks : irq_pc[s] # "none" /\ irq_pc[t] # "none" => s = t
    /\ \A t \in AllTasks : irq_pc[t] \in TimerPoints => in_service

\* The pending EOI is always on some allocated stack: IRQ0 is in service only
\* while a task that can still run holds the handler that will acknowledge it.
EoiHeld ==
    in_service /\ ~ub => \E t \in live \cup {Idle} : irq_pc[t] \in TimerPoints

\* The pending EOI can only be lost one way: the task whose stack holds the
\* handler was preempted after its task_kill and before its task_yield (SYS_EXIT,
\* demo tasks, task_auto_exit), and sched_next frees it as it frees any other.
EoiLostOnlyAtExit ==
    [][EoiHeld /\ ~EoiHeld' /\ ~hit' =>
        \E v \in live \ live' : irq_pc[v] = "eoi" /\ task_pc[v] = "exit"]_vars

\* A sleeping task is never switched to: whoever the CPU moves to has been woken,
\* and is woken only when its jiffies have passed (sched_next).
NoEarlyWake ==
    [][~hit' =>
       /\ cpu' # cpu => cpu' \notin suspended
       /\ \A t \in live \cap live' :
            t \in suspended /\ t \notin suspended' => wake_in[t] = 0]_vars

\* With no demo, only the main loop is ever preempted: every program runs to its
\* next system call with the interrupts held off by the main loop's pending EOI,
\* and no sched_yield is ever cut into.
OnlyIdlePreempted == ~hit /\ \A t \in AllTasks : irq_pc[t] # "none" => t = Idle

\* The main loop has executed hlt with IRQ0 still in service: no interrupt will
\* ever end it.
Hung == cpu = Idle /\ task_pc[Idle] = "hlt" /\ Level = "task" /\ in_service

\* With no demo only the main loop is ever preempted, and it never halts for good:
\* whenever it is on the CPU and out of its handler, the EOI has been sent
\* (idt_dispatch, idt.c:161-163).
IdleAlonePays == OnlyIdlePreempted /\ ~Hung

\* Round robin: a task in the ring that may run does run, however the others
\* yield, sleep, exit and arrive (sched_next starts after the current task).
RunnableRuns ==
    \A t \in Slots :
        t \in live /\ t \notin suspended \cup killed ~> cpu = t \/ hit \/ Hung

\* Every sleeper wakes.
SleeperWakes == \A t \in Slots : t \in suspended ~> t \notin suspended \/ hit \/ Hung

\* No task starves, awake or asleep (sched_next, sched.c:256-305).
TasksProgress == RunnableRuns /\ SleeperWakes

\* Every task that kills itself is reaped, its pages with it.
KilledReaped == \A t \in Slots : t \in killed ~> t \notin live \/ hit \/ Hung

\* Once a key has asked for it, multitask_pump gives the keyboard back to the
\* shell, and the demo's tasks leave the ring unless the demo is started again.
DemoStops ==
    /\ callback = "demo" /\ stop_requested ~> callback = "shell" \/ hit
    /\ pump > 0 ~> Demos \cap live = {} \/ demo_running \/ hit \/ Hung

\* multitask_start tells the user that any key stops the demo: while it runs, the
\* keyboard interrupt can always be taken again.
AnyKeyStops == callback = "demo" ~> Interruptible \/ callback # "demo" \/ hit

=============================================================================
