------------------------------ MODULE SchedTurns ------------------------------
(***************************************************************************)
(* Sched with a history variable: for every task that may run, the tasks   *)
(* that have been given the CPU since it began to wait.  It records what   *)
(* the steps of Sched do and takes part in none of them.                   *)
(***************************************************************************)
EXTENDS Sched

VARIABLE ahead
turnVars == <<vars, ahead>>

\* The tasks sched_next would choose if it came to them.
Runnable == {t \in live \cup {Idle} : ~Doomed(t) /\ Due(t)}

TurnInit == Init /\ ahead = [t \in AllTasks |-> {}]

\* A task overtakes those that may run before and after it gets the CPU.
Overtaken ==
    [t \in AllTasks |->
        IF t \notin Runnable \cap Runnable' THEN {}
        ELSE IF cpu' = cpu THEN ahead[t]
        ELSE IF t = cpu' THEN {} ELSE ahead[t] \cup {cpu'}]

TurnNext == Next /\ ahead' = Overtaken
TurnSpec == TurnInit /\ [][TurnNext]_turnVars

Turns == INSTANCE RoundRobin WITH
    Tasks <- AllTasks, running <- cpu, ready <- Runnable, lost <- hit

\* Tasks take turns: from the moment a task may run until it does, each other task
\* gets the CPU at most once, whatever is preempted, added, killed, reaped, put to
\* sleep or woken on the way, as long as no timer interrupt has rescheduled inside
\* a sched_yield (sched_next goes on from the current task, sched.c:260-305).
IsRoundRobin == Turns!Spec
=============================================================================
