------------------------------ MODULE RoundRobin ------------------------------
(***************************************************************************)
(* What the scheduler promises its tasks: the CPU goes round.  While a     *)
(* task that may run waits, no other task is given the CPU twice.  When    *)
(* the CPU moves, who may run and in which order the ring is are left      *)
(* open.                                                                   *)
(***************************************************************************)
CONSTANT Tasks
VARIABLES
    running,    \* the task that has the CPU
    ready,      \* the tasks that may run
    ahead,      \* ahead[t]: those given the CPU since t began to wait for it
    lost        \* the promise no longer holds

Init ==
    /\ running \in Tasks
    /\ ready \subseteq Tasks
    /\ ahead = [t \in Tasks |-> {}]
    /\ lost = FALSE

\* Tasks come and go, fall asleep and wake; one that could not run before
\* begins to wait now.
Change ==
    /\ ready' \subseteq Tasks
    /\ ahead' = [t \in Tasks |-> IF t \in ready \cap ready' THEN ahead[t] ELSE {}]
    /\ UNCHANGED <<running, lost>>

\* u gets the CPU, and nobody it has already overtaken is waiting.
Turn(u) ==
    /\ u \in ready
    /\ \A t \in ready \ {u} : u \notin ahead[t]
    /\ running' = u
    /\ ahead' = [t \in Tasks |-> IF t \in ready \ {u} THEN ahead[t] \cup {u} ELSE {}]
    /\ UNCHANGED <<ready, lost>>

Lose == lost' = TRUE

Next == Change \/ (\E u \in Tasks : Turn(u)) \/ Lose
Spec == Init /\ [][Next]_<<running, ready, ahead, lost>>
=============================================================================
