-------------------------------- MODULE Shell --------------------------------
(***************************************************************************)
(* The interactive modes of kernel/kernel_main.c: one keyboard, one screen *)
(* and one speaker, shared by the shell, the logo screen ("ab"), the       *)
(* multitask demo ("tskdemo") and the melody ("play").  Commands run       *)
(* inside the keyboard interrupt and leave flags; the main loop, which any *)
(* interrupt can cut at any point, acts on them.                           *)
(*                                                                         *)
(* What the scheduler does in a task_yield is module Sched's subject: here *)
(* the main loop simply gets its turn back.                                *)
(***************************************************************************)
EXTENDS Naturals

CONSTANT BufSize    \* SHELL_BUF_SIZE

ASSUME BufSizeAssumption == BufSize \in Nat \ {0, 1}

VARIABLES
    callback,           \* who gets the keys: keyboard.c's active_callback
    shell_len,          \* length of the line typed so far
    splash_active, demo_tasks_running, demo_stop_requested,
    melody_pending, melody_playing,
    marquee_paused, cursor_visible,
    boot_drew,          \* the logo screen now shown was drawn over by the boot code
    pc                  \* where the main context is

flags == <<splash_active, demo_tasks_running, demo_stop_requested, melody_pending,
           melody_playing>>
screen == <<marquee_paused, cursor_visible, boot_drew>>
vars == <<callback, shell_len, flags, screen, pc>>

Points == {"boot", "draw", "top", "clock", "branch", "stop", "read", "clear", "start", "play",
           "hlt", "halt"}

TypeOK ==
    /\ callback \in {"shell", "splash", "demo"}
    /\ shell_len \in 0..(BufSize - 1)
    /\ {splash_active, demo_tasks_running, demo_stop_requested, melody_pending,
        melody_playing, marquee_paused, cursor_visible, boot_drew} \subseteq BOOLEAN
    /\ pc \in Points

\* Interrupts are enabled only when the shell has the keyboard; the boot melody plays.
Init ==
    /\ callback = "shell"
    /\ shell_len = 0
    /\ splash_active = FALSE
    /\ demo_tasks_running = FALSE
    /\ demo_stop_requested = FALSE
    /\ melody_pending = FALSE
    /\ melody_playing = FALSE
    /\ marquee_paused = FALSE
    /\ cursor_visible = FALSE
    /\ boot_drew = FALSE
    /\ pc = "boot"

-----------------------------------------------------------------------------
\* mutant: interrupts stay off while the processor halts
StaysHalted == pc
\* An interrupt ends the hlt it hits; the main loop then starts over.
Woken == IF pc = "halt" THEN "top" ELSE pc

\* shell_cmd_ab.
OpenSplash ==
    IF melody_playing \/ demo_tasks_running
    THEN UNCHANGED <<callback, splash_active, screen>>
    ELSE /\ callback' = "splash"
         /\ splash_active' = TRUE
         /\ marquee_paused' = TRUE
         /\ cursor_visible' = FALSE
         /\ boot_drew' = FALSE

\* mutant: a demo that could not be started still counts as running
KeepRunning == callback' = "shell" /\ demo_tasks_running' = TRUE
\* Some task could not be created; those that were find the flag down and exit.
GiveUp == callback' = "shell" /\ demo_tasks_running' = FALSE

\* multitask_start.
StartDemo ==
    IF demo_tasks_running THEN UNCHANGED <<callback, demo_tasks_running, demo_stop_requested>>
    ELSE /\ demo_stop_requested' = FALSE
         /\ \/ callback' = "demo" /\ demo_tasks_running' = TRUE
            \/ GiveUp

\* The "play" command.
RequestMelody == melody_pending' = (melody_pending \/ ~melody_playing)

\* shell_exec; "other" stands for the commands that touch no mode.
Commands == {"ab", "tskdemo", "play", "other"}
Exec(cmd) ==
    /\ IF cmd = "ab" THEN OpenSplash ELSE UNCHANGED <<splash_active, screen>>
    /\ IF cmd = "tskdemo" THEN StartDemo
       ELSE UNCHANGED <<demo_tasks_running, demo_stop_requested>>
    /\ IF cmd = "play" THEN RequestMelody ELSE UNCHANGED melody_pending
    /\ cmd \notin {"ab", "tskdemo"} => UNCHANGED callback
    /\ UNCHANGED melody_playing

\* mutant: the line may fill the whole buffer
FitsAll == shell_len <= BufSize - 1
\* One byte is kept for the terminating zero.
Fits == shell_len < BufSize - 1

\* shell_key_handler.
ShellEnter ==
    /\ callback = "shell"
    /\ shell_len' = 0
    /\ pc' = Woken
    /\ IF shell_len > 0 THEN \E cmd \in Commands : Exec(cmd)
       ELSE UNCHANGED <<callback, flags, screen>>
ShellBackspace ==
    /\ callback = "shell"
    /\ shell_len' = IF shell_len > 0 THEN shell_len - 1 ELSE 0
    /\ pc' = Woken
    /\ UNCHANGED <<callback, flags, screen>>
ShellChar ==
    /\ callback = "shell"
    /\ shell_len' = IF Fits THEN shell_len + 1 ELSE shell_len
    /\ pc' = Woken
    /\ UNCHANGED <<callback, flags, screen>>

\* The "reboot" command: the machine starts over.
Reboot ==
    /\ callback = "shell" /\ shell_len > 0
    /\ callback' = "shell" /\ shell_len' = 0 /\ pc' = "boot"
    /\ splash_active' = FALSE /\ demo_tasks_running' = FALSE /\ demo_stop_requested' = FALSE
    /\ melody_pending' = FALSE /\ melody_playing' = FALSE
    /\ marquee_paused' = FALSE /\ cursor_visible' = FALSE /\ boot_drew' = FALSE


\* splash_key_handler: ESC runs splash_exit, other keys are ignored.
SplashEsc ==
    /\ callback = "splash"
    /\ splash_active' = FALSE
    /\ marquee_paused' = FALSE
    /\ cursor_visible' = TRUE
    /\ boot_drew' = FALSE
    /\ callback' = "shell"
    /\ pc' = Woken
    /\ UNCHANGED <<shell_len, demo_tasks_running, demo_stop_requested, melody_pending,
                   melody_playing>>

\* demo_stop_key_handler.
DemoKey ==
    /\ callback = "demo"
    /\ demo_stop_requested' = TRUE
    /\ pc' = Woken
    /\ UNCHANGED <<callback, shell_len, splash_active, demo_tasks_running, melody_pending,
                   melody_playing, screen>>

\* Any other interrupt, the timer's at the latest.
Tick == pc = "halt" /\ pc' = Woken /\ UNCHANGED <<callback, shell_len, flags, screen>>

Key == ShellEnter \/ ShellBackspace \/ ShellChar \/ Reboot \/ SplashEsc \/ DemoKey

-----------------------------------------------------------------------------
At(from, to) == pc = from /\ pc' = to

\* The boot melody ends, kernel_main draws its screen and enters the loop.
BootMelodyEnds == At("boot", "draw") /\ UNCHANGED <<callback, shell_len, flags, screen>>
BootDraw ==
    /\ At("draw", "top")
    /\ cursor_visible' = TRUE                   \* mouse_show_cursor
    /\ boot_drew' = splash_active
    /\ UNCHANGED <<callback, shell_len, flags, marquee_paused>>

\* The clock is drawn on the strength of a test made earlier.
Top ==
    /\ pc = "top"
    /\ pc' = IF splash_active THEN "branch" ELSE "clock"
    /\ UNCHANGED <<callback, shell_len, flags, screen>>
DrawClock == At("clock", "branch") /\ UNCHANGED <<callback, shell_len, flags, screen>>

\* multitask_pump with a stop request: the flag goes down, the tasks get eight turns
\* to see it, and then the shell gets the keyboard back.
BeginStop ==
    /\ demo_tasks_running /\ demo_stop_requested
    /\ At("branch", "stop")
    /\ demo_tasks_running' = FALSE
    /\ UNCHANGED <<callback, shell_len, splash_active, demo_stop_requested, melody_pending,
                   melody_playing, screen>>
EndStop ==
    /\ At("stop", "top")
    /\ callback' = "shell"
    /\ UNCHANGED <<shell_len, flags, screen>>

\* The other branches; the demo goes before a melody.
Branch ==
    /\ pc = "branch"
    /\ ~(demo_tasks_running /\ demo_stop_requested)
    /\ pc' = IF demo_tasks_running THEN "top"           \* task_yield
             ELSE IF melody_pending THEN "read" ELSE "hlt"
    /\ UNCHANGED <<callback, shell_len, flags, screen>>

\* An interrupt between the tests and the hlt does not keep it from halting.
Halt == At("hlt", "halt") /\ UNCHANGED <<callback, shell_len, flags, screen>>

\* melody_pump: what is pending is read, cleared, and only then said to be playing.
ReadMelody == At("read", "clear") /\ UNCHANGED <<callback, shell_len, flags, screen>>
ClearMelody ==
    /\ At("clear", "start")
    /\ melody_pending' = FALSE
    /\ UNCHANGED <<callback, shell_len, splash_active, demo_tasks_running,
                   demo_stop_requested, melody_playing, screen>>
StartMelody ==
    /\ At("start", "play")
    /\ melody_playing' = TRUE
    /\ UNCHANGED <<callback, shell_len, splash_active, demo_tasks_running,
                   demo_stop_requested, melody_pending, screen>>
MelodyEnds ==
    /\ At("play", "top")
    /\ melody_playing' = FALSE
    /\ UNCHANGED <<callback, shell_len, splash_active, demo_tasks_running,
                   demo_stop_requested, melody_pending, screen>>

Main == \/ BootMelodyEnds \/ BootDraw \/ Top \/ DrawClock \/ BeginStop \/ EndStop \/ Branch \/ Halt
        \/ ReadMelody \/ ClearMelody \/ StartMelody \/ MelodyEnds
Next == Key \/ Tick \/ Main

\* The processor goes on, and the timer interrupts it every millisecond.
Spec == Init /\ [][Next]_vars /\ WF_vars(Main) /\ WF_vars(Tick)

-----------------------------------------------------------------------------
\* Every mode has the keyboard handler that can end it, and only that mode has it: no
\* order of commands, failed starts and interrupted main-loop steps leaves the logo
\* screen without ESC, the demo without a key that stops it, two of them at once, or a
\* half-typed line behind for the shell to find.
ModeHasKeys ==
    /\ splash_active <=> callback = "splash"
    /\ demo_tasks_running => callback = "demo"
    /\ callback = "demo" => demo_tasks_running \/ pc = "stop"
    /\ callback # "shell" => shell_len = 0

\* While the logo is shown neither the timer's marquee nor the mouse cursor draws over
\* it, and they come back with the shell; a logo opened during the boot melody, which
\* kernel_main draws over when the melody ends, is the exception.
ScreenFits ==
    /\ marquee_paused <=> splash_active
    /\ splash_active /\ cursor_visible => boot_drew
    /\ pc \notin {"boot", "draw"} /\ ~splash_active => cursor_visible

\* A mode is entered and left as a whole: keyboard, screen and flags agree whatever the
\* keys, the failed starts and the steps of the main loop in between (shell_cmd_ab,
\* splash_exit, multitask_start, multitask_pump).
ModeOK == ModeHasKeys /\ ScreenFits

\* A melody asked for once the kernel is up is played, unless the demo takes the main
\* loop for itself or the machine is rebooted.
PlayHeard ==
    melody_pending /\ pc # "boot" ~> melody_playing \/ demo_tasks_running \/ pc = "boot"

\* The logo screen cannot be opened while the speaker plays a melody, as shell_cmd_ab
\* says: in melody_pump, or in the boot melody.
NoLogoDuringMelody ==
    [][~splash_active /\ splash_active' => ~(pc \in {"boot", "play"})]_vars
=============================================================================
