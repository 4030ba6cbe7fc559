------------------------------- MODULE Console -------------------------------
(***************************************************************************)
(* The text console of TKOS (kernel/fb_console.c) and everyone who prints: *)
(* the main loop (clock, banner, messages), the demo tasks (each in a row  *)
(* of its own), programs (SYS_WRITE), the shell inside the keyboard        *)
(* interrupt and a clicked button inside the mouse interrupt.              *)
(*                                                                         *)
(* There is one text cursor and nothing locks it.  con_print_at borrows it:*)
(* it saves the cursor and the colours one by one, sets them one by one,   *)
(* prints, and puts them back one by one.  A tick or a key can come before *)
(* any of these: each load and store of the cursor at task level is a step *)
(* of its own, in the order of the source.  (Loads that only choose pixels *)
(* are left out, but for the place con_print_at draws at.)                 *)
(*                                                                         *)
(* What makes this work at all is outside the console: the timer switches  *)
(* tasks inside its handler and owes the PIC an EOI until the preempted    *)
(* task runs again (Sched!OnePreempted), so at most one print is cut at a  *)
(* time, and whatever cuts it is finished before it goes on.               *)
(***************************************************************************)
EXTENDS Integers, Sequences

CONSTANTS
    MainLoop,       \* the main loop, which is the idle task
    Demos,          \* the demo tasks
    Programs,       \* tasks that print with SYS_WRITE and SYS_PUTC
    NULL,
    COLS, ROWS,
    Area,           \* what con_print_at is called with: Area[t] of task t
    Texts,          \* the strings con_print is called with
    Prompt          \* "C:> "

Tasks == {MainLoop} \cup Demos \cup Programs
AreaUsers == {MainLoop} \cup Demos

\* The callers' coordinates are on the screen (con_print_at returns otherwise),
\* and the text fits into its row.
ASSUME AreaAssumption ==
    \A t \in AreaUsers : /\ Area[t].row \in 0..(ROWS - 1)
                         /\ Area[t].col \in 0..(COLS - 1)
                         /\ Area[t].len \in 1..(COLS - Area[t].col)
ASSUME SizeAssumption == COLS \in Nat \ {0} /\ ROWS \in Nat /\ ROWS > 2
ASSUME NullAssumption == NULL \notin Tasks

Char == {"glyph", "newline", "return", "backspace"}
ASSUME TextAssumption == Texts \subseteq Seq(Char) /\ Prompt \in Seq(Char)
\* A store can overshoot by one, and so can a print that cuts in just then.
Colors == {"shell", "area"}
Cursor == [col : 0..(COLS + 1), row : 0..(ROWS + 1), fg : Colors, bg : Colors]
SavePoints == {"save_col", "save_row", "save_fg", "save_bg"}
PlacePoints == {"place_col", "place_row", "place_fg", "place_bg"}
RestorePoints == {"restore_col", "restore_row", "restore_fg", "restore_bg"}
PrintPoints == {"out", "next", "render", "render_row", "load_col", "store_col",
                "wrap", "load_row", "store_row", "scroll"}
               \cup SavePoints \cup PlacePoints \cup RestorePoints

VARIABLES
    cur,        \* cur_col, cur_row, color_fg and color_bg
    frame,      \* frame[t]: the print task t is in the middle of
    cpu,        \* the task that runs
    preempted,  \* the task a tick has interrupted, which owes the EOI
    home,       \* history: where con_print has left the cursor
    torn,       \* history: con_print ran inside a con_print_at
    stray       \* history: con_print_at drew outside its own place

consoleVars == <<cur, frame, cpu, preempted, home, torn, stray>>

Origin == [col |-> 0, row |-> 0, fg |-> "shell", bg |-> "shell"]
NoPrint == [at |-> "out", job |-> "none", left |-> <<>>, reg |-> 0, saved |-> Origin]

ConsoleInit ==
    /\ cur = Origin
    /\ frame = [t \in Tasks |-> NoPrint]
    /\ cpu = MainLoop
    /\ preempted = NULL
    /\ home = cur
    /\ torn = FALSE
    /\ stray = FALSE

-----------------------------------------------------------------------------
\* mutant: the last row is one too far down
ScrollLate(c) == [c EXCEPT !.row = IF c.row + 1 > ROWS THEN ROWS - 1 ELSE c.row + 1]
\* scroll_up does not scroll: the last row is used again.
Down(c) == [c EXCEPT !.row = IF c.row + 1 >= ROWS THEN ROWS - 1 ELSE c.row + 1]

\* con_putchar as a whole, for callers that nothing interrupts.
PutChar(c, char) ==
    CASE char = "newline" -> Down([c EXCEPT !.col = 0])
      [] char = "return" -> [c EXCEPT !.col = 0]
      [] char = "backspace" -> [c EXCEPT !.col = IF c.col > 0 THEN @ - 1 ELSE 0]
      [] OTHER -> IF c.col + 1 >= COLS THEN Down([c EXCEPT !.col = 0])
                                       ELSE [c EXCEPT !.col = @ + 1]
Printed(c, text) ==
    LET printed[n \in 0..Len(text)] == IF n = 0 THEN c ELSE PutChar(printed[n - 1], text[n])
    IN  printed[Len(text)]

-----------------------------------------------------------------------------
F == frame[cpu]
AtPoint(point) == F.at = point
Goto(point) == frame' = [frame EXCEPT ![cpu].at = point]
\* The character is done: back to the loop of con_print or con_print_at.
NextChar(f) == [f EXCEPT !.at = "next", !.left = Tail(f.left), !.reg = 0]

\* A con_print_at between its first load of the cursor and its last store to it.
Borrowed == \E t \in Tasks : frame[t].job = "area" /\ frame[t].at # "save_col"

\* The cursor moves for good: whoever borrowed it will undo that.
MoveText(c) ==
    /\ cur' = c
    /\ home' = c
    /\ torn' = (torn \/ Borrowed)
\* The running task's own store into the cursor.
Store(c) == IF F.job = "text" THEN MoveText(c)
            ELSE cur' = c /\ UNCHANGED <<home, torn>>

\* draw_clock, print_banner and the demo tasks: con_print_at.
BeginArea ==
    /\ AtPoint("out") /\ cpu \in AreaUsers
    /\ frame' = [frame EXCEPT ![cpu] = [NoPrint EXCEPT !.at = "save_col", !.job = "area",
                    !.left = [i \in 1..Area[cpu].len |-> "glyph"]]]
    /\ UNCHANGED <<cur, cpu, preempted, home, torn, stray>>

\* SYS_WRITE, SYS_PUTC, and the main loop's messages: con_print.
BeginText ==
    /\ AtPoint("out") /\ cpu \in {MainLoop} \cup Programs
    /\ \E text \in Texts :
         frame' = [frame EXCEPT ![cpu] = [NoPrint EXCEPT !.at = "next", !.job = "text",
                                                         !.left = text]]
    /\ UNCHANGED <<cur, cpu, preempted, home, torn, stray>>

\* sc = cur_col, sr = cur_row, sf = color_fg, sb = color_bg
Save ==
    /\ \/ /\ AtPoint("save_col")
          /\ frame' = [frame EXCEPT ![cpu].saved.col = cur.col, ![cpu].at = "save_row"]
       \/ /\ AtPoint("save_row")
          /\ frame' = [frame EXCEPT ![cpu].saved.row = cur.row, ![cpu].at = "save_fg"]
       \/ /\ AtPoint("save_fg")
          /\ frame' = [frame EXCEPT ![cpu].saved.fg = cur.fg, ![cpu].at = "save_bg"]
       \/ /\ AtPoint("save_bg")
          /\ frame' = [frame EXCEPT ![cpu].saved.bg = cur.bg, ![cpu].at = "place_col"]
    /\ UNCHANGED <<cur, cpu, preempted, home, torn, stray>>

\* cur_col = col, cur_row = row, color_fg = fg, color_bg = bg
Place ==
    /\ \/ /\ AtPoint("place_col") /\ Goto("place_row")
          /\ cur' = [cur EXCEPT !.col = Area[cpu].col]
       \/ /\ AtPoint("place_row") /\ Goto("place_fg")
          /\ cur' = [cur EXCEPT !.row = Area[cpu].row]
       \/ /\ AtPoint("place_fg") /\ Goto("place_bg")
          /\ cur' = [cur EXCEPT !.fg = "area"]
       \/ /\ AtPoint("place_bg") /\ Goto("next")
          /\ cur' = [cur EXCEPT !.bg = "area"]
    /\ UNCHANGED <<cpu, preempted, home, torn, stray>>

\* cur_col = sc, cur_row = sr, color_fg = sf, color_bg = sb
Restore ==
    /\ \/ /\ AtPoint("restore_col") /\ Goto("restore_row")
          /\ cur' = [cur EXCEPT !.col = F.saved.col]
       \/ /\ AtPoint("restore_row") /\ Goto("restore_fg")
          /\ cur' = [cur EXCEPT !.row = F.saved.row]
       \/ /\ AtPoint("restore_fg") /\ Goto("restore_bg")
          /\ cur' = [cur EXCEPT !.fg = F.saved.fg]
       \/ /\ AtPoint("restore_bg") /\ frame' = [frame EXCEPT ![cpu] = NoPrint]
          /\ cur' = [cur EXCEPT !.bg = F.saved.bg]
    /\ UNCHANGED <<cpu, preempted, home, torn, stray>>

\* The loops of con_print and con_print_at, and con_putchar's dispatch.
Dispatch ==
    /\ AtPoint("next")
    /\ \/ /\ F.left = <<>> \/ (F.job = "area" /\ cur.col >= COLS)
          /\ frame' = [frame EXCEPT ![cpu] =
                         IF F.job = "area" THEN [F EXCEPT !.at = "restore_col"] ELSE NoPrint]
       \/ /\ F.left # <<>> /\ ~(F.job = "area" /\ cur.col >= COLS)
          /\ \/ Head(F.left) \in {"glyph"} /\ Goto("render")
             \/ Head(F.left) \in {"newline", "return"} /\ Goto("wrap")
             \/ /\ Head(F.left) = "backspace"
                /\ frame' = [frame EXCEPT ![cpu] =
                     IF cur.col > 0 THEN [F EXCEPT !.reg = cur.col - 1, !.at = "store_col"]
                                    ELSE NextChar(F)]
    /\ UNCHANGED <<cur, cpu, preempted, home, torn, stray>>

\* render_char(cur_col, cur_row, ...): the column is read, then the row.
RenderCol ==
    /\ AtPoint("render")
    /\ frame' = [frame EXCEPT ![cpu].reg = cur.col, ![cpu].at = "render_row"]
    /\ UNCHANGED <<cur, cpu, preempted, home, torn, stray>>

InArea == /\ cur.row = Area[cpu].row
          /\ F.reg \in Area[cpu].col..(Area[cpu].col + Area[cpu].len - 1)
RenderRow ==
    /\ AtPoint("render_row")
    /\ stray' = (stray \/ (F.job = "area" /\ ~InArea))
    /\ Goto("load_col")
    /\ UNCHANGED <<cur, cpu, preempted, home, torn>>

LoadCol ==
    /\ AtPoint("load_col")
    /\ frame' = [frame EXCEPT ![cpu].reg = cur.col + 1, ![cpu].at = "store_col"]
    /\ UNCHANGED <<cur, cpu, preempted, home, torn, stray>>

\* The register, not the variable, is compared with COLS.
StoreCol ==
    /\ AtPoint("store_col")
    /\ Store([cur EXCEPT !.col = F.reg])
    /\ frame' = [frame EXCEPT ![cpu] = IF F.reg >= COLS THEN [F EXCEPT !.at = "wrap"]
                                                        ELSE NextChar(F)]
    /\ UNCHANGED <<cpu, preempted, stray>>

Wrap ==
    /\ AtPoint("wrap")
    /\ Store([cur EXCEPT !.col = 0])
    /\ frame' = [frame EXCEPT ![cpu] = IF Head(F.left) = "return" THEN NextChar(F)
                                       ELSE [F EXCEPT !.at = "load_row"]]
    /\ UNCHANGED <<cpu, preempted, stray>>

LoadRow ==
    /\ AtPoint("load_row")
    /\ frame' = [frame EXCEPT ![cpu].reg = cur.row + 1, ![cpu].at = "store_row"]
    /\ UNCHANGED <<cur, cpu, preempted, home, torn, stray>>

StoreRow ==
    /\ AtPoint("store_row")
    /\ Store([cur EXCEPT !.row = F.reg])
    /\ frame' = [frame EXCEPT ![cpu] = IF F.reg >= ROWS THEN [F EXCEPT !.at = "scroll"]
                                                        ELSE NextChar(F)]
    /\ UNCHANGED <<cpu, preempted, stray>>

\* scroll_up
Scroll ==
    /\ AtPoint("scroll")
    /\ Store([cur EXCEPT !.row = ROWS - 1])
    /\ frame' = [frame EXCEPT ![cpu] = NextChar(F)]
    /\ UNCHANGED <<cpu, preempted, stray>>

-----------------------------------------------------------------------------
\* While a preempted task owes the EOI, neither tick nor key nor mouse comes.
IrqsArrive == preempted = NULL

TimerIrq ==
    /\ IrqsArrive
    /\ preempted' = cpu
    /\ cpu' \in Tasks \ {cpu}
    /\ UNCHANGED <<cur, frame, home, torn, stray>>

\* mutant: the loops of con_print and con_print_at yield between two characters
YieldInPrint ==
    /\ AtPoint("out") \/ AtPoint("next")
    /\ cpu' \in Tasks \ {cpu}
    /\ preempted' = IF cpu' = preempted THEN NULL ELSE preempted
    /\ UNCHANGED <<cur, frame, home, torn, stray>>
\* task_yield, which tasks call between prints only.  The preempted task's turn
\* ends its interrupt.
Yield ==
    /\ AtPoint("out")
    /\ cpu' \in Tasks \ {cpu}
    /\ preempted' = IF cpu' = preempted THEN NULL ELSE preempted
    /\ UNCHANGED <<cur, frame, home, torn, stray>>

\* A character or a backspace typed into the shell, and a click on the button.
Typed ==
    /\ IrqsArrive
    /\ \E text \in {<<"glyph">>, <<"backspace">>, <<"newline", "glyph", "newline">>} :
         MoveText(Printed(cur, text))
    /\ UNCHANGED <<frame, cpu, preempted, stray>>

\* Enter: a command's output and the prompt, which sets the colours; "clear" and
\* the way out of the logo screen start from a fixed place.
Command ==
    /\ IrqsArrive
    /\ \E text \in Texts \cup {<<>>},
          from \in {Printed(cur, <<"newline">>)}
                   \cup {[cur EXCEPT !.col = 0, !.row = r] : r \in {0, 2}} :
         MoveText(Printed([from EXCEPT !.fg = "shell", !.bg = "shell"], text \o Prompt))
    /\ UNCHANGED <<frame, cpu, preempted, stray>>

PrintStep == \/ BeginArea \/ BeginText \/ Save \/ Place \/ Dispatch
             \/ RenderCol \/ RenderRow \/ LoadCol \/ StoreCol \/ Wrap \/ LoadRow \/ StoreRow \/ Scroll \/ Restore
ConsoleNext == PrintStep \/ TimerIrq \/ Yield \/ Typed \/ Command
ConsoleSpec == ConsoleInit /\ [][ConsoleNext]_consoleVars

-----------------------------------------------------------------------------
FrameOK(f) ==
    /\ f.at \in PrintPoints
    /\ f.job \in {"none", "area", "text"}
    /\ f.left \in Seq(Char)
    /\ f.reg \in 0..(COLS + ROWS + 2)
    /\ f.saved \in Cursor

\* The cursor is outside the screen only while some con_putchar stands between
\* its store and its test of the bound, and then by two at most.  (con_putchar, fb_console.c:62-65:
\* prints from interrupts and other tasks run inside that window.)
OnScreen ==
    /\ (\A t \in Tasks : frame[t].at # "wrap") => cur.col < COLS
    /\ (\A t \in Tasks : frame[t].at # "scroll") => cur.row < ROWS

\* Every variable keeps its type and the cursor stays on the screen.
ConsoleTypeOK ==
    /\ cur \in Cursor /\ home \in Cursor
    /\ DOMAIN frame = Tasks /\ \A t \in Tasks : FrameOK(frame[t])
    /\ cpu \in Tasks /\ preempted \in Tasks \cup {NULL}
    /\ torn \in BOOLEAN /\ stray \in BOOLEAN
    /\ OnScreen

\* con_print_at draws in the place it was called with.
AreaTextInPlace == ~stray
\* Once no con_print_at holds it, the cursor is where con_print left it.
CursorKept == ~Borrowed => cur = home

\* Unless con_print stores the cursor between the first load and the last store
\* of a con_print_at, prints that cut into each other (clock, demo rows, messages,
\* shell) neither displace each other's text nor lose the shell's cursor
\* (con_print_at, fb_console.c:73-80).
PrintsApart == torn \/ (AreaTextInPlace /\ CursorKept)
=============================================================================
