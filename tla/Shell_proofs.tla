----------------------------- MODULE Shell_proofs -----------------------------
(***************************************************************************)
(* What MCShell checks of the shell's modes for a short line, MCConsole of *)
(* the console for three tasks and a screen of a few places, and MCMouse   *)
(* of the mouse for two reports and a small screen, proved for any: the    *)
(* modes are entered and left as a whole, prints that cut into each other  *)
(* stay apart, the packet stays within its three bytes and the pointer on  *)
(* the screen, no cursor is left behind, and the button follows the hand.  *)
(***************************************************************************)
EXTENDS Integers, Shell, Console, Mouse, NatSets, SequenceTheorems, TLAPS

-----------------------------------------------------------------------------
\* The modes.

\* What ModeOK does not say: while multitask_pump lets the tasks see the stop, the
\* demo still has the keyboard, so no command can run before it is given back.
StopHasKeys == pc = "stop" => callback = "demo" /\ ~demo_tasks_running

IInv == TypeOK /\ ModeOK /\ StopHasKeys

LEMMA InitInv == Init => IInv
<1>1. 0 \in 0..(BufSize - 1)
  BY BufSizeAssumption
<1> QED
  BY <1>1 DEF Init, IInv, TypeOK, ModeOK, ModeHasKeys, ScreenFits, StopHasKeys, Points

\* An interrupt moves the main context out of hlt at most.
LEMMA WokenPoint ==
    ASSUME TypeOK
    PROVE  /\ Woken \in Points
           /\ Woken = "stop" <=> pc = "stop"
           /\ Woken \in {"boot", "draw"} <=> pc \in {"boot", "draw"}
BY DEF Woken, TypeOK, Points

\* The commands run with the shell in possession of the keyboard: no mode is on.
LEMMA ShellIdle ==
    ASSUME IInv, callback = "shell"
    PROVE  ~splash_active /\ ~demo_tasks_running /\ pc # "stop" /\ ~marquee_paused
BY DEF IInv, ModeOK, ModeHasKeys, ScreenFits, StopHasKeys

LEMMA EnterInv == ASSUME IInv, ShellEnter PROVE IInv'
<1>1. callback = "shell" /\ shell_len' = 0 /\ pc' = Woken
  BY DEF ShellEnter
<1>2. ~splash_active /\ ~demo_tasks_running /\ pc # "stop" /\ ~marquee_paused
  BY <1>1, ShellIdle
<1>3. TypeOK /\ 0 \in 0..(BufSize - 1)
  BY BufSizeAssumption DEF IInv
<1>4. CASE shell_len > 0
  <2>1. PICK cmd \in Commands : Exec(cmd)
    BY <1>4 DEF ShellEnter
  <2>2. CASE cmd = "ab"
    <3>1. /\ UNCHANGED <<demo_tasks_running, demo_stop_requested, melody_pending, melody_playing>>
          /\ OpenSplash
      BY <2>1, <2>2 DEF Exec
    <3> QED
      BY <1>1, <1>2, <1>3, <3>1, WokenPoint DEF OpenSplash, screen, IInv, TypeOK, ModeOK, ModeHasKeys,
         ScreenFits, StopHasKeys
  <2>3. CASE cmd = "tskdemo"
    <3>1. /\ UNCHANGED <<splash_active, screen, melody_pending, melody_playing>>
          /\ StartDemo
      BY <2>1, <2>3 DEF Exec
    <3> QED
      BY <1>1, <1>2, <1>3, <3>1, WokenPoint DEF StartDemo, GiveUp, screen, IInv, TypeOK, ModeOK,
         ModeHasKeys, ScreenFits, StopHasKeys
  <2>4. CASE cmd \in {"play", "other"}
    <3>1. /\ UNCHANGED <<callback, splash_active, screen, demo_tasks_running, demo_stop_requested,
                         melody_playing>>
          /\ melody_pending' \in BOOLEAN
      BY <2>1, <2>4, <1>3 DEF Exec, RequestMelody, TypeOK
    <3> QED
      BY <1>1, <1>2, <1>3, <3>1, WokenPoint DEF screen, IInv, TypeOK, ModeOK, ModeHasKeys,
         ScreenFits, StopHasKeys
  <2> QED
    BY <2>1, <2>2, <2>3, <2>4 DEF Commands
<1>5. CASE ~(shell_len > 0)
  <2>1. UNCHANGED <<callback, flags, screen>>
    BY <1>5 DEF ShellEnter
  <2> QED
    BY <1>1, <1>2, <1>3, <2>1, WokenPoint DEF flags, screen, IInv, TypeOK, ModeOK, ModeHasKeys,
       ScreenFits, StopHasKeys
<1> QED
  BY <1>4, <1>5

LEMMA KeyInv == ASSUME IInv, Key PROVE IInv'
<1>1. CASE ShellEnter
  BY <1>1, EnterInv
<1>2. CASE ShellBackspace \/ ShellChar
  <2>1. callback = "shell" /\ pc' = Woken /\ UNCHANGED <<callback, flags, screen>>
    BY <1>2 DEF ShellBackspace, ShellChar
  <2>2. shell_len' \in 0..(BufSize - 1)
    BY <1>2, BufSizeAssumption DEF ShellBackspace, ShellChar, Fits, IInv, TypeOK
  <2> QED
    BY <2>1, <2>2, WokenPoint DEF flags, screen, IInv, TypeOK, ModeOK, ModeHasKeys, ScreenFits,
       StopHasKeys
<1>3. CASE Reboot
  <2>1. 0 \in 0..(BufSize - 1)
    BY BufSizeAssumption
  <2> QED
    BY <1>3, <2>1 DEF Reboot, IInv, TypeOK, ModeOK, ModeHasKeys, ScreenFits, StopHasKeys, Points
<1>4. CASE SplashEsc
  BY <1>4, WokenPoint DEF SplashEsc, IInv, TypeOK, ModeOK, ModeHasKeys, ScreenFits, StopHasKeys
<1>5. CASE DemoKey
  BY <1>5, WokenPoint DEF DemoKey, screen, IInv, TypeOK, ModeOK, ModeHasKeys, ScreenFits,
     StopHasKeys
<1> QED
  BY <1>1, <1>2, <1>3, <1>4, <1>5 DEF Key

\* The steps of the main context that only move it on.
Moves ==
    BootMelodyEnds \/ Top \/ DrawClock \/ Branch \/ Halt \/ ReadMelody

LEMMA MainInv == ASSUME IInv, Main PROVE IInv'
<1>1. CASE Moves
  <2>1. UNCHANGED <<callback, shell_len, flags, screen>>
    BY <1>1 DEF Moves, BootMelodyEnds, Top, DrawClock, Branch, Halt, ReadMelody
  <2>2. /\ pc' \in Points /\ pc' # "stop"
        /\ pc \in {"boot", "draw"} <=> pc' \in {"boot", "draw"}
    BY <1>1 DEF Moves, BootMelodyEnds, Top, DrawClock, Branch, Halt, ReadMelody, At, Points
  <2>3. pc # "stop"
    BY <1>1 DEF Moves, BootMelodyEnds, Top, DrawClock, Branch, Halt, ReadMelody, At
  <2> QED
    BY <2>1, <2>2, <2>3 DEF flags, screen, IInv, TypeOK, ModeOK, ModeHasKeys, ScreenFits, StopHasKeys
<1>2. CASE BootDraw
  BY <1>2 DEF BootDraw, At, flags, IInv, TypeOK, ModeOK, ModeHasKeys, ScreenFits, StopHasKeys, Points
<1>3. CASE BeginStop
  BY <1>3 DEF BeginStop, At, screen, IInv, TypeOK, ModeOK, ModeHasKeys, ScreenFits, StopHasKeys, Points
<1>4. CASE EndStop
  BY <1>4 DEF EndStop, At, flags, screen, IInv, TypeOK, ModeOK, ModeHasKeys, ScreenFits,
     StopHasKeys, Points
<1>5. CASE ClearMelody \/ StartMelody \/ MelodyEnds
  <2>1. UNCHANGED <<callback, shell_len, splash_active, demo_tasks_running, demo_stop_requested,
                    screen>>
    BY <1>5 DEF ClearMelody, StartMelody, MelodyEnds
  <2>2. {melody_pending', melody_playing'} \subseteq BOOLEAN
    BY <1>5 DEF ClearMelody, StartMelody, MelodyEnds, IInv, TypeOK
  <2>3. /\ pc' \in {"start", "play", "top"}
        /\ pc \in {"clear", "start", "play"}
    BY <1>5 DEF ClearMelody, StartMelody, MelodyEnds, At
  <2> QED
    BY <2>1, <2>2, <2>3 DEF screen, IInv, TypeOK, ModeOK, ModeHasKeys, ScreenFits, StopHasKeys, Points
<1> QED
  BY <1>1, <1>2, <1>3, <1>4, <1>5 DEF Main, Moves

LEMMA NextInv == IInv /\ [Next]_vars => IInv'
<1> SUFFICES ASSUME IInv, [Next]_vars PROVE IInv'
  OBVIOUS
<1>1. CASE Key
  BY <1>1, KeyInv
<1>2. CASE Main
  BY <1>2, MainInv
<1>3. CASE Tick
  BY <1>3, WokenPoint DEF Tick, flags, screen, IInv, TypeOK, ModeOK, ModeHasKeys, ScreenFits,
     StopHasKeys
<1>4. CASE UNCHANGED vars
  BY <1>4 DEF vars, flags, screen, IInv, TypeOK, ModeOK, ModeHasKeys, ScreenFits, StopHasKeys
<1> QED
  BY <1>1, <1>2, <1>3, <1>4 DEF Next

-----------------------------------------------------------------------------
\* The inductive invariant: types, ModeOK, and who has the keyboard while the demo
\* is being stopped.
THEOREM Invariance == Spec => []IInv
  BY InitInv, NextInv, PTL DEF Spec

\* The line typed never outgrows its buffer, and the flags are flags.
THEOREM TypeCorrect == Spec => []TypeOK
<1>1. IInv => TypeOK
  BY DEF IInv
<1> QED
  BY <1>1, Invariance, PTL

\* The keyboard always has the handler that ends the mode shown, and screen, cursor
\* and marquee fit the mode (shell_cmd_ab, splash_exit, multitask_start,
\* multitask_pump), for any size of the line buffer.
THEOREM ModesWhole == Spec => []ModeOK
<1>1. IInv => ModeOK
  BY DEF IInv
<1> QED
  BY <1>1, Invariance, PTL

-----------------------------------------------------------------------------
\* Printing a text is iterating con_putchar: what every character keeps, the text keeps.
LEMMA PrintedKeeps ==
    ASSUME NEW S, NEW c \in S, NEW text \in Seq(Char),
           \A d \in S : \A char \in Char : PutChar(d, char) \in S
    PROVE  Printed(c, text) \in S
<1> DEFINE N == Len(text)
           step == [x \in S \X Nat |-> <<IF x[2] < N THEN PutChar(x[1], text[x[2] + 1]) ELSE x[1],
                                         x[2] + 1>>]
           Body(p) == [n \in 0..N |-> IF n = 0 THEN c ELSE PutChar(p[n - 1], text[n])]
<1>1. N \in Nat /\ \A i \in 1..N : text[i] \in Char
  BY LenProperties, ElementOfSeq
<1> HIDE DEF N
<1>2. step \in [S \X Nat -> S \X Nat]
  <2>1. ASSUME NEW d \in S, NEW k \in Nat, k < N PROVE PutChar(d, text[k + 1]) \in S
    BY <1>1, <2>1
  <2> QED
    BY <2>1
<1>3. PICK g \in [Nat -> S \X Nat] : Iterates(g, step, <<c, 0>>)
  <2>1. <<c, 0>> \in S \X Nat
    OBVIOUS
  <2> HIDE DEF step
  <2> QED
    BY <1>2, <2>1, Iteration
<1>4. \A k \in Nat : g[k][2] = k
  <2> DEFINE T == {k \in Nat : g[k][2] = k}
  <2>1. 0 \in T
    BY <1>3 DEF Iterates
  <2>2. ASSUME NEW k \in Nat, k \in T PROVE k + 1 \in T
    <3>1. g[k + 1] = step[g[k]] /\ g[k] \in S \X Nat /\ g[k][2] = k
      BY <1>3, <2>2 DEF Iterates
    <3> QED
      BY <3>1
  <2> HIDE DEF T
  <2>3. Nat \subseteq T
    BY <2>1, <2>2, SetInduction
  <2> QED
    BY <2>3 DEF T
<1> DEFINE h == [n \in 0..N |-> g[n][1]]
<1>5. h = Body(h)
  <2>1. g[0][1] = c
    BY <1>3 DEF Iterates
  <2>2. ASSUME NEW n \in 1..N PROVE g[n][1] = PutChar(g[n - 1][1], text[n])
    <3>1. PICK k \in Nat : n = k + 1 /\ k < N
      <4>1. n - 1 \in Nat /\ n = (n - 1) + 1 /\ n - 1 < N
        BY <1>1
      <4> QED
        BY <4>1
    <3>2. g[k + 1] = step[g[k]] /\ g[k] \in S \X Nat /\ g[k][2] = k
      BY <1>3, <1>4 DEF Iterates
    <3>3. g[k + 1][1] = PutChar(g[k][1], text[k + 1])
      <4>1. PICK v \in S : g[k] = <<v, k>>
        BY <3>2
      <4>2. step[<<v, k>>][1] = PutChar(v, text[k + 1])
        BY <3>1, <4>1
      <4> QED
        BY <3>2, <4>1, <4>2
    <3>4. n - 1 = k
      BY <3>1
    <3> QED
      BY <3>1, <3>3, <3>4
  <2>3. ASSUME NEW n \in 0..N PROVE h[n] = Body(h)[n]
    <3>1. CASE n = 0
      BY <2>1, <3>1
    <3>2. CASE n # 0
      <4>1. n \in 1..N /\ n - 1 \in 0..N
        BY <1>1, <3>2
      <4> QED
        BY <2>2, <3>2, <4>1
    <3> QED
      BY <3>1, <3>2
  <2> QED
    BY <2>3
<1> DEFINE p == CHOOSE q : q = Body(q)
<1>6. p = Body(p)
  <2> HIDE DEF h
  <2> QED
    BY <1>5
<1>7. Printed(c, text) = p[N]
  BY DEF Printed, N
<1> HIDE DEF p, h
<1>8. \A n \in Nat : n <= N => p[n] \in S
  <2> DEFINE T == {n \in Nat : n <= N => p[n] \in S}
  <2>1. 0 \in T
    BY <1>1, <1>6
  <2>2. ASSUME NEW k \in Nat, k \in T PROVE k + 1 \in T
    <3>1. SUFFICES ASSUME k + 1 <= N PROVE p[k + 1] \in S
      OBVIOUS
    <3>2. p[k] \in S /\ k + 1 \in 0..N /\ k + 1 # 0 /\ (k + 1) - 1 = k
      BY <1>1, <2>2, <3>1
    <3>3. p[k + 1] = PutChar(p[k], text[k + 1])
      BY <1>6, <3>2
    <3>4. text[k + 1] \in Char
      BY <1>1, <3>1
    <3> QED
      BY <3>2, <3>3, <3>4
  <2> HIDE DEF T
  <2>3. Nat \subseteq T
    BY <2>1, <2>2, SetInduction
  <2> QED
    BY <2>3 DEF T
<1> QED
  BY <1>1, <1>7, <1>8

-----------------------------------------------------------------------------
\* The print that was cut, if one was.
Cut == IF preempted = NULL THEN NoPrint ELSE frame[preempted]
Lent(f) == f.job = "area" /\ f.at # "save_col"

\* The cursor as print f will leave it, when it is c now: a field that f has loaded
\* and not yet put back is f's to restore.
NotHeld(f, before, after) == f.job # "area" \/ f.at \in before \cup after
FoundBy(f, c) ==
    [col |-> IF NotHeld(f, {"save_col"}, {"restore_row", "restore_fg", "restore_bg"})
             THEN c.col ELSE f.saved.col,
     row |-> IF NotHeld(f, {"save_col", "save_row"}, {"restore_fg", "restore_bg"})
             THEN c.row ELSE f.saved.row,
     fg |-> IF NotHeld(f, {"save_col", "save_row", "save_fg"}, {"restore_bg"})
            THEN c.fg ELSE f.saved.fg,
     bg |-> IF NotHeld(f, SavePoints, {}) THEN c.bg ELSE f.saved.bg]
\* The cursor as the running task found it.
Found == FoundBy(F, cur)

\* How far a print may have taken the cursor over the edge.
One(p) == IF p THEN 1 ELSE 0
Near(i, j) == [col : 0..(COLS - 1 + i), row : 0..(ROWS - 1 + j), fg : Colors, bg : Colors]
Right(f) == One(f.at = "wrap")
Below(f) == One(f.at = "scroll")
Bounded(f, i, j) ==
    /\ f.at = "store_col" => f.reg <= COLS + i
    /\ f.at = "store_row" => f.reg <= ROWS + j
    /\ f.saved \in Near(i, j)

Borrowing == SavePoints \cup PlacePoints \cup RestorePoints
Printing == {"render", "render_row", "load_col", "store_col", "wrap", "load_row", "store_row", "scroll"}
Frames == [at : PrintPoints, job : {"none", "area", "text"}, left : Seq(Char),
           reg : 0..(COLS + ROWS + 2), saved : Cursor]
FrameInv(t, f) ==
    /\ f \in Frames
    /\ f.at = "out" \/ f.job = "none" => f = NoPrint
    /\ f.job = "area" => t \in AreaUsers /\ f.left \in Seq({"glyph"})
    /\ f.at \in Borrowing => f.job = "area"
    /\ f.at \in Printing => f.left # <<>>

ConsoleTypes ==
    /\ cur \in Near(Right(F) + Right(Cut), Below(F) + Below(Cut))
    /\ home \in Cursor
    /\ frame \in [Tasks -> Frames] /\ \A t \in Tasks : FrameInv(t, frame[t])
    /\ cpu \in Tasks /\ preempted \in (Tasks \cup {NULL}) \ {cpu}
    /\ torn \in BOOLEAN /\ stray \in BOOLEAN
    /\ Bounded(F, Right(Cut), Below(Cut)) /\ Bounded(Cut, 0, 0)

\* Ticks wait for the EOI: only the running print and the one that was cut are under way.
TwoPrints == \A t \in Tasks \ {cpu, preempted} : frame[t] = NoPrint

\* con_print_at of task t stands where it should when the cursor is c.
Stands(t, f, c) ==
    f.job = "area" =>
        /\ f.at \in SavePoints \cup PlacePoints => Len(f.left) = Area[t].len
        /\ f.at \in PlacePoints \ {"place_col"} => c.col = Area[t].col
        /\ f.at \in PlacePoints \ {"place_col", "place_row"} => c.row = Area[t].row
        /\ f.at \in {"next", "render", "render_row", "load_col", "store_col"} /\ f.left # <<>> =>
             /\ Len(f.left) <= Area[t].len
             /\ c.row = Area[t].row /\ c.col = Area[t].col + Area[t].len - Len(f.left)
        /\ f.at = "render_row" => f.reg = c.col
        /\ f.at = "store_col" => f.reg = c.col + 1
        /\ f.at \in {"wrap", "load_row", "store_row", "scroll"} => Len(f.left) = 1

Apart ==
    ~torn => /\ ~stray
             /\ Stands(cpu, F, cur) /\ Stands(preempted, Cut, Found)
             /\ FoundBy(Cut, Found) = home

ConsoleInv == ConsoleTypes /\ TwoPrints /\ Apart

\* What the constants are.
LEMMA Sizes ==
    /\ COLS \in Nat \ {0} /\ ROWS \in Nat /\ ROWS > 2
    /\ \A t \in AreaUsers : /\ Area[t].row \in 0..(ROWS - 1) /\ Area[t].col \in 0..(COLS - 1)
                            /\ Area[t].len \in Nat \ {0} /\ Area[t].col + Area[t].len <= COLS
<1>1. COLS \in Nat \ {0} /\ ROWS \in Nat /\ ROWS > 2
  BY SizeAssumption
<1>2. ASSUME NEW t \in AreaUsers
      PROVE  /\ Area[t].row \in 0..(ROWS - 1) /\ Area[t].col \in 0..(COLS - 1)
             /\ Area[t].len \in Nat \ {0} /\ Area[t].col + Area[t].len <= COLS
  BY <1>1, AreaAssumption
<1> QED
  BY <1>1, <1>2

\* con_putchar never takes a cursor further out than it is.
LEMMA PutCharNear ==
    ASSUME NEW i \in Nat, NEW j \in Nat, NEW c \in Near(i, j), NEW char \in Char
    PROVE  PutChar(c, char) \in Near(i, j)
<1>1. ASSUME NEW d \in Near(i, j) PROVE Down(d) \in Near(i, j)
  BY Sizes DEF Down, Near
<1>2. [c EXCEPT !.col = 0] \in Near(i, j)
  BY Sizes DEF Near
<1>3. Down([c EXCEPT !.col = 0]) \in Near(i, j)
  BY <1>1, <1>2
<1>4. CASE char = "newline" \/ char = "return"
  BY <1>2, <1>3, <1>4 DEF PutChar
<1>5. CASE char = "backspace"
  <2>1. (IF c.col > 0 THEN c.col - 1 ELSE 0) \in 0..(COLS - 1 + i)
    BY Sizes DEF Near
  <2>2. PutChar(c, char) = [c EXCEPT !.col = IF c.col > 0 THEN c.col - 1 ELSE 0]
    BY <1>5 DEF PutChar
  <2> QED
    BY <2>1, <2>2 DEF Near
<1>6. CASE char = "glyph"
  <2>1. PutChar(c, char) = IF c.col + 1 >= COLS THEN Down([c EXCEPT !.col = 0])
                                                ELSE [c EXCEPT !.col = c.col + 1]
    BY <1>6 DEF PutChar
  <2>2. c.col + 1 >= COLS \/ [c EXCEPT !.col = c.col + 1] \in Near(i, j)
    BY Sizes DEF Near
  <2> QED
    BY <1>3, <2>1, <2>2
<1> QED
  BY <1>4, <1>5, <1>6 DEF Char

\* And so for a whole text.
LEMMA PrintedNear ==
    ASSUME NEW i \in Nat, NEW j \in Nat, NEW c \in Near(i, j), NEW text \in Seq(Char)
    PROVE  Printed(c, text) \in Near(i, j)
<1> DEFINE S == Near(i, j)
<1>1. \A d \in S : \A char \in Char : PutChar(d, char) \in S
  BY PutCharNear
<1>2. c \in S
  OBVIOUS
<1> HIDE DEF S
<1>3. Printed(c, text) \in S
  BY <1>1, <1>2, PrintedKeeps
<1> QED
  BY <1>3 DEF S

\* The two prints that may be under way.
LEMMA NoPrintInv == ASSUME NEW t PROVE NoPrint \in Frames /\ FrameInv(t, NoPrint)
<1>1. <<>> \in Seq(Char) /\ 0 \in 0..(COLS + ROWS + 2)
  BY Sizes
<1>2. Origin \in Cursor
  BY Sizes DEF Origin, Cursor, Colors
<1>3. NoPrint \in Frames
  BY <1>1, <1>2 DEF NoPrint, Frames, PrintPoints
<1>4. NoPrint.at \notin Borrowing
  BY DEF NoPrint, Borrowing, SavePoints, PlacePoints, RestorePoints
<1> QED
  BY <1>3, <1>4 DEF FrameInv, NoPrint, Printing

\* con_init's cursor is on the screen.
LEMMA OriginNear == \A i \in Nat, j \in Nat : Origin \in Near(i, j)
BY Sizes DEF Origin, Near, Colors

\* The points inside and around a con_print_at.
LEMMA PointsApart ==
    /\ SavePoints \cap PlacePoints = {} /\ Borrowing \cap Printing = {} /\ "next" \notin Borrowing \cup Printing
    /\ "wrap" \notin Borrowing /\ "scroll" \notin Borrowing /\ "out" \notin Borrowing \cup Printing
    /\ SavePoints \subseteq Borrowing /\ PlacePoints \subseteq Borrowing /\ RestorePoints \subseteq Borrowing
    /\ RestorePoints \cap (SavePoints \cup PlacePoints) = {}
    /\ Borrowing \subseteq PrintPoints /\ Printing \subseteq PrintPoints
BY DEF Borrowing, Printing, SavePoints, PlacePoints, RestorePoints, PrintPoints

\* A print that holds nothing leaves the cursor as it is.
LEMMA HoldsNothing == ASSUME NEW f, ~Lent(f), NEW c \in Cursor PROVE FoundBy(f, c) = c
<1>1. FoundBy(f, c) = [col |-> c.col, row |-> c.row, fg |-> c.fg, bg |-> c.bg]
  BY DEF FoundBy, NotHeld, Lent, SavePoints
<1> QED
  BY <1>1 DEF Cursor
\* A con_print_at between its last load and its first store of the way back leaves what it saved.
LEMMA HoldsAll ==
    ASSUME NEW f, f.job = "area", f.at \in PlacePoints \cup Printing \cup {"next", "restore_col"}, NEW c
    PROVE  FoundBy(f, c) = [col |-> f.saved.col, row |-> f.saved.row, fg |-> f.saved.fg, bg |-> f.saved.bg]
BY DEF FoundBy, NotHeld, SavePoints, PlacePoints, Printing
\* Whatever a print holds, what it leaves is a cursor.
LEMMA FoundIsCursor ==
    ASSUME NEW f \in Frames, NEW c \in Cursor
    PROVE  FoundBy(f, c) \in Cursor
<1>1. f.saved \in Cursor
  BY DEF Frames
<1> QED
  BY <1>1 DEF FoundBy, Cursor

\* What is known of them.
LEMMA BothPrints ==
    ASSUME ConsoleTypes
    PROVE  /\ F \in Frames /\ FrameInv(cpu, F) /\ Cut \in Frames /\ FrameInv(preempted, Cut)
           /\ Right(F) \in {0, 1} /\ Below(F) \in {0, 1} /\ Right(Cut) \in {0, 1} /\ Below(Cut) \in {0, 1}
           /\ preempted # NULL => preempted \in Tasks /\ Cut = frame[preempted]
           /\ cur.col \in Nat /\ cur.row \in Nat /\ cur.col <= COLS + 1 /\ cur.row <= ROWS + 1
           /\ cur \in Near(Right(F) + Right(Cut), Below(F) + Below(Cut)) /\ cur \in Cursor
           /\ cpu \in Tasks /\ frame \in [Tasks -> Frames] /\ home \in Cursor
<1>1. F \in Frames /\ FrameInv(cpu, F)
  BY DEF ConsoleTypes, F
<1>4. Cut \in Frames /\ FrameInv(preempted, Cut)
  <2>1. CASE preempted = NULL
    BY <2>1, NoPrintInv DEF Cut
  <2>2. CASE preempted # NULL
    BY <2>2 DEF Cut, ConsoleTypes
  <2> QED
    BY <2>1, <2>2
<1>5. Right(F) \in {0, 1} /\ Below(F) \in {0, 1} /\ Right(Cut) \in {0, 1} /\ Below(Cut) \in {0, 1}
  BY DEF Right, Below, One
<1>6. preempted # NULL => preempted \in Tasks /\ Cut = frame[preempted]
  BY DEF Cut, ConsoleTypes
<1>7. cur \in Near(Right(F) + Right(Cut), Below(F) + Below(Cut))
  BY DEF ConsoleTypes
<1>8. cur.col \in Nat /\ cur.row \in Nat /\ cur.col <= COLS + 1 /\ cur.row <= ROWS + 1 /\ cur \in Cursor
  <2>1. PICK i \in 0..2, j \in 0..2 : i = Right(F) + Right(Cut) /\ j = Below(F) + Below(Cut)
    BY <1>5
  <2>2. cur \in Near(i, j)
    BY <1>7, <2>1
  <2> QED
    BY <2>2, Sizes DEF Near, Cursor
<1> QED
  BY <1>1, <1>4, <1>5, <1>6, <1>7, <1>8 DEF ConsoleTypes

\* The next character.
LEMMA NextCharInv ==
    ASSUME NEW t, NEW f \in Frames, FrameInv(t, f), f.at \in Printing
    PROVE  LET g == NextChar(f) IN
           /\ g \in Frames /\ FrameInv(t, g) /\ g.at = "next" /\ g.job = f.job /\ g.saved = f.saved
           /\ f.job # "none" /\ Len(f.left) \in Nat \ {0} /\ Len(g.left) = Len(f.left) - 1
           /\ Len(g.left) = 0 => g.left = <<>>
           /\ f.job = "area" => Head(f.left) = "glyph"
<1>1. f.left \in Seq(Char) /\ f.left # <<>>
  BY DEF FrameInv, Frames
<1>2. Tail(f.left) \in Seq(Char) /\ Len(Tail(f.left)) = Len(f.left) - 1 /\ Len(f.left) \in Nat \ {0}
  BY <1>1, HeadTailProperties, EmptySeq
<1>3. Len(Tail(f.left)) = 0 => Tail(f.left) = <<>>
  BY <1>2, EmptySeq
<1>4. f.job = "area" => Tail(f.left) \in Seq({"glyph"}) /\ Head(f.left) = "glyph"
  <2>1. SUFFICES ASSUME f.job = "area" PROVE Tail(f.left) \in Seq({"glyph"}) /\ Head(f.left) = "glyph"
    OBVIOUS
  <2>2. f.left \in Seq({"glyph"})
    BY <2>1 DEF FrameInv
  <2>3. Tail(f.left) \in Seq({"glyph"}) /\ Head(f.left) \in {"glyph"}
    BY <1>1, <2>2, HeadTailProperties
  <2> QED
    BY <2>3
<1>5. f.job # "none"
  BY DEF FrameInv, NoPrint, Printing
<1> DEFINE g == NextChar(f)
<1>6. /\ g \in Frames /\ g.at = "next" /\ g.job = f.job /\ g.saved = f.saved /\ g.left = Tail(f.left)
  <2>1. 0 \in 0..(COLS + ROWS + 2)
    BY Sizes
  <2> QED
    BY <1>2, <2>1 DEF NextChar, Frames, PrintPoints
<1> HIDE DEF g
<1>7. FrameInv(t, g)
  BY <1>4, <1>5, <1>6, PointsApart DEF FrameInv, Printing
<1> QED
  BY <1>2, <1>3, <1>4, <1>5, <1>6, <1>7 DEF g

\* One step of the running print, from F to g, with the cursor at c.  Only con_print
\* moves the cursor away from where the print found it.
TextMoves(g, c) ==
    \/ home' = home /\ torn' = torn /\ FoundBy(g, c) = Found
    \/ F.job = "text" /\ home' = c /\ torn' = (torn \/ Borrowed) /\ ~Lent(g)
LEMMA PrintStepInv ==
    ASSUME ConsoleInv, NEW g \in Frames, NEW c,
           FrameInv(cpu, g), c \in Near(Right(g) + Right(Cut), Below(g) + Below(Cut)),
           Bounded(g, Right(Cut), Below(Cut)),
           frame' = [frame EXCEPT ![cpu] = g], cur' = c, UNCHANGED <<cpu, preempted>>,
           TextMoves(g, c), stray' \in BOOLEAN,
           ~torn => stray' = FALSE /\ Stands(cpu, g, c)
    PROVE  ConsoleInv'
<1>1. /\ cpu \in Tasks /\ frame \in [Tasks -> Frames] /\ preempted \in (Tasks \cup {NULL}) \ {cpu}
      /\ cur \in Cursor /\ home \in Cursor
      /\ Right(Cut) \in {0, 1} /\ Below(Cut) \in {0, 1}
      /\ preempted # NULL => preempted \in Tasks /\ Cut = frame[preempted]
  BY BothPrints DEF ConsoleInv, ConsoleTypes
<1>2. frame' \in [Tasks -> Frames] /\ frame'[cpu] = g /\ \A t \in Tasks \ {cpu} : frame'[t] = frame[t]
  BY <1>1
<1>3. F' = g
  BY <1>2 DEF F
<1>4. Cut' = Cut
  BY <1>1, <1>2 DEF Cut
<1>5. c \in Cursor
  <2>1. Right(g) \in {0, 1} /\ Below(g) \in {0, 1}
    BY DEF Right, Below, One
  <2>2. PICK i \in 0..2, j \in 0..2 : i = Right(g) + Right(Cut) /\ j = Below(g) + Below(Cut)
    BY <1>1, <2>1
  <2>3. c \in Near(i, j)
    BY <2>2
  <2> QED
    BY <2>3, Sizes DEF Near, Cursor
<1>6. ConsoleTypes'
  <2>1. cur' \in Near(Right(F') + Right(Cut'), Below(F') + Below(Cut'))
    BY <1>3, <1>4
  <2>2. home' \in Cursor
    BY <1>1, <1>5 DEF TextMoves
  <2>3. torn' \in BOOLEAN
    BY DEF TextMoves, ConsoleInv, ConsoleTypes, Borrowed
  <2>4. \A t \in Tasks : FrameInv(t, frame'[t])
    BY <1>2 DEF ConsoleInv, ConsoleTypes
  <2>5. Bounded(F', Right(Cut'), Below(Cut')) /\ Bounded(Cut', 0, 0)
    BY <1>3, <1>4 DEF ConsoleInv, ConsoleTypes
  <2>6. ConsoleTypes' <=>
          /\ cur' \in Near(Right(F') + Right(Cut'), Below(F') + Below(Cut'))
          /\ home' \in Cursor
          /\ frame' \in [Tasks -> Frames] /\ \A t \in Tasks : FrameInv(t, frame'[t])
          /\ cpu' \in Tasks /\ preempted' \in (Tasks \cup {NULL}) \ {cpu'}
          /\ torn' \in BOOLEAN /\ stray' \in BOOLEAN
          /\ Bounded(F', Right(Cut'), Below(Cut')) /\ Bounded(Cut', 0, 0)
    BY DEF ConsoleTypes, Near, Cursor, Frames, Tasks, FrameInv, Bounded, Right, Below
  <2> QED
    BY <1>1, <1>2, <2>1, <2>2, <2>3, <2>4, <2>5, <2>6
<1>7. TwoPrints'
  BY <1>1, <1>2 DEF ConsoleInv, TwoPrints
<1>8. Found' = FoundBy(g, c)
  BY <1>3 DEF Found, FoundBy, NotHeld, SavePoints
<1>9. Apart'
  <2>0. Apart' <=>
          (~torn' => /\ ~stray'
                     /\ Stands(cpu', F', cur') /\ Stands(preempted', Cut', Found')
                     /\ FoundBy(Cut', Found') = home')
    BY DEF Apart, Stands, FoundBy, NotHeld, SavePoints, PlacePoints
  <2>1. SUFFICES ASSUME ~torn'
                 PROVE  /\ ~stray' /\ Stands(cpu, g, c) /\ Stands(preempted, Cut, FoundBy(g, c))
                        /\ FoundBy(Cut, FoundBy(g, c)) = home'
    BY <1>3, <1>4, <1>8, <2>0
  <2>2. ~torn
    BY <2>1 DEF TextMoves
  <2>3. ~stray' /\ Stands(cpu, g, c)
    BY <2>2
  <2>4. CASE home' = home /\ torn' = torn /\ FoundBy(g, c) = Found
    BY <2>2, <2>3, <2>4 DEF ConsoleInv, Apart
  <2>5. CASE F.job = "text" /\ home' = c /\ torn' = (torn \/ Borrowed) /\ ~Lent(g)
    <3>1. ~Lent(Cut)
      BY <1>1, <2>1, <2>5 DEF Lent, Borrowed, Cut, NoPrint
    <3>2. FoundBy(g, c) = c /\ FoundBy(Cut, c) = c
      BY <1>5, <2>5, <3>1, HoldsNothing
    <3>3. Stands(preempted, Cut, c)
      <4>1. Cut.job # "area" \/ Cut.at = "save_col"
        BY <3>1 DEF Lent
      <4>2. Stands(preempted, Cut, Found)
        BY <2>2 DEF ConsoleInv, Apart
      <4> QED
        BY <4>1, <4>2 DEF Stands, PlacePoints, Printing
    <3> QED
      BY <2>3, <2>5, <3>2, <3>3
  <2> QED
    BY <2>4, <2>5 DEF TextMoves
<1> QED
  BY <1>6, <1>7, <1>9 DEF ConsoleInv

\* What a step of the running print starts from.
LEMMA Running ==
    ASSUME ConsoleInv
    PROVE  \E i \in {0, 1}, j \in {0, 1} :
             /\ i = Right(Cut) /\ j = Below(Cut)
             /\ cur \in Near(Right(F) + i, Below(F) + j) /\ cur \in Cursor
             /\ Right(F) = One(F.at = "wrap") /\ Below(F) = One(F.at = "scroll")
             /\ F \in Frames /\ FrameInv(cpu, F) /\ Bounded(F, i, j)
             /\ \A g : [frame EXCEPT ![cpu] = g][cpu] = g
             /\ ~torn => stray = FALSE /\ Stands(cpu, F, cur)
             /\ stray \in BOOLEAN
             /\ Found = FoundBy(F, cur)
<1>1. ConsoleTypes /\ Right(Cut) \in {0, 1} /\ Below(Cut) \in {0, 1}
  BY BothPrints DEF ConsoleInv
<1>2. /\ cur \in Near(Right(F) + Right(Cut), Below(F) + Below(Cut)) /\ cur \in Cursor
      /\ F \in Frames /\ FrameInv(cpu, F) /\ Bounded(F, Right(Cut), Below(Cut))
      /\ \A g : [frame EXCEPT ![cpu] = g][cpu] = g
  BY <1>1, BothPrints DEF ConsoleTypes
<1>3. stray \in BOOLEAN /\ (~torn => stray = FALSE /\ Stands(cpu, F, cur))
  BY DEF ConsoleInv, ConsoleTypes, Apart
<1>4. Found = FoundBy(F, cur)
  BY DEF Found
<1> QED
  BY <1>1, <1>2, <1>3, <1>4 DEF Right, Below

\* The ways into and out of a print.
LEMMA BeginInv == ASSUME ConsoleInv, BeginArea \/ BeginText PROVE ConsoleInv'
<1>1. PICK i \in {0, 1}, j \in {0, 1} :
        /\ i = Right(Cut) /\ j = Below(Cut)
        /\ cur \in Near(Right(F) + i, Below(F) + j) /\ stray \in BOOLEAN /\ Found = FoundBy(F, cur)
        /\ F \in Frames /\ FrameInv(cpu, F) /\ (~torn => stray = FALSE) /\ cur \in Cursor
  BY Running
<1>2. F.at = "out" /\ UNCHANGED <<cur, cpu, preempted, home, torn, stray>>
  BY DEF BeginArea, BeginText, AtPoint
<1>3. F = NoPrint /\ Right(F) = 0 /\ Below(F) = 0 /\ ~Lent(F)
  BY <1>1, <1>2 DEF FrameInv, Right, Below, One, Lent, NoPrint
<1>4. PICK g : /\ frame' = [frame EXCEPT ![cpu] = g] /\ g \in Frames /\ FrameInv(cpu, g)
               /\ g.at \in {"save_col", "next"} /\ ~Lent(g) /\ g.saved = Origin
               /\ g.job = "area" => g.at = "save_col" /\ Len(g.left) = Area[cpu].len
  <2>1. CASE BeginArea
    <3> DEFINE n == Area[cpu].len
               left == [k \in 1..n |-> "glyph"]
               g == [NoPrint EXCEPT !.at = "save_col", !.job = "area", !.left = left]
    <3>1. cpu \in AreaUsers /\ frame' = [frame EXCEPT ![cpu] = g]
      BY <2>1 DEF BeginArea
    <3>2. n \in Nat \ {0}
      BY <3>1, Sizes
    <3> HIDE DEF n
    <3>3. left \in Seq(Char) /\ left \in Seq({"glyph"}) /\ Len(left) = n
      BY <3>2 DEF Char
    <3> HIDE DEF left
    <3>4. g \in Frames /\ g.at = "save_col" /\ g.job = "area" /\ g.left = left /\ g.saved = Origin
      BY <3>3, NoPrintInv DEF Frames, PrintPoints, SavePoints, NoPrint
    <3> HIDE DEF g
    <3>5. FrameInv(cpu, g) /\ ~Lent(g)
      BY <3>1, <3>3, <3>4 DEF FrameInv, Printing, Lent
    <3> QED
      BY <3>1, <3>3, <3>4, <3>5 DEF n
  <2>2. CASE BeginText
    <3>1. PICK text \in Texts :
            frame' = [frame EXCEPT ![cpu] = [NoPrint EXCEPT !.at = "next", !.job = "text",
                                                            !.left = text]]
      BY <2>2 DEF BeginText
    <3> DEFINE g == [NoPrint EXCEPT !.at = "next", !.job = "text", !.left = text]
    <3>2. text \in Seq(Char)
      BY TextAssumption
    <3>3. g \in Frames /\ g.at = "next" /\ g.job = "text" /\ g.saved = Origin
      BY <3>2, NoPrintInv DEF Frames, PrintPoints, NoPrint
    <3>4. frame' = [frame EXCEPT ![cpu] = g]
      BY <3>1
    <3> HIDE DEF g
    <3>5. FrameInv(cpu, g) /\ ~Lent(g)
      BY <3>3, PointsApart DEF FrameInv, Printing, Lent
    <3> QED
      BY <3>3, <3>4, <3>5
  <2> QED
    BY <2>1, <2>2
<1>5. Right(g) = 0 /\ Below(g) = 0 /\ Bounded(g, i, j) /\ Stands(cpu, g, cur)
  BY <1>4, OriginNear DEF Right, Below, One, Bounded, Stands, PlacePoints
<1>6. TextMoves(g, cur)
  BY <1>1, <1>2, <1>3, <1>4, HoldsNothing DEF TextMoves
<1> QED
  BY <1>1, <1>2, <1>3, <1>4, <1>5, <1>6, PrintStepInv

\* con_print_at borrows the cursor and gives it back.
LEMMA BorrowInv == ASSUME ConsoleInv, Save \/ Place \/ Restore PROVE ConsoleInv'
<1>1. PICK i \in {0, 1}, j \in {0, 1} :
        /\ i = Right(Cut) /\ j = Below(Cut)
        /\ cur \in Near(Right(F) + i, Below(F) + j) /\ stray \in BOOLEAN /\ Found = FoundBy(F, cur)
        /\ F \in Frames /\ FrameInv(cpu, F) /\ Bounded(F, i, j) /\ cur \in Cursor
        /\ ~torn => stray = FALSE /\ Stands(cpu, F, cur)
  BY Running
<1>2. UNCHANGED <<cpu, preempted, home, torn, stray>> /\ F.at \in Borrowing
  BY DEF Save, Place, Restore, AtPoint, Borrowing, SavePoints, PlacePoints, RestorePoints
<1>3. F.job = "area" /\ cpu \in AreaUsers /\ cur \in Near(i, j) /\ F.saved \in Near(i, j)
      /\ F.saved \in Cursor
  <2>1. F.job = "area" /\ cpu \in AreaUsers /\ F.saved \in Near(i, j)
    BY <1>1, <1>2 DEF FrameInv, Bounded
  <2>2. Right(F) = 0 /\ Below(F) = 0
    BY <1>2, PointsApart DEF Right, Below, One
  <2>3. 0 + i = i /\ 0 + j = j
    OBVIOUS
  <2> QED
    BY <1>1, <2>1, <2>2, <2>3 DEF Frames
<1>4. ConsoleTypes /\ frame \in [Tasks -> Frames] /\ cpu \in Tasks
  BY BothPrints DEF ConsoleInv
<1>5. ASSUME NEW at \in Borrowing \cup {"next"}, NEW v \in Cursor, v \in Near(i, j), NEW c \in Near(i, j),
             frame' = [frame EXCEPT ![cpu] = [F EXCEPT !.saved = v, !.at = at]], cur' = c,
             FoundBy([F EXCEPT !.saved = v, !.at = at], c) = FoundBy(F, cur),
             ~torn => Stands(cpu, [F EXCEPT !.saved = v, !.at = at], c)
      PROVE  ConsoleInv'
  <2> DEFINE g == [F EXCEPT !.saved = v, !.at = at]
  <2>1. at \in PrintPoints /\ at \notin Printing /\ at # "out"
    BY <1>5, PointsApart DEF PrintPoints, Printing
  <2>2. g \in Frames /\ g.at = at /\ g.job = "area" /\ g.left = F.left /\ g.saved = v
    BY <1>1, <1>3, <2>1 DEF Frames
  <2>3. frame' = [frame EXCEPT ![cpu] = g] /\ FoundBy(g, c) = FoundBy(F, cur) /\ (~torn => Stands(cpu, g, c))
    BY <1>5
  <2> HIDE DEF g
  <2>4. FrameInv(cpu, g)
    BY <1>1, <1>3, <2>1, <2>2 DEF FrameInv
  <2>5. Right(g) = 0 /\ Below(g) = 0 /\ Bounded(g, i, j)
    BY <1>5, <2>1, <2>2 DEF Right, Below, One, Bounded, Printing
  <2>6. c \in Near(Right(g) + Right(Cut), Below(g) + Below(Cut)) /\ Bounded(g, Right(Cut), Below(Cut))
    <3>1. 0 + i = i /\ 0 + j = j
      OBVIOUS
    <3> QED
      BY <1>1, <2>5, <3>1
  <2>7. TextMoves(g, c)
    BY <1>1, <1>2, <2>3 DEF TextMoves
  <2> QED
    BY <1>1, <1>2, <1>5, <2>2, <2>3, <2>4, <2>6, <2>7, PrintStepInv
<1>6. CASE Save
  <2>1. ASSUME NEW at, at \in SavePoints \cup {"place_col"}, NEW v, v \in Near(i, j), v \in Cursor,
               frame' = [frame EXCEPT ![cpu] = [F EXCEPT !.saved = v, !.at = at]], F.at \in SavePoints,
               FoundBy([F EXCEPT !.saved = v, !.at = at], cur) = FoundBy(F, cur)
        PROVE  ConsoleInv'
    <3> DEFINE g == [F EXCEPT !.saved = v, !.at = at]
    <3>1. at \in Borrowing /\ at \notin Printing \cup {"next"} /\ at \notin PlacePoints \ {"place_col"}
      BY <2>1, PointsApart DEF PlacePoints
    <3>2. cur' = cur
      BY <1>6 DEF Save
    <3>3. g.at = at /\ g.left = F.left
      BY <1>1 DEF Frames
    <3> HIDE DEF g
    <3>4. ~torn => Stands(cpu, g, cur)
      <4>1. ~torn => Len(F.left) = Area[cpu].len
        BY <1>1, <1>3, <2>1 DEF Stands
      <4> QED
        BY <2>1, <3>1, <3>3, <4>1 DEF Stands, Printing
    <3> QED
      BY <1>3, <1>5, <2>1, <3>1, <3>2, <3>4 DEF g
  <2>2. CASE F.at = "save_col"
    <3> DEFINE v == [F.saved EXCEPT !.col = cur.col]
               g == [F EXCEPT !.saved = v, !.at = "save_row"]
    <3>1. frame' = [frame EXCEPT ![cpu] = g]
      BY <1>4, <1>6, <2>2 DEF Save, AtPoint, F
    <3>2. v \in Near(i, j) /\ v \in Cursor
      BY <1>1, <1>3 DEF Near, Cursor
    <3>3. FoundBy(g, cur) = FoundBy(F, cur)
      BY <1>1, <1>3, <2>2 DEF FoundBy, NotHeld, SavePoints, Frames, Cursor
    <3> QED
      BY <2>1, <2>2, <3>1, <3>2, <3>3 DEF SavePoints
  <2>3. CASE F.at = "save_row"
    <3> DEFINE v == [F.saved EXCEPT !.row = cur.row]
               g == [F EXCEPT !.saved = v, !.at = "save_fg"]
    <3>1. frame' = [frame EXCEPT ![cpu] = g]
      BY <1>4, <1>6, <2>3 DEF Save, AtPoint, F
    <3>2. v \in Near(i, j) /\ v \in Cursor
      BY <1>1, <1>3 DEF Near, Cursor
    <3>3. FoundBy(g, cur) = FoundBy(F, cur)
      BY <1>1, <1>3, <2>3 DEF FoundBy, NotHeld, SavePoints, Frames, Cursor
    <3> QED
      BY <2>1, <2>3, <3>1, <3>2, <3>3 DEF SavePoints
  <2>4. CASE F.at = "save_fg"
    <3> DEFINE v == [F.saved EXCEPT !.fg = cur.fg]
               g == [F EXCEPT !.saved = v, !.at = "save_bg"]
    <3>1. frame' = [frame EXCEPT ![cpu] = g]
      BY <1>4, <1>6, <2>4 DEF Save, AtPoint, F
    <3>2. v \in Near(i, j) /\ v \in Cursor
      BY <1>1, <1>3 DEF Near, Cursor
    <3>3. FoundBy(g, cur) = FoundBy(F, cur)
      BY <1>1, <1>3, <2>4 DEF FoundBy, NotHeld, SavePoints, Frames, Cursor
    <3> QED
      BY <2>1, <2>4, <3>1, <3>2, <3>3 DEF SavePoints
  <2>5. CASE F.at = "save_bg"
    <3> DEFINE v == [F.saved EXCEPT !.bg = cur.bg]
               g == [F EXCEPT !.saved = v, !.at = "place_col"]
    <3>1. frame' = [frame EXCEPT ![cpu] = g]
      BY <1>4, <1>6, <2>5 DEF Save, AtPoint, F
    <3>2. v \in Near(i, j) /\ v \in Cursor
      BY <1>1, <1>3 DEF Near, Cursor
    <3>3. FoundBy(g, cur) = FoundBy(F, cur)
      BY <1>1, <1>3, <2>5 DEF FoundBy, NotHeld, SavePoints, Frames, Cursor
    <3> QED
      BY <2>1, <2>5, <3>1, <3>2, <3>3 DEF SavePoints
  <2> QED
    BY <1>6, <2>2, <2>3, <2>4, <2>5 DEF Save, AtPoint
<1>7. CASE Place
  <2>1. /\ Area[cpu].col \in 0..(COLS - 1) /\ Area[cpu].row \in 0..(ROWS - 1)
        /\ COLS \in Nat \ {0} /\ ROWS \in Nat /\ ROWS > 2 /\ Area[cpu].len \in Nat
    BY <1>3, Sizes
  <2>2. ASSUME NEW at, at \in (PlacePoints \ {"place_col"}) \cup {"next"}, NEW c, c \in Near(i, j), cur' = c,
               frame' = [frame EXCEPT ![cpu] = [F EXCEPT !.at = at]], F.at \in PlacePoints,
               ~torn => c.col = Area[cpu].col /\ (at # "place_row" => c.row = Area[cpu].row)
        PROVE  ConsoleInv'
    <3> DEFINE g == [F EXCEPT !.saved = F.saved, !.at = at]
    <3>1. [F EXCEPT !.at = at] = g /\ g.at = at /\ g.job = "area" /\ g.saved = F.saved /\ g.left = F.left
      BY <1>1, <1>3 DEF Frames
    <3>2. frame' = [frame EXCEPT ![cpu] = g]
      BY <2>2, <3>1
    <3> HIDE DEF g
    <3>3. FoundBy(g, c) = FoundBy(F, cur)
      BY <1>3, <2>2, <3>1, HoldsAll
    <3>4. at \in Borrowing \cup {"next"} /\ at \notin Printing \cup SavePoints \cup {"place_col"}
      BY <2>2, PointsApart
    <3>5. ASSUME ~torn PROVE Stands(cpu, g, c)
      <4>1. Len(F.left) = Area[cpu].len
        BY <1>1, <1>3, <2>2, <3>5 DEF Stands
      <4>2. Area[cpu].col + Area[cpu].len - Len(F.left) = Area[cpu].col
        BY <2>1, <4>1
      <4> QED
        BY <2>2, <3>1, <3>4, <3>5, <4>1, <4>2, PointsApart DEF Stands, Printing
    <3> QED
      BY <1>3, <1>5, <2>2, <3>2, <3>3, <3>4, <3>5 DEF g
  <2>3. CASE F.at = "place_col"
    <3> DEFINE c == [cur EXCEPT !.col = Area[cpu].col]
    <3>1. frame' = [frame EXCEPT ![cpu] = [F EXCEPT !.at = "place_row"]] /\ cur' = c
      BY <1>4, <1>7, <2>3 DEF Place, AtPoint, Goto, F
    <3>2. c \in Near(i, j) /\ c.col = Area[cpu].col
      BY <1>3, <2>1 DEF Near
    <3> QED
      BY <2>2, <2>3, <3>1, <3>2 DEF PlacePoints
  <2>4. CASE F.at = "place_row"
    <3> DEFINE c == [cur EXCEPT !.row = Area[cpu].row]
    <3>1. frame' = [frame EXCEPT ![cpu] = [F EXCEPT !.at = "place_fg"]] /\ cur' = c
      BY <1>4, <1>7, <2>4 DEF Place, AtPoint, Goto, F
    <3>2. c \in Near(i, j) /\ c.row = Area[cpu].row /\ c.col = cur.col
      BY <1>3, <2>1 DEF Near
    <3>3. ~torn => cur.col = Area[cpu].col
      BY <1>1, <1>3, <2>4 DEF Stands, PlacePoints
    <3> QED
      BY <2>2, <2>4, <3>1, <3>2, <3>3 DEF PlacePoints
  <2>5. CASE F.at = "place_fg"
    <3> DEFINE c == [cur EXCEPT !.fg = "area"]
    <3>1. frame' = [frame EXCEPT ![cpu] = [F EXCEPT !.at = "place_bg"]] /\ cur' = c
      BY <1>4, <1>7, <2>5 DEF Place, AtPoint, Goto, F
    <3>2. c \in Near(i, j) /\ c.row = cur.row /\ c.col = cur.col
      BY <1>3 DEF Near, Colors
    <3>3. ~torn => cur.col = Area[cpu].col /\ cur.row = Area[cpu].row
      BY <1>1, <1>3, <2>5 DEF Stands, PlacePoints
    <3> QED
      BY <2>2, <2>5, <3>1, <3>2, <3>3 DEF PlacePoints
  <2>6. CASE F.at = "place_bg"
    <3> DEFINE c == [cur EXCEPT !.bg = "area"]
    <3>1. frame' = [frame EXCEPT ![cpu] = [F EXCEPT !.at = "next"]] /\ cur' = c
      BY <1>4, <1>7, <2>6 DEF Place, AtPoint, Goto, F
    <3>2. c \in Near(i, j) /\ c.row = cur.row /\ c.col = cur.col
      BY <1>3 DEF Near, Colors
    <3>3. ~torn => cur.col = Area[cpu].col /\ cur.row = Area[cpu].row
      BY <1>1, <1>3, <2>6 DEF Stands, PlacePoints
    <3> QED
      BY <2>2, <2>6, <3>1, <3>2, <3>3 DEF PlacePoints
  <2> QED
    BY <1>7, <2>3, <2>4, <2>5, <2>6 DEF Place, AtPoint
<1>8. CASE Restore
  <2>1. ASSUME NEW at, at \in RestorePoints, NEW c, c \in Near(i, j), cur' = c,
               frame' = [frame EXCEPT ![cpu] = [F EXCEPT !.at = at]],
               FoundBy([F EXCEPT !.at = at], c) = FoundBy(F, cur)
        PROVE  ConsoleInv'
    <3> DEFINE g == [F EXCEPT !.saved = F.saved, !.at = at]
    <3>1. [F EXCEPT !.at = at] = g /\ g.at = at
      BY <1>1, <1>3 DEF Frames
    <3>2. frame' = [frame EXCEPT ![cpu] = g] /\ FoundBy(g, c) = FoundBy(F, cur)
      BY <2>1, <3>1
    <3> HIDE DEF g
    <3>3. at \in Borrowing /\ at \notin Printing \cup SavePoints \cup PlacePoints \cup {"next"}
      BY <2>1, PointsApart
    <3>4. Stands(cpu, g, c)
      BY <3>1, <3>3 DEF Stands, Printing
    <3> QED
      BY <1>3, <1>5, <2>1, <3>2, <3>3, <3>4 DEF g
  <2>2. CASE F.at = "restore_col"
    <3> DEFINE c == [cur EXCEPT !.col = F.saved.col]
               g == [F EXCEPT !.at = "restore_row"]
    <3>1. frame' = [frame EXCEPT ![cpu] = g] /\ cur' = c
      BY <1>4, <1>8, <2>2 DEF Restore, AtPoint, Goto, F
    <3>2. c \in Near(i, j)
      BY <1>3 DEF Near
    <3>3. FoundBy(g, c) = FoundBy(F, cur)
      BY <1>1, <1>3, <2>2 DEF FoundBy, NotHeld, SavePoints, Frames, Cursor
    <3> QED
      BY <2>1, <3>1, <3>2, <3>3 DEF RestorePoints
  <2>3. CASE F.at = "restore_row"
    <3> DEFINE c == [cur EXCEPT !.row = F.saved.row]
               g == [F EXCEPT !.at = "restore_fg"]
    <3>1. frame' = [frame EXCEPT ![cpu] = g] /\ cur' = c
      BY <1>4, <1>8, <2>3 DEF Restore, AtPoint, Goto, F
    <3>2. c \in Near(i, j)
      BY <1>3 DEF Near
    <3>3. FoundBy(g, c) = FoundBy(F, cur)
      BY <1>1, <1>3, <2>3 DEF FoundBy, NotHeld, SavePoints, Frames, Cursor
    <3> QED
      BY <2>1, <3>1, <3>2, <3>3 DEF RestorePoints
  <2>4. CASE F.at = "restore_fg"
    <3> DEFINE c == [cur EXCEPT !.fg = F.saved.fg]
               g == [F EXCEPT !.at = "restore_bg"]
    <3>1. frame' = [frame EXCEPT ![cpu] = g] /\ cur' = c
      BY <1>4, <1>8, <2>4 DEF Restore, AtPoint, Goto, F
    <3>2. c \in Near(i, j)
      BY <1>3 DEF Near
    <3>3. FoundBy(g, c) = FoundBy(F, cur)
      BY <1>1, <1>3, <2>4 DEF FoundBy, NotHeld, SavePoints, Frames, Cursor
    <3> QED
      BY <2>1, <3>1, <3>2, <3>3 DEF RestorePoints
  <2>5. CASE F.at = "restore_bg"
    <3> DEFINE c == [cur EXCEPT !.bg = F.saved.bg]
    <3>1. frame' = [frame EXCEPT ![cpu] = NoPrint] /\ cur' = c
      BY <1>8, <2>5 DEF Restore, AtPoint
    <3>2. c \in Near(i, j) /\ c \in Cursor
      BY <1>1, <1>3 DEF Near, Cursor
    <3>3. NoPrint \in Frames /\ FrameInv(cpu, NoPrint)
      BY NoPrintInv
    <3>4. /\ Bounded(NoPrint, i, j) /\ Right(NoPrint) = 0 /\ Below(NoPrint) = 0
          /\ Stands(cpu, NoPrint, c) /\ ~Lent(NoPrint)
      BY OriginNear DEF NoPrint, Bounded, Right, Below, One, Stands, Lent
    <3>5. FoundBy(F, cur) = c
      BY <1>1, <1>3, <2>5 DEF FoundBy, NotHeld, SavePoints, Cursor
    <3>6. TextMoves(NoPrint, c)
      BY <1>1, <1>2, <3>2, <3>4, <3>5, HoldsNothing DEF TextMoves
    <3>7. /\ c \in Near(Right(NoPrint) + Right(Cut), Below(NoPrint) + Below(Cut))
          /\ Bounded(NoPrint, Right(Cut), Below(Cut))
      <4>1. 0 + i = i /\ 0 + j = j
        OBVIOUS
      <4> QED
        BY <1>1, <3>2, <3>4, <4>1
    <3> HIDE DEF c
    <3> QED
      BY <1>1, <1>2, <3>1, <3>3, <3>4, <3>6, <3>7, PrintStepInv
  <2> QED
    BY <1>8, <2>2, <2>3, <2>4, <2>5 DEF Restore, AtPoint
<1> QED
  BY <1>6, <1>7, <1>8

\* The loops of con_print and con_print_at.
LEMMA DispatchInv == ASSUME ConsoleInv, Dispatch PROVE ConsoleInv'
<1>1. PICK i \in {0, 1}, j \in {0, 1} :
        /\ i = Right(Cut) /\ j = Below(Cut)
        /\ cur \in Near(Right(F) + i, Below(F) + j) /\ stray \in BOOLEAN /\ Found = FoundBy(F, cur)
        /\ F \in Frames /\ FrameInv(cpu, F) /\ Bounded(F, i, j) /\ cur \in Cursor
        /\ ~torn => stray = FALSE /\ Stands(cpu, F, cur)
  BY Running
<1>2. UNCHANGED <<cur, cpu, preempted, home, torn, stray>> /\ F.at = "next"
  BY DEF Dispatch, AtPoint
<1>3. ConsoleTypes /\ frame \in [Tasks -> Frames] /\ cpu \in Tasks
  BY BothPrints DEF ConsoleInv
<1>4. Right(F) = 0 /\ Below(F) = 0 /\ cur \in Near(i, j)
  <2>1. Right(F) = 0 /\ Below(F) = 0
    BY <1>2 DEF Right, Below, One
  <2>2. 0 + i = i /\ 0 + j = j
    OBVIOUS
  <2> QED
    BY <1>1, <2>1, <2>2
<1>5. ASSUME NEW g \in Frames, frame' = [frame EXCEPT ![cpu] = g], FrameInv(cpu, g),
             g.at # "scroll", Bounded(g, i, j), FoundBy(g, cur) = FoundBy(F, cur),
             ~torn => Stands(cpu, g, cur)
      PROVE  ConsoleInv'
  <2>1. Right(g) \in {0, 1} /\ Below(g) = 0
    BY <1>5 DEF Right, Below, One
  <2>2. cur \in Near(Right(g) + Right(Cut), Below(g) + Below(Cut))
    BY <1>1, <1>4, <2>1, Sizes DEF Near
  <2>3. TextMoves(g, cur)
    BY <1>1, <1>2, <1>5 DEF TextMoves
  <2> QED
    BY <1>1, <1>2, <1>5, <2>2, <2>3, PrintStepInv
<1>6. CASE frame' = [frame EXCEPT ![cpu] = IF F.job = "area" THEN [F EXCEPT !.at = "restore_col"] ELSE NoPrint]
  <2>1. CASE F.job = "area"
    <3> DEFINE g == [F EXCEPT !.at = "restore_col"]
    <3>1. g \in Frames /\ g.at = "restore_col" /\ g.job = F.job /\ g.left = F.left /\ g.saved = F.saved
      BY <1>1 DEF Frames, PrintPoints, RestorePoints
    <3>2. frame' = [frame EXCEPT ![cpu] = g]
      BY <1>6, <2>1
    <3> HIDE DEF g
    <3>3. FrameInv(cpu, g) /\ Bounded(g, i, j) /\ Stands(cpu, g, cur)
      BY <1>1, <1>2, <2>1, <3>1 DEF FrameInv, Printing, Bounded, Stands, SavePoints, PlacePoints
    <3>4. FoundBy(g, cur) = FoundBy(F, cur)
      BY <1>2, <2>1, <3>1, HoldsAll
    <3> QED
      BY <1>5, <3>1, <3>2, <3>3, <3>4
  <2>2. CASE F.job # "area"
    <3>1. frame' = [frame EXCEPT ![cpu] = NoPrint]
      BY <1>6, <2>2
    <3>2. NoPrint \in Frames /\ FrameInv(cpu, NoPrint)
      BY NoPrintInv
    <3>3. /\ Bounded(NoPrint, i, j) /\ Stands(cpu, NoPrint, cur) /\ NoPrint.at # "scroll" /\ ~Lent(NoPrint)
      BY OriginNear DEF NoPrint, Bounded, Stands, Lent
    <3>4. FoundBy(NoPrint, cur) = FoundBy(F, cur)
      BY <1>1, <2>2, <3>3, HoldsNothing DEF Lent
    <3> QED
      BY <1>5, <3>1, <3>2, <3>3, <3>4
  <2> QED
    BY <2>1, <2>2
<1>7. ASSUME F.left # <<>>, NEW at \in {"render", "wrap"}, frame' = [frame EXCEPT ![cpu] = [F EXCEPT !.at = at]],
             at = "wrap" => F.job # "area"
      PROVE  ConsoleInv'
  <2> DEFINE g == [F EXCEPT !.at = at]
  <2>1. g \in Frames /\ g.at = at /\ g.job = F.job /\ g.left = F.left /\ g.saved = F.saved
    BY <1>1 DEF Frames, PrintPoints
  <2>2. frame' = [frame EXCEPT ![cpu] = g]
    BY <1>7
  <2> HIDE DEF g
  <2>3. FrameInv(cpu, g) /\ Bounded(g, i, j) /\ F.job \in {"area", "text"}
    <3>1. F.job # "none"
      BY <1>1, <1>2 DEF FrameInv, NoPrint
    <3> QED
      BY <1>1, <1>2, <1>7, <2>1, <3>1, PointsApart DEF FrameInv, Printing, Bounded, Frames
  <2>6. FoundBy(g, cur) = FoundBy(F, cur)
    <3>1. CASE F.job = "area"
      BY <1>2, <1>7, <2>1, <3>1, HoldsAll DEF Printing
    <3>2. CASE F.job = "text"
      BY <1>1, <2>1, <3>2, HoldsNothing DEF Lent
    <3> QED
      BY <2>3, <3>1, <3>2
  <2>4. ~torn => Stands(cpu, g, cur)
    BY <1>1, <1>2, <1>7, <2>1 DEF Stands, SavePoints, PlacePoints
  <2>5. g.at # "scroll"
    BY <1>7, <2>1
  <2> QED
    BY <1>5, <2>1, <2>2, <2>3, <2>4, <2>5, <2>6
<1>8. F.left # <<>> /\ F.job = "area" => Head(F.left) = "glyph"
  BY <1>1, HeadTailProperties DEF FrameInv
<1>9. CASE F.left # <<>> /\ Head(F.left) \in {"glyph"} /\ Goto("render")
  <2>1. frame' = [frame EXCEPT ![cpu] = [F EXCEPT !.at = "render"]]
    BY <1>9 DEF Goto, F
  <2> QED
    BY <1>7, <1>9, <2>1
<1>10. CASE F.left # <<>> /\ Head(F.left) \in {"newline", "return"} /\ Goto("wrap")
  <2>1. frame' = [frame EXCEPT ![cpu] = [F EXCEPT !.at = "wrap"]]
    BY <1>10 DEF Goto, F
  <2>2. F.job # "area"
    BY <1>8, <1>10
  <2> QED
    BY <1>7, <1>10, <2>1, <2>2
<1>11. CASE /\ F.left # <<>> /\ Head(F.left) = "backspace"
            /\ frame' = [frame EXCEPT ![cpu] =
                  IF cur.col > 0 THEN [F EXCEPT !.reg = cur.col - 1, !.at = "store_col"] ELSE NextChar(F)]
  <2>1. F.job = "text"
    BY <1>1, <1>2, <1>8, <1>11 DEF FrameInv, NoPrint, Frames
  <2>2. CASE cur.col > 0
    <3> DEFINE n == cur.col - 1
               g == [F EXCEPT !.reg = n, !.at = "store_col"]
    <3>1. n \in 0..(COLS + ROWS + 2) /\ n <= COLS + i
      BY <1>4, <2>2, Sizes DEF Near
    <3>2. frame' = [frame EXCEPT ![cpu] = g]
      BY <1>11, <2>2
    <3> HIDE DEF n
    <3>3. /\ g \in Frames /\ g.at = "store_col" /\ g.job = "text" /\ g.left = F.left /\ g.reg = n
          /\ g.saved = F.saved
      BY <1>1, <2>1, <3>1 DEF Frames, PrintPoints
    <3> HIDE DEF g
    <3>4. FrameInv(cpu, g) /\ Bounded(g, i, j) /\ Stands(cpu, g, cur)
      BY <1>1, <1>11, <2>1, <3>1, <3>3, PointsApart DEF FrameInv, Printing, Bounded, Stands
    <3>5. FoundBy(g, cur) = FoundBy(F, cur)
      BY <1>1, <2>1, <3>3, HoldsNothing DEF Lent
    <3> QED
      BY <1>5, <3>2, <3>3, <3>4, <3>5
  <2>3. CASE ~(cur.col > 0)
    <3> DEFINE f == [F EXCEPT !.at = "wrap"]
               g == NextChar(F)
    <3>1. frame' = [frame EXCEPT ![cpu] = g]
      BY <1>11, <2>3
    <3>2. f \in Frames /\ f.at = "wrap" /\ f.job = "text" /\ f.left = F.left /\ f.saved = F.saved
      BY <1>1, <2>1 DEF Frames, PrintPoints
    <3>3. g = NextChar(f)
      BY <1>1 DEF NextChar, Frames
    <3> HIDE DEF f, g
    <3>4. FrameInv(cpu, f)
      BY <1>11, <3>2, PointsApart DEF FrameInv, Printing
    <3>5. g \in Frames /\ FrameInv(cpu, g) /\ g.at = "next" /\ g.job = "text" /\ g.saved = F.saved
      BY <3>2, <3>3, <3>4, NextCharInv DEF Printing
    <3>6. Bounded(g, i, j) /\ Stands(cpu, g, cur)
      BY <1>1, <2>1, <3>5 DEF Bounded, Stands
    <3>7. FoundBy(g, cur) = FoundBy(F, cur)
      BY <1>1, <2>1, <3>5, HoldsNothing DEF Lent
    <3> QED
      BY <1>5, <3>1, <3>5, <3>6, <3>7
  <2> QED
    BY <2>2, <2>3
<1> QED
  BY <1>6, <1>9, <1>10, <1>11 DEF Dispatch

\* A store of con_putchar: con_print's moves the cursor for good, con_print_at's does not.
LEMMA StoreMoves ==
    ASSUME ConsoleInv, F.at \in Printing, NEW g, g.job = F.job, g.saved = F.saved,
           g.at \in Printing \cup {"next"}, NEW c, c \in Cursor,
           Store(c) \/ (c = cur /\ UNCHANGED <<home, torn>>)
    PROVE  TextMoves(g, c)
<1>1. F \in Frames /\ FrameInv(cpu, F) /\ Found = FoundBy(F, cur) /\ cur \in Cursor
  BY Running
<1>2. F.job \in {"area", "text"}
  BY <1>1, PointsApart DEF FrameInv, Frames, NoPrint
<1>3. CASE F.job = "area"
  <2>1. FoundBy(g, c) = FoundBy(F, cur)
    BY <1>3, HoldsAll
  <2> QED
    BY <1>1, <1>3, <2>1 DEF TextMoves, Store
<1>4. CASE F.job = "text"
  <2>1. ~Lent(F) /\ ~Lent(g)
    BY <1>4 DEF Lent
  <2>2. FoundBy(g, c) = c /\ Found = cur
    BY <1>1, <2>1, HoldsNothing
  <2> QED
    BY <1>4, <2>1, <2>2 DEF TextMoves, Store, MoveText
<1> QED
  BY <1>2, <1>3, <1>4

\* con_putchar up to its first store.
LEMMA RenderInv == ASSUME ConsoleInv, RenderCol \/ RenderRow \/ LoadCol \/ LoadRow PROVE ConsoleInv'
<1>1. PICK i \in {0, 1}, j \in {0, 1} :
        /\ i = Right(Cut) /\ j = Below(Cut)
        /\ cur \in Near(Right(F) + i, Below(F) + j) /\ stray \in BOOLEAN
        /\ F \in Frames /\ FrameInv(cpu, F) /\ Bounded(F, i, j) /\ cur \in Cursor
        /\ ~torn => stray = FALSE /\ Stands(cpu, F, cur)
  BY Running
<1>2. UNCHANGED <<cur, cpu, preempted, home, torn>> /\ F.at \in {"render", "render_row", "load_col", "load_row"}
  BY DEF RenderCol, RenderRow, LoadCol, LoadRow, AtPoint
<1>3. ConsoleTypes /\ frame \in [Tasks -> Frames] /\ cpu \in Tasks
  BY BothPrints DEF ConsoleInv
<1>4. Right(F) = 0 /\ Below(F) = 0 /\ cur \in Near(i, j)
  <2>1. Right(F) = 0 /\ Below(F) = 0
    BY <1>2 DEF Right, Below, One
  <2>2. 0 + i = i /\ 0 + j = j
    OBVIOUS
  <2> QED
    BY <1>1, <2>1, <2>2
<1>5. F.left # <<>> /\ F.job \in {"area", "text"} /\ (F.job = "area" => cpu \in AreaUsers)
      /\ Len(F.left) \in Nat \ {0}
  <2>1. F.left # <<>> /\ F.job \in {"area", "text"} /\ (F.job = "area" => cpu \in AreaUsers)
    BY <1>1, <1>2 DEF FrameInv, Frames, NoPrint, Printing
  <2>2. F.left \in Seq(Char)
    BY <1>1 DEF Frames
  <2> QED
    BY <2>1, <2>2, EmptySeq
<1>6. ASSUME NEW g \in Frames, frame' = [frame EXCEPT ![cpu] = g], g.at \in Printing,
             g.at \notin {"wrap", "scroll"}, g.job = F.job, g.left = F.left, g.saved = F.saved,
             g.at = "store_col" => g.reg <= COLS + i, g.at = "store_row" => g.reg <= ROWS + j,
             ~torn => stray' = FALSE /\ Stands(cpu, g, cur), stray' \in BOOLEAN
      PROVE  ConsoleInv'
  <2>1. Right(g) = 0 /\ Below(g) = 0
    BY <1>6 DEF Right, Below, One
  <2>2. cur \in Near(Right(g) + Right(Cut), Below(g) + Below(Cut))
    <3>1. 0 + i = i /\ 0 + j = j
      OBVIOUS
    <3> QED
      BY <1>1, <1>4, <2>1, <3>1
  <2>3. FrameInv(cpu, g) /\ Bounded(g, i, j)
    BY <1>1, <1>2, <1>5, <1>6, PointsApart DEF FrameInv, Printing, Bounded
  <2>4. TextMoves(g, cur)
    BY <1>1, <1>2, <1>6, StoreMoves DEF Printing
  <2> QED
    BY <1>1, <1>2, <1>6, <2>2, <2>3, <2>4, PrintStepInv
<1>7. CASE RenderRow
  <2> DEFINE g == [F EXCEPT !.at = "load_col"]
  <2>1. F.at = "render_row" /\ frame' = [frame EXCEPT ![cpu] = g]
        /\ stray' = (stray \/ (F.job = "area" /\ ~InArea))
    BY <1>7 DEF RenderRow, AtPoint, Goto, F
  <2>2. g \in Frames /\ g.at = "load_col" /\ g.job = F.job /\ g.left = F.left /\ g.saved = F.saved
    BY <1>1 DEF Frames, PrintPoints
  <2> HIDE DEF g
  <2>3. ASSUME ~torn PROVE stray' = FALSE /\ Stands(cpu, g, cur)
    <3>1. F.job = "area" => InArea
      <4>1. SUFFICES ASSUME F.job = "area" PROVE InArea
        OBVIOUS
      <4>2. /\ Len(F.left) <= Area[cpu].len /\ F.reg = cur.col
            /\ cur.row = Area[cpu].row /\ cur.col = Area[cpu].col + Area[cpu].len - Len(F.left)
        BY <1>1, <1>5, <2>1, <2>3, <4>1 DEF Stands
      <4>3. Area[cpu].len \in Nat /\ Area[cpu].col \in Nat
        BY <1>5, <4>1, Sizes
      <4> QED
        BY <1>5, <4>2, <4>3 DEF InArea
    <3> QED
      BY <1>1, <2>1, <2>2, <2>3, <3>1 DEF Stands, SavePoints, PlacePoints
  <2>4. stray' \in BOOLEAN
    BY <1>1, <2>1
  <2> QED
    BY <1>6, <2>1, <2>2, <2>3, <2>4 DEF Printing
<1>10. CASE RenderCol
  <2> DEFINE n == cur.col
             g == [F EXCEPT !.reg = n, !.at = "render_row"]
  <2>1. F.at = "render" /\ frame' = [frame EXCEPT ![cpu] = g] /\ stray' = stray
    BY <1>3, <1>10 DEF RenderCol, AtPoint, F
  <2>2. n \in 0..(COLS + ROWS + 2)
    BY <1>4, Sizes DEF Near
  <2>4. /\ g \in Frames /\ g.at = "render_row" /\ g.job = F.job /\ g.left = F.left
        /\ g.saved = F.saved /\ g.reg = n
    BY <1>1, <2>2 DEF Frames, PrintPoints
  <2> HIDE DEF g
  <2>5. ~torn => Stands(cpu, g, cur)
    BY <1>1, <2>1, <2>4 DEF Stands, SavePoints, PlacePoints
  <2> QED
    BY <1>1, <1>6, <2>1, <2>4, <2>5 DEF Printing
<1>8. CASE LoadCol
  <2> DEFINE n == cur.col + 1
             g == [F EXCEPT !.reg = n, !.at = "store_col"]
  <2>1. F.at = "load_col" /\ frame' = [frame EXCEPT ![cpu] = g] /\ stray' = stray
    BY <1>3, <1>8 DEF LoadCol, AtPoint, F
  <2>2. n \in 0..(COLS + ROWS + 2) /\ n <= COLS + i
    BY <1>4, Sizes DEF Near
  <2>3. n = cur.col + 1
    OBVIOUS
  <2> HIDE DEF n
  <2>4. /\ g \in Frames /\ g.at = "store_col" /\ g.job = F.job /\ g.left = F.left
        /\ g.saved = F.saved /\ g.reg = n
    BY <1>1, <2>2 DEF Frames, PrintPoints
  <2> HIDE DEF g
  <2>5. ~torn => Stands(cpu, g, cur)
    BY <1>1, <2>1, <2>3, <2>4 DEF Stands, SavePoints, PlacePoints
  <2> QED
    BY <1>1, <1>6, <2>1, <2>2, <2>4, <2>5 DEF Printing
<1>9. CASE LoadRow
  <2> DEFINE n == cur.row + 1
             g == [F EXCEPT !.reg = n, !.at = "store_row"]
  <2>1. F.at = "load_row" /\ frame' = [frame EXCEPT ![cpu] = g] /\ stray' = stray
    BY <1>3, <1>9 DEF LoadRow, AtPoint, F
  <2>2. n \in 0..(COLS + ROWS + 2) /\ n <= ROWS + j
    BY <1>4, Sizes DEF Near
  <2> HIDE DEF n
  <2>4. /\ g \in Frames /\ g.at = "store_row" /\ g.job = F.job /\ g.left = F.left
        /\ g.saved = F.saved /\ g.reg = n
    BY <1>1, <2>2 DEF Frames, PrintPoints
  <2> HIDE DEF g
  <2>5. ~torn => Stands(cpu, g, cur)
    BY <1>1, <2>1, <2>4 DEF Stands, SavePoints, PlacePoints
  <2> QED
    BY <1>1, <1>6, <2>1, <2>2, <2>4, <2>5 DEF Printing
<1> QED
  BY <1>7, <1>8, <1>9, <1>10

\* Its stores to the column and the row, with the test of the bound after each.
LEMMA StoreInv ==
    ASSUME ConsoleInv, StoreCol \/ Wrap \/ StoreRow \/ Scroll
    PROVE  ConsoleInv'
<1>1. PICK i \in {0, 1}, j \in {0, 1} :
        /\ i = Right(Cut) /\ j = Below(Cut)
        /\ cur \in Near(Right(F) + i, Below(F) + j) /\ stray \in BOOLEAN
        /\ F \in Frames /\ FrameInv(cpu, F) /\ Bounded(F, i, j) /\ cur \in Cursor
        /\ Right(F) = One(F.at = "wrap") /\ Below(F) = One(F.at = "scroll")
        /\ ~torn => stray = FALSE /\ Stands(cpu, F, cur)
  BY Running
<1>2. UNCHANGED <<cpu, preempted, stray>> /\ F.at \in {"store_col", "wrap", "store_row", "scroll"}
  BY DEF StoreCol, Wrap, StoreRow, Scroll, AtPoint
<1>3. F.at \in Printing
  BY <1>2 DEF Printing
<1> DEFINE next == NextChar(F)
<1>4. /\ next \in Frames /\ FrameInv(cpu, next) /\ next.at = "next" /\ next.job = F.job
      /\ next.saved = F.saved /\ F.job # "none"
      /\ Len(F.left) \in Nat \ {0} /\ Len(next.left) = Len(F.left) - 1
      /\ Len(next.left) = 0 => next.left = <<>>
      /\ F.job = "area" => Head(F.left) = "glyph"
  BY <1>1, <1>3, NextCharInv
<1> HIDE DEF next
<1>5. F.job = "area" => /\ cpu \in AreaUsers /\ Area[cpu].len \in Nat /\ Area[cpu].col \in Nat
                        /\ Area[cpu].col + Area[cpu].len <= COLS
  BY <1>1, Sizes DEF FrameInv
<1>6. ASSUME NEW at \in {"wrap", "load_row", "scroll"}
      PROVE  LET g == [F EXCEPT !.at = at] IN
             /\ g \in Frames /\ g.at = at /\ g.job = F.job /\ g.left = F.left /\ g.saved = F.saved
             /\ FrameInv(cpu, g)
  <2> DEFINE g == [F EXCEPT !.at = at]
  <2>1. g \in Frames /\ g.at = at /\ g.job = F.job /\ g.left = F.left /\ g.saved = F.saved
    BY <1>1 DEF Frames, PrintPoints
  <2> HIDE DEF g
  <2>2. FrameInv(cpu, g)
    BY <1>1, <1>3, <1>4, <2>1 DEF FrameInv, Printing, Borrowing, SavePoints, PlacePoints, RestorePoints
  <2> QED
    BY <2>1, <2>2 DEF g
<1>7. ASSUME NEW g \in Frames, NEW c, frame' = [frame EXCEPT ![cpu] = g], Store(c), FrameInv(cpu, g),
             g.at \in {"next", "wrap", "load_row", "scroll"}, g.job = F.job, g.saved = F.saved,
             c \in Near(One(g.at = "wrap") + i, One(g.at = "scroll") + j),
             ~torn => Stands(cpu, g, c)
      PROVE  ConsoleInv'
  <2>1. c \in Near(Right(g) + Right(Cut), Below(g) + Below(Cut)) /\ Bounded(g, Right(Cut), Below(Cut))
    BY <1>1, <1>3, <1>7 DEF Right, Below, Bounded
  <2>3. c \in Cursor
    BY <1>1, <1>7, Sizes DEF Near, Cursor, One
  <2>2. TextMoves(g, c) /\ cur' = c
    BY <1>3, <1>7, <2>3, StoreMoves DEF Store, MoveText, Printing
  <2> QED
    BY <1>1, <1>2, <1>7, <2>1, <2>2, PrintStepInv
<1>8. /\ One(TRUE) = 1 /\ One(FALSE) = 0 /\ 0 + i = i /\ 0 + j = j
  BY DEF One
<1> COLS \in Nat \ {0} /\ ROWS \in Nat /\ ROWS > 2
  BY Sizes
<1>14. /\ F.at \notin {"wrap", "scroll"} => cur \in Near(i, j)
       /\ F.at = "wrap" => cur \in Near(1 + i, j)
       /\ F.at = "scroll" => cur \in Near(i, 1 + j)
  <2>1. CASE F.at = "wrap"
    BY <1>1, <1>8, <2>1
  <2>2. CASE F.at = "scroll"
    BY <1>1, <1>8, <2>2
  <2>3. CASE F.at \notin {"wrap", "scroll"}
    BY <1>1, <1>8, <2>3
  <2> QED
    BY <2>1, <2>2, <2>3
<1>15. F.reg \in Nat
  BY <1>1 DEF Frames
<1>9. CASE StoreCol
  <2> DEFINE c == [cur EXCEPT !.col = F.reg]
  <2>1. F.at = "store_col" /\ Store(c)
        /\ frame' = [frame EXCEPT ![cpu] = IF F.reg >= COLS THEN [F EXCEPT !.at = "wrap"] ELSE next]
    BY <1>9 DEF StoreCol, AtPoint, next
  <2>2. F.reg \in Nat /\ F.reg <= COLS + i /\ cur \in Near(i, j)
    BY <1>1, <1>14, <1>15, <2>1 DEF Bounded
  <2>3. c.col = F.reg /\ c.row = cur.row
    BY <1>1 DEF Cursor
  <2>4. c \in Near(1 + i, j) /\ (F.reg < COLS => c \in Near(i, j))
    BY <2>2 DEF Near
  <2> HIDE DEF c
  <2>5. ASSUME ~torn, F.job = "area"
        PROVE  /\ Len(F.left) <= Area[cpu].len /\ cur.row = Area[cpu].row
               /\ cur.col = Area[cpu].col + Area[cpu].len - Len(F.left) /\ F.reg = cur.col + 1
    BY <1>1, <1>4, <2>1, <2>5, EmptySeq DEF Stands, SavePoints, PlacePoints
  <2>6. CASE F.reg >= COLS
    <3> DEFINE g == [F EXCEPT !.at = "wrap"]
    <3>1. g \in Frames /\ g.at = "wrap" /\ g.job = F.job /\ g.left = F.left /\ g.saved = F.saved
          /\ FrameInv(cpu, g)
      BY <1>6
    <3>2. frame' = [frame EXCEPT ![cpu] = g]
      BY <2>1, <2>6
    <3> HIDE DEF g
    <3>3. ~torn => Stands(cpu, g, c)
      <4>1. SUFFICES ASSUME ~torn, F.job = "area" PROVE Len(F.left) = 1
        BY <3>1 DEF Stands, SavePoints, PlacePoints
      <4> QED
        <5>1. PICK n \in Nat \ {0}, k \in Nat, l \in Nat, x \in Nat :
                n = Len(F.left) /\ k = Area[cpu].col /\ l = Area[cpu].len /\ x = F.reg
          BY <1>4, <1>5, <1>15, <4>1
        <5>2. n <= l /\ k + l <= COLS /\ x = k + l - n + 1 /\ x >= COLS
          BY <1>5, <2>5, <2>6, <4>1, <5>1
        <5>3. n = 1
          BY <5>2
        <5> QED
          BY <5>1, <5>3
    <3> QED
      BY <1>7, <1>8, <2>1, <2>4, <3>1, <3>2, <3>3
  <2>7. CASE ~(F.reg >= COLS)
    <3>1. frame' = [frame EXCEPT ![cpu] = next] /\ c \in Near(i, j)
      <4>1. F.reg < COLS
        BY <1>15, <2>7
      <4> QED
        BY <2>1, <2>4, <2>7, <4>1
    <3>2. ~torn => Stands(cpu, next, c)
      <4>1. SUFFICES ASSUME ~torn, F.job = "area"
                     PROVE  /\ Len(next.left) <= Area[cpu].len /\ c.row = Area[cpu].row
                            /\ c.col = Area[cpu].col + Area[cpu].len - Len(next.left)
        BY <1>4 DEF Stands, SavePoints, PlacePoints
      <4> QED
        <5>1. PICK n \in Nat \ {0}, k \in Nat, l \in Nat :
                n = Len(F.left) /\ k = Area[cpu].col /\ l = Area[cpu].len
          BY <1>4, <1>5, <4>1
        <5>2. n <= l /\ cur.row = Area[cpu].row /\ c.col = k + l - n + 1 /\ c.row = cur.row
          BY <2>3, <2>5, <4>1, <5>1
        <5>3. Len(next.left) = n - 1
          BY <1>4, <5>1
        <5>4. n - 1 <= l /\ c.col = k + l - (n - 1)
          BY <5>2
        <5> QED
          BY <5>1, <5>2, <5>3, <5>4
    <3> QED
      BY <1>4, <1>7, <1>8, <2>1, <3>1, <3>2
  <2> QED
    BY <2>6, <2>7
<1>10. CASE Wrap
  <2> DEFINE c == [cur EXCEPT !.col = 0]
  <2>1. F.at = "wrap" /\ Store(c)
        /\ frame' = [frame EXCEPT ![cpu] = IF Head(F.left) = "return" THEN next
                                           ELSE [F EXCEPT !.at = "load_row"]]
    BY <1>10 DEF Wrap, AtPoint, next
  <2>2. c \in Near(i, j)
    BY <1>14, <2>1 DEF Near
  <2> HIDE DEF c
  <2>3. CASE Head(F.left) = "return"
    <3>1. frame' = [frame EXCEPT ![cpu] = next] /\ F.job # "area"
      BY <1>4, <2>1, <2>3
    <3>2. Stands(cpu, next, c)
      BY <1>4, <3>1 DEF Stands, SavePoints, PlacePoints
    <3> QED
      BY <1>4, <1>7, <1>8, <2>1, <2>2, <3>1, <3>2
  <2>4. CASE Head(F.left) # "return"
    <3> DEFINE g == [F EXCEPT !.at = "load_row"]
    <3>1. g \in Frames /\ g.at = "load_row" /\ g.job = F.job /\ g.left = F.left /\ g.saved = F.saved
          /\ FrameInv(cpu, g)
      BY <1>6
    <3>2. frame' = [frame EXCEPT ![cpu] = g]
      BY <2>1, <2>4
    <3> HIDE DEF g
    <3>3. ~torn => Stands(cpu, g, c)
      BY <1>1, <2>1, <3>1 DEF Stands, SavePoints, PlacePoints
    <3> QED
      BY <1>7, <1>8, <2>1, <2>2, <3>1, <3>2, <3>3
  <2> QED
    BY <2>3, <2>4
<1>11. ASSUME ~torn, F.at \in {"store_row", "scroll"}, NEW c PROVE Stands(cpu, next, c)
  <2>1. F.job = "area" => Len(F.left) = 1
    BY <1>1, <1>11 DEF Stands, SavePoints, PlacePoints
  <2> QED
    BY <1>4, <2>1 DEF Stands, SavePoints, PlacePoints
<1>12. CASE StoreRow
  <2> DEFINE c == [cur EXCEPT !.row = F.reg]
  <2>1. F.at = "store_row" /\ Store(c)
        /\ frame' = [frame EXCEPT ![cpu] = IF F.reg >= ROWS THEN [F EXCEPT !.at = "scroll"] ELSE next]
    BY <1>12 DEF StoreRow, AtPoint, next
  <2>2. F.reg \in Nat /\ F.reg <= ROWS + j /\ cur \in Near(i, j)
    BY <1>1, <1>14, <1>15, <2>1 DEF Bounded
  <2>3. c \in Near(i, 1 + j) /\ (F.reg < ROWS => c \in Near(i, j))
    BY <2>2 DEF Near
  <2> HIDE DEF c
  <2>4. CASE F.reg >= ROWS
    <3> DEFINE g == [F EXCEPT !.at = "scroll"]
    <3>1. g \in Frames /\ g.at = "scroll" /\ g.job = F.job /\ g.left = F.left /\ g.saved = F.saved
          /\ FrameInv(cpu, g)
      BY <1>6
    <3>2. frame' = [frame EXCEPT ![cpu] = g]
      BY <2>1, <2>4
    <3> HIDE DEF g
    <3>3. ~torn => Stands(cpu, g, c)
      BY <1>1, <2>1, <3>1 DEF Stands, SavePoints, PlacePoints
    <3> QED
      BY <1>7, <1>8, <2>1, <2>3, <3>1, <3>2, <3>3
  <2>5. CASE ~(F.reg >= ROWS)
    <3>1. frame' = [frame EXCEPT ![cpu] = next] /\ c \in Near(i, j)
      <4>1. F.reg < ROWS
        BY <1>15, <2>5
      <4> QED
        BY <2>1, <2>3, <2>5, <4>1
    <3> QED
      BY <1>4, <1>7, <1>8, <1>11, <2>1, <3>1
  <2> QED
    BY <2>4, <2>5
<1>13. CASE Scroll
  <2> DEFINE c == [cur EXCEPT !.row = ROWS - 1]
  <2>1. F.at = "scroll" /\ Store(c) /\ frame' = [frame EXCEPT ![cpu] = next]
    BY <1>13 DEF Scroll, AtPoint, next
  <2>2. c \in Near(i, j)
    BY <1>14, <2>1 DEF Near
  <2> HIDE DEF c
  <2> QED
    BY <1>4, <1>7, <1>8, <1>11, <2>1, <2>2
<1> QED
  BY <1>9, <1>10, <1>12, <1>13

\* A tick and task_yield: another task runs, with the print that is cut kept aside.
LEMMA SwitchInv == ASSUME ConsoleInv, TimerIrq \/ Yield PROVE ConsoleInv'
<1>1. UNCHANGED <<cur, frame, home, torn, stray>> /\ cpu' \in Tasks \ {cpu}
  BY DEF TimerIrq, Yield
<1>2. /\ cpu \in Tasks /\ frame \in [Tasks -> Frames] /\ preempted \in (Tasks \cup {NULL}) \ {cpu}
      /\ home \in Cursor /\ FrameInv(cpu, F) /\ NULL \notin Tasks
      /\ preempted # NULL => preempted \in Tasks /\ Cut = frame[preempted]
      /\ torn \in BOOLEAN /\ stray \in BOOLEAN /\ \A t \in Tasks : FrameInv(t, frame[t])
  BY BothPrints, NullAssumption DEF ConsoleInv, ConsoleTypes
<1>3. PICK i \in {0, 1}, j \in {0, 1} :
        /\ i = Right(Cut) /\ j = Below(Cut)
        /\ cur \in Near(Right(F) + i, Below(F) + j) /\ Found = FoundBy(F, cur) /\ Bounded(F, i, j)
  BY Running
<1>4. Bounded(Cut, 0, 0) /\ Right(NoPrint) = 0 /\ Below(NoPrint) = 0 /\ ~Lent(NoPrint)
      /\ Right(F) \in {0, 1} /\ Below(F) \in {0, 1} /\ Bounded(NoPrint, 0, 0)
  BY OriginNear DEF ConsoleInv, ConsoleTypes, Right, Below, One, NoPrint, Lent, Bounded
<1>5. /\ \A k \in Nat, l \in Nat : Bounded(NoPrint, k, l)
      /\ \A p, c : Stands(p, NoPrint, c)
      /\ \A c \in Cursor : FoundBy(NoPrint, c) = c
      /\ cur \in Cursor /\ Found \in Cursor
  <2>1. cur \in Cursor /\ F \in Frames
    BY BothPrints DEF ConsoleInv
  <2> QED
    BY <1>4, <2>1, OriginNear, HoldsNothing, FoundIsCursor DEF Bounded, Stands, NoPrint, Found
<1>6. ASSUME NEW f, NEW u, F' = f, Cut' = u, preempted' \in (Tasks \cup {NULL}) \ {cpu'},
             cur \in Near(Right(f) + Right(u), Below(f) + Below(u)),
             Bounded(f, Right(u), Below(u)), Bounded(u, 0, 0), TwoPrints',
             ~torn => /\ Stands(cpu', f, cur) /\ Stands(preempted', u, FoundBy(f, cur))
                      /\ FoundBy(u, FoundBy(f, cur)) = home
      PROVE  ConsoleInv'
  <2>1. ConsoleTypes' <=>
          /\ cur' \in Near(Right(F') + Right(Cut'), Below(F') + Below(Cut'))
          /\ home' \in Cursor
          /\ frame' \in [Tasks -> Frames] /\ \A t \in Tasks : FrameInv(t, frame'[t])
          /\ cpu' \in Tasks /\ preempted' \in (Tasks \cup {NULL}) \ {cpu'}
          /\ torn' \in BOOLEAN /\ stray' \in BOOLEAN
          /\ Bounded(F', Right(Cut'), Below(Cut')) /\ Bounded(Cut', 0, 0)
    BY DEF ConsoleTypes, Near, Cursor, Frames, Tasks, FrameInv, Bounded, Right, Below
  <2>2. ConsoleTypes'
    BY <1>1, <1>2, <1>6, <2>1
  <2>3. Found' = FoundBy(f, cur)
    BY <1>1, <1>6 DEF Found, FoundBy, NotHeld, SavePoints
  <2>4. Apart' <=>
          (~torn' => /\ ~stray'
                     /\ Stands(cpu', F', cur') /\ Stands(preempted', Cut', Found')
                     /\ FoundBy(Cut', Found') = home')
    BY DEF Apart, Stands, FoundBy, NotHeld, SavePoints, PlacePoints
  <2>5. ~torn => ~stray
    BY DEF ConsoleInv, Apart
  <2>6. Apart'
    BY <1>1, <1>6, <2>3, <2>4, <2>5
  <2> QED
    BY <1>6, <2>2, <2>6 DEF ConsoleInv
<1>7. ~torn => /\ Stands(cpu, F, cur) /\ Stands(preempted, Cut, Found)
               /\ FoundBy(Cut, Found) = home
  BY DEF ConsoleInv, Apart
<1>8. CASE TimerIrq
  <2>1. preempted = NULL /\ preempted' = cpu
    BY <1>8 DEF TimerIrq, IrqsArrive
  <2>2. Cut = NoPrint /\ i = 0 /\ j = 0
    BY <1>3, <1>4, <2>1 DEF Cut
  <2>3. F' = NoPrint /\ Cut' = F
    BY <1>1, <1>2, <2>1 DEF ConsoleInv, TwoPrints, F, Cut
  <2>4. TwoPrints'
    BY <1>1, <1>2, <2>1 DEF ConsoleInv, TwoPrints
  <2>5. cur \in Near(Right(NoPrint) + Right(F), Below(NoPrint) + Below(F))
    <3>1. Right(F) + 0 = 0 + Right(F) /\ Below(F) + 0 = 0 + Below(F)
      BY <1>4
    <3> QED
      BY <1>3, <1>4, <2>2, <3>1
  <2>6. Bounded(F, 0, 0) /\ Bounded(NoPrint, Right(F), Below(F)) /\ preempted' \in (Tasks \cup {NULL}) \ {cpu'}
    BY <1>1, <1>2, <1>3, <1>4, <1>5, <2>1, <2>2
  <2>7. ASSUME ~torn
        PROVE  /\ Stands(cpu', NoPrint, cur) /\ Stands(cpu, F, cur)
               /\ FoundBy(F, FoundBy(NoPrint, cur)) = home
    <3>1. Found = home
      BY <1>5, <1>7, <2>2, <2>7
    <3> QED
      BY <1>3, <1>5, <1>7, <2>7, <3>1
  <2> QED
    BY <1>5, <1>6, <2>1, <2>3, <2>4, <2>5, <2>6, <2>7
<1>9. CASE Yield
  <2>1. F = NoPrint /\ preempted' = IF cpu' = preempted THEN NULL ELSE preempted
    BY <1>2, <1>9 DEF Yield, AtPoint, FrameInv
  <2>2. Found = cur /\ cur \in Near(Right(Cut), Below(Cut))
    <3>1. 0 + i = i /\ 0 + j = j
      OBVIOUS
    <3> QED
      BY <1>3, <1>4, <1>5, <2>1, <3>1
  <2>3. CASE cpu' = preempted
    <3>1. preempted' = NULL /\ F' = Cut /\ Cut' = NoPrint
      BY <1>1, <1>2, <2>1, <2>3 DEF F, Cut
    <3>2. TwoPrints'
      <4>1. \A t \in Tasks \ {preempted} : frame[t] = NoPrint
        BY <2>1 DEF ConsoleInv, TwoPrints, F
      <4> QED
        BY <1>1, <2>3, <3>1, <4>1 DEF TwoPrints
    <3>3. cur \in Near(Right(Cut) + Right(NoPrint), Below(Cut) + Below(NoPrint))
      <4>1. i + 0 = i /\ j + 0 = j
        OBVIOUS
      <4> QED
        BY <1>3, <1>4, <2>2, <4>1
    <3>4. ASSUME ~torn
          PROVE  /\ Stands(cpu', Cut, cur) /\ Stands(preempted', NoPrint, FoundBy(Cut, cur))
                 /\ FoundBy(NoPrint, FoundBy(Cut, cur)) = home
      <4>1. FoundBy(Cut, cur) = home
        BY <1>7, <2>2, <3>4
      <4> QED
        BY <1>2, <1>5, <1>7, <2>2, <2>3, <3>4, <4>1 DEF ConsoleInv, ConsoleTypes
    <3>5. Bounded(Cut, Right(NoPrint), Below(NoPrint)) /\ Bounded(NoPrint, 0, 0)
          /\ preempted' \in (Tasks \cup {NULL}) \ {cpu'}
      BY <1>1, <1>2, <1>4, <1>5, <3>1
    <3> QED
      BY <1>4, <1>6, <3>1, <3>2, <3>3, <3>4, <3>5
  <2>4. CASE cpu' # preempted
    <3>1. preempted' = preempted /\ F' = NoPrint /\ Cut' = Cut
      BY <1>1, <1>2, <2>1, <2>4 DEF F, Cut, ConsoleInv, TwoPrints
    <3>2. TwoPrints'
      <4>1. \A t \in Tasks \ {preempted} : frame[t] = NoPrint
        BY <2>1 DEF ConsoleInv, TwoPrints, F
      <4> QED
        BY <1>1, <3>1, <4>1 DEF TwoPrints
    <3>3. cur \in Near(Right(NoPrint) + Right(Cut), Below(NoPrint) + Below(Cut))
      BY <1>3, <2>1
    <3>4. Bounded(NoPrint, Right(Cut), Below(Cut)) /\ preempted' \in (Tasks \cup {NULL}) \ {cpu'}
      BY <1>1, <1>2, <1>3, <1>5, <2>4, <3>1
    <3>5. ASSUME ~torn
          PROVE  /\ Stands(cpu', NoPrint, cur) /\ Stands(preempted', Cut, FoundBy(NoPrint, cur))
                 /\ FoundBy(Cut, FoundBy(NoPrint, cur)) = home
      <4>1. FoundBy(NoPrint, cur) = Found
        BY <1>5, <2>2
      <4> QED
        BY <1>5, <1>7, <3>1, <3>5, <4>1
    <3> QED
      BY <1>4, <1>6, <3>1, <3>2, <3>3, <3>4, <3>5
  <2> QED
    BY <2>3, <2>4
<1> QED
  BY <1>8, <1>9

\* The shell prints inside the keyboard interrupt, the button inside the mouse interrupt.
LEMMA ShellInv == ASSUME ConsoleInv, Typed \/ Command PROVE ConsoleInv'
<1>1. preempted = NULL /\ UNCHANGED <<frame, cpu, preempted, stray>>
  BY DEF Typed, Command, IrqsArrive
<1>2. PICK i \in {0, 1}, j \in {0, 1} :
        /\ i = Right(Cut) /\ j = Below(Cut)
        /\ cur \in Near(Right(F) + i, Below(F) + j)
        /\ Right(F) = One(F.at = "wrap") /\ Below(F) = One(F.at = "scroll")
        /\ F \in Frames
  BY Running
<1>3. Cut = NoPrint /\ i = 0 /\ j = 0 /\ ~Lent(NoPrint)
  BY <1>1, <1>2 DEF Cut, NoPrint, Right, Below, One, Lent
<1>4. PICK k \in {0, 1}, l \in {0, 1} : k = Right(F) /\ l = Below(F)
  BY <1>2 DEF One
<1>5. cur \in Near(k, l)
  <2>1. k + 0 = k /\ l + 0 = l
    OBVIOUS
  <2> QED
    BY <1>2, <1>3, <1>4, <2>1
<1>6. PICK c \in Near(k, l) : MoveText(c)
  <2>1. CASE Typed
    <3>1. PICK text \in {<<"glyph">>, <<"backspace">>, <<"newline", "glyph", "newline">>} :
            MoveText(Printed(cur, text))
      BY <2>1 DEF Typed
    <3>2. text \in Seq(Char)
      <4>1. "glyph" \in Char /\ "backspace" \in Char /\ "newline" \in Char
        BY DEF Char
      <4>2. ASSUME NEW S, NEW p \in S, NEW q \in S PROVE <<p>> \in Seq(S) /\ <<p, q, p>> \in Seq(S)
        OBVIOUS
      <4> HIDE DEF Char
      <4>3. <<"glyph">> \in Seq(Char) /\ <<"backspace">> \in Seq(Char)
            /\ <<"newline", "glyph", "newline">> \in Seq(Char)
        BY ONLY <4>1, <4>2
      <4> QED
        BY <4>3
    <3> QED
      BY <1>5, <3>1, <3>2, PrintedNear
  <2>2. CASE Command
    <3>1. PICK text \in Texts \cup {<<>>},
               from \in {Printed(cur, <<"newline">>)} \cup {[cur EXCEPT !.col = 0, !.row = r] : r \in {0, 2}} :
            MoveText(Printed([from EXCEPT !.fg = "shell", !.bg = "shell"], text \o Prompt))
      BY <2>2 DEF Command
    <3>2. <<"newline">> \in Seq(Char) /\ text \in Seq(Char) /\ text \o Prompt \in Seq(Char)
      <4>1. "newline" \in Char
        BY DEF Char
      <4>2. text \in Seq(Char) /\ Prompt \in Seq(Char)
        BY TextAssumption, EmptySeq
      <4>3. ASSUME NEW S, NEW x \in S, NEW p \in Seq(S), NEW q \in Seq(S)
            PROVE  <<x>> \in Seq(S) /\ p \o q \in Seq(S)
        OBVIOUS
      <4> QED
        BY <4>1, <4>2, <4>3
    <3>3. from \in Near(k, l)
      <4>1. Printed(cur, <<"newline">>) \in Near(k, l)
        BY <1>5, <3>2, PrintedNear
      <4>2. ASSUME NEW r \in {0, 2} PROVE [cur EXCEPT !.col = 0, !.row = r] \in Near(k, l)
        <5>1. r \in 0..(ROWS - 1 + l) /\ 0 \in 0..(COLS - 1 + k)
          BY Sizes
        <5> QED
          BY <1>5, <5>1 DEF Near
      <4> QED
        BY <4>1, <4>2
    <3>4. [from EXCEPT !.fg = "shell", !.bg = "shell"] \in Near(k, l)
      BY <3>3 DEF Near, Colors
    <3> QED
      BY <3>1, <3>2, <3>4, PrintedNear
  <2> QED
    BY <2>1, <2>2
<1>7. cur' = c /\ home' = c /\ torn' = (torn \/ Borrowed) /\ c \in Cursor
  BY <1>6, Sizes DEF MoveText, Near, Cursor
<1>8. F' = F /\ Cut' = NoPrint /\ TwoPrints'
  BY <1>1, <1>3 DEF F, Cut, ConsoleInv, TwoPrints
<1>9. ConsoleTypes'
  <2>1. ConsoleTypes' <=>
          /\ cur' \in Near(Right(F') + Right(Cut'), Below(F') + Below(Cut'))
          /\ home' \in Cursor
          /\ frame' \in [Tasks -> Frames] /\ \A t \in Tasks : FrameInv(t, frame'[t])
          /\ cpu' \in Tasks /\ preempted' \in (Tasks \cup {NULL}) \ {cpu'}
          /\ torn' \in BOOLEAN /\ stray' \in BOOLEAN
          /\ Bounded(F', Right(Cut'), Below(Cut')) /\ Bounded(Cut', 0, 0)
    BY DEF ConsoleTypes, Near, Cursor, Frames, Tasks, FrameInv, Bounded, Right, Below
  <2>2. k + 0 = k /\ l + 0 = l
    OBVIOUS
  <2>3. c \in Near(Right(F) + Right(NoPrint), Below(F) + Below(NoPrint))
    BY <1>2, <1>3, <1>4, <2>2
  <2>4. torn' \in BOOLEAN
    BY <1>7 DEF ConsoleInv, ConsoleTypes, Borrowed
  <2> QED
    BY <1>1, <1>3, <1>7, <1>8, <2>1, <2>3, <2>4 DEF ConsoleInv, ConsoleTypes
<1>10. Apart'
  <2>1. Apart' <=>
          (~torn' => /\ ~stray'
                     /\ Stands(cpu', F', cur') /\ Stands(preempted', Cut', Found')
                     /\ FoundBy(Cut', Found') = home')
    BY DEF Apart, Stands, FoundBy, NotHeld, SavePoints, PlacePoints
  <2>2. SUFFICES ASSUME ~torn' PROVE ~stray /\ Stands(cpu, F, c) /\ Found' = c
    <3>1. FoundBy(NoPrint, c) = c
      BY <1>3, <1>7, HoldsNothing
    <3>2. \A p, d : Stands(p, NoPrint, d)
      BY DEF Stands, NoPrint
    <3> QED
      BY <1>1, <1>3, <1>7, <1>8, <2>1, <3>1, <3>2
  <2>3. ~torn /\ ~Borrowed
    BY <1>7, <2>2
  <2>4. ~Lent(F)
    BY <2>3 DEF Borrowed, Lent, F, ConsoleInv, ConsoleTypes
  <2>5. Found' = c
    <3>1. Found' = FoundBy(F, c)
      BY <1>7, <1>8 DEF Found, FoundBy, NotHeld, SavePoints
    <3> QED
      BY <1>7, <2>4, <3>1, HoldsNothing
  <2>6. ~stray /\ Stands(cpu, F, cur)
    BY <2>3 DEF ConsoleInv, Apart
  <2>7. Stands(cpu, F, c)
    BY <2>4, <2>6 DEF Stands, Lent, PlacePoints
  <2> QED
    BY <2>5, <2>6, <2>7
<1> QED
  BY <1>8, <1>9, <1>10 DEF ConsoleInv

\* The console at the start.
LEMMA ConsoleStart == ASSUME ConsoleInit PROVE ConsoleInv
<1>1. /\ F = NoPrint /\ Cut = NoPrint /\ cpu = MainLoop /\ preempted = NULL /\ MainLoop \in Tasks
      /\ cur = Origin /\ home = cur /\ torn = FALSE /\ stray = FALSE
      /\ frame = [t \in Tasks |-> NoPrint]
  BY DEF ConsoleInit, F, Cut, Tasks
<1>2. Right(NoPrint) = 0 /\ Below(NoPrint) = 0 /\ ~Lent(NoPrint) /\ Bounded(NoPrint, 0, 0)
  BY OriginNear DEF Right, Below, One, Lent, Bounded, NoPrint
<1>3. cur \in Near(0, 0) /\ cur \in Cursor /\ 0 + 0 = 0
  BY <1>1, Sizes DEF Near, Cursor, Origin, Colors
<1>4. ConsoleTypes
  BY <1>1, <1>2, <1>3, NoPrintInv, NullAssumption DEF ConsoleTypes
<1>5. TwoPrints
  BY <1>1 DEF TwoPrints
<1>6. Apart
  <2>1. \A t, c : Stands(t, NoPrint, c)
    BY DEF Stands, NoPrint
  <2> QED
    BY <1>1, <1>2, <1>3, <2>1, HoldsNothing DEF Apart, Found
<1> QED
  BY <1>4, <1>5, <1>6 DEF ConsoleInv

\* Every step of every print, tick, yield and command keeps the invariant (fb_console.c).
THEOREM ConsoleInvariance == ConsoleSpec => []ConsoleInv
<1>1. ASSUME ConsoleInv, UNCHANGED consoleVars PROVE ConsoleInv'
  <2>1. ConsoleTypes'
    BY <1>1 DEF consoleVars, ConsoleInv, ConsoleTypes, Near, Cursor, Frames, Tasks, FrameInv, Bounded,
                Right, Below, F, Cut
  <2>2. TwoPrints' /\ Apart'
    BY <1>1 DEF consoleVars, ConsoleInv, TwoPrints, Apart, Stands, F, Cut, Found, FoundBy, NotHeld
  <2> QED
    BY <2>1, <2>2 DEF ConsoleInv
<1>2. ConsoleInv /\ [ConsoleNext]_consoleVars => ConsoleInv'
  BY <1>1, BeginInv, BorrowInv, DispatchInv, RenderInv, StoreInv, SwitchInv, ShellInv DEF ConsoleNext, PrintStep
<1> QED
  BY <1>2, ConsoleStart, PTL DEF ConsoleSpec

\* The cursor leaves the screen only inside con_putchar, and then by two at most, whatever
\* prints cut into each other (fb_console.c:50-66).
THEOREM ConsoleTyped == ConsoleSpec => []ConsoleTypeOK
<1>1. ConsoleInv => ConsoleTypeOK
  <2>1. SUFFICES ASSUME ConsoleInv PROVE ConsoleTypeOK
    OBVIOUS
  <2>2. /\ cur \in Cursor /\ home \in Cursor /\ frame \in [Tasks -> Frames] /\ cpu \in Tasks
        /\ preempted \in Tasks \cup {NULL} /\ torn \in BOOLEAN /\ stray \in BOOLEAN
        /\ cur \in Near(Right(F) + Right(Cut), Below(F) + Below(Cut))
        /\ preempted # NULL => preempted \in Tasks /\ Cut = frame[preempted]
    BY <2>1, BothPrints DEF ConsoleInv, ConsoleTypes
  <2>3. DOMAIN frame = Tasks /\ \A t \in Tasks : FrameOK(frame[t])
    BY <2>2 DEF FrameOK, Frames
  <2>4. ASSUME \A t \in Tasks : frame[t].at # "wrap" PROVE cur.col < COLS
    <3>1. Right(F) = 0 /\ Right(Cut) = 0
      BY <2>2, <2>4 DEF Right, One, F, Cut, NoPrint
    <3>2. cur.col \in 0..(COLS - 1 + (0 + 0))
      BY <2>2, <3>1 DEF Near
    <3> QED
      BY <3>2, Sizes
  <2>5. ASSUME \A t \in Tasks : frame[t].at # "scroll" PROVE cur.row < ROWS
    <3>1. Below(F) = 0 /\ Below(Cut) = 0
      BY <2>2, <2>5 DEF Below, One, F, Cut, NoPrint
    <3>2. cur.row \in 0..(ROWS - 1 + (0 + 0))
      BY <2>2, <3>1 DEF Near
    <3> QED
      BY <3>2, Sizes
  <2> QED
    BY <2>2, <2>3, <2>4, <2>5 DEF ConsoleTypeOK, OnScreen
<1> QED
  BY <1>1, ConsoleInvariance, PTL

\* Prints that cut into each other neither displace each other's text nor lose the shell's
\* cursor, as long as con_print does not run inside con_print_at, from its first load of
\* the cursor to its last store (fb_console.c:73-80).
THEOREM PrintsStayApart == ConsoleSpec => []PrintsApart
<1>1. ConsoleInv => PrintsApart
  <2>1. SUFFICES ASSUME ConsoleInv, ~torn, ~Borrowed PROVE cur = home
    BY DEF PrintsApart, AreaTextInPlace, CursorKept, ConsoleInv, ConsoleTypes, Apart
  <2>2. ~Lent(F) /\ ~Lent(Cut) /\ cur \in Cursor
    BY <2>1, BothPrints DEF Lent, Borrowed, F, Cut, NoPrint, ConsoleInv, ConsoleTypes
  <2>3. FoundBy(Cut, FoundBy(F, cur)) = cur
    BY <2>2, HoldsNothing
  <2> QED
    BY <2>1, <2>3 DEF ConsoleInv, Apart, Found
<1> QED
  BY <1>1, ConsoleInvariance, PTL

-----------------------------------------------------------------------------
\* Sequences of up to three, spelled out.
LEMMA OfOne == ASSUME NEW S, NEW q \in Seq(S), Len(q) = 1 PROVE q = <<q[1]>> /\ q[1] \in S
<1>1. q \in [1..1 -> S]
  BY LenProperties
<1> QED
  BY <1>1

\* The same of two.
LEMMA OfTwo ==
    ASSUME NEW S, NEW q \in Seq(S), Len(q) = 2
    PROVE  q = <<q[1], q[2]>> /\ q[1] \in S /\ q[2] \in S
<1>1. q \in [1..2 -> S]
  BY LenProperties
<1> QED
  BY <1>1

\* The same of three.
LEMMA OfThree ==
    ASSUME NEW S, NEW q \in Seq(S), Len(q) = 3
    PROVE  q = <<q[1], q[2], q[3]>> /\ q[1] \in S /\ q[2] \in S /\ q[3] \in S
<1>1. q \in [1..3 -> S]
  BY LenProperties
<1> QED
  BY <1>1

\* The parts of three.
LEMMA Parts ==
    ASSUME NEW S, NEW r \in Seq(S), Len(r) = 3
    PROVE  /\ SubSeq(r, 1, 3) = r /\ SubSeq(r, 2, 3) = <<r[2], r[3]>>
           /\ SubSeq(r, 3, 3) = <<r[3]>> /\ SubSeq(r, 4, 3) = <<>>
           /\ SubSeq(r, 1, 2) = <<r[1], r[2]>> /\ SubSeq(r, 1, 1) = <<r[1]>>
           /\ SubSeq(r, 1, 0) = <<>>
<1>0. r[1] \in S /\ r[2] \in S /\ r[3] \in S
  BY OfThree
<1>1. SubSeq(r, 2, 3) = <<r[2], r[3]>>
  <2>1. /\ SubSeq(r, 2, 3) \in Seq(S) /\ Len(SubSeq(r, 2, 3)) = 2
        /\ SubSeq(r, 2, 3)[1] = r[2] /\ SubSeq(r, 2, 3)[2] = r[3]
    BY <1>0, SubSeqProperties
  <2> QED
    BY <2>1, OfTwo
<1>2. SubSeq(r, 3, 3) = <<r[3]>>
  <2>1. SubSeq(r, 3, 3) \in Seq(S) /\ Len(SubSeq(r, 3, 3)) = 1 /\ SubSeq(r, 3, 3)[1] = r[3]
    BY <1>0, SubSeqProperties
  <2> QED
    BY <2>1, OfOne
<1>3. SubSeq(r, 1, 2) = <<r[1], r[2]>>
  <2>1. /\ SubSeq(r, 1, 2) \in Seq(S) /\ Len(SubSeq(r, 1, 2)) = 2
        /\ SubSeq(r, 1, 2)[1] = r[1] /\ SubSeq(r, 1, 2)[2] = r[2]
    BY <1>0, SubSeqProperties
  <2> QED
    BY <2>1, OfTwo
<1>4. SubSeq(r, 1, 1) = <<r[1]>>
  <2>1. SubSeq(r, 1, 1) \in Seq(S) /\ Len(SubSeq(r, 1, 1)) = 1 /\ SubSeq(r, 1, 1)[1] = r[1]
    BY <1>0, SubSeqProperties
  <2> QED
    BY <2>1, OfOne
<1> QED
  BY <1>1, <1>2, <1>3, <1>4

\* One more at the end.
LEMMA Grown ==
    ASSUME NEW S, NEW a \in S, NEW b \in S, NEW c \in S
    PROVE  Append(<<a>>, b) = <<a, b>> /\ Append(<<a, b>>, c) = <<a, b, c>>
<1>1. <<a>> \in Seq(S) /\ <<a, b>> \in Seq(S)
  OBVIOUS
<1>2. /\ Append(<<a>>, b) \in Seq(S) /\ Len(Append(<<a>>, b)) = 2
      /\ Append(<<a>>, b)[1] = a /\ Append(<<a>>, b)[2] = b
  BY <1>1
<1>3. /\ Append(<<a, b>>, c) \in Seq(S) /\ Len(Append(<<a, b>>, c)) = 3
      /\ Append(<<a, b>>, c)[1] = a /\ Append(<<a, b>>, c)[2] = b /\ Append(<<a, b>>, c)[3] = c
  BY <1>1
<1> QED
  BY <1>2, <1>3, OfTwo, OfThree

\* One less at the front.
LEMMA Popped ==
    ASSUME NEW s, NEW a, NEW b, NEW c
    PROVE  /\ s = <<a, b, c>> => Head(s) = a /\ Tail(s) = <<b, c>>
           /\ s = <<b, c>> => Head(s) = b /\ Tail(s) = <<c>>
           /\ s = <<c>> => Head(s) = c /\ Tail(s) = <<>>
<1>1. s = <<a, b, c>> => Head(s) = a /\ Tail(s) = <<b, c>>
  OBVIOUS
<1>2. s = <<b, c>> => Head(s) = b /\ Tail(s) = <<c>>
  OBVIOUS
<1>3. s = <<c>> => Head(s) = c /\ Tail(s) = <<>>
  OBVIOUS
<1> QED
  BY ONLY <1>1, <1>2, <1>3

-----------------------------------------------------------------------------
\* The mouse.  The cursor and what shows of it, between two steps of anyone.
CursorSet == [visible : BOOLEAN, saved : BOOLEAN, at : Position, bg : BOOLEAN]
Clean(s) ==
    /\ s.images \subseteq {s.cursor.at}
    /\ s.images # {} => s.cursor.saved
    /\ s.cursor.saved => s.cursor.visible /\ ~s.cursor.bg
SpriteOK(s) == s \in [cursor : CursorSet, images : SUBSET Position]

\* While kernel_main shows the cursor for the first time.
Showing == {"restore", "forget", "save", "mark", "paint"}
CursorInv ==
    ~raced =>
        /\ boot \notin Showing => Clean(Sprite) /\ (splash => ~cursor.visible)
        /\ boot = "test" /\ ~splash => cursor.visible
        /\ boot \in Showing => ~splash /\ cursor.visible
        /\ boot = "restore" => images \subseteq {cursor.at} /\ cursor.saved /\ ~cursor.bg
        /\ boot \in Showing \ {"restore"} => images = {}
        /\ boot \in {"save", "mark"} => ~cursor.saved
        /\ boot \in {"mark", "paint"} => ~cursor.bg
        /\ boot = "paint" => cursor.saved /\ cursor.at = local.at

\* The button, and what kernel_main has loaded of it.
ButtonInv ==
    /\ button.pressed <=> pressed_id
    /\ pressed_id => prev_left /\ button.active
    /\ prev_left = mouse_left
    /\ button.active <=> boot \in {"bevel", "face", "up"}
    /\ raced \/ button.look = "none" \/ (button.look = "down" <=> button.pressed)
    /\ boot = "face" /\ ~raced => local.pressed = button.pressed

\* Where the device and the handler are in a report.
Sent ==
    \/ packet = <<>> /\ sending = <<>>
    \/ packet = <<>> /\ sending = report
    \/ packet = <<report[1]>> /\ sending = <<report[2], report[3]>>
    \/ packet = <<report[1], report[2]>> /\ sending = <<report[3]>>
DeviceInv ==
    /\ ~lost => /\ sending # <<>> => report \in Reports
                /\ Sent
                /\ mouse_left = accepted
    /\ lost => report = <<>>

MouseTypes ==
    /\ mouse \in Position
    /\ packet \in Seq(0..255) /\ Len(packet) <= 2
    /\ sending = <<>> \/ \E r \in Reports : sending \in {r, <<r[2], r[3]>>, <<r[3]>>}
    /\ {mouse_left, prev_left, accepted, pressed_id, splash, lost, raced} \subseteq BOOLEAN
    /\ SpriteOK(Sprite)
    /\ button \in [active : BOOLEAN, pressed : BOOLEAN, look : {"none", "up", "down"}]
    /\ boot \in BootPoints
    /\ local \in [at : Position, pressed : BOOLEAN]
MouseInv == MouseTypes /\ CursorInv /\ ButtonInv /\ DeviceInv

\* A cursor that is moved, shown, hidden or drawn over stays the only one.
LEMMA RedrawnClean ==
    ASSUME NEW s, SpriteOK(s), NEW p \in Position
    PROVE  /\ SpriteOK(Redrawn(s, p)) /\ Redrawn(s, p).cursor.visible = s.cursor.visible
           /\ Clean(s) => Clean(Redrawn(s, p))
<1>1. CASE ~s.cursor.visible
  BY <1>1 DEF Redrawn
<1>2. CASE s.cursor.visible
  <2> DEFINE r == Restored(s)
  <2>1. SpriteOK(r) /\ r.cursor.visible
    BY <1>2 DEF Restored, SpriteOK, CursorSet
  <2>2. Clean(s) => r.images = {}
    BY <1>2 DEF Restored, Clean
  <2> HIDE DEF r
  <2>3. Redrawn(s, p) = SavedAndDrawn(r, p)
    BY <1>2 DEF Redrawn, r
  <2> DEFINE q == SavedAndDrawn(r, p)
  <2>4. SpriteOK(q) /\ q.images = r.images \cup {p}
        /\ q.cursor.visible /\ q.cursor.saved /\ q.cursor.at = p /\ (q.cursor.bg <=> p \in r.images)
    <3> DEFINE Q(b) == [cursor |-> [r.cursor EXCEPT !.saved = TRUE, !.at = p, !.bg = b],
                        images |-> r.images \cup {p}]
    <3>1. ASSUME NEW b \in BOOLEAN
          PROVE  /\ SpriteOK(Q(b)) /\ Q(b).images = r.images \cup {p} /\ Q(b).cursor.visible
                 /\ Q(b).cursor.saved /\ Q(b).cursor.at = p /\ (Q(b).cursor.bg <=> b)
      BY <2>1 DEF CursorSet, SpriteOK
    <3>3. CASE p \in r.images
      <4>1. q = Q(TRUE)
        BY <3>3 DEF SavedAndDrawn
      <4> QED
        BY ONLY <3>1, <3>3, <4>1
    <3>4. CASE p \notin r.images
      <4>0. (p \in r.images) = FALSE
        BY <3>4
      <4>1. q = Q(FALSE)
        BY <4>0 DEF SavedAndDrawn
      <4> QED
        BY ONLY <3>1, <3>4, <4>1
    <3> QED
      BY <3>3, <3>4
  <2> HIDE DEF q
  <2>5. Redrawn(s, p) = q
    BY <2>3 DEF q
  <2> QED
    BY <1>2, <2>1, <2>2, <2>4, <2>5 DEF Clean
<1> QED
  BY <1>1, <1>2

\* It is shown where the mouse is.
LEMMA ShownClean ==
    ASSUME NEW s, SpriteOK(s), NEW p \in Position
    PROVE  /\ SpriteOK(Shown(s, p)) /\ Shown(s, p).cursor.visible
           /\ Clean(s) => Clean(Shown(s, p))
<1> DEFINE t == [s EXCEPT !.cursor.visible = TRUE]
<1>1. Shown(s, p) = Redrawn(t, p)
  BY DEF Shown
<1>2. SpriteOK(t) /\ t.cursor.visible /\ t.images = s.images
      /\ t.cursor.saved = s.cursor.saved /\ t.cursor.at = s.cursor.at /\ t.cursor.bg = s.cursor.bg
  BY DEF SpriteOK, CursorSet
<1> HIDE DEF t
<1>3. Clean(s) => Clean(t)
  BY <1>2 DEF Clean
<1> QED
  BY <1>1, <1>2, <1>3, RedrawnClean

\* Hidden, it is gone.
LEMMA HiddenClean ==
    ASSUME NEW s, SpriteOK(s)
    PROVE  SpriteOK(Hidden(s)) /\ ~Hidden(s).cursor.visible /\ (Clean(s) => Clean(Hidden(s)))
<1> DEFINE r == Restored(s)
<1>1. SpriteOK(r) /\ ~r.cursor.saved /\ (Clean(s) => r.images = {})
  <2>1. CASE s.cursor.saved
    BY <2>1 DEF Restored, SpriteOK, CursorSet, Clean
  <2>2. CASE ~s.cursor.saved
    BY <2>2 DEF Restored, Clean
  <2> QED
    BY <2>1, <2>2
<1> HIDE DEF r
<1> DEFINE h == [r EXCEPT !.cursor.visible = FALSE]
<1>2. Hidden(s) = h
  BY DEF Hidden, r
<1>3. SpriteOK(h) /\ ~h.cursor.visible /\ h.cursor.saved = r.cursor.saved /\ h.images = r.images
  BY <1>1 DEF SpriteOK, CursorSet
<1> HIDE DEF h
<1> QED
  BY <1>1, <1>2, <1>3 DEF Clean

\* What is drawn over the screen can only take images away.
LEMMA CoveredClean ==
    ASSUME NEW s, SpriteOK(s), NEW S
    PROVE  /\ SpriteOK(Covered(s, S)) /\ Covered(s, S).cursor = s.cursor
           /\ Clean(s) => Clean(Covered(s, S))
BY DEF Covered, SpriteOK, CursorSet, Clean

-----------------------------------------------------------------------------
\* The bytes of a report.
LEMMA ReportBytes ==
    ASSUME NEW r \in Reports
    PROVE  /\ r \in Seq(0..255) /\ Len(r) = 3 /\ r[1] \in 0..255 /\ r[2] \in 0..255 /\ r[3] \in 0..255
           /\ r = <<r[1], r[2], r[3]>> /\ r # <<>> /\ Bit(r[1], 3)
<1>1. r \in Seq(0..255) /\ Len(r) = 3 /\ (r[1] \div 8) % 2 = 1
  BY ReportAssumption
<1>2. r[1] \in 0..255 /\ r[2] \in 0..255 /\ r[3] \in 0..255 /\ r = <<r[1], r[2], r[3]>>
  BY <1>1, OfThree
<1>3. r # <<>>
  BY <1>1
<1>4. 2^3 = 8
  OBVIOUS
<1> QED
  BY <1>1, <1>2, <1>3, <1>4 DEF Bit

\* The pointer is kept on the screen.
LEMMA StaysOnScreen ==
    ASSUME MouseTypes, NEW p, p[1] \in 0..255, p[2] \in 0..255, p[3] \in 0..255
    PROVE  MovedTo(p) \in Position
<1>1. ASSUME NEW n \in Int, NEW high \in Nat PROVE Clamp(n, high) \in 0..high
  BY <1>1 DEF Clamp
<1>2. Width - 1 \in Nat /\ Height - 1 \in Nat /\ mouse[1] \in Int /\ mouse[2] \in Int
  BY ScreenAssumption DEF MouseTypes, Position
<1>3. \A b : Delta(p[2], b) \in Int /\ Delta(p[3], b) \in Int
  BY DEF Delta
<1> DEFINE x == mouse[1] + Delta(p[2], Bit(p[1], 4))
           y == mouse[2] - Delta(p[3], Bit(p[1], 5))
<1>4. x \in Int /\ y \in Int
  BY <1>2, <1>3
<1>5. MovedTo(p) = <<Clamp(x, Width - 1), Clamp(y, Height - 1)>>
  BY DEF MovedTo
<1> HIDE DEF x, y
<1> QED
  BY <1>1, <1>2, <1>4, <1>5 DEF Position

\* A byte arrives: it is one, and as long as none was lost it is the next of its report.
LEMMA ByteArrives ==
    ASSUME MouseInv, Deliver
    PROVE  /\ Received \in 0..255
           /\ sending' = <<>> \/ \E r \in Reports : sending' \in {r, <<r[2], r[3]>>, <<r[3]>>}
           /\ ~lost => /\ report \in Reports
                       /\ packet = <<>> => Received = report[1] /\ sending' = <<report[2], report[3]>>
                       /\ Len(packet) = 1 => /\ packet = <<report[1]>> /\ Received = report[2]
                                             /\ sending' = <<report[3]>>
                       /\ Len(packet) = 2 => /\ packet = <<report[1], report[2]>>
                                             /\ Received = report[3] /\ sending' = <<>>
<1>1. sending # <<>> /\ sending' = Tail(sending) /\ Received = Head(sending)
  BY DEF Deliver, Received
<1>2. PICK r \in Reports : sending \in {r, <<r[2], r[3]>>, <<r[3]>>}
  BY <1>1 DEF MouseInv, MouseTypes
<1>3. \/ Received = r[1] /\ sending' = <<r[2], r[3]>>
      \/ Received = r[2] /\ sending' = <<r[3]>>
      \/ Received = r[3] /\ sending' = <<>>
  <2>1. PICK a, b, c : a = r[1] /\ b = r[2] /\ c = r[3]
    OBVIOUS
  <2>2. r = <<a, b, c>>
    BY <2>1, ReportBytes
  <2> QED
    <3>1. sending \in {<<a, b, c>>, <<b, c>>, <<c>>}
      BY <1>2, <2>1, <2>2
    <3>2. \/ Received = a /\ sending' = <<b, c>>
          \/ Received = b /\ sending' = <<c>>
          \/ Received = c /\ sending' = <<>>
      BY ONLY <1>1, <3>1, Popped
    <3> QED
      BY <2>1, <3>2
<1>4. Received \in 0..255
  BY <1>3, ReportBytes
<1>5. ASSUME ~lost
      PROVE  /\ report \in Reports
             /\ packet = <<>> => Received = report[1] /\ sending' = <<report[2], report[3]>>
             /\ Len(packet) = 1 => /\ packet = <<report[1]>> /\ Received = report[2]
                                   /\ sending' = <<report[3]>>
             /\ Len(packet) = 2 => /\ packet = <<report[1], report[2]>>
                                   /\ Received = report[3] /\ sending' = <<>>
  <2>1. report \in Reports /\ Sent
    BY <1>1, <1>5 DEF MouseInv, DeviceInv
  <2>2. report = <<report[1], report[2], report[3]>>
    BY ONLY <2>1, ReportBytes
  <2>3. CASE packet = <<>> /\ sending = report
    <3>1. sending = <<report[1], report[2], report[3]>>
      BY <2>2, <2>3
    <3>2. Received = report[1] /\ sending' = <<report[2], report[3]>>
      BY ONLY <1>1, <3>1, Popped
    <3> QED
      BY <2>1, <2>3, <3>2
  <2>4. CASE packet = <<report[1]>> /\ sending = <<report[2], report[3]>>
    BY <1>1, <2>1, <2>4, Popped
  <2>5. CASE packet = <<report[1], report[2]>> /\ sending = <<report[3]>>
    BY <1>1, <2>1, <2>5, Popped
  <2> QED
    BY <1>1, <2>1, <2>3, <2>4, <2>5 DEF Sent
<1> QED
  BY <1>3, <1>4, <1>5

\* The device sends, or a byte is lost.
LEMMA DeviceKept == ASSUME MouseInv, SendReport \/ LoseByte PROVE MouseInv'
<1>1. UNCHANGED <<packet, mouse, mouse_left, prev_left, cursor, images, button, pressed_id,
                  splash, boot, local, raced>>
  BY DEF SendReport, LoseByte
<1>2. CursorInv' /\ ButtonInv'
  BY <1>1 DEF MouseInv, CursorInv, ButtonInv, Sprite, Clean
<1>3. CASE SendReport
  <2>1. sending = <<>> /\ sending' \in Reports /\ lost' = lost /\ accepted' = accepted
        /\ report' = IF lost THEN <<>> ELSE sending'
    BY <1>3 DEF SendReport
  <2>2. DeviceInv'
    <3>1. ~lost => packet = <<>>
      BY <2>1, ReportBytes DEF MouseInv, DeviceInv, Sent
    <3> QED
      BY <1>1, <2>1, <3>1 DEF MouseInv, DeviceInv, Sent
  <2>3. MouseTypes'
    BY <1>1, <2>1 DEF MouseInv, MouseTypes, Sprite
  <2> QED
    BY <1>2, <2>2, <2>3 DEF MouseInv
<1>4. CASE LoseByte
  <2>1. sending # <<>> /\ sending' = Tail(sending) /\ lost' /\ report' = <<>> /\ accepted' = FALSE
        /\ lost' = TRUE
    BY <1>4 DEF LoseByte
  <2>2. PICK r \in Reports : sending \in {r, <<r[2], r[3]>>, <<r[3]>>}
    BY <2>1 DEF MouseInv, MouseTypes
  <2>3. sending' \in {<<r[2], r[3]>>, <<r[3]>>, <<>>}
    <3>1. PICK a, b, c : a = r[1] /\ b = r[2] /\ c = r[3]
      OBVIOUS
    <3>2. r = <<a, b, c>>
      BY <3>1, ReportBytes
    <3> QED
      <4>1. sending \in {<<a, b, c>>, <<b, c>>, <<c>>}
        BY <2>2, <3>1, <3>2
      <4>2. sending' \in {<<b, c>>, <<c>>, <<>>}
        BY ONLY <2>1, <4>1, Popped
      <4> QED
        BY <3>1, <4>2
  <2>4. sending' = <<>> \/ \E q \in Reports : sending' \in {q, <<q[2], q[3]>>, <<q[3]>>}
    BY <2>3
  <2>5. MouseTypes'
    BY <1>1, <2>1, <2>4 DEF MouseInv, MouseTypes, Sprite
  <2> QED
    BY <1>2, <2>1, <2>5 DEF MouseInv, DeviceInv
<1> QED
  BY <1>3, <1>4

\* What the handler keeps does not bear on the cursor or the button.
LEMMA QuietKept ==
    ASSUME MouseInv, Deliver, Quiet
    PROVE  CursorInv' /\ ButtonInv'
BY DEF Deliver, Quiet, MouseInv, CursorInv, ButtonInv, Sprite, Clean

\* mouse_handler with a byte that ends no report, or ends one with an overflow.
LEMMA CollectKept == ASSUME MouseInv, Ignore \/ Collect \/ Overflow PROVE MouseInv'
<1>1. Deliver /\ Quiet /\ accepted' = accepted
  BY DEF Ignore, Collect, Overflow
<1>2. UNCHANGED <<splash, boot, local, report, lost, mouse, mouse_left, prev_left, cursor, images,
                  button, pressed_id, raced>> /\ sending # <<>>
  BY <1>1 DEF Deliver, Quiet
<1>3. /\ Received \in 0..255
      /\ sending' = <<>> \/ \E r \in Reports : sending' \in {r, <<r[2], r[3]>>, <<r[3]>>}
  BY <1>1, ByteArrives
<1>4. packet \in Seq(0..255) /\ Len(packet) <= 2
  BY DEF MouseInv, MouseTypes
<1>5. packet' \in Seq(0..255) /\ Len(packet') <= 2
  <2>1. packet' = packet \/ packet' = <<>> \/ (Len(packet) # 2 /\ packet' = Append(packet, Received))
    BY DEF Ignore, Collect, Overflow, Whole, NoPacket
  <2>2. Append(packet, Received) \in Seq(0..255) /\ Len(Append(packet, Received)) = Len(packet) + 1
    BY <1>3, <1>4, AppendProperties
  <2>3. Len(packet) \in Nat
    BY <1>4, LenProperties
  <2>4. CASE packet' = packet
    BY <1>4, <2>4
  <2>5. CASE packet' = <<>>
    <3>1. <<>> \in Seq(0..255) /\ Len(<<>>) <= 2
      OBVIOUS
    <3> QED
      BY <2>5, <3>1
  <2>6. CASE Len(packet) # 2 /\ packet' = Append(packet, Received)
    <3>1. Len(packet) + 1 <= 2
      <4>1. PICK k \in Nat : k = Len(packet)
        BY <2>3
      <4>2. k <= 2 /\ k # 2
        BY <1>4, <2>6, <4>1
      <4>3. k + 1 <= 2
        BY ONLY <4>1, <4>2
      <4> QED
        BY <4>1, <4>3
    <3> QED
      BY <2>2, <2>6, <3>1
  <2> QED
    BY <2>1, <2>4, <2>5, <2>6
<1>6. MouseTypes'
  BY <1>1, <1>2, <1>3, <1>5 DEF MouseInv, MouseTypes, Sprite
<1>7. ASSUME ~lost PROVE report \in Reports /\ Sent'
  <2>1. report \in Reports /\ Bit(report[1], 3) /\ report[1] \in 0..255 /\ report[2] \in 0..255
        /\ report[3] \in 0..255
    BY <1>1, <1>7, ByteArrives, ReportBytes
  <2>2. CASE packet = <<>>
    <3>1. Received = report[1] /\ sending' = <<report[2], report[3]>> /\ Len(packet) = 0
      BY <1>1, <1>7, <2>2, ByteArrives
    <3>2. packet' = <<report[1]>>
      BY <2>1, <2>2, <3>1 DEF Ignore, Collect, Overflow, Whole
    <3> QED
      BY <1>2, <2>1, <3>1, <3>2 DEF Sent
  <2>3. CASE Len(packet) = 1
    <3>1. packet = <<report[1]>> /\ Received = report[2] /\ sending' = <<report[3]>>
      BY <1>1, <1>7, <2>3, ByteArrives
    <3>2. packet' = Append(<<report[1]>>, report[2])
      BY <2>3, <3>1 DEF Ignore, Collect, Overflow, Whole
    <3>3. packet' = <<report[1], report[2]>>
      BY <2>1, <3>2, Grown
    <3> QED
      BY <1>2, <2>1, <3>1, <3>3 DEF Sent
  <2>4. CASE Len(packet) = 2
    <3>1. sending' = <<>> /\ packet # <<>>
      BY <1>1, <1>7, <2>4, ByteArrives
    <3>2. packet' = <<>>
      BY <2>4, <3>1 DEF Ignore, Collect, Overflow, Whole, NoPacket
    <3> QED
      BY <2>1, <3>1, <3>2 DEF Sent
  <2>5. packet = <<>> \/ Len(packet) \in {1, 2}
    <3>1. Len(packet) \in Nat /\ (Len(packet) = 0 => packet = <<>>)
      BY <1>4, LenProperties, EmptySeq
    <3>2. PICK k \in Nat : k = Len(packet)
      BY <3>1
    <3>3. k <= 2
      BY <1>4, <3>2
    <3>4. k = 0 \/ k \in {1, 2}
      BY ONLY <3>2, <3>3
    <3> QED
      BY <3>1, <3>2, <3>4
  <2> QED
    BY <2>2, <2>3, <2>4, <2>5
<1>8. DeviceInv'
  BY <1>1, <1>2, <1>7 DEF MouseInv, DeviceInv
<1> QED
  BY <1>1, <1>6, <1>8, QuietKept DEF MouseInv

\* mouse_handler with a whole report: position, cursor and button.
LEMMA ReportKept == ASSUME MouseInv, Report PROVE MouseInv'
<1>1. Deliver /\ Whole /\ packet' = <<>> /\ mouse' = MovedTo(Full)
      /\ UNCHANGED <<splash, boot, local, report, lost>> /\ raced' = (raced \/ Racy)
  BY DEF Report, Deliver, NoPacket
<1>2. PICK left \in BOOLEAN : left = Bit(Full[1], 0)
  BY DEF Bit
<1> DEFINE s == Redrawn(Sprite, mouse')
<1>3. /\ mouse_left' = left /\ prev_left' = left /\ accepted' = (~lost /\ Bit(report[1], 0))
      /\ \/ /\ Press(mouse', left)
            /\ button' = Drawn(TRUE) /\ pressed_id' = TRUE
            /\ SetSprite(Covered(s, ButtonArea))
         \/ /\ Release(left) /\ pressed_id /\ button.active
            /\ button' = LetGo(mouse') /\ pressed_id' = FALSE
            /\ SetSprite(Covered(s, ButtonArea))
         \/ /\ ~Press(mouse', left) /\ ~(Release(left) /\ pressed_id /\ button.active)
            /\ button' = button
            /\ pressed_id' = (pressed_id /\ ~Release(left))
            /\ SetSprite(s)
  BY <1>2 DEF Report
<1>4. Len(packet) = 2 /\ packet \in Seq(0..255) /\ Received \in 0..255
  BY <1>1, ByteArrives DEF Whole, MouseInv, MouseTypes
<1>5. Full = <<packet[1], packet[2], Received>> /\ Full[1] = packet[1]
      /\ Full[1] \in 0..255 /\ Full[2] \in 0..255 /\ Full[3] \in 0..255
  <2>1. packet = <<packet[1], packet[2]>> /\ packet[1] \in 0..255 /\ packet[2] \in 0..255
    BY <1>4, OfTwo
  <2>2. Full = <<packet[1], packet[2], Received>>
    BY <1>4, <2>1, Grown DEF Full
  <2> QED
    BY <1>4, <2>1, <2>2
<1>6. mouse' \in Position
  BY <1>1, <1>5, StaysOnScreen DEF MouseInv
<1>7. SpriteOK(Sprite)
  BY DEF MouseInv, MouseTypes
<1>8. SpriteOK(s) /\ s.cursor.visible = cursor.visible /\ (Clean(Sprite) => Clean(s))
  BY <1>6, <1>7, RedrawnClean DEF Sprite
<1> HIDE DEF s
<1>9. /\ SpriteOK(Sprite') /\ cursor'.visible = cursor.visible
      /\ Clean(Sprite) => Clean(Sprite')
  <2>1. \/ Sprite' = Covered(s, ButtonArea) /\ cursor' = Covered(s, ButtonArea).cursor
        \/ Sprite' = s /\ cursor' = s.cursor
    <3>1. SetSprite(Covered(s, ButtonArea)) \/ SetSprite(s)
      BY <1>3
    <3>2. \A t : SpriteOK(t) /\ SetSprite(t) => Sprite' = t /\ cursor' = t.cursor
      BY DEF SetSprite, Sprite, SpriteOK
    <3> QED
      BY <1>8, <3>1, <3>2, CoveredClean
  <2>2. SpriteOK(Covered(s, ButtonArea)) /\ Covered(s, ButtonArea).cursor = s.cursor
        /\ (Clean(s) => Clean(Covered(s, ButtonArea)))
    BY <1>8, CoveredClean
  <2> QED
    BY <1>8, <2>1, <2>2
<1>10. CursorInv'
  <2>1. SUFFICES ASSUME ~raced' PROVE CursorInv'
    BY DEF CursorInv
  <2>2. ~raced /\ boot \notin Showing
    BY <1>1, <2>1 DEF Racy, Showing
  <2> QED
    BY <1>1, <1>9, <2>2 DEF MouseInv, CursorInv, Showing
<1>11. ButtonInv' /\ button' \in [active : BOOLEAN, pressed : BOOLEAN, look : {"none", "up", "down"}]
       /\ pressed_id' \in BOOLEAN
  <2>1. button \in [active : BOOLEAN, pressed : BOOLEAN, look : {"none", "up", "down"}]
        /\ pressed_id \in BOOLEAN /\ prev_left \in BOOLEAN
    BY DEF MouseInv, MouseTypes
  <2>2. CASE button' = button /\ pressed_id' = (pressed_id /\ ~Release(left))
             /\ ~(Release(left) /\ pressed_id /\ button.active)
    BY <1>1, <1>3, <2>1, <2>2 DEF MouseInv, ButtonInv, Release, Racy
  <2>3. CASE Press(mouse', left) /\ button' = Drawn(TRUE) /\ pressed_id' = TRUE
    BY <1>1, <1>3, <2>1, <2>3 DEF MouseInv, ButtonInv, Press, Drawn, Racy
  <2>4. CASE button.active /\ button' = LetGo(mouse') /\ pressed_id' = FALSE
    BY <1>1, <1>3, <2>1, <2>4 DEF MouseInv, ButtonInv, LetGo, Drawn, Racy
  <2> QED
    BY <1>3, <2>2, <2>3, <2>4
<1>12. DeviceInv'
  <2>1. ASSUME ~lost PROVE report \in Reports /\ Sent' /\ mouse_left' = accepted'
    <3>1. report \in Reports /\ packet = <<report[1], report[2]>> /\ sending' = <<>>
      BY <1>1, <1>4, <2>1, ByteArrives
    <3>2. Full[1] = report[1]
      BY <1>5, <3>1
    <3> QED
      BY <1>1, <1>2, <1>3, <2>1, <3>1, <3>2 DEF Sent
  <2> QED
    BY <1>1, <2>1 DEF MouseInv, DeviceInv
<1>13. MouseTypes'
  <2>1. sending' = <<>> \/ \E r \in Reports : sending' \in {r, <<r[2], r[3]>>, <<r[3]>>}
    BY <1>1, ByteArrives
  <2>2. raced' \in BOOLEAN /\ accepted' \in BOOLEAN /\ mouse_left' \in BOOLEAN /\ prev_left' \in BOOLEAN
    BY <1>1, <1>2, <1>3 DEF MouseInv, MouseTypes
  <2> QED
    BY <1>1, <1>6, <1>9, <1>11, <2>1, <2>2 DEF MouseInv, MouseTypes
<1> QED
  BY <1>10, <1>11, <1>12, <1>13 DEF MouseInv

\* The keyboard's handler wipes the screen, with or without the cursor.
LEMMA KeyKept == ASSUME MouseInv, ShowSplash \/ Clear \/ ExitSplash PROVE MouseInv'
<1>1. UNCHANGED <<deviceVars, packet, mouse, mouse_left, prev_left, pressed_id, boot, local, accepted>>
      /\ raced' = (raced \/ Racy)
  BY DEF ShowSplash, Clear, ExitSplash, KeyIrq
<1>2. SpriteOK(Sprite) /\ mouse \in Position /\ splash \in BOOLEAN
  BY DEF MouseInv, MouseTypes
<1>3. /\ SpriteOK(Sprite')
      /\ Clean(Sprite) => Clean(Sprite')
      /\ splash' \in BOOLEAN
      /\ Clean(Sprite) /\ (splash => ~cursor.visible) => (splash' => ~cursor'.visible)
      /\ boot = "test" /\ (boot = "test" /\ ~splash => cursor.visible) /\ ~splash' => cursor'.visible
  <2>1. \A t : SpriteOK(t) /\ SetSprite(t) => Sprite' = t /\ cursor' = t.cursor
    BY DEF SetSprite, Sprite, SpriteOK
  <2>2. CASE ShowSplash
    <3> DEFINE t == Covered(Hidden(Sprite), Position)
    <3>1. SpriteOK(t) /\ ~t.cursor.visible /\ (Clean(Sprite) => Clean(t))
      BY <1>2, HiddenClean, CoveredClean
    <3>2. SetSprite(t) /\ splash' = TRUE
      BY <2>2 DEF ShowSplash, KeyIrq
    <3> HIDE DEF t
    <3> QED
      BY <2>1, <3>1, <3>2
  <2>3. CASE Clear
    <3> DEFINE t == Covered(Sprite, Position)
    <3>1. SpriteOK(t) /\ t.cursor = Sprite.cursor /\ (Clean(Sprite) => Clean(t))
      BY <1>2, CoveredClean
    <3>2. SetSprite(t) /\ splash' = splash /\ Sprite.cursor = cursor
      BY <2>3 DEF Clear, KeyIrq, Sprite
    <3> HIDE DEF t
    <3> QED
      BY <1>2, <2>1, <3>1, <3>2
  <2>4. CASE ExitSplash
    <3> DEFINE u == Covered(Sprite, Position)
               t == Shown(u, mouse)
    <3>1. SpriteOK(u) /\ (Clean(Sprite) => Clean(u))
      BY <1>2, CoveredClean
    <3>2. SetSprite(t) /\ splash' = FALSE
      BY <2>4 DEF ExitSplash, KeyIrq
    <3> HIDE DEF u
    <3>3. SpriteOK(t) /\ t.cursor.visible /\ (Clean(u) => Clean(t))
      BY <1>2, <3>1, ShownClean
    <3> HIDE DEF t
    <3> QED
      BY <2>1, <3>1, <3>2, <3>3
  <2> QED
    BY <2>2, <2>3, <2>4
<1>4. CursorInv'
  <2>1. SUFFICES ASSUME ~raced' PROVE CursorInv'
    BY DEF CursorInv
  <2>2. ~raced /\ boot \notin Showing /\ boot' = boot
    BY <1>1, <2>1 DEF Racy, Showing
  <2> QED
    BY <1>3, <2>2 DEF MouseInv, CursorInv, Showing
<1>5. button' \in [active : BOOLEAN, pressed : BOOLEAN, look : {"none", "up", "down"}]
      /\ button'.active = button.active /\ button'.pressed = button.pressed
      /\ (button'.look = "none" \/ (button'.look = "down" <=> button.pressed))
  <2>1. button \in [active : BOOLEAN, pressed : BOOLEAN, look : {"none", "up", "down"}]
    BY DEF MouseInv, MouseTypes
  <2>2. PICK look \in {"none", "up", "down"} :
          button' = [button EXCEPT !.look = look] /\ (look = "none" \/ (look = "down" <=> button.pressed))
    BY <2>1 DEF ShowSplash, Clear, ExitSplash, KeyIrq
  <2> QED
    BY <2>1, <2>2
<1>6. ButtonInv'
  <2>1. /\ pressed_id' = pressed_id /\ prev_left' = prev_left /\ mouse_left' = mouse_left
        /\ boot' = boot /\ local' = local /\ (boot = "face" => raced')
    BY <1>1 DEF Racy
  <2>2. /\ button.pressed <=> pressed_id
        /\ pressed_id => prev_left /\ button.active
        /\ prev_left = mouse_left
        /\ button.active <=> boot \in {"bevel", "face", "up"}
    BY DEF MouseInv, ButtonInv
  <2>3. /\ button'.pressed <=> pressed_id'
        /\ pressed_id' => prev_left' /\ button'.active
        /\ prev_left' = mouse_left'
        /\ button'.active <=> boot' \in {"bevel", "face", "up"}
    BY ONLY <1>5, <2>1, <2>2
  <2>4. button'.look = "none" \/ (button'.look = "down" <=> button'.pressed)
    BY ONLY <1>5
  <2> QED
    BY ONLY <2>1, <2>3, <2>4 DEF ButtonInv
<1>7. MouseTypes'
  <2>1. raced' \in BOOLEAN
    BY <1>1 DEF MouseInv, MouseTypes, Racy
  <2>2. UNCHANGED <<sending, lost, packet, mouse, mouse_left, prev_left, pressed_id, boot, local,
                    accepted>>
    BY <1>1 DEF deviceVars
  <2>3. SpriteOK(Sprite)' /\ splash' \in BOOLEAN
    BY <1>3 DEF SpriteOK
  <2>4. MouseTypes
    BY DEF MouseInv
  <2>5. {mouse_left, prev_left, accepted, pressed_id, splash, lost, raced}' \subseteq BOOLEAN
    <3>1. {mouse_left, prev_left, accepted, pressed_id, splash, lost, raced} \subseteq BOOLEAN
      BY <2>4 DEF MouseTypes
    <3> QED
      BY ONLY <2>1, <2>2, <2>3, <3>1
  <2>6. /\ mouse' \in Position
        /\ packet' \in Seq(0..255) /\ Len(packet') <= 2
        /\ sending' = <<>> \/ \E r \in Reports : sending' \in {r, <<r[2], r[3]>>, <<r[3]>>}
        /\ boot' \in BootPoints /\ local' \in [at : Position, pressed : BOOLEAN]
    BY ONLY <2>2, <2>4 DEF MouseTypes
  <2> QED
    BY ONLY <1>5, <2>3, <2>5, <2>6 DEF MouseTypes
<1>8. DeviceInv'
  BY <1>1 DEF MouseInv, DeviceInv, Sent, deviceVars
<1> QED
  BY <1>4, <1>6, <1>7, <1>8 DEF MouseInv

\* kernel_main's own steps at boot.
LEMMA BootKept ==
    ASSUME MouseInv,
           \/ BootMelody \/ BootShow \/ BootTest \/ BootRestore \/ BootForget \/ BootSave
           \/ BootMark \/ BootPaint \/ BootCreate \/ BootBevel \/ BootFace
    PROVE  MouseInv'
<1>1. SameInput
  BY DEF BootMelody, BootShow, BootTest, BootRestore, BootForget, BootSave, BootMark, BootPaint,
         BootCreate, BootBevel, BootFace
<1>2. DeviceInv'
  BY <1>1 DEF SameInput, MouseInv, DeviceInv, Sent, deviceVars
<1>3. /\ cursor \in CursorSet /\ images \subseteq Position /\ local \in [at : Position, pressed : BOOLEAN]
      /\ button \in [active : BOOLEAN, pressed : BOOLEAN, look : {"none", "up", "down"}]
      /\ boot \in BootPoints /\ raced \in BOOLEAN /\ splash \in BOOLEAN /\ mouse \in Position
      /\ NoLocal \in [at : Position, pressed : BOOLEAN]
  BY ScreenAssumption DEF MouseInv, MouseTypes, SpriteOK, Sprite, NoLocal, Position
<1>4. ASSUME /\ cursor' \in CursorSet /\ images' \subseteq Position
             /\ local' \in [at : Position, pressed : BOOLEAN]
             /\ button' \in [active : BOOLEAN, pressed : BOOLEAN, look : {"none", "up", "down"}]
             /\ boot' \in BootPoints /\ raced' \in BOOLEAN
      PROVE  MouseTypes'
  BY <1>1, <1>4 DEF SameInput, MouseInv, MouseTypes, SpriteOK, Sprite, deviceVars
<1>5. CASE BootMelody \/ BootShow \/ BootTest
  <2>1. UNCHANGED <<images, button, local>> /\ raced' = (raced \/ splash) /\ splash' = splash
    BY <1>1, <1>5 DEF BootMelody, BootShow, BootTest, SameInput
  <2>2. cursor' = cursor \/ (boot = "show" /\ cursor' = [cursor EXCEPT !.visible = TRUE])
    BY <1>5 DEF BootMelody, BootShow, BootTest, Boot
  <2>3. \/ boot = "melody" /\ boot' = "show" /\ cursor' = cursor
        \/ boot = "show" /\ boot' = "test"
        \/ boot = "test" /\ boot' = "restore" /\ cursor.saved /\ cursor' = cursor
        \/ boot = "test" /\ boot' = "save" /\ ~cursor.saved /\ cursor' = cursor
    BY <1>5 DEF BootMelody, BootShow, BootTest, Boot
  <2>4. MouseTypes'
    BY <1>3, <1>4, <2>1, <2>2, <2>3 DEF BootPoints, CursorSet
  <2>5. cursor'.visible = (cursor.visible \/ boot = "show") /\ cursor'.saved = cursor.saved
        /\ cursor'.at = cursor.at /\ cursor'.bg = cursor.bg
    BY <1>3, <1>5 DEF CursorSet, BootMelody, BootShow, BootTest, Boot
  <2>6. CursorInv'
    BY <1>3, <2>1, <2>3, <2>5 DEF MouseInv, CursorInv, Clean, Sprite, Showing
  <2>7. ButtonInv'
    BY <1>1, <2>1, <2>3 DEF MouseInv, ButtonInv, SameInput
  <2> QED
    BY <1>2, <2>4, <2>6, <2>7 DEF MouseInv
<1>6. CASE BootRestore \/ BootForget \/ BootSave \/ BootMark \/ BootPaint
  <2>1. UNCHANGED <<button, raced, splash>>
    BY <1>1, <1>6 DEF BootRestore, BootForget, BootSave, BootMark, BootPaint, SameInput
  <2>2. \/ boot = "restore" /\ boot' = "forget" /\ cursor' = cursor /\ images' = Restored(Sprite).images
           /\ local' = local
        \/ boot = "forget" /\ boot' = "save" /\ cursor' = [cursor EXCEPT !.saved = FALSE]
           /\ images' = images /\ local' = local
        \/ boot = "save" /\ boot' = "mark" /\ cursor' = [cursor EXCEPT !.bg = mouse \in images]
           /\ images' = images /\ local' = [local EXCEPT !.at = mouse]
        \/ boot = "mark" /\ boot' = "paint" /\ cursor' = [cursor EXCEPT !.at = local.at, !.saved = TRUE]
           /\ images' = images /\ local' = local
        \/ boot = "paint" /\ boot' = "create" /\ cursor' = cursor /\ images' = images \cup {local.at}
           /\ local' = NoLocal
    BY <1>6 DEF BootRestore, BootForget, BootSave, BootMark, BootPaint, Boot
  <2>3. /\ cursor' \in CursorSet /\ cursor'.visible = cursor.visible
        /\ cursor'.saved = (boot # "forget" /\ (cursor.saved \/ boot = "mark"))
        /\ cursor'.at = (IF boot = "mark" THEN local.at ELSE cursor.at)
        /\ cursor'.bg = (IF boot = "save" THEN mouse \in images ELSE cursor.bg)
    <3>1. CASE boot # "save"
      BY <1>3, <2>2, <3>1 DEF CursorSet
    <3>2. CASE boot = "save"
      <4>1. ASSUME NEW b \in BOOLEAN, cursor' = [cursor EXCEPT !.bg = b]
            PROVE  /\ cursor' \in CursorSet /\ cursor'.visible = cursor.visible /\ cursor'.bg = b
                   /\ cursor'.saved = cursor.saved /\ cursor'.at = cursor.at
        BY <1>3, <4>1 DEF CursorSet
      <4>2. PICK b \in BOOLEAN : b = (mouse \in images)
        <5>1. (mouse \in images) = TRUE \/ (mouse \in images) = FALSE
          OBVIOUS
        <5> QED
          BY <5>1
      <4>3. cursor' = [cursor EXCEPT !.bg = b]
        BY <2>2, <3>2, <4>2
      <4> QED
        BY <1>3, <3>2, <4>1, <4>2, <4>3 DEF CursorSet
    <3> QED
      BY <3>1, <3>2
  <2>4. /\ images' \subseteq Position /\ local' \in [at : Position, pressed : BOOLEAN]
        /\ local'.at = IF boot = "save" THEN mouse ELSE IF boot = "paint" THEN <<0, 0>> ELSE local.at
    <3>1. cursor.at \in Position /\ local.at \in Position
      BY <1>3 DEF CursorSet
    <3>2. Restored(Sprite).images \subseteq Position
      BY <1>3, <3>1 DEF Restored, Sprite
    <3>3. images' \subseteq Position
      BY <1>3, <2>2, <3>1, <3>2
    <3>4. CASE local' = local /\ boot \notin {"save", "paint"}
      BY <1>3, <3>3, <3>4
    <3>5. CASE local' = [local EXCEPT !.at = mouse] /\ boot = "save"
      BY <1>3, <3>3, <3>5
    <3>6. CASE local' = NoLocal /\ boot = "paint"
      <4>1. NoLocal.at = <<0, 0>>
        BY DEF NoLocal
      <4> QED
        BY <1>3, <3>3, <3>6, <4>1
    <3> QED
      BY <2>2, <3>4, <3>5, <3>6
  <2>5. MouseTypes'
    BY <1>3, <1>4, <2>1, <2>2, <2>3, <2>4 DEF BootPoints
  <2>6. CursorInv'
    <3>1. boot = "restore" /\ ~raced => images' = {}
      BY <2>2 DEF Restored, Sprite, MouseInv, CursorInv
    <3> QED
      BY <2>1, <2>2, <2>3, <2>4, <3>1 DEF MouseInv, CursorInv, Clean, Sprite, Showing
  <2>7. ButtonInv'
    BY <1>1, <2>1, <2>2 DEF MouseInv, ButtonInv, SameInput
  <2> QED
    BY <1>2, <2>5, <2>6, <2>7 DEF MouseInv
<1>7. CASE BootCreate \/ BootBevel \/ BootFace
  <2>1. UNCHANGED <<cursor, raced, splash>> /\ images' \subseteq images
    BY <1>1, <1>7 DEF BootCreate, BootBevel, BootFace, SameInput
  <2>2. \/ /\ boot = "create" /\ boot' = "bevel" /\ local' = local
           /\ button' = [button EXCEPT !.active = TRUE, !.pressed = FALSE]
        \/ /\ boot = "bevel" /\ boot' = "face" /\ local' = [local EXCEPT !.pressed = button.pressed]
           /\ button' = button
        \/ /\ boot = "face" /\ boot' = "up" /\ local' = NoLocal
           /\ button' = [button EXCEPT !.look = IF local.pressed THEN "down" ELSE "up"]
    BY <1>7 DEF BootCreate, BootBevel, BootFace, Boot
  <2>3. /\ button' \in [active : BOOLEAN, pressed : BOOLEAN, look : {"none", "up", "down"}]
        /\ local' \in [at : Position, pressed : BOOLEAN]
    BY <1>3, <2>2
  <2>4. MouseTypes'
    BY <1>3, <1>4, <2>1, <2>2, <2>3 DEF BootPoints
  <2>5. CursorInv'
    BY <2>1, <2>2 DEF MouseInv, CursorInv, Clean, Sprite, Showing
  <2>6. ButtonInv'
    BY <1>1, <1>3, <2>1, <2>2 DEF MouseInv, ButtonInv, SameInput
  <2> QED
    BY <1>2, <2>4, <2>5, <2>6 DEF MouseInv
<1> QED
  BY <1>5, <1>6, <1>7

\* The mouse before its first byte.
LEMMA MouseStart == ASSUME MouseInit PROVE MouseInv
<1>1. <<Width \div 2, Height \div 2>> \in Position /\ <<0, 0>> \in Position
  BY ScreenAssumption DEF Position
<1>2. packet \in Seq(0..255) /\ Len(packet) <= 2 /\ lost \in BOOLEAN /\ (~lost => packet = <<>>)
  <2>1. packet \in {<<>>, <<250>>} /\ lost = (packet # <<>>)
    BY DEF MouseInit
  <2>2. <<>> \in Seq(0..255) /\ Len(<<>>) <= 2 /\ <<250>> \in Seq(0..255) /\ Len(<<250>>) <= 2
    OBVIOUS
  <2> QED
    BY <2>1, <2>2
<1>3. MouseTypes
  BY <1>1, <1>2 DEF MouseInit, MouseTypes, SpriteOK, Sprite, CursorSet, NoLocal, BootPoints
<1>4. CursorInv
  BY DEF MouseInit, CursorInv, Clean, Sprite, Showing
<1>5. ButtonInv
  BY DEF MouseInit, ButtonInv
<1>6. DeviceInv
  BY <1>2 DEF MouseInit, DeviceInv, Sent
<1> QED
  BY <1>3, <1>4, <1>5, <1>6 DEF MouseInv

\* Reports, keys and kernel_main, in any order, keep the invariant (mouse.c, button.c).
THEOREM MouseInvariance == MouseSpec => []MouseInv
<1>1. ASSUME MouseInv, UNCHANGED mouseVars PROVE MouseInv'
  <2>1. MouseTypes' /\ CursorInv'
    BY <1>1 DEF mouseVars, MouseInv, MouseTypes, SpriteOK, Sprite, CursorInv, Clean
  <2>2. ButtonInv' /\ DeviceInv'
    BY <1>1 DEF mouseVars, MouseInv, ButtonInv, DeviceInv, Sent
  <2> QED
    BY <2>1, <2>2 DEF MouseInv
<1>2. MouseInv /\ [MouseNext]_mouseVars => MouseInv'
  BY <1>1, DeviceKept, CollectKept, ReportKept, KeyKept, BootKept DEF MouseNext
<1> QED
  BY <1>2, MouseStart, PTL DEF MouseSpec

\* The types, the pointer on the screen and the packet within its three bytes (mouse.c:128-177).
THEOREM MouseTyped == MouseSpec => []MouseTypeOK
<1>1. MouseInv => MouseTypeOK
  <2>1. SUFFICES ASSUME MouseInv PROVE MouseTypeOK
    OBVIOUS
  <2>2. \E r \in Reports, n \in 1..4 : sending = SubSeq(r, n, 3)
    <3>1. PICK r \in Reports : sending \in {r, <<r[2], r[3]>>, <<r[3]>>, <<>>}
      BY <2>1, ReportAssumption DEF MouseInv, MouseTypes
    <3>2. \E n \in 1..4 : sending = SubSeq(r, n, 3)
      <4>1. r \in Seq(0..255) /\ Len(r) = 3
        BY ReportBytes
      <4>2. /\ SubSeq(r, 1, 3) = r /\ SubSeq(r, 2, 3) = <<r[2], r[3]>>
            /\ SubSeq(r, 3, 3) = <<r[3]>> /\ SubSeq(r, 4, 3) = <<>>
        BY ONLY <4>1, Parts
      <4>3. 1 \in 1..4 /\ 2 \in 1..4 /\ 3 \in 1..4 /\ 4 \in 1..4
        OBVIOUS
      <4> QED
        BY ONLY <3>1, <4>2, <4>3
    <3> QED
      BY <3>2
  <2>3. \A k \in 1..Len(packet) : packet[k] \in 0..255
    BY <2>1, ElementOfSeq DEF MouseInv, MouseTypes
  <2> QED
    BY <2>1, <2>2, <2>3 DEF MouseInv, MouseTypes, SpriteOK, Sprite, CursorSet, MouseTypeOK
<1> QED
  BY <1>1, MouseInvariance, PTL

\* No report, key or step of kernel_main leaves a cursor behind on the screen (mouse.c:68-126).
THEOREM CursorStaysClean == MouseSpec => []CursorClean
<1>1. MouseInv => CursorClean
  BY DEF MouseInv, CursorInv, CursorClean, Clean, Sprite, Racy, Showing
<1> QED
  BY <1>1, MouseInvariance, PTL

\* The button is held as long as it was pressed and not let go, and handler and device agree
\* as long as no byte is lost (mouse.c:128-177, button.c:86-116).
THEOREM ButtonFollowsHand == MouseSpec => []ButtonRight
<1>1. MouseInv => ButtonFollows
  BY DEF MouseInv, ButtonInv, ButtonFollows
<1>2. MouseInv => InStep
  <2>1. SUFFICES ASSUME MouseInv, ~lost
                 PROVE  /\ packet = SubSeq(report, 1, Len(packet))
                        /\ Len(packet) + Len(sending) \in {0, 3}
    BY DEF MouseInv, DeviceInv, InStep
  <2>2. Sent /\ (sending # <<>> => report \in Reports)
    BY <2>1 DEF MouseInv, DeviceInv
  <2>3. CASE packet = <<>> /\ sending = <<>>
    BY <2>3, SubSeqEmpty
  <2>4. CASE sending # <<>>
    <3>1. report \in Seq(0..255) /\ Len(report) = 3
      BY <2>2, <2>4, ReportBytes
    <3>2. /\ SubSeq(report, 1, 2) = <<report[1], report[2]>> /\ SubSeq(report, 1, 1) = <<report[1]>>
          /\ SubSeq(report, 1, 0) = <<>>
      BY <3>1, Parts
    <3>3. PICK a, b, c : a = report[1] /\ b = report[2] /\ c = report[3]
      OBVIOUS
    <3>4. report = <<a, b, c>>
      BY <2>2, <2>4, <3>3, ReportBytes
    <3>5. \/ packet = <<>> /\ sending = <<a, b, c>>
          \/ packet = <<a>> /\ sending = <<b, c>>
          \/ packet = <<a, b>> /\ sending = <<c>>
      BY <2>2, <2>4, <3>3, <3>4 DEF Sent
    <3>6. Len(<<>>) = 0 /\ Len(<<a>>) = 1 /\ Len(<<a, b>>) = 2 /\ Len(<<a, b, c>>) = 3
          /\ Len(<<b, c>>) = 2 /\ Len(<<c>>) = 1
      OBVIOUS
    <3>7. CASE packet = <<>> /\ sending = <<a, b, c>>
      BY <3>2, <3>6, <3>7
    <3>8. CASE packet = <<a>> /\ sending = <<b, c>>
      BY <3>2, <3>3, <3>6, <3>8
    <3>9. CASE packet = <<a, b>> /\ sending = <<c>>
      BY <3>2, <3>3, <3>6, <3>9
    <3> QED
      BY <3>5, <3>7, <3>8, <3>9
  <2> QED
    BY <2>2, <2>3, <2>4 DEF Sent
<1> QED
  BY <1>1, <1>2, MouseInvariance, PTL DEF ButtonRight

=============================================================================
