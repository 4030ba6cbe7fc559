------------------------------- MODULE Marquee -------------------------------
(***************************************************************************)
(* The scrolling text (kernel/marquee.c) on the framebuffer                *)
(* (kernel/framebuffer.c): kernel_main creates it while the timer already  *)
(* ticks, marquee_tick scrolls it from the timer's handler, and the logo   *)
(* screen pauses it.                                                       *)
(*                                                                         *)
(* Every row of the text scrolls alike, so a column of pixels stands for   *)
(* all of them.  A column shows the background, a column of a character of *)
(* the text, or what others drew.                                          *)
(***************************************************************************)
EXTENDS Integers, Sequences

CONSTANTS
    FbWidth,        \* columns of the screen
    MqX, MqW,       \* where the text runs: m->x, m->w
    FontW,          \* columns of a character (8)
    TextLen,        \* characters of the text
    TickDiv         \* ticks to a step (8)

ASSUME MarqueeAssumption ==
    /\ {FbWidth, MqW, FontW, TickDiv} \subseteq Nat \ {0}
    /\ MqX \in Nat /\ TextLen \in Nat

VARIABLES
    mq_pc,          \* where kernel_main is in marquee_create
    columns,        \* the screen
    active, paused,
    offset, tick_count,
    text,           \* the characters copied so far
    text_px_w,
    start_x, char_i,    \* marquee_draw's locals start_x and i, as kernel_main runs it
    place           \* history: what the text's place holds: nothing of the text, the text
                    \* as a tick drew it, or what ticks and marquee_create drew together

marqueeVars == <<mq_pc, columns, active, paused, offset, tick_count, text, text_px_w, start_x,
                 char_i, place>>

Columns == 0..(FbWidth - 1)
Window == {c \in Columns : MqX <= c /\ c < MqX + MqW}
Glyph == (1..TextLen) \X (0..(FontW - 1))
Other == <<>>
Bg == <<0, 0>>

MarqueeTypeOK ==
    /\ mq_pc \in {"start", "copy", "fill", "char", "done"}
    /\ columns \in [Columns -> Glyph \cup {Other, Bg}]
    /\ {active, paused} \subseteq BOOLEAN /\ place \in {"clear", "whole", "mixed"}
    /\ offset \in 0..(TextLen * FontW + MqW) /\ tick_count \in 0..(TickDiv - 1)
    /\ text \in 0..TextLen /\ text_px_w \in {0, TextLen * FontW}
    /\ start_x \in (MqX - TextLen * FontW)..(MqX + MqW) /\ char_i \in 1..(TextLen + 1)

MarqueeInit ==
    /\ mq_pc = "start"
    /\ columns = [c \in Columns |-> Other]
    /\ active = FALSE /\ paused = FALSE
    /\ offset = 0 /\ tick_count = 0 /\ text = 0 /\ text_px_w = 0
    /\ start_x = MqX /\ char_i = 1
    /\ place = "clear"

-----------------------------------------------------------------------------
\* fb_fill_rect: from x to the edge of the screen at most.
FillRect(shown, x, w, color) ==
    [c \in Columns |-> IF c >= x /\ c < x + w THEN color ELSE shown[c]]

\* draw_char_at with clipped_put_pixel: the columns of the k-th character inside the place
\* and on the screen.
DrawChar(shown, px, k) ==
    [c \in Columns |-> IF c \in Window /\ c - px \in 0..(FontW - 1) THEN <<k, c - px>>
                       ELSE shown[c]]

\* marquee_draw.
StartX(off) == MqX + MqW - off
Visible(cx) == cx + FontW > MqX /\ cx < MqX + MqW
DrawNext(shown, start, k) ==
    LET cx == start + (k - 1) * FontW
    IN  IF Visible(cx) THEN DrawChar(shown, cx, k) ELSE shown
Draw(shown, off, len) ==
    LET drawn[k \in 0..len] ==
            IF k = 0 THEN FillRect(shown, MqX, MqW, Bg) ELSE DrawNext(drawn[k - 1], StartX(off), k)
    IN  drawn[len]

-----------------------------------------------------------------------------
scrolling == <<offset, tick_count>>
drawing == <<start_x, char_i>>

\* marquee_create takes a slot that is then active, before the text is there.
CreateBegin ==
    /\ mq_pc = "start" /\ mq_pc' = "copy"
    /\ offset' = 0 /\ tick_count' = 0 /\ active' = TRUE
    /\ UNCHANGED <<columns, paused, text, text_px_w, drawing, place>>
CopyChar ==
    /\ mq_pc = "copy" /\ text < TextLen
    /\ text' = text + 1
    /\ UNCHANGED <<mq_pc, columns, active, paused, scrolling, text_px_w, drawing, place>>
CopyEnd ==
    /\ mq_pc = "copy" /\ text = TextLen /\ mq_pc' = "fill"
    /\ text_px_w' = text * FontW
    /\ UNCHANGED <<columns, active, paused, scrolling, text, drawing, place>>
\* marquee_draw as kernel_main runs it: it can be interrupted between two characters.
DrawFill ==
    /\ mq_pc = "fill" /\ mq_pc' = "char"
    /\ columns' = FillRect(columns, MqX, MqW, Bg)
    /\ start_x' = StartX(offset) /\ char_i' = 1
    /\ place' = "mixed"
    /\ UNCHANGED <<active, paused, scrolling, text, text_px_w>>
DrawOne ==
    /\ mq_pc = "char" /\ char_i <= text
    /\ columns' = DrawNext(columns, start_x, char_i)
    /\ char_i' = char_i + 1
    /\ place' = "mixed"
    /\ UNCHANGED <<mq_pc, active, paused, scrolling, text, text_px_w, start_x>>
DrawEnd ==
    /\ mq_pc = "char" /\ char_i > text /\ mq_pc' = "done"
    /\ UNCHANGED <<columns, active, paused, scrolling, text, text_px_w, drawing, place>>

\* mutant: the text is never over
WrapNever(off) == off + 1
\* mutant: the text is over when its first column leaves
WrapEarly(off) == IF off + 1 > text_px_w THEN 0 ELSE off + 1
\* The offset after a step.
NextOffset(off) == IF off + 1 > text_px_w + MqW THEN 0 ELSE off + 1

\* marquee_tick, inside the timer's handler.
MarqueeTick ==
    /\ ~paused /\ active
    /\ IF tick_count + 1 < TickDiv
       THEN tick_count' = tick_count + 1 /\ UNCHANGED <<offset, columns, place>>
       ELSE /\ tick_count' = 0
            /\ offset' = NextOffset(offset)
            /\ columns' = Draw(columns, offset', text)
            /\ place' = IF mq_pc = "done" THEN "whole" ELSE "mixed"
    /\ UNCHANGED <<mq_pc, active, paused, text, text_px_w, drawing>>

\* shell_cmd_ab: marquee_pause, fb_fill and the logo.
Splash ==
    /\ ~paused /\ paused' = TRUE
    /\ columns' = [c \in Columns |-> Other] /\ place' = "clear"
    /\ UNCHANGED <<mq_pc, active, scrolling, text, text_px_w, drawing>>
\* splash_exit: con_clear, print_banner, marquee_resume.
SplashExit ==
    /\ paused /\ paused' = FALSE
    /\ columns' = [c \in Columns |-> Other] /\ place' = "clear"
    /\ UNCHANGED <<mq_pc, active, scrolling, text, text_px_w, drawing>>

MarqueeNext ==
    \/ CreateBegin \/ CopyChar \/ CopyEnd \/ DrawFill \/ DrawOne \/ DrawEnd
    \/ MarqueeTick \/ Splash \/ SplashExit
MarqueeSpec == MarqueeInit /\ [][MarqueeNext]_marqueeVars

-----------------------------------------------------------------------------
\* What the place shows at an offset: the text that moved in from the right so far.
Picture(off) ==
    [c \in Window |->
        LET t == c - StartX(off)
        IN  IF t \in 0..(TextLen * FontW - 1) THEN <<t \div FontW + 1, t % FontW>> ELSE Bg]

\* Nothing is drawn outside the place of the text, and no tick draws in it while the logo
\* is shown; marquee_create, which does not ask, may (marquee.c:22-56, 79, 90-91).
KeepsToItsPlace ==
    /\ \A c \in Columns \ Window : columns[c] = Other
    /\ place = "clear" => \A c \in Window : columns[c] = Other
    /\ paused => place # "whole"
\* However a tick came between the steps of marquee_create, what it left is gone with the
\* next step of the text: the place shows the text at the offset (marquee.c:58-83).
ShowsText == place = "whole" => \A c \in Window : columns[c] = Picture(offset)[c]
\* Each step moves all of the picture by one column, also when the text starts again
\* (marquee.c:101-106).
Smooth ==
    text_px_w = TextLen * FontW =>
        \A c \in Window : c + 1 \in Window => Picture(NextOffset(offset))[c] = Picture(offset)[c + 1]
\* The scrolling text is where it should be, as it should be, whenever a tick cuts into
\* marquee_create (marquee.c:39-110).
ScreenRight == KeepsToItsPlace /\ ShowsText /\ Smooth
=============================================================================
