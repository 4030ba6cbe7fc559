-------------------------------- MODULE Mouse --------------------------------
(***************************************************************************)
(* The PS/2 mouse, its cursor and the push button of TKOS (kernel/mouse.c, *)
(* kernel/button.c) with the places of kernel_main.c that show, hide and   *)
(* wipe them.                                                              *)
(*                                                                         *)
(* The device sends reports of three bytes, of which any may be lost.  The *)
(* handler (IRQ12) and the keyboard's (IRQ1) run with interrupts off and   *)
(* are atomic; what kernel_main does at boot, after sti, is cut at every   *)
(* point where they can come.  The cursor covers one position, and the     *)
(* pixels under it matter only as far as they show a cursor.               *)
(***************************************************************************)
EXTENDS Integers, Sequences

CONSTANTS
    Width, Height,
    ButtonArea,     \* the positions inside the button
    Reports         \* the reports the device sends: three bytes each

ASSUME ScreenAssumption == Width \in Nat \ {0} /\ Height \in Nat \ {0}
ASSUME ReportAssumption ==
    /\ Reports # {}
    /\ \A r \in Reports : r \in Seq(0..255) /\ Len(r) = 3 /\ (r[1] \div 8) % 2 = 1

Position == (0..(Width - 1)) \X (0..(Height - 1))
ASSUME ButtonAssumption == ButtonArea \subseteq Position
BootPoints == {"melody", "show", "test", "restore", "forget", "save", "mark",
               "paint", "create", "bevel", "face", "up"}

VARIABLES
    sending,        \* what is left of the report the device is sending
    packet,         \* packet[0..packet_index-1]
    mouse,          \* <<mouse_x, mouse_y>>
    mouse_left,     \* the left bit of mouse_buttons
    prev_left,      \* and of prev_mouse_buttons
    cursor,         \* cursor_visible, has_saved, saved_x/y, and saved_bg: whether
                    \* the saved pixels show a cursor
    images,         \* where a cursor can be seen on the screen
    button,         \* active and pressed of the button, and how it looks
    pressed_id,     \* the button is held
    splash,         \* splash_active
    boot,           \* where kernel_main is
    local,          \* what it has loaded there
    lost,           \* history: a byte has been lost, or was one too many; until then
    report, accepted,   \* the report being sent, and the left button of the last that counts
    raced           \* history: an interrupt came between kernel_main's steps

deviceVars == <<sending, report, lost>>
buttonVars == <<button, pressed_id>>
mouseVars == <<sending, packet, mouse, mouse_left, prev_left, cursor, images, button,
               pressed_id, splash, boot, local, report, lost, accepted, raced>>

NoLocal == [at |-> <<0, 0>>, pressed |-> FALSE]

\* mouse_init may have left the last answer of the device, 0xFA, to the handler, which
\* takes it for the first byte of a report (module Boot).
MouseInit ==
    /\ sending = <<>> /\ report = <<>>
    /\ packet \in {<<>>, <<250>>} /\ lost = (packet # <<>>)
    /\ mouse = <<Width \div 2, Height \div 2>>
    /\ mouse_left = FALSE /\ prev_left = FALSE /\ accepted = FALSE
    /\ cursor = [visible |-> FALSE, saved |-> FALSE, at |-> <<0, 0>>, bg |-> FALSE]
    /\ images = {}
    /\ button = [active |-> FALSE, pressed |-> FALSE, look |-> "none"]
    /\ pressed_id = FALSE
    /\ splash = FALSE
    /\ boot = "melody"
    /\ local = NoLocal
    /\ raced = FALSE

-----------------------------------------------------------------------------
\* The cursor and the images as one value: s.cursor, s.images.
Sprite == [cursor |-> cursor, images |-> images]

\* cursor_restore
Restored(s) ==
    IF ~s.cursor.saved THEN s ELSE
    [cursor |-> [s.cursor EXCEPT !.saved = FALSE],
     images |-> IF s.cursor.bg THEN s.images \cup {s.cursor.at}
                               ELSE s.images \ {s.cursor.at}]
\* cursor_save_and_draw
SavedAndDrawn(s, p) ==
    [cursor |-> [s.cursor EXCEPT !.saved = TRUE, !.at = p, !.bg = p \in s.images],
     images |-> s.images \cup {p}]
\* mutant: the old cursor is not taken away first
DrawnOver(s, p) == IF s.cursor.visible THEN SavedAndDrawn(s, p) ELSE s
\* mouse_redraw_cursor
Redrawn(s, p) == IF s.cursor.visible THEN SavedAndDrawn(Restored(s), p) ELSE s
\* mouse_show_cursor, mouse_hide_cursor
Shown(s, p) == Redrawn([s EXCEPT !.cursor.visible = TRUE], p)
Hidden(s) == [Restored(s) EXCEPT !.cursor.visible = FALSE]
\* Something is drawn over the positions ps.
Covered(s, ps) == [s EXCEPT !.images = @ \ ps]
SetSprite(s) == cursor' = s.cursor /\ images' = s.images

-----------------------------------------------------------------------------
Bit(byte, i) == (byte \div 2^i) % 2 = 1

\* Where an interrupt can spoil what kernel_main is doing to the cursor or the button.
Racy == boot \in {"restore", "forget", "save", "mark", "paint", "face"}

\* mutant: the low bound is not enforced
ClampHigh(n, high) == IF n > high THEN high ELSE n
Clamp(n, high) == IF n < 0 THEN 0 ELSE IF n > high THEN high ELSE n

\* A movement byte with its sign bit in the flags.
Delta(byte, negative) == IF negative THEN byte - 256 ELSE byte
MovedTo(p) ==
    <<Clamp(mouse[1] + Delta(p[2], Bit(p[1], 4)), Width - 1),
      Clamp(mouse[2] - Delta(p[3], Bit(p[1], 5)), Height - 1)>>

\* The device starts a report; the next byte of it is lost.
SendReport ==
    /\ sending = <<>>
    /\ sending' \in Reports
    /\ report' = IF lost THEN <<>> ELSE sending'
    /\ UNCHANGED <<packet, mouse, mouse_left, prev_left, cursor, images, button, pressed_id,
                   splash, boot, local, lost, accepted, raced>>
LoseByte ==
    /\ sending # <<>>
    /\ sending' = Tail(sending)
    /\ lost' = TRUE /\ report' = <<>> /\ accepted' = FALSE
    /\ UNCHANGED <<packet, mouse, mouse_left, prev_left, cursor, images, button, pressed_id,
                   splash, boot, local, raced>>

Received == Head(sending)
Deliver == /\ sending # <<>>
           /\ sending' = Tail(sending)
           /\ UNCHANGED <<splash, boot, local, report, lost>>
Quiet == UNCHANGED <<mouse, mouse_left, prev_left, cursor, images, button, pressed_id,
                     raced>>

\* mouse_handler: the byte cannot begin a report.
Ignore ==
    /\ Deliver /\ Quiet
    /\ packet = <<>> /\ ~Bit(Received, 3)
    /\ UNCHANGED <<packet, accepted>>

\* The byte is the third of a report.
Whole == Len(packet) = 2

Collect ==
    /\ Deliver /\ Quiet
    /\ packet # <<>> \/ Bit(Received, 3)
    /\ ~Whole
    /\ packet' = Append(packet, Received)
    /\ UNCHANGED accepted

Full == Append(packet, Received)
Overflows == Bit(Full[1], 6) \/ Bit(Full[1], 7)
NoPacket == <<>>

\* An overflow: the whole report is dropped, its buttons with it.
Overflow ==
    /\ Deliver /\ Quiet
    /\ Whole /\ Overflows
    /\ packet' = NoPacket
    /\ UNCHANGED accepted

\* button_handle_mouse, in the three cases that matter.
Press(p, left) == left /\ ~prev_left /\ button.active /\ p \in ButtonArea
Release(left) == ~left /\ prev_left
Drawn(pressed) == [button EXCEPT !.pressed = pressed,
                                 !.look = IF pressed THEN "down" ELSE "up"]
\* mutant: a release outside the button leaves it down
LetGoInside(p) == IF p \in ButtonArea THEN Drawn(FALSE) ELSE button
LetGo(p) == Drawn(FALSE)

\* A report: position, buttons, cursor, and then the button under it.
Report ==
    /\ Deliver
    /\ Whole /\ ~Overflows
    /\ packet' = NoPacket
    /\ mouse' = MovedTo(Full)
    /\ LET left == Bit(Full[1], 0)
           s == Redrawn(Sprite, mouse')
       IN /\ mouse_left' = left /\ prev_left' = left
          /\ accepted' = (~lost /\ Bit(report[1], 0))
          /\ \/ /\ Press(mouse', left)
                /\ button' = Drawn(TRUE) /\ pressed_id' = TRUE
                /\ SetSprite(Covered(s, ButtonArea))
             \/ /\ Release(left) /\ pressed_id /\ button.active
                /\ button' = LetGo(mouse') /\ pressed_id' = FALSE
                /\ SetSprite(Covered(s, ButtonArea))
             \/ /\ ~Press(mouse', left) /\ ~(Release(left) /\ pressed_id /\ button.active)
                /\ button' = button
                /\ pressed_id' = (pressed_id /\ ~Release(left))
                /\ SetSprite(s)
    /\ raced' = (raced \/ Racy)

-----------------------------------------------------------------------------
\* The keyboard interrupt: "ab" hides the cursor and fills the screen, ESC brings
\* everything back, "clear" wipes the screen.
KeyIrq(s, look) ==
    /\ SetSprite(s)
    /\ button' = [button EXCEPT !.look = look]
    /\ raced' = (raced \/ Racy)
    /\ UNCHANGED <<deviceVars, packet, mouse, mouse_left, prev_left, pressed_id, boot, local,
                   accepted>>

ShowSplash == ~splash /\ splash' = TRUE /\ KeyIrq(Covered(Hidden(Sprite), Position), "none")
Clear == ~splash /\ UNCHANGED splash /\ KeyIrq(Covered(Sprite, Position), "none")
\* button_draw runs only once kernel_main has the button's number.
ExitSplash ==
    /\ splash /\ splash' = FALSE
    /\ KeyIrq(Shown(Covered(Sprite, Position), mouse),
           IF boot # "up" THEN "none" ELSE IF button.pressed THEN "down" ELSE "up")

-----------------------------------------------------------------------------
\* kernel_main after sti: the boot melody, mouse_show_cursor, button_create.
Boot(here, there) == boot = here /\ boot' = there
SameInput == UNCHANGED <<deviceVars, packet, mouse, mouse_left, prev_left, accepted,
                         pressed_id, splash>>

\* A logo opened during the boot melody is drawn over from here on.
BootMelody == Boot("melody", "show") /\ SameInput
              /\ raced' = (raced \/ splash) /\ UNCHANGED <<cursor, images, button, local>>
BootShow == Boot("show", "test") /\ SameInput
            /\ cursor' = [cursor EXCEPT !.visible = TRUE]
            /\ raced' = (raced \/ splash)
            /\ UNCHANGED <<images, button, local>>
\* has_saved; cursor_visible is not read again.
BootTest == Boot("test", IF cursor.saved THEN "restore" ELSE "save") /\ SameInput
            /\ raced' = (raced \/ splash)
            /\ UNCHANGED <<cursor, images, button, local>>
BootRestore == Boot("restore", "forget") /\ SameInput
               /\ images' = Restored(Sprite).images
               /\ UNCHANGED <<cursor, button, local, raced>>
BootForget == Boot("forget", "save") /\ SameInput
              /\ cursor' = [cursor EXCEPT !.saved = FALSE]
              /\ UNCHANGED <<images, button, local, raced>>
BootSave == Boot("save", "mark") /\ SameInput
            /\ local' = [local EXCEPT !.at = mouse]
            /\ cursor' = [cursor EXCEPT !.bg = mouse \in images]
            /\ UNCHANGED <<images, button, raced>>
BootMark == Boot("mark", "paint") /\ SameInput
            /\ cursor' = [cursor EXCEPT !.at = local.at, !.saved = TRUE]
            /\ UNCHANGED <<images, button, local, raced>>
BootPaint == Boot("paint", "create") /\ SameInput
             /\ images' = images \cup {local.at}
             /\ local' = NoLocal
             /\ UNCHANGED <<cursor, button, raced>>
\* pressed and active are one store in the object file.
BootCreate == Boot("create", "bevel") /\ SameInput
              /\ button' = [button EXCEPT !.active = TRUE, !.pressed = FALSE]
              /\ UNCHANGED <<cursor, images, local, raced>>
\* draw_bevel(b, b->pressed): the argument, then the drawing.
BootBevel == Boot("bevel", "face") /\ SameInput
             /\ local' = [local EXCEPT !.pressed = button.pressed]
             /\ UNCHANGED <<cursor, images, button, raced>>
BootFace == Boot("face", "up") /\ SameInput
            /\ button' = [button EXCEPT !.look = IF local.pressed THEN "down" ELSE "up"]
            /\ images' = images \ ButtonArea
            /\ local' = NoLocal
            /\ UNCHANGED <<cursor, raced>>

MouseNext ==
    \/ SendReport \/ LoseByte \/ Ignore \/ Collect \/ Overflow \/ Report
    \/ ShowSplash \/ Clear \/ ExitSplash
    \/ BootMelody \/ BootShow \/ BootTest \/ BootRestore \/ BootForget \/ BootSave \/ BootMark
    \/ BootPaint \/ BootCreate \/ BootBevel \/ BootFace
MouseSpec == MouseInit /\ [][MouseNext]_mouseVars

-----------------------------------------------------------------------------
\* Every variable keeps its type.  The position stays on the screen, whatever bytes are
\* taken for a report, and packet_index inside packet[3].
MouseTypeOK ==
    /\ mouse \in Position
    /\ Len(packet) <= 2 /\ \A i \in 1..Len(packet) : packet[i] \in 0..255
    /\ \E r \in Reports, n \in 1..4 : sending = SubSeq(r, n, 3)
    /\ {mouse_left, prev_left, accepted, pressed_id, splash, lost, raced} \subseteq BOOLEAN
    /\ cursor \in [visible : BOOLEAN, saved : BOOLEAN, at : Position, bg : BOOLEAN]
    /\ images \subseteq Position
    /\ button \in [active : BOOLEAN, pressed : BOOLEAN, look : {"none", "up", "down"}]
    /\ boot \in BootPoints
    /\ local \in [at : Position, pressed : BOOLEAN]

\* No cursor is left behind: what can be seen is the one that will be taken away again,
\* none is seen on the logo, and saved pixels never hold a cursor.  An interrupt
\* between kernel_main's steps at boot is the exception (mouse_redraw_cursor, mouse.c:120).
CursorClean ==
    raced \/ Racy \/
    /\ images \subseteq {cursor.at}
    /\ images # {} => cursor.saved /\ ~splash
    /\ cursor.saved => cursor.visible /\ ~cursor.bg

\* The button is held exactly while it was pressed inside and has not been let go: it
\* looks so wherever it is drawn, a release always ends it, and no order of reports,
\* commands and modes leaves it stuck (button_handle_mouse, button.c:86-116).
ButtonFollows ==
    /\ button.pressed <=> pressed_id
    /\ pressed_id => prev_left /\ button.active
    /\ prev_left = mouse_left
    /\ raced \/ button.look = "none" \/ (button.look = "down" <=> button.pressed)

\* As long as no byte is lost the handler is in step with the device: it holds the
\* bytes sent of this report, and believes the last report it did not have to drop.
InStep ==
    ~lost => /\ packet = SubSeq(report, 1, Len(packet))
             /\ Len(packet) + Len(sending) \in {0, 3}
             /\ mouse_left = accepted

\* The button follows the hand as far as the reports do: what the device says is what
\* the handler believes, and what it believes is what the button is and shows.
ButtonRight == ButtonFollows /\ InStep
=============================================================================
