--------------------------------- MODULE Boot ---------------------------------
(***************************************************************************)
(* The start of kernel_main up to sti and the first interrupts after it:   *)
(* pic_init, idt_init, the handlers, mouse_init, pit_init, sched_init and  *)
(* the keyboard callback (kernel/kernel_main.c, pic.c, idt.c, mouse.c,     *)
(* pit.c), against the keyboard controller and the two devices behind it.  *)
(*                                                                         *)
(* mouse_init talks to the controller by polling, and reads whatever byte  *)
(* comes next: a key pressed meanwhile comes through the same port.  Of a  *)
(* byte only its source and the bits that count in the controller's        *)
(* configuration are kept.                                                 *)
(***************************************************************************)
EXTENDS Naturals, Sequences, MemoryMap

CONSTANTS
    MaxKeys,        \* bound: keys typed
    MaxReports      \* bound: bytes the mouse reports after it was enabled

ASSUME BootBoundAssumption == MaxKeys \in Nat /\ MaxReports \in Nat

VARIABLES
    boot_pc,
    handlers,       \* IRQs with a handler in c_handlers
    masked,         \* the two mask registers
    irr,            \* requests the PIC has latched
    interrupts,     \* IF
    ring, callback, \* sched_init and keyboard_set_callback are done
    config,         \* the controller's configuration byte, bits 0, 1, 4, 5
    out,            \* its output buffer: a byte, or none
    latest,         \* the byte read last, which an empty buffer gives again
    answer,         \* a configuration byte on its way to the buffer
    keys, aux,      \* bytes on their way from the keyboard and from the mouse
    owed,           \* commands the mouse has yet to acknowledge
    status,         \* mouse_init's local
    typed, moved,   \* history: keys typed, bytes reported
    mistaken,       \* history: the configuration was read off another byte
    disturbed,      \* history: a polling read gave a byte it had not asked for, or left
                    \* the request of its byte behind
    stray           \* history: the mouse handler got a byte of no report

kernelState == <<boot_pc, handlers, masked, interrupts, ring, callback, status>>
controller == <<config, out, latest, answer, keys, aux, owed>>
bootHistory == <<typed, moved, mistaken, disturbed, stray>>
bootVars == <<kernelState, irr, controller, bootHistory>>

Config == [kbd_irq : BOOLEAN, mouse_irq : BOOLEAN, kbd_off : BOOLEAN, mouse_off : BOOLEAN]
Byte == [from : {"key", "config", "ack", "report"}, bits : Config]
NoByte == <<>>
\* Among the make codes every combination of bits 0 and 4 occurs; mouse_init overwrites
\* the other two.
Key(bits) == [from |-> "key", bits |-> bits]
\* 0xFA.
Ack == [from |-> "ack", bits |-> [kbd_irq |-> FALSE, mouse_irq |-> TRUE,
                                  kbd_off |-> TRUE, mouse_off |-> TRUE]]
Moved == [Ack EXCEPT !.from = "report"]

\* mutant: interrupts are on as soon as there is an IDT
StiEarly == <<"pic", "idt", "sti", "kbd", "mouse", "aux", "ask", "read", "set", "defaults", "ack1",
              "enable", "ack2", "unmask", "pit", "sched", "callback", "run">>
\* kernel_main, with mouse_init from "aux" to "ack2".
BootOrder == <<"pic", "idt", "kbd", "mouse", "aux", "ask", "read", "set", "defaults", "ack1",
               "enable", "ack2", "unmask", "pit", "sched", "callback", "sti", "run">>

BootTypeOK ==
    /\ \E i \in 1..Len(BootOrder) : boot_pc = BootOrder[i]
    /\ handlers \subseteq {0, 1, 12}
    /\ masked \subseteq {0, 1, 2, 12} /\ irr \subseteq {0, 1, 12}
    /\ config \in Config /\ status \in Config
    /\ {out, answer} \subseteq Byte \cup {NoByte} /\ latest \in Byte
    /\ \A q \in {keys, aux} : \A i \in 1..Len(q) : q[i] \in Byte
    /\ owed \in 0..2 /\ typed \in 0..MaxKeys /\ moved \in 0..MaxReports
    /\ {interrupts, ring, callback, mistaken, disturbed, stray} \subseteq BOOLEAN

\* As the BIOS left it: the keyboard works, the mouse may be off.
BootInit ==
    /\ boot_pc = "pic"
    /\ handlers = {} /\ masked = {0, 1, 2, 12} /\ irr = {}
    /\ interrupts = FALSE /\ ring = FALSE /\ callback = FALSE
    /\ config \in {c \in Config : c.kbd_irq /\ ~c.kbd_off}
    /\ status = config
    /\ out = NoByte /\ latest = Ack /\ answer = NoByte
    /\ keys = <<>> /\ aux = <<>> /\ owed = 0
    /\ typed = 0 /\ moved = 0
    /\ mistaken = FALSE /\ disturbed = FALSE /\ stray = FALSE

-----------------------------------------------------------------------------
\* The controller and the devices (external).
Irq(byte) == IF byte.from \in {"ack", "report"} THEN 12 ELSE 1
Raises(byte) == IF Irq(byte) = 12 THEN config.mouse_irq ELSE config.kbd_irq

\* The empty buffer takes one of the bytes that wait, and asks for an interrupt.
Fill(byte) ==
    /\ out = NoByte
    /\ out' = byte
    /\ irr' = IF Raises(byte) THEN irr \cup {Irq(byte)} ELSE irr
    /\ UNCHANGED <<kernelState, config, latest, owed, bootHistory>>
FillAnswer == answer # NoByte /\ Fill(answer) /\ answer' = NoByte /\ UNCHANGED <<keys, aux>>
FillKey ==
    /\ answer = NoByte /\ keys # <<>> /\ ~config.kbd_off
    /\ Fill(Head(keys)) /\ keys' = Tail(keys) /\ UNCHANGED <<answer, aux>>
FillAux ==
    /\ answer = NoByte /\ aux # <<>> /\ ~config.mouse_off
    /\ Fill(Head(aux)) /\ aux' = Tail(aux) /\ UNCHANGED <<answer, keys>>

TypeKey ==
    /\ typed < MaxKeys /\ typed' = typed + 1
    /\ \E bits \in {c \in Config : ~c.mouse_irq /\ ~c.mouse_off} : keys' = Append(keys, Key(bits))
    /\ UNCHANGED <<kernelState, irr, config, out, latest, answer, aux, owed, moved, mistaken,
                   disturbed, stray>>
MouseAnswers ==
    /\ owed > 0 /\ owed' = owed - 1
    /\ aux' = Append(aux, Ack)
    /\ UNCHANGED <<kernelState, irr, config, out, latest, answer, keys, bootHistory>>
\* The mouse reports from the second command on.
MouseMoves ==
    /\ moved < MaxReports /\ moved' = moved + 1
    /\ boot_pc \in {"ack2", "unmask", "pit", "sched", "callback", "sti", "run"} /\ owed = 0
    /\ aux' = Append(aux, Moved)
    /\ UNCHANGED <<kernelState, irr, config, out, latest, answer, keys, owed, typed, mistaken,
                   disturbed, stray>>

-----------------------------------------------------------------------------
Step(here) ==
    \E i \in 1..(Len(BootOrder) - 1) :
        here = BootOrder[i] /\ boot_pc = here /\ boot_pc' = BootOrder[i + 1]

\* pic_init: the timer and the cascade are let through, and old requests forgotten.
PicInit ==
    /\ Step("pic")
    /\ masked' = {1, 12} /\ irr' = {}
    /\ UNCHANGED <<handlers, interrupts, ring, callback, status, controller, bootHistory>>
IdtInit ==
    /\ Step("idt")
    /\ handlers' = {}
    /\ UNCHANGED <<masked, interrupts, ring, callback, status, irr, controller, bootHistory>>

\* idt_set_handler, pic_unmask_irq.
SetHandler(here, irq) ==
    /\ Step(here)
    /\ handlers' = handlers \cup {irq}
    /\ masked' = IF here = "mouse" THEN masked ELSE masked \ {irq}
    /\ UNCHANGED <<interrupts, ring, callback, status, irr, controller, bootHistory>>
UnmaskMouse ==
    /\ Step("unmask")
    /\ masked' = masked \ {12}
    /\ UNCHANGED <<handlers, interrupts, ring, callback, status, irr, controller, bootHistory>>

SchedInit ==
    /\ Step("sched") /\ ring' = TRUE
    /\ UNCHANGED <<handlers, masked, interrupts, callback, status, irr, controller, bootHistory>>
SetCallback ==
    /\ Step("callback") /\ callback' = TRUE
    /\ UNCHANGED <<handlers, masked, interrupts, ring, status, irr, controller, bootHistory>>
Sti ==
    /\ Step("sti") /\ interrupts' = TRUE
    /\ UNCHANGED <<handlers, masked, ring, callback, status, irr, controller, bootHistory>>

-----------------------------------------------------------------------------
sameCpu == <<handlers, masked, interrupts, ring, callback>>

\* What a read of port 0x60 gives, and what it does: the request of a byte taken by
\* polling may be withdrawn with it.
Byte60 == IF out = NoByte THEN latest ELSE out
Read60 ==
    /\ out' = NoByte
    /\ latest' = Byte60
    /\ UNCHANGED <<config, answer, keys, aux, owed>>
Withdrawn == {irr, irr \ {Irq(Byte60)}}

\* mouse_init: command 0xA8.
EnableAux ==
    /\ Step("aux")
    /\ config' = [config EXCEPT !.mouse_off = FALSE]
    /\ UNCHANGED <<sameCpu, status, irr, out, latest, answer, keys, aux, owed, bootHistory>>
\* Command 0x20.
AskConfig ==
    /\ Step("ask")
    /\ answer' = [from |-> "config", bits |-> config]
    /\ UNCHANGED <<sameCpu, status, irr, config, out, latest, keys, aux, owed, bootHistory>>
\* ps2_read_data: the controller itself does not time out.
ReadConfig ==
    /\ Step("read")
    /\ out # NoByte
    /\ Read60 /\ irr' \in Withdrawn
    /\ status' = Byte60.bits
    /\ mistaken' = (Byte60.from # "config")
    /\ disturbed' = (disturbed \/ mistaken' \/ Irq(Byte60) \in irr')
    /\ UNCHANGED <<sameCpu, typed, moved, stray>>

\* mutant: bit 1 is not set in the byte written back
NoMouseIrq(s) == [s EXCEPT !.mouse_off = FALSE]
\* status |= 0x02, status &= ~0x20.
WithMouse(s) == [s EXCEPT !.mouse_irq = TRUE, !.mouse_off = FALSE]

\* Command 0x60.
WriteConfig ==
    /\ Step("set")
    /\ config' = WithMouse(status)
    /\ UNCHANGED <<sameCpu, status, irr, out, latest, answer, keys, aux, owed, bootHistory>>

\* mouse_write(0xF6), mouse_write(0xF4).
MouseWrite(here) ==
    /\ Step(here)
    /\ owed' = owed + 1
    /\ UNCHANGED <<sameCpu, status, irr, config, out, latest, answer, keys, aux, bootHistory>>
\* ps2_read_data: any byte will do, or none in time.
ReadAck(here) ==
    /\ Step(here)
    /\ Read60 /\ irr' \in Withdrawn
    /\ disturbed' = (disturbed \/ out = NoByte \/ Byte60.from # "ack" \/ 12 \in irr')
    /\ UNCHANGED <<sameCpu, status, typed, moved, mistaken, stray>>

-----------------------------------------------------------------------------
\* Requests that reach the processor.
Deliverable == {n \in irr \ masked : interrupts /\ (n = 12 => 2 \notin masked)}

\* irq1: keyboard_handler reads its byte; irq12: mouse_handler does.
TakeInput(n) ==
    /\ n \in Deliverable \cap {1, 12}
    /\ irr' = irr \ {n}
    /\ Read60
    /\ stray' = (stray \/ (n = 12 /\ (out = NoByte \/ out.from # "report")))
    /\ UNCHANGED <<kernelState, typed, moved, mistaken, disturbed>>

\* The timer runs since the BIOS.
TimerTick == 0 \notin irr /\ irr' = irr \cup {0} /\ UNCHANGED <<kernelState, controller, bootHistory>>
TakeTick ==
    /\ 0 \in Deliverable
    /\ irr' = irr \ {0}
    /\ UNCHANGED <<kernelState, controller, bootHistory>>

BootNext ==
    \/ FillAnswer \/ FillKey \/ FillAux \/ TypeKey \/ MouseAnswers \/ MouseMoves \/ TimerTick
    \/ PicInit \/ IdtInit \/ SetHandler("kbd", 1) \/ SetHandler("mouse", 12)
    \/ EnableAux \/ AskConfig \/ ReadConfig \/ WriteConfig
    \/ MouseWrite("defaults") \/ ReadAck("ack1") \/ MouseWrite("enable") \/ ReadAck("ack2")
    \/ UnmaskMouse \/ SetHandler("pit", 0) \/ SchedInit \/ SetCallback \/ Sti
    \/ TakeInput(1) \/ TakeInput(12) \/ TakeTick

BootSpec == BootInit /\ [][BootNext]_bootVars

-----------------------------------------------------------------------------
\* No interrupt finds the kernel half set up: once one can be taken every handler is
\* there, the timer's has a ring to switch in and the keyboard's a callback
\* (kernel_main.c:1057-1121).
HandlersReady ==
    interrupts => /\ {0, 1, 12} \ masked \subseteq handlers
                  /\ ring /\ callback

\* From the boot loader on the kernel finds memory laid out for it, and no interrupt finds
\* the kernel half set up (stage2.asm:18-247, kernel_main.c:1024-1121).
StartRight == HandlersReady /\ MemoryLaidOut

\* The keyboard and the mouse work after boot.  No byte is stuck in the controller's
\* buffer, keeping out all others: an interrupt is on its way for it, whatever was
\* typed, lost or withdrawn while mouse_init polled.  Only if a key was taken for the
\* configuration byte can the keyboard be off (mouse.c:196-206).
NothingStuck ==
    interrupts /\ out # NoByte /\ Raises(out) => Irq(out) \in irr \ masked
InputOn ==
    interrupts => /\ config.mouse_irq /\ ~config.mouse_off
                  /\ mistaken \/ (config.kbd_irq /\ ~config.kbd_off)
\* The mouse handler starts in step with the mouse unless one of mouse_init's reads got
\* what it had not asked for, or nothing, or left its request in the PIC: the handler
\* then takes a byte twice, or 0xFA for the first of a report.
MouseInStep == stray => disturbed
\* Once interrupts are on, every key and every movement reaches its handler, except after
\* the confusions that polling cannot rule out (mouse_init, mouse.c:189-215).
InputAlive == NothingStuck /\ InputOn /\ MouseInStep
=============================================================================
