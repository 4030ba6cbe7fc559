--------------------------------- MODULE Rtc ---------------------------------
(***************************************************************************)
(* The clock in the corner of the screen (kernel/kernel_main.c): the main  *)
(* loop reads the CMOS clock one register at a time, and may be held up    *)
(* between any two of them by an interrupt, a whole command run by the     *)
(* keyboard handler or another task.  The chip goes on meanwhile, and what *)
(* its registers give during an update is undefined.                       *)
(*                                                                         *)
(* The six registers stand for a time in mixed radix; how they code its    *)
(* digits is a matter of the conversions at the end.                       *)
(***************************************************************************)
EXTENDS Naturals, Sequences

CONSTANTS
    Radix,      \* how many values each register takes, the seconds first
    MaxSecs     \* bound: seconds of the timer

ASSUME RadixAssumption == Radix \in Seq(Nat \ {0, 1}) /\ Radix # <<>>
ASSUME MaxSecsAssumption == MaxSecs \in Nat

VARIABLES
    rtc_time, update,       \* the chip: the time, and how far it is with an update
    secs,                   \* pit_get_ticks() / 1000
    clock_last_sec,         \* 0 stands for the initial (uint64_t)-1, n + 1 for n
    rtc_pc,                 \* where the main loop is in rtc_read
    a, b,                   \* its two readings, b as far as it goes
    since,                  \* history: the time when rtc_read was called
    hit_a, hit_b            \* history: what updates did to the two readings

chip == <<rtc_time, update>>
readings == <<a, b, since, hit_a, hit_b>>
rtcVars == <<chip, secs, clock_last_sec, rtc_pc, readings>>

Weight[i \in 1..Len(Radix)] == IF i = 1 THEN 1 ELSE Weight[i - 1] * Radix[i - 1]
Register(t, i) == (t \div Weight[i]) % Radix[i]
Registers(t) == [i \in 1..Len(Radix) |-> Register(t, i)]
\* Bound: a century, in which no time comes twice.
MaxTime == Weight[Len(Radix)] * Radix[Len(Radix)] - 1

Hits == {"clean", "crossed", "undefined"}

RtcTypeOK ==
    /\ rtc_time \in 0..MaxTime /\ update \in {"none", "soon", "now"}
    /\ secs \in 0..MaxSecs /\ clock_last_sec \in 0..(MaxSecs + 1)
    /\ rtc_pc \in {"idle", "wait", "read", "compare", "draw"}
    /\ Len(a) \in {0, Len(Radix)} /\ Len(b) <= Len(Radix)
    /\ \A i \in 1..Len(a) : a[i] \in 0..(Radix[i] - 1)
    /\ \A i \in 1..Len(b) : b[i] \in 0..(Radix[i] - 1)
    /\ since \in 0..MaxTime
    /\ {hit_a, hit_b} \subseteq Hits

RtcInit ==
    /\ rtc_time = 0 /\ update = "none"
    /\ secs = 0 /\ clock_last_sec = 0
    /\ rtc_pc = "idle"
    /\ a = <<>> /\ b = <<>>
    /\ since = 0
    /\ hit_a = "clean" /\ hit_b = "clean"

-----------------------------------------------------------------------------
\* The chip (external), once a second: UIP goes up well before the registers change, and
\* is down again when they hold the new time.
Announce ==
    /\ update = "none" /\ rtc_time < MaxTime
    /\ update' = "soon"
    /\ UNCHANGED <<rtc_time, secs, clock_last_sec, rtc_pc, readings>>
\* A reading still under way has been held up since it found UIP down.
BeginUpdate ==
    /\ update = "soon"
    /\ update' = "now"
    /\ hit_b' = IF rtc_pc = "read" /\ hit_b = "clean" THEN "crossed" ELSE hit_b
    /\ UNCHANGED <<rtc_time, secs, clock_last_sec, rtc_pc, a, b, since, hit_a>>
EndUpdate ==
    /\ update = "now"
    /\ update' = "none"
    /\ rtc_time' = rtc_time + 1
    /\ UNCHANGED <<secs, clock_last_sec, rtc_pc, readings>>

TimerSecond ==
    /\ secs < MaxSecs
    /\ secs' = secs + 1
    /\ UNCHANGED <<chip, clock_last_sec, rtc_pc, readings>>

-----------------------------------------------------------------------------
Goes(here, there) == rtc_pc = here /\ rtc_pc' = there

\* maybe_update_clock: a new second of the timer.
MaybeUpdateClock ==
    /\ Goes("idle", "wait")
    /\ clock_last_sec # secs + 1
    /\ clock_last_sec' = secs + 1
    /\ since' = rtc_time
    /\ a' = <<>> /\ b' = <<>>
    /\ hit_a' = "clean" /\ hit_b' = "clean"
    /\ UNCHANGED <<chip, secs>>

\* The same second still: nothing to do.
ClockCurrent == rtc_pc = "idle" /\ clock_last_sec = secs + 1 /\ UNCHANGED rtcVars

\* cmos_update_in_progress.
UpdateOver == update = "none"

\* rtc_read_raw: the bit is down once, then the registers are read.
UpdateTested ==
    /\ Goes("wait", "read")
    /\ UpdateOver
    /\ UNCHANGED <<chip, secs, clock_last_sec, readings>>

CmosRead ==
    LET i == Len(b) + 1 IN
    /\ Goes("read", IF i = Len(Radix) THEN "compare" ELSE "read")
    /\ IF update = "now"
       THEN /\ \E garbage \in 0..(Radix[i] - 1) : b' = Append(b, garbage)
            /\ hit_b' = IF hit_b = "clean" THEN "clean" ELSE "undefined"
       ELSE b' = Append(b, Register(rtc_time, i)) /\ UNCHANGED hit_b
    /\ UNCHANGED <<chip, secs, clock_last_sec, a, since, hit_a>>

\* mutant: only the seconds are compared
SameSecond == a # <<>> /\ a[1] = b[1]
\* All six registers twice the same.
Same == a = b

\* rtc_read; the first reading has nothing to be compared with.
Compare ==
    /\ Goes("compare", IF Same THEN "draw" ELSE "wait")
    /\ IF Same THEN UNCHANGED readings
       ELSE /\ a' = b /\ hit_a' = hit_b
            /\ b' = <<>> /\ hit_b' = "clean"
            /\ UNCHANGED since
    /\ UNCHANGED <<chip, secs, clock_last_sec>>

DrawClock ==
    /\ Goes("draw", "idle")
    /\ UNCHANGED <<chip, secs, clock_last_sec, readings>>

RtcNext ==
    \/ Announce \/ BeginUpdate \/ EndUpdate \/ TimerSecond
    \/ MaybeUpdateClock \/ ClockCurrent \/ UpdateTested \/ CmosRead \/ Compare \/ DrawClock
RtcSpec == RtcInit /\ [][RtcNext]_rtcVars

-----------------------------------------------------------------------------
\* The conversions of rtc_read: bytes as the chip codes them, by status register B.
bcd2bin(v) == ((v % 16) + (v \div 16) * 10) % 256
Digits(v, binary) == IF binary THEN v ELSE bcd2bin(v)

Hour(hour, binary, hours24) ==
    LET pm == hour \div 128
        h == IF binary THEN hour ELSE bcd2bin(hour % 128) + 128 * pm
    IN  IF ~hours24 /\ pm = 1 THEN ((h % 128) + 12) % 24 ELSE h

\* PUT2 of draw_clock.
Put2(v) == <<(v \div 10) % 10, v % 10>>

\* What the chip holds for a number and for an hour (external).
Coded(v, binary) == IF binary THEN v ELSE (v \div 10) * 16 + (v % 10)
CodedHour(h, binary, hours24) ==
    IF hours24 THEN Coded(h, binary)
    ELSE Coded(IF h % 12 = 0 THEN 12 ELSE h % 12, binary) + 128 * (h \div 12)

-----------------------------------------------------------------------------
\* The time drawn was the time while rtc_read ran, however the reading was held up and
\* whatever rolled over meanwhile, if it was done within a minute: two equal readings
\* then cannot both be torn.  They can still lie when both were held up across the start
\* of an update and a register was read in the middle of it (kernel_main.c:82-92).
ReadingTrue ==
    rtc_pc = "draw" =>
        \/ \E t \in since..rtc_time : b = Registers(t)
        \/ rtc_time - since >= Radix[1]
        \/ "clean" \notin {hit_a, hit_b} /\ "undefined" \in {hit_a, hit_b}

\* The digits drawn are those of the time in every mode of the chip; but the 12-hour
\* mode takes noon for 0 and leaves midnight at 12 (kernel_main.c:107-109).
DigitsTrue ==
    \A binary, hours24 \in BOOLEAN :
        /\ \A v \in 0..99 : Put2(Digits(Coded(v, binary), binary)) = <<v \div 10, v % 10>>
        /\ \A h \in 0..23 :
            Hour(CodedHour(h, binary, hours24), binary, hours24) =
                IF ~hours24 /\ h % 12 = 0 THEN 12 - h ELSE h

\* The clock on the screen tells the time the chip had, however its updates cut into the
\* readings (rtc_read and draw_clock: kernel_main.c:82-147).
ClockRight == ReadingTrue /\ DigitsTrue
=============================================================================
