------------------------------ MODULE MCDrivers ------------------------------
\* Six parts of the kernel that share nothing with each other: their ports, registers and
\* variables are apart, and what one does is to another at most a delay, which each allows
\* between any two of its steps.  So it is enough that one of them runs and the others
\* have not begun.
EXTENDS Rtc, Ata, Boot, Sound, Marquee, Typing, MemoryMap

\* Three seconds to the minute, two minutes to the hour, two hours.
MCRadix == <<3, 2, 2>>
\* A low note, a rest and a high note; and a melody that is over at once.
MCMelodies ==
    {<<[note |-> "A", octave |-> 3, ms |-> 2], [note |-> "REST", octave |-> 0, ms |-> 1],
       [note |-> "C", octave |-> 6, ms |-> 3]>>,
     <<>>}

Init == RtcInit /\ AtaInit /\ BootInit /\ SoundInit /\ MarqueeInit /\ TypingInit

\* The controller as the BIOS left it makes no difference to the others.
BootQuiet == BootInit /\ config.mouse_irq /\ config.mouse_off

ClockRuns ==
    /\ RtcNext /\ AtaInit /\ BootQuiet /\ SoundInit /\ MarqueeInit /\ TypingInit
    /\ UNCHANGED <<ataVars, bootVars, soundVars, marqueeVars, typingVars>>
DiskRuns ==
    /\ RtcInit /\ AtaNext /\ BootQuiet /\ SoundInit /\ MarqueeInit /\ TypingInit
    /\ UNCHANGED <<rtcVars, bootVars, soundVars, marqueeVars, typingVars>>
BootRuns ==
    /\ RtcInit /\ AtaInit /\ BootNext /\ SoundInit /\ MarqueeInit /\ TypingInit
    /\ UNCHANGED <<rtcVars, ataVars, soundVars, marqueeVars, typingVars>>
SpeakerRuns ==
    /\ RtcInit /\ AtaInit /\ BootQuiet /\ SoundNext /\ MarqueeInit /\ TypingInit
    /\ UNCHANGED <<rtcVars, ataVars, bootVars, marqueeVars, typingVars>>
MarqueeRuns ==
    /\ RtcInit /\ AtaInit /\ BootQuiet /\ SoundInit /\ MarqueeNext /\ TypingInit
    /\ UNCHANGED <<rtcVars, ataVars, bootVars, soundVars, typingVars>>
KeysRun ==
    /\ RtcInit /\ AtaInit /\ BootQuiet /\ SoundInit /\ MarqueeInit /\ TypingNext
    /\ UNCHANGED <<rtcVars, ataVars, bootVars, soundVars, marqueeVars>>

Next == ClockRuns \/ DiskRuns \/ BootRuns \/ SpeakerRuns \/ MarqueeRuns \/ KeysRun
Spec == Init /\ [][Next]_<<rtcVars, ataVars, bootVars, soundVars, marqueeVars, typingVars>>

\* Every part keeps the types of its variables.
TypeOK == RtcTypeOK /\ AtaTypeOK /\ BootTypeOK /\ SoundTypeOK /\ MarqueeTypeOK /\ TypingTypeOK
=============================================================================
