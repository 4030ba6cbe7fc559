-------------------------------- MODULE Sound --------------------------------
(***************************************************************************)
(* The PC speaker (kernel/pcspk.c): pcspk_play_melody, called by the main  *)
(* task, with pit_sleep_ms and the timer ticks it counts (kernel/pit.c).   *)
(*                                                                         *)
(* The main task may be held up between any two of its steps: another task *)
(* runs, or a handler that keeps interrupts off while timer periods pass   *)
(* and all but one of their interrupts are lost.  A millisecond is one     *)
(* timer period.                                                           *)
(***************************************************************************)
EXTENDS Naturals, Sequences

CONSTANTS
    Melodies,   \* sequences of notes, without the end mark
    Gap,        \* periods between two notes (20)
    Longest,    \* the longest a note or a gap lasts; periods are counted so far
    MaxPlays    \* bound: melodies played

\* pcspk.h: note_freqs, by NOTE_C to NOTE_B.
note_freqs == [C |-> 262, CS |-> 277, D |-> 294, DS |-> 311, E |-> 330, F |-> 349,
               FS |-> 370, G |-> 392, GS |-> 415, A |-> 440, AS |-> 466, B |-> 494]
NoteNames == DOMAIN note_freqs \cup {"REST"}

\* There are melodies, and no frequency is shifted out of the 32 bits it has, nor down to 0.
ASSUME MelodyAssumption ==
    /\ Melodies # {}
    /\ Melodies \subseteq Seq([note : NoteNames, octave : 0..27, ms : 1..Longest])
ASSUME SoundBoundAssumption == Longest \in Nat /\ Gap \in 1..Longest /\ MaxPlays \in Nat

VARIABLES
    snd_pc,
    notes,      \* what is left of the melody, first the note that is played
    sleep,      \* target - pit_ticks, 0 once it is not positive
    pending,    \* the timer has an interrupt request up
    channel,    \* the bytes loaded into the timer's channel 2 since its command
    speaker,    \* the two bits of port 0x61
    plays,
    passed      \* history: periods since the speaker last went on or off, up to a bound

soundVars == <<snd_pc, notes, sleep, pending, channel, speaker, plays, passed>>

-----------------------------------------------------------------------------
\* pcspk_play_note: the frequency of a note, shifted by its octaves from the fourth.
Freq(note, octave) ==
    IF octave > 4 THEN note_freqs[note] * 2^(octave - 4)
    ELSE note_freqs[note] \div 2^(4 - octave)
\* pcspk_play_freq: PCSPK_BASE_FREQ / freq, of which two bytes are loaded.
Divisor(freq) == 1193182 \div freq
Bytes(divisor) == <<divisor % 256, (divisor \div 256) % 256>>

\* The pitches of melody_boot, melody_error and melody_custom.
BootPitches ==
    {"C", "D", "E", "F", "G", "A", "AS", "B"} \X {4}
    \cup {"C", "D", "E", "F", "G", "A", "B"} \X {5} \cup {"C", "D"} \X {6}
ErrorPitches == {"C", "DS", "G"} \X {5}
CustomPitches ==
    {"C", "A", "AS"} \X {3} \cup {"C", "E", "G", "A", "B"} \X {4} \cup {"C", "D", "E", "G"} \X {5}

-----------------------------------------------------------------------------
SoundTypeOK ==
    /\ snd_pc \in {"idle", "next", "low", "high", "on", "sleep", "hlt", "off", "gap", "gaphlt"}
    /\ \E m \in Melodies : \E i \in 1..(Len(m) + 1) : notes = SubSeq(m, i, Len(m))
    /\ sleep \in 0..Longest /\ passed \in 0..Longest
    /\ pending \in BOOLEAN /\ speaker \in BOOLEAN
    /\ Len(channel) <= 2 /\ \A i \in 1..Len(channel) : channel[i] \in 0..255
    /\ plays \in 0..MaxPlays

SoundInit ==
    /\ snd_pc = "idle" /\ notes = <<>> /\ sleep = 0 /\ pending = FALSE
    /\ channel = <<>> /\ speaker = FALSE
    /\ plays = 0 /\ passed = Longest

Note == Head(notes)
SndStep(here, next) == snd_pc = here /\ snd_pc' = next
\* pcspk_stop, or the last write of pcspk_play_freq.
SetSpeaker(on) == speaker' = on /\ passed' = IF on = speaker THEN passed ELSE 0

\* melody_pump, or kernel_main at the start.
PlayMelody ==
    /\ plays < MaxPlays /\ plays' = plays + 1
    /\ SndStep("idle", "next")
    /\ notes' \in Melodies
    /\ UNCHANGED <<sleep, pending, channel, speaker, passed>>

\* The end mark: pcspk_stop once more.
EndMelody ==
    /\ notes = <<>> /\ SndStep("next", "idle")
    /\ SetSpeaker(FALSE)
    /\ UNCHANGED <<notes, sleep, pending, channel, plays>>

\* mutant: the sleep is over when one period is left
SleepShort(ms) == ms - 1
\* pit_sleep_ms: target = pit_ticks + ms.
SleepFor(ms) == ms

PlayRest ==
    /\ notes # <<>> /\ Note.note = "REST" /\ SndStep("next", "sleep")
    /\ SetSpeaker(FALSE) /\ sleep' = SleepFor(Note.ms)
    /\ UNCHANGED <<notes, pending, channel, plays>>
\* Command 0xB6: the channel stops until both bytes are there.
LoadCommand ==
    /\ notes # <<>> /\ Note.note # "REST" /\ SndStep("next", "low")
    /\ channel' = <<>>
    /\ UNCHANGED <<notes, sleep, pending, speaker, plays, passed>>
LoadByte ==
    /\ SndStep("low", "high") \/ SndStep("high", "on")
    /\ channel' = Append(channel, Bytes(Divisor(Freq(Note.note, Note.octave)))[Len(channel) + 1])
    /\ UNCHANGED <<notes, sleep, pending, speaker, plays, passed>>
SpeakerOn ==
    /\ SndStep("on", "sleep")
    /\ SetSpeaker(TRUE) /\ sleep' = SleepFor(Note.ms)
    /\ UNCHANGED <<notes, pending, channel, plays>>

\* pit_sleep_ms tests the counter, then halts.
Test(here, halt, after) ==
    /\ SndStep(here, IF sleep > 0 THEN halt ELSE after)
    /\ notes' = IF here = "gap" /\ sleep = 0 THEN Tail(notes) ELSE notes
    /\ UNCHANGED <<sleep, pending, channel, speaker, plays, passed>>

\* Between two notes.
SilenceNote ==
    /\ SndStep("off", "gap")
    /\ SetSpeaker(FALSE) /\ sleep' = SleepFor(Gap)
    /\ UNCHANGED <<notes, pending, channel, plays>>

-----------------------------------------------------------------------------
\* A timer period passes: a request that is still up takes the new one in (external).
Period ==
    /\ pending' = TRUE
    /\ passed' = IF passed < Longest THEN passed + 1 ELSE passed
    /\ UNCHANGED <<snd_pc, notes, sleep, channel, speaker, plays>>

\* An interrupt ends the halt.
Awake == IF snd_pc = "hlt" THEN "sleep" ELSE IF snd_pc = "gaphlt" THEN "gap" ELSE snd_pc
\* pit_irq_handler: pit_ticks++.
PitIrq ==
    /\ pending /\ pending' = FALSE
    /\ sleep' = IF sleep > 0 THEN sleep - 1 ELSE 0
    /\ snd_pc' = Awake
    /\ UNCHANGED <<notes, channel, speaker, plays, passed>>
OtherIrq ==
    /\ Awake # snd_pc /\ snd_pc' = Awake
    /\ UNCHANGED <<notes, sleep, pending, channel, speaker, plays, passed>>

SoundNext ==
    \/ PlayMelody \/ EndMelody \/ PlayRest \/ LoadCommand \/ LoadByte \/ SpeakerOn
    \/ Test("sleep", "hlt", "off") \/ SilenceNote \/ Test("gap", "gaphlt", "next")
    \/ Period \/ PitIrq \/ OtherIrq
SoundSpec == SoundInit /\ [][SoundNext]_soundVars

-----------------------------------------------------------------------------
\* The speaker never sounds anything but the whole divisor of the note that is played,
\* and is silent unless a note is; each note sounds, and each gap lasts, as long as the
\* table says, but for the request that was up when the sleep began, however the main
\* task is held up between reading the counter, testing it and halting
\* (pcspk.c:35-150, pit.c:73-110).
NotesWhole ==
    /\ speaker =>
        /\ snd_pc \in {"sleep", "hlt", "off"}
        /\ channel = Bytes(Divisor(Freq(Note.note, Note.octave)))
    /\ snd_pc = "off" => passed + 1 >= Note.ms
    /\ snd_pc = "low" => passed + 1 >= Gap

\* No divisor of the kernel's melodies is cut off by the sixteen bits of the channel, and
\* what sounds is within a hundredth of the note: its frequency in the fourth octave,
\* doubled or halved.
InTune ==
    \A p \in BootPitches \cup ErrorPitches \cup CustomPitches :
        LET d == Bytes(Divisor(Freq(p[1], p[2])))
            loaded == d[1] + 256 * d[2]
            exact == note_freqs[p[1]] * 2^p[2]      \* sixteen times the frequency
        IN  /\ loaded > 0
            /\ 100 * 16 * 1193182 \in (99 * exact * loaded)..(101 * exact * loaded)

\* A melody is heard as its table says, whatever delays pcspk_play_melody
\* (pcspk.c:132-150).
MelodyRight == NotesWhole /\ InTune
=============================================================================
