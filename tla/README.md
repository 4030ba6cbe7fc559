# A TLA+ verification of the TKOS kernel

TKOS is a small x86-64 operating system in C: a single-CPU kernel with preemptive tasks, a page
allocator and heap, loadable programs with system calls, a FAT16 driver, and a graphical shell.
This project models the kernel of version 2.10 (`tkos_g2_v2.10/kernel/`) and the last stage of
its boot loader (`tkos_g2_v2.10/boot/stage2.asm`), model-checks it with TLC and proves its
safety properties with TLAPS, for every value of the constants. All line numbers below are of
the first directory. `src/kernel/` holds version 2.07, a condensed copy of the same code for
everything modelled here except the write half of the FAT16 driver; it is not mapped.

## 1. The system

| Part | State | Operations | Talks to |
|---|---|---|---|
| Scheduler (`sched.c`) | circular list of `task_t`, `current_task`, `tick_counter`, per-task flags and wake time | `sched_add`, `sched_tick`, `sched_yield`, `sched_next` (which also reaps killed tasks), `task_yield`, `task_sleep`, `task_kill` | timer interrupt calls `sched_tick`; frees pages of the dead |
| Interrupts (`idt.c`, `pic.c`, `pit.c`) | IDT, handlers, what the PIC has in service, `pit_ticks` | `idt_dispatch`: handler, **then** EOI | everything that runs in a handler |
| Page allocator (`alloc.c`) | bitmap, `used_pages`, next-fit hint | `alloc_pages` (under cli), `free_pages` (not under cli) | heap, loader, tasks |
| Heap (`heap.c`) | free list, buckets, counters, headers inside the chunks | `kmalloc`, `kfree` (both under cli) | page allocator |
| Loader (`exec.c`) and `task_create` | buffer, image, task under construction | `exec_load` | heap, pages, FAT16, scheduler |
| System calls (`syscall.c`) | none | exit, write, sleep, yield, alloc, free, ... | scheduler, heap, console |
| FAT16 (`fat16.c`) | the disk; one shared sector buffer `g_sector_buf` | lookup, list, read, write, delete | ATA |
| ATA (`ata.c`) | device registers | `ata_read_sectors`, `ata_write_sectors`: polling with a limit, flush | the two drives |
| Shell and modes (`kernel_main.c`) | `active_callback`, line buffer, `splash_active`, `demo_tasks_running`, `demo_stop_requested`, `melody_pending`, `melody_playing`, allocation table | key handlers (inside IRQ1), commands, main loop (the idle task) | all of the above |
| Start of `kernel_main`, `mouse_init` | handlers, PIC masks, the keyboard controller's configuration | the order in which everything is set up, ending in `sti` | all of the above |
| Keyboard (`keyboard.c`) and the shell's line | `shift_held`, `shell_buf` | scan code to character to line to command | shell |
| Mouse and buttons (`mouse.c`, `button.c`) | packet bytes, saved cursor background | `mouse_handler`, show, hide, draw | screen |
| Console (`fb_console.c`), marquee (`marquee.c`), framebuffer | text cursor; scroll offset, text; geometry | prints; `marquee_create`, `marquee_tick`; pixels | screen |
| Speaker (`pcspk.c`) with `pit_sleep_ms` | the timer's channel 2, port 0x61 | `pcspk_play_melody` | timer |
| RTC clock (`kernel_main.c`) | `clock_last_sec` | `rtc_read`, `draw_clock` | CMOS chip |
| Boot loader (`boot/stage2.asm`), user program (`prog/hello.asm`) | page tables, mode information | load the kernel; make system calls | - |

How they interact: shell commands run *inside the keyboard interrupt*; they leave flags
that the main loop acts on, add tasks to the ring, and allocate. The timer interrupt
switches stacks inside its handler. Tasks and the main loop call `task_yield`, which runs
the same scheduler code with interrupts *enabled*. User programs share the kernel's
memory and page tables.

What makes correctness hard:

- `sched_yield` at task level can be cut by a tick that runs `sched_yield` again;
- a preempted stack owes the PIC an EOI, and until it pays no tick and no key comes;
- a killed task is freed by whichever task scans the ring next, wherever it stood;
- `free_pages` is not atomic; `exec_load`, `task_create`, the FAT16 write path and
  `multitask_start` have many ways to fail half-way;
- a power failure between two sector writes; one sector buffer for all of FAT16;
- modes that share one keyboard, one screen and one main loop;
- devices that go on by themselves: a clock chip that updates while it is read, a drive
  that answers after the driver gave up on it, a keyboard and a mouse behind one data
  port that is polled at boot, timer ticks lost while a handler runs.

`PROJECT.json` lists the components with what is and is not modelled, and the hazards,
each at the line where it bites, with the property that covers it.

What makes each part correct, in a sentence: the *scheduler* keeps the ring equal to the
live tasks, never runs a sleeper or a corpse, pays every EOI and starves nobody; the *page
allocator* gives each page one owner and counts right; the *heap* tiles its blocks with
chunks that can be linked and sized back; the *loader* and everyone who owns memory lose
nothing and share nothing; *FAT16* does not let one file's write hurt another; the *modes*
can always be left with the key they name; the *console* puts each text in its own place
with one unlocked cursor; the *mouse* handler survives lost bytes and leaves no cursor and no
held button behind; the *clock* shows a time that was; a *transfer* that succeeds has
happened; nothing interrupts a kernel that is *half set up*, and keyboard and mouse work when
it is; a *melody* sounds its notes for their time; the *marquee* shows its text in its place;
what is *typed* is what is done.

## 2. Modules

| Module | Models | Composes |
|---|---|---|
| `Sched` | scheduler, interrupt entry, EOI, task bodies, demo, main loop | - |
| `RoundRobin` | abstract: tasks that take turns | - |
| `SchedTurns` | `Sched` with a history of who has overtaken whom | EXTENDS `Sched`, refines `RoundRobin` |
| `PageMap` | abstract: what a page allocator promises | - |
| `Alloc` | page allocator | refines `PageMap` |
| `Heap` | `kmalloc`, `kfree` over the page allocator's promise | - |
| `Loader` | `exec_load`, `task_create`, reaper, SYS_ALLOC/FREE, shell alloc/free | EXTENDS `Heap` |
| `Fat16` | write, delete, lookup, read | - |
| `FatNames` | names, listing, layout of a volume, contents of files, as functions | checked on `Fat16`'s directory in `MCFat16` |
| `Shell` | key handlers, modes, main loop | - |
| `Console` | `con_putchar`, `con_print`, `con_print_at` and all who print | - |
| `Mouse` | mouse handler, cursor, one button, what boot does to them | - |
| `Rtc` | `rtc_read` against the clock chip, BCD and 12-hour rules | `MCDrivers` |
| `Ata` | the disk driver against two drives | `MCDrivers` |
| `Boot` | start-up to the first interrupts, `mouse_init` | `MCDrivers` |
| `Sound` | `pcspk_play_melody`, `pit_sleep_ms`, pitches | `MCDrivers` |
| `Marquee` | `marquee_create`, `marquee_tick`, pause | `MCDrivers` |
| `Typing` | keyboard handler, the line, choice of a command, number conversions | `MCDrivers` |
| `MemoryMap` | stage 2, page tables, kernel sectors, allocator's pages, framebuffer | `MCDrivers` |
| `NatSets` | induction, least elements, iteration and accumulation over the naturals, as facts about sets | used by the proofs |
| `Sched_proofs`, `Alloc_proofs`, `Shell_proofs`, `Loader_proofs`, `Fat16_proofs`, `Input_proofs`, `Drivers_proofs` | theorems | `Sched_proofs`: `SchedTurns`; `Shell_proofs`: `Shell`, `Console`, `Mouse`; `Loader_proofs`: `Loader`, `Heap`; `Fat16_proofs`: `MCFat16`; `Input_proofs`: `Boot`, `MemoryMap`, `Typing`; `Drivers_proofs`: `Ata`, `Rtc`, `Marquee`, `Sound`, and with `Input_proofs` all of `MCDrivers` |
| `MC*` | instances for TLC | - |

### Sched
Each task has one stack with at most two frames, task level (`task_pc`) and interrupt
level (`irq_pc`); `scan[t][level]` holds the locals of the `sched_next` running there. The
steps of `sched_yield` are actions of their own: `Scan` (first candidate), `Test` (killed?
asleep?), `UnlinkPrev` and `UnlinkNext` (the two stores of `list_remove`), `Free`, `Pick`,
`Switch`. At interrupt level nothing can come between them; at task level `TimerIrq` can.
When it does, `hit` is set and the run goes on; if a freed `task_t`, a freed stack or an
overwritten context is then used, the code's behaviour is undefined: `ub` is set and that
behaviour ends (hence `CHECK_DEADLOCK FALSE`, also because a lost EOI stops the machine).
`in_service` is IRQ0's bit in the PIC; `Eoi` clears it. Wake times are kept as
the difference `wake_in` so that the jiffy counter needs no bound. `made`, `tried` follow
`multitask_start`, whose `task_create` calls may fail; `pump` counts the yields of
`multitask_pump`.

### RoundRobin, SchedTurns
`RoundRobin` has the task that runs, the tasks that may run, and for each of these the
tasks that have been given the CPU since it could: its step `Turn` gives the CPU to a task
that no waiting task has seen run before. Tasks come and go, sleep and wake as they
like; `lost` ends the promise. `SchedTurns` adds that history, `ahead`, to `Sched`
without changing a step of it, and `IsRoundRobin` maps the links of the ring, the flags and `hit`
to `RoundRobin`.

### Alloc, PageMap
`bitmap` is a set of pages, `held` the blocks given out (history), `freeing` the one
`free_pages` that a tick has cut (first, n, progress, loaded count). `FreePages` is a call
nobody interrupts; `FreeBegin` ... `FreeLower` are its instructions, as the object file
has them: one read-modify-write instruction per bit, load/subtract/store on `used_pages`,
compare then move on the hint. `torn` records an operation between that load and that store.
`IsPageMap` maps `held` and the clear pages to `PageMap`.

### Heap
Addresses are numbers, chunks are `[at, size]`; the free list and the buckets are sets,
because which of several fitting chunks is first matters to no property. `Total` is the
code's rounding in 64 bits (`Word`). Both operations run under cli and are one action each.

### Loader
`load.at` is where `exec_load` stands, `load` its locals; each of its calls succeeds or
fails. `task_create`'s two allocations, its undo, `exec_load`'s undo and the shell's full
table are steps of the same program counter. `owns` and `orphans` remember which program
asked for which chunk. Programs free only what they own. The heap has no run of its own: it
is checked under the callers it has. `MCLoader` runs two regimes of one memory, chosen
by the initial state: the shell alone with up to four chunks of every size, the wrapping ones
included, on four pages; or programs, demo tasks and the shell with up to two small chunks
on six.

### Fat16
One FAT sector per copy, one root directory sector, one token of data per cluster. `op`
holds the call under way. Each write of a sector is a step that can fail, and `PowerOff`
can come between any two. `exposed` is set by the faults the driver does not undo:
a failed FAT write for a cluster that is in use, a FAT read failure that shortens a
file, and an overwrite or delete that stops after it began to free the old chain.
`wrecked` records that `fat16_delete_file` wrote a FAT sector over the root directory
(fat16.c:592-596: `e` points into `g_sector_buf`, which `fat16_free_chain` has reused):
**every** delete of a file with at least one cluster does this. `Wrecked` is what the
directory looks like afterwards. No command of the shell deletes or writes files yet.

### FatNames
What `Fat16` abstracts, as functions: a name to its 8.3 form and back, the scan of
`fat16_list_root` and `fat16_find_in_root` with sectors that cannot be read, `fat16_init`'s
areas for any boot sector, the sectors of a chain of clusters, the bytes written and read with any
buffer. Each of four facts is a predicate of one input (`NameKept` of a name, `ListedIn` of a
directory, `Apart` of a boot sector, `Kept` of a file, its sectors and a buffer), which
`NamesRight` asks of the bounded inputs a run can list, and the theorems of any. A fifth,
`ListedOnce`, is about `Fat16`'s root directory in every state: `ls` shows each file once and, unless it
has room for no more, all of them. For that the names of `Fat16` stand for names of one
letter (`LetterAssumption`). Exceptions `NamesRight` names: names with a space or with nothing behind the
dot are taken and never found; and `fat16_init` does not ask whether the FAT has an entry for
each cluster.

### Shell
`callback` is the installed key handler; key handlers are atomic (interrupts are off), the
main loop's steps are actions (`pc`). The text of a line is abstracted to its length, and
Enter runs any command. What a `task_yield` does is left to `Sched`.

### Console
`cur` is `cur_col`, `cur_row`, `color_fg` and `color_bg` (the shell's or a `con_print_at`'s),
`frame[t]` the print task `t` is in the middle of: what is left of its text, a register, the saved
cursor. Each load and each store of the cursor at task level is a step of its own: the four
loads (`Save`), four stores (`Place`) and four stores (`Restore`) of `con_print_at` too, in the
source's order, so what it saves may be the column of one moment and the row of another. Prints of
interrupt handlers are one step. Left out are loads that only choose pixels (colours, the
blanks of a newline). Who can cut in is taken from `Sched`: `preempted` owes the EOI, and while it
does no interrupt comes (`IrqsArrive`). `torn` records that `con_print` stored the cursor between
a `con_print_at`'s first load of it and its last store to it (`Borrowed`): then the text can go to
that place, and its cursor movement is lost, or kept in part. `home` and `stray` are history: where `con_print` left the cursor, and whether a
`con_print_at` drew elsewhere.

### Mouse
`packet` is what the handler has collected, `sending` what the device has yet to deliver of a
report; `LoseByte` drops a byte. `cursor` holds `has_saved`, where, and whether the saved pixels
show a cursor (`bg`); `images` is where a cursor can be seen. Interrupt handlers are atomic;
`Boot...` are the steps of `mouse_show_cursor` and `button_create`, which kernel_main runs with
interrupts on. `raced` records an interrupt that came where those steps can be spoiled. The
logo screen, its exit and `clear` appear by what they do to cursor and button.

### Rtc, Ata, Boot, Sound, Marquee, Typing
Each is a device or an interrupt beside one thread of the kernel.

- `Rtc`: the chip announces an update (UIP), is undefined while it updates, and has the next
  second after it. Registers are read one by one, and the main task can be held up anywhere.
  `since`, `hit_a`, `hit_b` are history: when the reading began and what updates did to it.
  Weekday, month and century behave like the three registers modelled.
- `Ata`: a command is issued to a drive that may still be at an earlier one
  (`Issued`, `Obeyed`); polling ends with an answer or at its limit, at any moment, because a
  drive has no bound the driver knows. `suspect` marks calls on such a drive.
- `Boot`: `boot_pc` follows kernel_main's order; the controller's one output buffer is filled
  by keys, the mouse or an answer, in any order it allows, and whoever reads port 0x60 gets
  what is there, or the last byte again.
- `Sound`: a period of the timer raises its request; `PitIrq` takes it, at once or
  late. `notes` is the rest of the melody, `channel` and `speaker` the hardware.
- `Marquee`: a column of pixels is background, a column of a glyph, or what others drew;
  `marquee_create` is cut at each character it copies or draws.
- `Typing`: shift keys are held and let go, arrows come as two codes; `meant` is the line
  the user has in mind. The tables of the keyboard are the code's; the choice of a
  command and the number conversions are functions over texts.

`MCDrivers` lets one of the six run while the others rest in their initial states. They
share no variable, port or register; the CPU they share delays them, and each allows any delay
between any two of its steps, so a product of all six would only multiply states.

### MemoryMap
Constants of the code and functions of them: no state. The page tables are what stage 2
stores, by address; `Walk` is the processor's walk over them. `Boot` extends it, and `StartRight` states both.

## 3. Runs

| Run | Shows | Bounds |
|---|---|---|
| `sched_ring` | `RingSound`, `OnePreempted`, `EoiLostOnlyAtExit`, `NoEarlyWake` in every interleaving, and that the tasks take turns: refinement of `RoundRobin` | 3 demo slots, 1 program, slice 1, sleeps of 0-1 jiffies, 2 demo tasks, 2 stop yields |
| `sched_programs` | fair scheduling of 3 programs: `TasksProgress`, `KilledReaped`; only the main loop is preempted and it never halts for good (`IdleAlonePays`) | no demo |
| `sched_demo_stop` | the demo ends once asked (`DemoStops`) | 2 demo slots, 1 program, 3 stop yields |
| `sched_any_key` | **violation**: a key cannot always stop the demo (section 6) | 1 demo slot, 1 program |
| `alloc_pages` | bitmap and count exact (`BooksExact`), a free page is found, refinement of `PageMap` | 6 pages, 1 reserved, runs up to 3, one cut `free_pages` |
| `memory_owners` | every page and chunk has one owner whatever fails (`OneOwner`), programs start inside their image, chunks tile the blocks (`Tiled`), counters and grants are right (`BooksRight`) | pages of 16 bytes, bucket limit 12, requests small, at the limit, several pages, wrapping; 2 tasks; the two regimes above |
| `fat16_files` | files beside the one being written stay intact, nothing leaks and copies agree (`VolumeSound`), others stay in the directory, names and contents (`NamesRight`) | 3 clusters, 2 slots, 2 names, 2 FAT copies, files of 0-2 clusters, one fault; names of 2+1 letters, sectors of 2 bytes, files of 0-8 bytes |
| `shell_modes` | each mode has its keys and its screen; a melody asked for plays | line of 2 characters |
| `shell_boot_melody` | **violation**: the logo screen opens during the boot melody (section 6) | same |
| `console_prints` | the cursor stays on the screen, texts stay apart | 3 x 3 characters, main loop, 1 demo task, 1 program, texts of 2-3 characters |
| `mouse_button` | position on the screen, no cursor left behind, the button follows, in step without loss (`ButtonRight`) | 2 x 2 positions, button in the upper two, 3 reports: down right released, up left held, overflow |
| `drivers` | `ClockRight`, `TransfersRight`, `InputAlive`, `MelodyRight`, `ScreenRight`, `TypingRight`, `StartRight` | 3 seconds to the minute, 2 minutes, 2 hours; 1 drive there of 2, 2 sectors; 2 keys, 1 report; 3 notes of 1-3 periods, 2 melodies; 2 characters of 2 columns in 5 of 7; 4 keys, a line of 3, words of 8 bits |

Why the bounds are enough: two tasks between which the ring is cut need a third task to scan it,
so three slots and the idle task cover first, middle and last positions; the hint of the page
allocator can stand before, inside and behind a run of three in six pages; four pages allow two
blocks and a third user; three clusters allow two files of which one has a chain, and a full
disk; a screen of three rows has a first, a middle and a last row for texts that wrap and that do
not; the bytes of the three mouse reports also pass for flags, for overflows and for movements
to either side; the other counters only repeat. The constants that stand for real sizes keep the
order and divisibility that `SizeAssumption` in `Heap` states. A reading of the clock can be cut
by the end of a second, a minute and an hour at each of three registers, as by those of six; a
transfer of two sectors has a first and a last one, and a drive left at one of them; one drive
that is there and one that is not are all a cable has. A window of five columns shows parts of
two glyphs cut at either edge, inside a screen that goes on at both sides. In words of 8 bits
every number is tried, and texts that overflow; `MemoryMap` has the real sizes: 504 bytes of
stage 2 (as nasm assembles it), 1000 sectors of kernel and the 2041 its comment allows.
`MaxUsed`, `MaxTasks`, `MaxSleep`, `MaxRun`, `MaxLen` and `MaxFaults` are bounds of the model,
the others are parameters of the code.

Every property is shown to be able to fail: `PROJECT.json` names for each a definition and
a mutated form of it (`mutant:` in the modules) under which TLC finds it violated.

### Fairness
`Sched!FairSpec`: the CPU always takes its next step (`CpuStep`, weak); each task's own
code proceeds between ticks, since a tick is a millisecond away and a step an instruction
(strong, per task level); the PIT's request stays pending in the PIC and outranks the
keyboard (strong on `TimerIrq`). Nothing is assumed of keys. `TasksProgress`
and `KilledReaped` exclude `hit`, after which nothing can be promised, and `Hung`, whose absence is part of
`IdleAlonePays` in the same run. `Shell!Spec`: the main context takes its next step and the timer ends a hlt.

## 4. Proofs

Every theorem holds for all values of the constants that satisfy the named ASSUMEs, which
TLC evaluates in the runs. Two things recur. The invariant a run checks is seldom
inductive, so each module states one that is (`...Inv`), proves it with one lemma
per action, and reads the checked properties off it. And a definition by recursion cannot be
unfolded for every input; `NatSets` replaces induction by facts about sets (a
nonempty set of naturals has a least element; a set with 0 that is closed under successor is all of `Nat`),
gives functions defined by iteration, and shows that a recursive function over an interval
satisfies its own equation (`Accumulation`); with these the recursive functions that the model and the
invariants use are reached, for every input.

**Scheduler** (`Sched_proofs`; any slots, slice, sleeps and stop yields). `TypeCorrect`,
`AtMostOnePreempted`, `CountCorrect` hold whatever interrupts hit, from
`IInv == TypeOK /\ CountOK /\ StartOK /\ OnePreempted`: `list_remove` decrements
`task_count`, so its type needs `CountOK`; `multitask_start` must be on the CPU for the stack
switch to keep `OnePreempted`, hence `StartOK`. The ring is an argument about order, because
`list_add` and `list_remove` take no lock. Tasks have *ranks*: the idle task 0, each task
added a new maximum; every link goes to the next rank up, the last one back to 0
(`RingInv(rank)`). `sched_next` then meets only higher ranks than the running task's before it
comes to the idle task, so it neither frees the stack it runs on nor walks a second lap. The
invariant is `SInv == IInv /\ (hit \/ Calm)`: all of it until a tick reschedules inside a
`sched_yield`. From it: `RingCorrect` (`RingSound`), `EoiLostOnlyWithTheDead`, `SleepersSleep`,
and with no demo `MainLoopPays` (`IdleAlonePays`) and `RingAlwaysSound`, which has no proviso
because then nothing but the main loop is preempted. `SchedIsRoundRobin` (`IsRoundRobin`) reads the
ring as an order that starts after the running task and goes up in rank, past the maximum to 0 and
on to the running task: in it a waiting task comes before everyone who has overtaken it
(`Waits`, `TurnInvariance`). Tasks that are added or freed do not change the order of the others, and
`sched_next` gives the CPU to the first in it that may run, so whoever gets the CPU has overtaken
none of those that wait.

**Page allocator** (`Alloc_proofs`; any memory, reserved pages and runs). `IInv == TypeOK /\
RangeOK /\ BitmapExact /\ UsedExact` gives `TypeCorrect` and `BooksStayExact` (no page is in two
blocks, the bitmap is the reserved pages, the blocks and what a cut `free_pages` has not yet
cleared, and `used_pages` counts it unless `torn`). `RangeOK` adds that blocks lie within memory
and that a cut `free_pages` has cleared all its pages before it loads the count. `ClearPageFits`
(`SinglePageFits`): a least clear page at or after the hint, or before it, starts a run of one.
`AllocIsPageMap`: every step is a step of `PageMap` or leaves its state alone.

**Heap and loader** (`Loader_proofs`; any page size, requests, files, tasks).
`HeapTiled`, `HeapBooks`, `EveryPageOwned`, `ProgramsSound`, `LoaderTyping`. Chunks are
intervals of bytes: that they are disjoint and fill the blocks is a statement about sets, that
`used_u8s` is their sum one about `SumFunction` over a finite set, for which the module proves what
adding, dropping and splitting a chunk does to the sum. `LoaderInv` adds to them which locals
`exec_load` and `task_create` have set at each program point (`LoadRight`), because every
error path frees what its point has; and `PagesApart`, the ownership of pages in the
form each step keeps.

**FAT16** (`Fat16_proofs`; any volume, copies, names, lengths). `FilesStayIntact`,
`VolumeStaysSound`, `VolumeTyped`, and the action property `OthersAreKept`. Three layers:
`Basic` (types, the directory, the locals of a call), `CopiesRight` (where the copies of the FAT
differ while an entry is being set), and, while the volume is not `exposed`, `VolumeRight`, which tells
of each cluster whose it is: an entry's chain, or part of the one the call frees, builds or
fills. `ChainOf` walks a chain recursively; the proof shows that a walk which meets only
a file's own clusters ends where that file ends.

`NamesStayRight` (`NamesRight`) rests on four theorems that say of every input what the run asks
of the bounded ones. `NameFound`: where a name ends, and where its form does, are `CHOOSE`s of
which there is only one; padding and trimming undo each other but for spaces. `ListedIsFound`:
after each entry the list is the places shown so far, in order, up to its room; the first entry
of a name is the listed one if no other has it. `AreasStayApart`: facts about division and about
products, the count of clusters being a quotient. `FileReadsBack`: `Put` and `Get` are loops
whose state after each sector is written down (`min(n * SectorBytes, size)` bytes done; the
sectors of the places so far filled, the others as they were), and the places are injective
because quotient and remainder tell which they are. `ListedOnce` is of the volume's states:
`Basic`, by which no two entries have the same name, with `EntriesNamed` (each has one of
`Names`) is inductive.

**Modes, console, mouse** (`Shell_proofs`).
- `ModesWhole` and `TypeCorrect`, any length of line: `ModeOK` with `StopHasKeys` (while the demo is
  being stopped it still has the keyboard).
- `PrintsStayApart` and `ConsoleTyped`, any screen, texts and tasks. At most one print is running
  and one is cut. `Stands` says where a `con_print_at` is from its step and what is left of its text;
  `Near` bounds how far the two may have taken the cursor off the screen (one each), and `FoundBy`
  is the cursor a print will leave, field by field: what a `con_print_at` has loaded and not yet put
  back is its to restore. Until `torn`, the cursor that both prints will leave is `home`. A text printed by an
  interrupt handler keeps what each of its characters keeps (`PrintedKeeps`, by iteration).
- `CursorStaysClean`, `ButtonFollowsHand`, `MouseTyped`, any screen, button and reports.
  `CursorInv` says at each step of `mouse_show_cursor` what may be on the screen; `DeviceInv` what of a
  report is still on its way and what the handler must hold; `ButtonInv` relates both to the button.

**Start, memory, keyboard** (`Input_proofs`).
- `InputComesAlive`, `HandlersComeFirst`, any number of keys and reports: `BootInv` gives, for
  each point of kernel_main's order, what is masked and enabled and which bytes can be where.
- `StartIsRight`: with `HandlersComeFirst`, the layout of memory, for every stage 2 of up to 512
  bytes (0x7E00 to the BIOS's table at 0x8000) and every kernel of up to 2041 sectors (to the
  start of the volume); these are its two hypotheses, and the code's own sizes satisfy them.
- `TypedIsDone` (`TypingRight`), any keys, length of line and width of a word. `LineIsMeant`:
  the flag is down whenever no shift key is, also after a confusion, so the next Enter makes the
  line good again. `ChosenRight`: the first word is where the first non-space begins and ends
  where a space or the text does, so a line has one, and two commands have different names.
  `TextsRead`: a text is taken for a number just if it is a row of digits between spaces, and
  Horner's scheme, kept to the width of a word at every digit, gives what the place values sum
  to. And what is printed is read back: the digits that the conversion takes off, from the last
  to the first, make up the value again.

**Disk driver, clock, marquee, melody** (`Drivers_proofs`).
- `TransfersCorrect`, any number of sectors: what the drive is at is what the driver takes it to be
  at, sector by sector, unless `suspect`; what has been moved so far is what was asked for.
- `ClockTellsTime`, any registers. `Apiece` says of the two readings that each
  register was that of some time, the first's from x to y and the second's from z on (`Spread`), and
  `Exact` that an undisturbed reading is all of one time. Two readings that agree have the
  same seconds, which within a minute are of one second (`SecondsTell`): no update came between, so
  the second is of one time. And no digit is wrong after conversion (`DigitsConverted`).
- `TextScrolls`, any text, font and window: `marquee_draw` is a recursive function in the model;
  its closed form is found by induction over the set of characters drawn, and a tick moves
  that form by one column (`PictureMoves`).
- `MelodyPlays`, any melodies and delays: the time passed and the time still to sleep together make the
  note's, with one period for the request that may be pending (`Lasts`); and for each of the
  notes and octaves of the code the loaded divisor is within one percent of its frequency.
- `DriversTyped` (`MCDrivers!TypeOK`) and `DriversRight`: a step of `MCDrivers` is a step of one part or
  stutters in it (`EachPartRuns`), so what holds of each part alone, types included, holds of the six
  side by side, for all constants.

Assumptions worth naming: `Console!TextAssumption` only types the texts;
`Sound!MelodyAssumption` says that there are melodies, whose octaves shift no frequency out of
its 32 bits; `FatNames`' sizes are not zero, and `MCFat16!LetterAssumption` makes the names of
`Fat16` different; `Mouse!ReportAssumption` types the reports; the rest are sizes that must not
be zero, and the order and divisibility of the heap's sizes.

Only model-checked: liveness (`TasksProgress`, `KilledReaped`, `DemoStops`, `PlayHeard`) and the
two violations, which need fairness and so ENABLED. Every other property of every run has its
theorem. The theorems of `NatSets` stand in for induction over data, which the installed provers
cannot instantiate.

## 5. Not modelled, and why

Fonts, logo, palette, banner and the output of commands: data and wording. Exceptions
(`idt.c`): they print and halt. `default_irq_handler`: no device raises its vectors.
`pic_mask_irq`, `pic_read_isr`, `button_destroy`, `marquee_destroy`: no caller.
`isr_stubs.asm` and `sched_asm.asm` are not in the repository; `sched_context_switch` is
modelled from its use. Stage 1 of the boot loader is there only as a binary; of stage 2 the A20
gate, the GDT and the mode switches are the processor's business, and a disk error at boot makes
it poll for ever. The amount of RAM: the allocator takes 1 GB for granted. Text printed under
the mouse cursor: the next report puts the old pixels back, and the code promises nothing. Version
2.07: the same code, condensed.

## 6. Where the code and its words differ

- `sched_any_key`: `multitask_start` says that any key stops the demo (kernel_main.c:937).
  A program preempted between `task_kill` and `task_yield` of SYS_EXIT is reaped with the
  EOI its stack owes; then no key arrives (sched.c:281).
- `shell_boot_melody`: `shell_cmd_ab` says that the logo screen cannot be opened while a
  melody plays (kernel_main.c:581); the boot melody does not set the flag it tests.

Found while modelling, with nothing in the repository that says otherwise, and kept as
guards and exceptions of the properties: a tick inside a task-level `sched_yield` can lead to
undefined behaviour (`hit`, sched.c:348); `fat16_delete_file` overwrites the root directory
(`wrecked`); an overwrite that finds the disk full leaves its entry on freed clusters
(`exposed`); SYS_ALLOC memory outlives its program (`orphans`); the count of used pages can
drift (`torn`); a `kmalloc` within 23 bytes of 2^64 wraps; a `con_print` that cuts into a
`con_print_at` lands in its place or leaves the cursor half where it was before (`Console!torn`);
a mouse report that cuts into
`mouse_show_cursor` at boot can leave a second cursor (`raced`). `scroll_up` does not scroll: it
clears and reuses the last row. The clock of a machine in 12-hour mode
shows noon as 00 and midnight as 12 (kernel_main.c:107, `Rtc!DigitsTrue`). A drive that answers
after the driver's limit gives its data to the next call (`Ata!suspect`), and a write is reported
done although the flush failed (`unseen`). A key typed while `mouse_init` polls can be taken for
the controller's configuration and leave the keyboard off (`Boot!mistaken`). Letting go of one
of two shift keys ends both (`Typing!odd`). `con_print_at`'s test `cur_col < COLS` is never what ends its
loop, unless it is cut, because `con_putchar` wraps before.

## 7. Plan

Done: the modules of section 2, and a theorem for each safety and refinement property of the runs.

Left: an abstract console that prints each text as a whole at its own place, which `Console`
would implement until `torn`; `StartRight` without its two hypotheses, by having the build's own sizes as
the model's; and the liveness properties, should a prover for ENABLED come.
