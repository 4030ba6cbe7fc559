------------------------------- MODULE Loader -------------------------------
(***************************************************************************)
(* Who owns memory: the program loader (kernel/exec.c), task_create and    *)
(* the reaper of sched_next (kernel/sched.c), the system calls SYS_ALLOC   *)
(* and SYS_FREE (kernel/syscall.c) and the shell's alloc and free commands *)
(* (kernel/kernel_main.c), over the heap of module Heap.                   *)
(*                                                                         *)
(* exec_load runs in the keyboard handler: nothing else runs until it      *)
(* returns, but each of its calls can fail, so each is a step here.        *)
(***************************************************************************)
EXTENDS Heap

CONSTANTS
    Files,          \* [size, image_size, entry, magic, stack]: what exec finds on disk
    TkxHeader,      \* sizeof(tkx_header_t)
    TaskPages,      \* pages of a task_t
    DefaultStack,   \* TASK_STK_SIZE
    TableSize,      \* SHELL_ALLOC_MAX
    MaxTasks,       \* bound: tasks at a time
    NULL

ASSUME LoaderAssumption ==
    /\ Files \subseteq [size : Nat, image_size : Nat, entry : Nat, magic : BOOLEAN, stack : Nat]
    /\ {f.size : f \in Files} \subseteq Requests
    /\ {TkxHeader, TaskPages, DefaultStack, TableSize, MaxTasks} \subseteq Nat \ {0}
    /\ NULL \notin Files /\ NULL \notin [at : Nat, size : Nat, asked : Nat]

VARIABLES
    tasks,          \* [t, stk, image, entry]: the tasks in the ring
    owns,           \* [task, chunk]: chunks programs got from SYS_ALLOC
    orphans,        \* those their program left behind
    shell_allocs,   \* the chunks in the shell's table
    load            \* where exec_load is, and its locals

loaderVars == <<tasks, owns, orphans, shell_allocs, load>>
allVars == <<vars, loaderVars>>

None == [first |-> 0, pags |-> 0]
Idle == [at |-> "idle", file |-> NULL, buf |-> NULL, image |-> None, t |-> None, stk |-> None]
Run == [first : 0..(Pages - 1), pags : 0..Pages]

LoaderTypeOK ==
    /\ TypeOK
    /\ tasks \subseteq [t : Run, stk : Run, image : Run, entry : Nat]
    /\ owns \subseteq tasks \X used
    /\ orphans \subseteq used
    /\ shell_allocs \subseteq used
    /\ Cardinality(shell_allocs) <= TableSize
    /\ load \in [at : {"idle", "buffer", "read", "check", "image", "copy", "free", "task",
                       "stack", "undo_task", "undo_stack", "undo_image"},
                 file : Files \cup {NULL}, buf : used \cup {NULL},
                 image : Run, t : Run, stk : Run]

LoaderInit ==
    /\ Init
    /\ tasks = {}
    /\ owns = {}
    /\ orphans = {}
    /\ shell_allocs = {}
    /\ load = Idle

-----------------------------------------------------------------------------
RoundUp(bytes) == (bytes + PageSize - 1) \div PageSize
New == CHOOSE c \in used' : c \notin used

\* Calls of the page allocator and of the heap that leave the other alone.
heapVars == <<malloc_free_lst, heap_hash, used, blocks, used_u8s, total_u8s>>
TakePages(run) == other' = other \cup BlockPages(run) /\ UNCHANGED heapVars
GivePages(runs) ==
    other' = other \ UNION {BlockPages(r) : r \in runs} /\ UNCHANGED heapVars

At(point) == load.at = point
Goto(point) == load' = [load EXCEPT !.at = point]
KeepOwners == UNCHANGED <<tasks, owns, orphans, shell_allocs>>

\* shell_cmd_exec, and exec_load once it has found a file that is no directory: a file
\* shorter than its header ends it at once.
ExecBegin(f) ==
    /\ At("idle")
    /\ Cardinality(tasks) < MaxTasks
    /\ f.size >= TkxHeader
    /\ load' = [Idle EXCEPT !.at = "buffer", !.file = f]
    /\ KeepOwners /\ UNCHANGED vars

ExecBuffer ==
    /\ At("buffer")
    /\ \/ /\ kmalloc(load.file.size)
          /\ load' = [load EXCEPT !.at = "read", !.buf = New]
       \/ /\ load' = Idle                               \* EXEC_ERR_NOMEM
          /\ UNCHANGED vars
    /\ KeepOwners

\* fat16_read_file reads all of it, or fails.
ExecRead ==
    /\ At("read")
    /\ Goto("check") \/ Goto("free")                    \* EXEC_ERR_IO
    /\ KeepOwners /\ UNCHANGED vars

\* mutant: the header is not counted into the file's size
WellFormedShort(f) == f.magic /\ f.image_size > 0 /\ f.image_size <= f.size
WellFormed(f) ==
    /\ f.magic                                          \* EXEC_ERR_BAD_MAGIC
    /\ f.image_size # 0 /\ f.entry < f.image_size       \* EXEC_ERR_BAD_ENTRY
    /\ TkxHeader + f.image_size <= f.size               \* EXEC_ERR_TRUNCATED

ExecCheck ==
    /\ At("check")
    /\ IF WellFormed(load.file) THEN Goto("image") ELSE Goto("free")
    /\ KeepOwners /\ UNCHANGED vars

ExecImage ==
    /\ At("image")
    /\ LET n == RoundUp(load.file.image_size) IN
       \/ \E first \in FreeRuns(n) :
            LET run == [first |-> first, pags |-> n] IN
            /\ TakePages(run)
            /\ load' = [load EXCEPT !.at = "copy", !.image = run]
       \/ Goto("free") /\ UNCHANGED vars                \* EXEC_ERR_NOMEM
    /\ KeepOwners

\* The image is copied out of the buffer and the buffer freed.
ExecCopy ==
    /\ At("copy")
    /\ kfree(load.buf)
    /\ load' = [load EXCEPT !.at = "task", !.buf = NULL]
    /\ KeepOwners

FreeBuffer(buf) == kfree(buf)

\* kfree(filebuf) and the return of an error; the end of a shell_cmd_alloc that found
\* the table full.
ExecFree ==
    /\ At("free")
    /\ FreeBuffer(load.buf)
    /\ load' = Idle
    /\ KeepOwners

\* task_create: its two allocations are made whether or not the first succeeds.
TaskStruct ==
    /\ At("task")
    /\ \/ \E first \in FreeRuns(TaskPages) :
            LET run == [first |-> first, pags |-> TaskPages] IN
            /\ TakePages(run)
            /\ load' = [load EXCEPT !.at = "stack", !.t = run]
       \/ Goto("stack") /\ UNCHANGED vars
    /\ KeepOwners

\* multitask_start calls task_create too, for tasks that have no image.
DemoBegin ==
    /\ At("idle")
    /\ Cardinality(tasks) < MaxTasks
    /\ Goto("task")
    /\ KeepOwners /\ UNCHANGED vars

StackSize == IF load.file = NULL \/ load.file.stack = 0 THEN DefaultStack ELSE load.file.stack

\* exec_load hands the image over; shell_cmd_exec or multitask_start adds the task.
Started(stk) ==
    [t |-> load.t, stk |-> stk, image |-> load.image,
     entry |-> IF load.file = NULL THEN 0 ELSE load.file.entry]

TaskStack ==
    /\ At("stack")
    /\ LET n == RoundUp(StackSize) IN
       \/ \E first \in FreeRuns(n) :
            LET run == [first |-> first, pags |-> n] IN
            /\ TakePages(run)
            /\ IF load.t # None
               THEN tasks' = tasks \cup {Started(run)} /\ load' = Idle
               ELSE /\ load' = [load EXCEPT !.at = "undo_stack", !.stk = run]
                    /\ UNCHANGED tasks
       \/ /\ Goto(IF load.t # None THEN "undo_task" ELSE "undo_image")
          /\ UNCHANGED <<vars, tasks>>
    /\ UNCHANGED <<owns, orphans, shell_allocs>>

\* task_create gives back what it got.
FreeTask ==
    /\ GivePages({load.t, load.stk} \ {None})
    /\ load' = [load EXCEPT !.at = "undo_image", !.t = None, !.stk = None]

TaskUndo == (At("undo_task") \/ At("undo_stack")) /\ FreeTask /\ KeepOwners

\* exec_load gives the image back, if there is one: EXEC_ERR_TASK.
ExecUndo ==
    /\ At("undo_image")
    /\ GivePages({load.image})
    /\ load' = Idle
    /\ KeepOwners

\* mutant: sched_next forgets a program's image
ReapedNoImage(task) == {task.t, task.stk}
Reaped(task) == {task.t, task.stk, task.image}

\* sched_next frees a task that has killed itself; nobody frees what it allocated.
Reap(task) ==
    /\ At("idle")
    /\ GivePages(Reaped(task))
    /\ tasks' = tasks \ {task}
    /\ orphans' = orphans \cup {o[2] : o \in {p \in owns : p[1] = task}}
    /\ owns' = {o \in owns : o[1] # task}
    /\ UNCHANGED <<shell_allocs, load>>

\* SYS_ALLOC, SYS_FREE.
SysAlloc(task, size) ==
    /\ At("idle")
    /\ kmalloc(size)
    /\ owns' = owns \cup {<<task, New>>}
    /\ UNCHANGED <<tasks, orphans, shell_allocs, load>>

SysFree(task, chunk) ==
    /\ At("idle")
    /\ <<task, chunk>> \in owns
    /\ kfree(chunk)
    /\ owns' = owns \ {<<task, chunk>>}
    /\ UNCHANGED <<tasks, orphans, shell_allocs, load>>

\* shell_cmd_alloc: shell_alloc_track_add, or kfree when the table is full.
ShellAlloc(size) ==
    /\ At("idle")
    /\ size > 0
    /\ kmalloc(size)
    /\ IF Cardinality(shell_allocs) < TableSize
       THEN shell_allocs' = shell_allocs \cup {New} /\ UNCHANGED load
       ELSE load' = [Idle EXCEPT !.at = "free", !.buf = New] /\ UNCHANGED shell_allocs
    /\ UNCHANGED <<tasks, owns, orphans>>

\* mutant: the entry stays in the table
KeepEntry(chunk) == shell_allocs
DropEntry(chunk) == shell_allocs \ {chunk}

\* shell_cmd_free of an address in the table; any other address is refused.
ShellFree(chunk) ==
    /\ At("idle")
    /\ chunk \in shell_allocs
    /\ kfree(chunk)
    /\ shell_allocs' = DropEntry(chunk)
    /\ UNCHANGED <<tasks, owns, orphans, load>>

Exec ==
    \/ \E f \in Files : ExecBegin(f)
    \/ ExecBuffer \/ ExecRead \/ ExecCheck \/ ExecImage \/ ExecCopy \/ ExecFree
    \/ TaskStruct \/ TaskStack \/ TaskUndo \/ ExecUndo

LoaderNext ==
    \/ Exec \/ DemoBegin
    \/ \E task \in tasks : Reap(task)
    \/ \E task \in tasks, size \in Requests : SysAlloc(task, size)
    \/ \E o \in owns : SysFree(o[1], o[2])
    \/ \E size \in Requests : ShellAlloc(size)
    \/ \E chunk \in shell_allocs : ShellFree(chunk)

LoaderSpec == LoaderInit /\ [][LoaderNext]_allVars

-----------------------------------------------------------------------------
\* The page runs: the task_t, the stack and the image of each task, and of the load that
\* exec_load has under way.
Owners == tasks \cup {load}
Parts == {"t", "stk", "image"}
PagesOf(h) == BlockPages(h[1][h[2]])

\* Whatever fails on the way, no page is lost and none has two owners: the pages
\* taken outside the heap are those of the tasks in the ring and of the load under
\* way, each one's task_t, stack and image apart from each other and from every other's.
PagesOwned ==
    /\ other = UNION {PagesOf(h) : h \in Owners \X Parts}
    /\ \A g, h \in Owners \X Parts : g # h => PagesOf(g) \cap PagesOf(h) = {}
    /\ other \cap UNION {BlockPages(b) : b \in blocks} = {}

\* Every chunk of the heap has exactly one owner who can free it, or was left behind
\* by a program that has exited: no error path of exec_load keeps its buffer, and
\* the shell's table names no chunk that has been freed.
Mine == {o[2] : o \in owns}
Buffer == {load.buf} \ {NULL}
ChunksOwned ==
    /\ used = Mine \cup orphans \cup shell_allocs \cup Buffer
    /\ Mine \cap orphans = {} /\ (Mine \cup orphans) \cap shell_allocs = {}
    /\ (Mine \cup orphans \cup shell_allocs) \cap Buffer = {}
    /\ \A o, p \in owns : o[2] = p[2] => o = p

\* Everything that was allocated has one owner, through every failure of exec and every
\* exit (exec.c:14-85, sched.c:139-198, 268-284, kernel_main.c:450-526).
OneOwner == PagesOwned /\ ChunksOwned

\* A program is started only inside its own image, and the image was all in the file.
EntryInside ==
    \A task \in tasks : task.image # None => task.entry < task.image.pags * PageSize
ImageInFile ==
    load.image # None => TkxHeader + load.file.image_size <= load.file.size
ProgramSound == EntryInside /\ ImageInFile
=============================================================================
