-------------------------------- MODULE Alloc --------------------------------
(***************************************************************************)
(* The page allocator (kernel/alloc.c): a bitmap, a count of the used      *)
(* pages and a next-fit hint.                                              *)
(*                                                                         *)
(* Its callers run with interrupts off (kmalloc and kfree under            *)
(* irq_save_cli, exec_load and task_create inside the keyboard handler),   *)
(* all but one: sched_next, when a task-level sched_yield reaps a task,    *)
(* calls free_pages with interrupts on, and a timer tick there can run     *)
(* other tasks, and so any other operation, before it goes on.  No second  *)
(* free_pages can be cut short meanwhile (Sched: OnePreempted).            *)
(***************************************************************************)
EXTENDS Integers, FiniteSets

CONSTANTS
    TotalPages,     \* kalloc_state.total_pages
    Reserved,       \* reserved_end_page: the pages alloc_init marks used
    MaxRun          \* bound: the longest block asked for

ASSUME SizeAssumption ==
    /\ TotalPages \in Nat \ {0}
    /\ Reserved \in 0..(TotalPages - 1)
    /\ MaxRun \in Nat \ {0}

AllPages == 0..(TotalPages - 1)
ReservedPages == 0..(Reserved - 1)

VARIABLES
    bitmap,         \* the pages whose bit is set
    used_pages,
    last_alloc_idx,
    held,           \* [first, n]: the blocks callers have and will free once
    freeing,        \* the free_pages that can be cut short
    torn            \* another operation updated used_pages between its load and store

vars == <<bitmap, used_pages, last_alloc_idx, held, freeing, torn>>

Block == [first : AllPages, n : 1..MaxRun]
PagesOf(b) == b.first..(b.first + b.n - 1)

\* free_pages outside its body, or: clearing bit i, about to load used_pages, about
\* to store it (with what it loaded), about to compare the hint, about to lower it.
Idle == [first |-> 0, n |-> 0, i |-> 0, at |-> "none", loaded |-> 0]
Freeing == [first : AllPages, n : 0..MaxRun, i : 0..MaxRun,
            at : {"none", "clear", "load", "store", "hint", "lower"}, loaded : Nat]

TypeOK ==
    /\ bitmap \subseteq AllPages
    /\ used_pages \in Nat
    /\ last_alloc_idx \in AllPages
    /\ held \subseteq Block
    /\ freeing \in Freeing
    /\ torn \in BOOLEAN

\* alloc_init.
Init ==
    /\ bitmap = ReservedPages
    /\ used_pages = Reserved
    /\ last_alloc_idx = 0
    /\ held = {}
    /\ freeing = Idle
    /\ torn = FALSE

-----------------------------------------------------------------------------
FirstOf(S) == {i \in S : \A j \in S : i <= j}

\* The runs of n clear bits that lie between lo and hi.
Runs(n, lo, hi) == {i \in lo..(hi - n) : \A k \in i..(i + n - 1) : k \notin bitmap}

\* mutant: the second loop is missing
FindForward(n) == FirstOf(Runs(n, last_alloc_idx, TotalPages))
\* find_free_pages: from the hint to the end, then from page 0 up to the hint; the
\* index it returns, or nothing for -1.
FindFreePages(n) ==
    FirstOf(IF Runs(n, last_alloc_idx, TotalPages) # {}
            THEN Runs(n, last_alloc_idx, TotalPages)
            ELSE Runs(n, 0, last_alloc_idx))

CanAlloc(n) == used_pages + n <= TotalPages /\ FindFreePages(n) # {}

\* used_pages changes while the other free_pages holds a stale copy of it.
Tear == torn' = (torn \/ freeing.at = "store")

\* mutant: the hint is not wrapped
HintPast(first, n) == first + n
NextHint(first, n) == (first + n) % TotalPages

\* mutant: the first page of the run is left clear
MarkRest(b) == PagesOf(b) \ {b.first}
Mark(b) == PagesOf(b)

\* alloc_pages_raw.
Alloc(n) ==
    /\ used_pages + n <= TotalPages
    /\ \E first \in FindFreePages(n) :
       LET b == [first |-> first, n |-> n] IN
       /\ bitmap' = bitmap \cup Mark(b)
       /\ last_alloc_idx' = NextHint(first, n)
       /\ held' = held \cup {b}
    /\ used_pages' = used_pages + n
    /\ Tear
    /\ UNCHANGED freeing

\* mutant: one page too few is given back to the count
LessAllButOne(used, n) == IF used >= n THEN used - n + 1 ELSE 0
Less(used, n) == IF used >= n THEN used - n ELSE 0
Lower(first) == IF first < last_alloc_idx THEN first ELSE last_alloc_idx

\* free_pages with interrupts off.
FreePages(b) ==
    /\ b \in held
    /\ held' = held \ {b}
    /\ bitmap' = bitmap \ PagesOf(b)
    /\ used_pages' = Less(used_pages, b.n)
    /\ last_alloc_idx' = Lower(b.first)
    /\ Tear
    /\ UNCHANGED freeing

\* free_pages called by a task-level sched_yield.
FreeBegin(b) ==
    /\ freeing = Idle
    /\ b \in held
    /\ held' = held \ {b}
    /\ freeing' = [first |-> b.first, n |-> b.n, i |-> 0, at |-> "clear", loaded |-> 0]
    /\ UNCHANGED <<bitmap, used_pages, last_alloc_idx, torn>>

Cleared(f) == f.i = f.n

FreeClear ==
    /\ freeing.at = "clear"
    /\ IF Cleared(freeing)
       THEN freeing' = [freeing EXCEPT !.at = "load"] /\ UNCHANGED bitmap
       ELSE /\ bitmap' = bitmap \ {freeing.first + freeing.i}
            /\ freeing' = [freeing EXCEPT !.i = @ + 1]
    /\ UNCHANGED <<used_pages, last_alloc_idx, held, torn>>

FreeLoad ==
    /\ freeing.at = "load"
    /\ freeing' = [freeing EXCEPT !.at = "store", !.loaded = used_pages]
    /\ UNCHANGED <<bitmap, used_pages, last_alloc_idx, held, torn>>

FreeStore ==
    /\ freeing.at = "store"
    /\ used_pages' = Less(freeing.loaded, freeing.n)
    /\ freeing' = [freeing EXCEPT !.at = "hint"]
    /\ UNCHANGED <<bitmap, last_alloc_idx, held, torn>>

FreeHint ==
    /\ freeing.at = "hint"
    /\ freeing' = IF freeing.first < last_alloc_idx
                  THEN [freeing EXCEPT !.at = "lower"] ELSE Idle
    /\ UNCHANGED <<bitmap, used_pages, last_alloc_idx, held, torn>>

FreeLower ==
    /\ freeing.at = "lower"
    /\ last_alloc_idx' = freeing.first
    /\ freeing' = Idle
    /\ UNCHANGED <<bitmap, used_pages, held, torn>>

Next ==
    \/ \E n \in 1..MaxRun : Alloc(n)
    \/ \E b \in held : FreePages(b) \/ FreeBegin(b)
    \/ FreeClear \/ FreeLoad \/ FreeStore \/ FreeHint \/ FreeLower

Spec == Init /\ [][Next]_vars

-----------------------------------------------------------------------------
\* The pages free_pages has still to clear.
Pending ==
    IF freeing.at = "clear"
    THEN (freeing.first + freeing.i)..(freeing.first + freeing.n - 1) ELSE {}

\* The set bits are the reserved pages, the pages of the blocks callers hold, and
\* those still being freed, and no two of these share a page.
BitmapExact ==
    /\ bitmap = ReservedPages \cup Pending \cup UNION {PagesOf(b) : b \in held}
    /\ \A b \in held : PagesOf(b) \cap (ReservedPages \cup Pending) = {}
    /\ \A b, c \in held : b # c => PagesOf(b) \cap PagesOf(c) = {}
    /\ Pending \cap ReservedPages = {}

\* Cleared but not yet taken off the count.
Uncounted == IF freeing.at \in {"clear", "load", "store"} THEN freeing.i ELSE 0

UsedExact == ~torn => used_pages = Cardinality(bitmap) + Uncounted

\* No page is handed out twice and none is lost, however a free_pages is cut short; and
\* used_pages, which alloc_pages_raw trusts and "mem" prints, is the number of set
\* bits: only an operation that runs between the load and the store of a task-level
\* free_pages can make it drift (alloc_pages_raw, free_pages, alloc.c:188).
BooksExact == BitmapExact /\ UsedExact

\* The next-fit search and the count agree: a page can be allocated whenever the
\* bitmap has one, wherever the hint stands.
SinglePageFits ==
    ~torn /\ freeing = Idle /\ bitmap # AllPages => CanAlloc(1)

\* The allocator implements PageMap.
Abstract == INSTANCE PageMap WITH
    Pages <- AllPages \ ReservedPages,
    held <- {PagesOf(b) : b \in held},
    available <- AllPages \ bitmap
IsPageMap == Abstract!Spec
=============================================================================
