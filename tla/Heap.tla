-------------------------------- MODULE Heap --------------------------------
(***************************************************************************)
(* The kernel heap (kernel/heap.c): kmalloc and kfree over blocks of pages *)
(* taken from the page allocator.                                          *)
(*                                                                         *)
(* A small request is served from the bucket of its size, from the list of *)
(* left-over chunks, or from a new block; a freed small chunk goes to its  *)
(* bucket and stays there.  A large request gets pages of its own and      *)
(* kfree returns them.  Both run between irq_save_cli and irq_restore, so  *)
(* on the one CPU each is a single step; a kmalloc that returns NULL       *)
(* changes nothing and has no step.                                        *)
(*                                                                         *)
(* Which of several chunks that fit comes first in malloc_free_lst or in a *)
(* bucket, and which run of pages the page allocator finds, is left open.  *)
(***************************************************************************)
EXTENDS Integers, FiniteSets, Functions

CONSTANTS
    Pages,          \* how many pages the page allocator has for everybody
    PageSize,
    Align,          \* 8
    HeaderSize,     \* sizeof(mem_used_t) = sizeof(mem_unused_t)
    BlkHeader,      \* sizeof(mem_blk_t)
    HashSize,       \* MEM_HEAP_HASH_SIZE
    GrowPages,      \* MEM_HEAP_GROW_PAGES
    Word,           \* 2^64: uint64_t wraps here
    Requests,       \* the sizes asked of kmalloc
    MaxUsed         \* bound: chunks handed out at a time

ASSUME SizeAssumption ==
    /\ {Pages, PageSize, Align, HeaderSize, BlkHeader, HashSize, GrowPages, Word, MaxUsed}
           \subseteq Nat \ {0}
    /\ Requests \subseteq 0..(Word - 1)
    /\ \A n \in {PageSize, HeaderSize, HashSize, BlkHeader, Word} : n % Align = 0
    /\ HashSize + HeaderSize + BlkHeader <= GrowPages * PageSize
    /\ BlkHeader = Align /\ HeaderSize < HashSize

VARIABLES
    malloc_free_lst,    \* [at, size]: what is left of the blocks of small chunks
    heap_hash,          \* [at, size]: freed small chunks, in the bucket of their size
    used,               \* [at, size, asked]: chunks kmalloc has handed out
    blocks,             \* [first, pags]: the mem_blk_t taken from the page allocator
    other,              \* pages the page allocator has given to others
    used_u8s, total_u8s

vars == <<malloc_free_lst, heap_hash, used, blocks, other, used_u8s, total_u8s>>

Address == 0..(Pages * PageSize)
Chunk == [at : Address, size : 1..(Pages * PageSize)]

TypeOK ==
    /\ malloc_free_lst \subseteq Chunk
    /\ heap_hash \subseteq Chunk
    /\ used \subseteq [at : Address, size : 1..(Pages * PageSize), asked : Requests]
    /\ blocks \subseteq [first : 0..(Pages - 1), pags : 1..Pages]
    /\ other \subseteq 0..(Pages - 1)
    /\ used_u8s \in Nat
    /\ total_u8s \in Nat

\* kheap_init.
Init ==
    /\ malloc_free_lst = {}
    /\ heap_hash = {}
    /\ used = {}
    /\ blocks = {}
    /\ other = {}
    /\ used_u8s = 0
    /\ total_u8s = 0

-----------------------------------------------------------------------------
\* The bytes kmalloc sets aside for a request, header included: size + 16, rounded up,
\* in 64 bits.
Rounded(size) == (((size + HeaderSize + Align - 1) % Word) \div Align) * Align
Total(size) ==
    LET total == Rounded(IF size = 0 THEN 1 ELSE size)
    IN  IF total < HeaderSize THEN HeaderSize ELSE total

Small(total) == total < HashSize

\* alloc_pages_raw(n): some run of n pages nobody has (see Alloc).
BlockPages(b) == b.first..(b.first + b.pags - 1)
Taken == other \cup UNION {BlockPages(b) : b \in blocks}
FreeRuns(n) ==
    IF n = 0 THEN {} ELSE
    {first \in 0..(Pages - n) : (first..(first + n - 1)) \cap Taken = {}}

\* almost_done.
HandOut(at, total, size) ==
    /\ used' = used \cup {[at |-> at, size |-> total, asked |-> size]}
    /\ used_u8s' = used_u8s + total

FromHash(size) ==
    \E c \in heap_hash :
        /\ c.size = Total(size)
        /\ heap_hash' = heap_hash \ {c}
        /\ HandOut(c.at, c.size, size)
        /\ UNCHANGED <<malloc_free_lst, blocks, other, total_u8s>>

Splits(c, total) == c.size >= total + HeaderSize
Fits(c, total) == c.size = total \/ Splits(c, total)

\* mutant: the chunk handed out is cut from the wrong end
CutFront(c, total) == c.at
\* A chunk is cut from the end of a larger one.
Cut(c, total) == c.at + c.size - total

FromList(size) ==
    LET total == Total(size) IN
    /\ \A c \in heap_hash : c.size # total
    /\ \E c \in malloc_free_lst :
        /\ Fits(c, total)
        /\ malloc_free_lst' = (malloc_free_lst \ {c}) \cup
              IF c.size = total THEN {}
              ELSE {[at |-> c.at, size |-> c.size - total]}
        /\ HandOut(Cut(c, total), total, size)
        /\ UNCHANGED <<heap_hash, blocks, other, total_u8s>>

NewBlock(first, n) ==
    /\ blocks' = blocks \cup {[first |-> first, pags |-> n]}
    /\ total_u8s' = total_u8s + n * PageSize
    /\ UNCHANGED other
Body(first, n) == [at |-> first * PageSize + BlkHeader, size |-> n * PageSize - BlkHeader]

\* What is left of a new block is at least a mem_unused_t (SizeAssumption).
Grow(size) ==
    LET total == Total(size)
        n == (total + GrowPages * PageSize - 1) \div PageSize
    IN
    /\ \A c \in heap_hash : c.size # total
    /\ \A c \in malloc_free_lst : ~Fits(c, total)
    /\ \E first \in FreeRuns(n) :
        LET b == Body(first, n) IN
        /\ NewBlock(first, n)
        /\ malloc_free_lst' = malloc_free_lst \cup {[b EXCEPT !.size = @ - total]}
        /\ HandOut(Cut(b, total), total, size)
        /\ UNCHANGED heap_hash

PagesFor(total) == ((total + BlkHeader + PageSize - 1) % Word) \div PageSize

LargeSize(b, total) == b.size

Large(size) ==
    LET n == PagesFor(Total(size)) IN
    \E first \in FreeRuns(n) :
        LET b == Body(first, n) IN
        /\ NewBlock(first, n)
        /\ HandOut(b.at, LargeSize(b, Total(size)), size)
        /\ UNCHANGED <<malloc_free_lst, heap_hash>>

kmalloc(size) ==
    /\ Cardinality(used) < MaxUsed
    /\ IF Small(Total(size))
       THEN FromHash(size) \/ FromList(size) \/ Grow(size)
       ELSE Large(size)

SmallChunk(u) == u.size < HashSize

\* mutant: the pages of a large chunk stay counted
KeepTotal(b) == total_u8s
LessTotal(b) == total_u8s - b.pags * PageSize

LessUsed(u) == used_u8s - u.size

\* kfree finds a large chunk's mem_blk_t right before it.
HeaderOf(u) == {b \in blocks : b.first * PageSize + BlkHeader = u.at}

kfree(u) ==
    /\ used' = used \ {u}
    /\ used_u8s' = LessUsed(u)
    /\ \/ /\ SmallChunk(u)
          /\ heap_hash' = heap_hash \cup {[at |-> u.at, size |-> u.size]}
          /\ UNCHANGED <<blocks, total_u8s>>
       \/ /\ ~SmallChunk(u)
          /\ \E b \in HeaderOf(u) : blocks' = blocks \ {b} /\ total_u8s' = LessTotal(b)
          /\ UNCHANGED heap_hash
    /\ UNCHANGED <<malloc_free_lst, other>>

-----------------------------------------------------------------------------
Bytes(c) == c.at..(c.at + c.size - 1)
Plain(u) == [at |-> u.at, size |-> u.size]
Chunks == malloc_free_lst \cup heap_hash \cup {Plain(u) : u \in used}

\* No byte belongs to two chunks, none is lost and none lies outside the heap's own pages;
\* and no chunk is at once in use and free, or in two lists, or handed out twice.
Partition ==
    /\ UNION {Bytes(c) : c \in Chunks} =
       UNION {Bytes(Body(b.first, b.pags)) : b \in blocks}
    /\ \A c, d \in Chunks : c # d => Bytes(c) \cap Bytes(d) = {}
    /\ malloc_free_lst \cap heap_hash = {}
    /\ \A u \in used : Plain(u) \notin malloc_free_lst \cup heap_hash
    /\ \A u, v \in used : Plain(u) = Plain(v) => u = v

\* A chunk that can be freed can be linked: writing its link touches no neighbour.
Linkable == \A c \in Chunks : c.at % Align = 0 /\ c.size % Align = 0 /\ c.size >= HeaderSize

\* kfree tells large from small by the size alone, and must be right: a chunk of that
\* size has a block to itself, right behind its mem_blk_t, and a smaller one never does.
LargeAlone ==
    \A u \in used :
        LET mine == {b \in blocks : Plain(u) = Body(b.first, b.pags)}
        IN  u.size >= HashSize <=> mine # {}

\* Whatever was split, freed and reused, the chunks tile the blocks, and kfree can rely on
\* what it reads: every chunk is aligned and has room for a mem_unused_t, and its size says
\* whether a mem_blk_t lies before it (heap.c:256, 267).
Tiled == Partition /\ Linkable /\ LargeAlone

\* used_u8s and total_u8s, which "heap" and "allocs" print, are what is handed out
\* and what was taken from the page allocator.
CountersExact ==
    /\ used_u8s = SumFunction([u \in used |-> u.size])
    /\ total_u8s = SumFunction([b \in blocks |-> b.pags * PageSize])

\* A caller gets as many bytes as it asked for, except that a request within
\* 23 bytes of 2^64 wraps around (kmalloc) and gets next to nothing.
GrantCovers ==
    \A u \in used : u.asked + HeaderSize + Align - 1 < Word => u.size - HeaderSize >= u.asked

\* The heap's books are right: its counters, and what each caller got (heap.c:93-275).
BooksRight == CountersExact /\ GrantCovers
=============================================================================
