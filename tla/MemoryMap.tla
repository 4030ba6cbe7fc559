------------------------------ MODULE MemoryMap ------------------------------
(***************************************************************************)
(* Where things are in memory: what stage 2 of the boot loader             *)
(* (boot/stage2.asm) and the kernel that it loads put at fixed addresses,  *)
(* the page tables, the sectors of the kernel, the frame buffer            *)
(* (kernel/framebuffer.c) and the pages of the allocator (kernel/alloc.c). *)
(*                                                                         *)
(* Addresses are bytes as far as the kernel's memory goes, 1 GB, and       *)
(* frames of 4 KB in the page tables, which go to 4 GB.                    *)
(***************************************************************************)
EXTENDS Naturals

CONSTANTS
    Stage2Size,     \* bytes of stage 2
    KernelSectors   \* how many sectors stage 2 may load (1000, and at most 2041)

ASSUME MemoryAssumption == Stage2Size \in Nat \ {0} /\ KernelSectors \subseteq Nat \ {0}

-----------------------------------------------------------------------------
PAGE_SIZE == 4096
HEAP_START == \h400000
HEAP_END == \h40000000
BITMAP_SIZE == ((HEAP_END - HEAP_START) \div PAGE_SIZE) \div 8

\* alloc_init, alloc_pages_raw: page idx is at base_addr + idx * PAGE_SIZE, and the first
\* ones are never given out.
base_addr == HEAP_START + BITMAP_SIZE
total_pages == (HEAP_END - base_addr) \div PAGE_SIZE
reserved_end_page == (BITMAP_SIZE + PAGE_SIZE - 1) \div PAGE_SIZE

-----------------------------------------------------------------------------
\* vbe_init: what the BIOS tells of the mode, and what is kept of it for the kernel.
VbeInfo == [from |-> \h8000, to |-> \h8000 + 256]
KernelInfo == [from |-> \h9000, to |-> \h9000 + 32]
\* protected_mode: six tables, and the stack.
Tables == [from |-> \h10000, to |-> \h10000 + 4 * 6144]
Stack == [from |-> Tables.to, to |-> \h90000]
Stage2 == [from |-> \h7E00, to |-> \h7E00 + Stage2Size]
\* The stack of real mode, above what the BIOS keeps.
Stack16 == [from |-> \h500, to |-> \h7C00]

-----------------------------------------------------------------------------
\* The six tables as protected_mode stores them, by the address of an entry: the frame it
\* points to, and its flags; where nothing was stored there is zero.
Zero == [frame |-> 0, flags |-> 0]
Directory(n) == [frame |-> \h12 + n, flags |-> 3]
\* .build_pd, 2048 times: edi goes up by 8, eax by 2 MB.
BuildPd(k) == [frame |-> k * 512, flags |-> \h83]
Entry(address) ==
    CASE address = \h10000 -> [frame |-> \h11, flags |-> 3]
      [] address \in {\h11000 + 8 * n : n \in 0..3} -> Directory((address - \h11000) \div 8)
      [] address >= \h12000 /\ address < \h12000 + 8 * 2048 -> BuildPd((address - \h12000) \div 8)
      [] OTHER -> Zero

\* What the processor makes of them for page v of 2 MB (external): the frame, or nothing.
IsPresent(e) == e.flags % 2 = 1
Walk(v) ==
    LET pml4e == Entry(\h10000 + 8 * (v \div 2^18))
        pdpte == Entry(pml4e.frame * PAGE_SIZE + 8 * ((v \div 512) % 512))
        pde == Entry(pdpte.frame * PAGE_SIZE + 8 * (v % 512))
    IN  IF IsPresent(pml4e) /\ IsPresent(pdpte) /\ IsPresent(pde) THEN {pde.frame} ELSE {}

-----------------------------------------------------------------------------
\* .sector_loop: the address of a sector as the drive's registers take it, one sector for
\* each command, and where it goes.
Selected(lba) ==
    [select |-> 224 + ((lba \div 2^24) % 16), low |-> lba % 256,
     mid |-> (lba \div 256) % 256, high |-> (lba \div 65536) % 256]
\* The sector the drive reads (external).
SectorOf(r) == (r.select % 16) * 2^24 + r.high * 65536 + r.mid * 256 + r.low
\* The registers after k turns of the loop: insw moves 256 words, inc the sector.
Loop(k) == [rdi |-> \h200000 + k * (2 * 256), rbx |-> 7 + k]
Kernel(n) == [from |-> \h200000, to |-> Loop(n).rdi]
\* Where the FAT16 volume begins: FAT16_PARTITION_LBA.
FAT16_PARTITION_LBA == 2048

-----------------------------------------------------------------------------
\* Where a BIOS may have put it (external).
FrameBuffer == \hE0000
\* fb_init: the screen it makes of a mode, or none; addr is a frame.
fb_init(info) ==
    LET told == info.addr # 0
        pitch == IF told THEN info.pitch ELSE 640
        bpp == IF told THEN info.bpp ELSE 8
    IN  IF pitch = 0 \/ bpp \notin {8, 24, 32} THEN {}
        ELSE {[pitch |-> pitch, width |-> pitch \div (bpp \div 8),
               height |-> IF bpp = 24 THEN 768 ELSE 480]}
\* fb_put_pixel, in the frame buffer; nothing for a pixel that is not on the screen.
fb_put_pixel(s, x, y) ==
    IF x >= s.width \/ y >= s.height THEN {} ELSE {y * s.pitch + x}

-----------------------------------------------------------------------------
Apart(r, s) == r.to <= s.from \/ s.to <= r.from
\* No part of memory grows into another one that is still needed: stage 2, which has eight
\* bytes to spare below what the BIOS writes, the tables, the stack, the kernel, as many
\* sectors as the comment at stage2.asm:193 allows, and the pages of the allocator.
RegionsApart ==
    /\ Apart(Stage2, VbeInfo) /\ Apart(VbeInfo, KernelInfo) /\ Apart(Stage2, Stack16)
    /\ \A r \in {Stage2, KernelInfo, Tables} : Apart(r, Stack)
    /\ Apart(KernelInfo, Tables) /\ Apart(Stage2, Tables)
    /\ \A n \in KernelSectors :
        Kernel(n).to <= HEAP_START /\ \A r \in {KernelInfo, Tables, Stack} : Apart(r, Kernel(n))
\* The bitmap has a bit for every page, no page lies over the bitmap or ends after the
\* memory the allocator counts on (alloc.c:48-87).
PagesFit ==
    /\ total_pages <= 8 * BITMAP_SIZE
    /\ base_addr >= HEAP_START + BITMAP_SIZE
    /\ base_addr + total_pages * PAGE_SIZE <= HEAP_END
    /\ reserved_end_page < total_pages
\* Every sector of the kernel comes from where it was put and goes where it was linked
\* for, and none of them belongs to the volume (stage2.asm:196-247, linker.ld:5).
KernelLoaded ==
    \A n \in KernelSectors :
        \A k \in 0..(n - 1) :
            LET sector == SectorOf(Selected(Loop(k).rbx)) IN
            /\ Loop(k).rdi = \h200000 + 512 * (sector - 7)
            /\ sector \in 7..(FAT16_PARTITION_LBA - 1)
\* Pages of 2 MB: those of the first 4 GB, and 1 GB more.
Pages == 0..2559
Itself(v) == IF v < 2048 THEN {v * 512} ELSE {}
\* The page tables map all of the first 4 GB, the frame buffer with it, to itself, and
\* nothing else (stage2.asm:134-158).
IdentityMapped == \A v \in Pages : Walk(v) = Itself(v)
\* In every mode fb_init takes, each pixel of the screen has a byte of its own, inside the
\* lines of the frame buffer (framebuffer.c:12-58).
PixelsApart ==
    \A bpp \in {4, 8, 15, 24, 32}, addr \in {0, FrameBuffer}, pitch \in {0, 7, 640} :
        \A s \in fb_init([addr |-> addr, pitch |-> pitch, bpp |-> bpp]) :
            \A x \in {0, 1, s.width - 1, s.width}, y \in {0, 1, s.height - 1, s.height} :
                \A byte \in fb_put_pixel(s, x, y) :
                    /\ byte \div s.pitch = y /\ byte % s.pitch = x
                    /\ byte < s.pitch * s.height
\* Memory is laid out so that nothing lies over anything else.
MemoryLaidOut == RegionsApart /\ PagesFit /\ KernelLoaded /\ IdentityMapped /\ PixelsApart
=============================================================================
