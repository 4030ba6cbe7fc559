------------------------------- MODULE FatNames -------------------------------
(***************************************************************************)
(* Names and places on a FAT16 volume (kernel/fat16.c): file names and     *)
(* their 8.3 form, what "ls" lists and "cat" and "exec" find, and where    *)
(* fat16_init puts the areas of the volume.                                *)
(***************************************************************************)
EXTENDS Naturals, SequencesExt

CONSTANTS
    NameLen, ExtLen,    \* 8 and 3
    PerSector,          \* entries of a sector of the root directory (16)
    FatPerSector,       \* and of the FAT (256)
    SectorBytes,        \* 512
    MaxListed           \* entries "ls" has room for (64)

ASSUME NameAssumption ==
    {NameLen, ExtLen, PerSector, FatPerSector, SectorBytes, MaxListed} \subseteq Nat \ {0}

-----------------------------------------------------------------------------
\* fat16_upper, on the letters the texts below are made of.
Upper(c) == IF c = "a" THEN "A" ELSE c
fat16_streq_ci(s, t) == [k \in 1..Len(s) |-> Upper(s[k])] = [k \in 1..Len(t) |-> Upper(t[k])]

Padded(s, len) == [k \in 1..len |-> IF k <= Len(s) THEN Upper(s[k]) ELSE " "]
\* Where the name ends: at the first dot.
Dot(s) == CHOOSE n \in 0..Len(s) :
    (\A k \in 1..n : s[k] # ".") /\ (n < Len(s) => s[n + 1] = ".")
NamePart(s) == SubSeq(s, 1, Dot(s))
\* mutant: the letters after the dot start one early
ExtWithDot(s) == SubSeq(s, Dot(s) + 1, Len(s))
ExtPart(s) == SubSeq(s, Dot(s) + 2, Len(s))

\* fat16_string_to_name: whether it takes a name, and what it makes of it.
Valid(s) == Dot(s) \in 1..NameLen /\ Len(ExtPart(s)) <= ExtLen
fat16_string_to_name(s) ==
    [name |-> Padded(NamePart(s), NameLen), ext |-> Padded(ExtPart(s), ExtLen)]

\* fat16_name_to_string: each part as far as its first space.
Trimmed(s) == SubSeq(s, 1, CHOOSE n \in 0..Len(s) :
    (\A k \in 1..n : s[k] # " ") /\ (n < Len(s) => s[n + 1] = " "))
fat16_name_to_string(e) ==
    Trimmed(e.name) \o (IF e.ext[1] = " " THEN <<>> ELSE <<".">> \o Trimmed(e.ext))

-----------------------------------------------------------------------------
\* A root directory: entries of files and directories, of other things the driver skips,
\* deleted ones, and the end; bad is the sectors that cannot be read.
Kinds == {"file", "dir", "other", "deleted", "end"}
SectorOf(k) == (k - 1) \div PerSector + 1
\* How far a scan gets: to the end mark, or to a sector it cannot read.
Reached(dir, bad) ==
    {k \in 1..Len(dir) : \A m \in 1..k : dir[m].kind # "end" /\ SectorOf(m) \notin bad}
Shown(dir, bad) == {k \in Reached(dir, bad) : dir[k].kind \in {"file", "dir"}}

\* fat16_list_root: their places, in order, as far as there is room.
fat16_list_root(dir, bad) ==
    LET list[k \in 0..Len(dir)] ==
            IF k = 0 THEN <<>>
            ELSE IF k \in Shown(dir, bad) /\ Len(list[k - 1]) < MaxListed
                 THEN Append(list[k - 1], k) ELSE list[k - 1]
    IN  list[Len(dir)]
\* fat16_find_in_root: the first of the name, or none.
fat16_find_in_root(dir, bad, s) ==
    LET same == {k \in Shown(dir, bad) : fat16_streq_ci(fat16_name_to_string(dir[k]), s)}
    IN  IF same = {} THEN 0 ELSE Min(same)

-----------------------------------------------------------------------------
\* fat16_init, in sectors, for a volume at sector start; a root entry takes 32 bytes.
Mountable(b) == b.fats > 0 /\ b.per_cluster > 0 /\ b.per_fat > 0 /\ b.total > 0
Layout(b, start) ==
    LET fats == start + b.reserved
        entries == fats + b.fats * b.per_fat
        first == entries + (b.root_entries + PerSector - 1) \div PerSector
        end == start + b.total
    IN  [fat_start |-> fats, root_start |-> entries, data_start |-> first, end |-> end,
         clusters |-> (IF end > first THEN end - first ELSE 0) \div b.per_cluster]
\* Where a cluster begins.
ClusterAt(l, b, c) == l.data_start + (c - 2) * b.per_cluster

\* fat16_get_next_cluster, fat16_set_fat_entry: the sector of a cluster's entry in a copy.
EntryAt(l, b, copy, c) == l.fat_start + copy * b.per_fat + c \div FatPerSector

-----------------------------------------------------------------------------
\* The bytes of a file: its clusters, the sectors they make, what fat16_write_file puts
\* there and what fat16_read_file fetches into a buffer.
ClustersFor(size, per_cluster) ==
    LET bytes == SectorBytes * per_cluster IN (size + bytes - 1) \div bytes
Places(chain, l, b) ==
    [n \in 1..(Len(chain) * b.per_cluster) |->
        ClusterAt(l, b, chain[(n - 1) \div b.per_cluster + 1]) + ((n - 1) % b.per_cluster)]
\* What is left, up to a sector of it.
Piece(done, size) == Min({SectorBytes, size - done})
Put(bytes, places, sectors) ==
    LET put[n \in 0..Len(places)] ==
            IF n = 0 THEN [done |-> 0, to |-> sectors]
            ELSE LET s == put[n - 1] IN
                 IF s.done >= Len(bytes) THEN s ELSE
                 [done |-> s.done + Piece(s.done, Len(bytes)),
                  to |-> [s.to EXCEPT ![places[n]] = [k \in 1..SectorBytes |->
                             IF s.done + k <= Len(bytes) THEN bytes[s.done + k] ELSE 0]]]
    IN  put[Len(places)].to
Get(size, places, sectors, buffer_cap) ==
    LET to_read == Min({size, buffer_cap})
        got[n \in 0..Len(places)] ==
            IF n = 0 THEN <<>>
            ELSE IF Len(got[n - 1]) >= to_read THEN got[n - 1]
            ELSE got[n - 1] \o SubSeq(sectors[places[n]], 1, Piece(Len(got[n - 1]), to_read))
    IN  got[Len(places)]
\* shell_cmd_cat, once it has found a file: what it prints, and whether it says the file
\* was cut.
Cat(size, places, sectors, buffer_cap) ==
    LET text == Get(size, places, sectors, buffer_cap)
    IN  [text |-> text, cut |-> Len(text) < size]

-----------------------------------------------------------------------------
Texts == UNION {[1..n -> {"a", "A", "b", ".", " "}] : n \in 1..(NameLen + ExtLen + 2)}

\* A file is found under the name it was written with, in either case, and only names of
\* one file are taken for each other: but a name with a space in it, or that ends with
\* its only dot, is taken and then not found (fat16.c:81-107, 323-349).
NameKept(s) ==
    Valid(s) =>
        LET back == fat16_name_to_string(fat16_string_to_name(s))
        IN  fat16_streq_ci(back, s)
                <=> " " \notin Range(s) /\ ~(s[Len(s)] = "." /\ ExtPart(s) = <<>>)
NamesKept == \A s \in Texts : NameKept(s)

\* What "ls" lists is found by the name listed, and is all there is to find unless there
\* is more than it has room for: both stop at the end mark, or silently at a sector that
\* cannot be read (fat16.c:197-228, 234-266).
File(kind, c) == [kind |-> kind, name |-> Padded(<<c>>, NameLen), ext |-> Padded(<<>>, ExtLen)]
Directories ==
    {[k \in 1..4 |-> File(kinds[k], <<"a", "b", "c", "d">>[k])] : kinds \in [1..4 -> Kinds]}
FoundIn(dir, bad) ==
    {k \in 1..Len(dir) : fat16_find_in_root(dir, bad, fat16_name_to_string(dir[k])) = k}
ListedIn(dir, bad) ==
    LET listed == fat16_list_root(dir, bad)
    IN  /\ Range(listed) \subseteq FoundIn(dir, bad)
        /\ Len(listed) < MaxListed => Range(listed) = FoundIn(dir, bad)
        /\ bad = {} /\ Len(listed) < MaxListed =>
            \A k \in 1..Len(dir) : dir[k].kind \in {"file", "dir"} =>
                k \in FoundIn(dir, bad) \/ \E m \in 1..k : dir[m].kind = "end"
ListedFound == \A dir \in Directories, bad \in SUBSET {1, 2} : ListedIn(dir, bad)

\* Whatever a boot sector says, no area of the volume reaches into the next, and no
\* cluster out of the volume.  But the entry of a cluster is in the FAT only if the boot
\* sector gives it sectors enough, which fat16_init does not ask (fat16.c:113-171): the
\* entries beyond are those of the next copy, or of the root directory.
Apart(b, start) ==
    Mountable(b) =>
        LET l == Layout(b, start) IN
        /\ start <= l.fat_start /\ l.fat_start + b.fats * b.per_fat <= l.root_start
        /\ PerSector * (l.data_start - l.root_start) >= b.root_entries
        /\ \A c \in 2..(l.clusters + 1) :
            /\ ClusterAt(l, b, c) >= l.data_start
            /\ ClusterAt(l, b, c) + b.per_cluster <= l.end
            /\ \A copy \in 0..(b.fats - 1) :
                EntryAt(l, b, copy, c) < l.fat_start + (copy + 1) * b.per_fat
                    <=> c < b.per_fat * FatPerSector
AreasApart ==
    \A b \in [fats : 0..2, per_cluster : 0..2, per_fat : 0..2, total : 0..9, reserved : 0..2,
              root_entries : 0..3] : Apart(b, 5)

\* What was written is read, wherever a file ends in its last sector and whatever order
\* its clusters are in, as far as the buffer goes; no sector of another file is touched,
\* and "cat" says that it cut a file exactly if it did (fat16.c:272-306, 495-545).
Kept(bytes, places, old, buffer_cap) ==
    LET new == Put(bytes, places, old)
    IN  /\ Cat(Len(bytes), places, new, buffer_cap) =
            [text |-> SubSeq(bytes, 1, Min({Len(bytes), buffer_cap})),
             cut |-> Len(bytes) > buffer_cap]
        /\ \A p \in DOMAIN old \ Range(places) : new[p] = old[p]
BytesKept ==
    \A size \in 0..(4 * SectorBytes), per_cluster \in 1..2, buffer_cap \in {0, 3, 4, 9},
       order \in {<<2, 3, 4, 5>>, <<4, 2, 5, 3>>} :
        LET b == [fats |-> 1, per_cluster |-> per_cluster, per_fat |-> 1, total |-> 20,
                  reserved |-> 1, root_entries |-> 1]
        IN  Kept([k \in 1..size |-> k],
                 Places(SubSeq(order, 1, ClustersFor(size, per_cluster)), Layout(b, 5), b),
                 [p \in 5..25 |-> [k \in 1..SectorBytes |-> "old"]], buffer_cap)
=============================================================================
