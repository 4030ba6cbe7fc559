-------------------------------- MODULE Fat16 --------------------------------
(***************************************************************************)
(* The FAT16 driver (kernel/fat16.c): fat16_write_file, fat16_delete_file  *)
(* and what fat16_find_in_root and fat16_read_file see, on a disk whose    *)
(* every sector access can fail and whose power can go off between any two *)
(* sector writes.                                                          *)
(*                                                                         *)
(* A file's data is one token per cluster (whose it is and which part); a  *)
(* FAT copy and the root directory are one sector each.  All of the driver *)
(* shares one sector buffer, g_sector_buf, which matters once: in          *)
(* fat16_delete_file.                                                      *)
(***************************************************************************)
EXTENDS Integers, FiniteSets, FiniteSetsExt

CONSTANTS
    Names,          \* file names, already in 8.3 form
    RootSlots,      \* root_entry_count
    TotalClusters,
    NumFats,
    MaxLen,         \* bound: clusters of a file
    MaxFaults,      \* bound: failed sector accesses and power failures
    NULL

ASSUME VolumeAssumption ==
    /\ {RootSlots, TotalClusters, NumFats, MaxLen} \subseteq Nat \ {0}
    /\ MaxFaults \in Nat

Clusters == 2..(TotalClusters + 1)
FREE == 0
EOC == TotalClusters + 2            \* 0xFFFF, above every cluster
Slot == 1..RootSlots
Copies == 1..NumFats

\* A directory entry; attr also tells a slot never used (0x00), deleted (0xE5), or
\* holding bytes of a FAT sector (see Wrecked).
Entry == [name : Names \cup {NULL}, attr : {"file", "dir", "end", "deleted", "junk"},
          first : Clusters \cup {0}, len : 0..MaxLen]
NoEntry == [name |-> NULL, attr |-> "end", first |-> 0, len |-> 0]
Data == Names \X (0..(MaxLen - 1))

VARIABLES
    fat,            \* fat[copy][cluster]
    root,           \* the root directory's slots
    data,           \* per cluster
    op,             \* the call under way, with its locals
    wrecked,        \* the root directory's sector was overwritten with a FAT sector
    exposed,        \* a step failed that the driver does not undo (see Expose)
    faults          \* how often a sector access failed or the power went off

diskVars == <<fat, root, data>>
vars == <<fat, root, data, op, wrecked, exposed, faults>>

\* No call; at = "free" frees a chain and goes on at op.after, "set" stores v in
\* entry c of each FAT copy and goes on at op.then.
NoOp == [at |-> "idle", name |-> NULL, len |-> 0, slot |-> 0, freed |-> FALSE,
         cluster |-> 0, first |-> 0, prev |-> 0, i |-> 0,
         c |-> 0, v |-> 0, copy |-> 1, then |-> "idle", after |-> "idle"]
Points == {"idle", "free", "set", "alloc", "link", "data", "fail", "mark"}
Ops == [at : Points, name : Names \cup {NULL}, len : 0..MaxLen, slot : 0..RootSlots,
        freed : BOOLEAN, cluster : Clusters \cup {0, EOC}, first : Clusters \cup {0},
        prev : Clusters \cup {0}, i : 0..MaxLen, c : Clusters \cup {0},
        v : Clusters \cup {FREE, EOC}, copy : Copies, then : Points, after : Points]

TypeOK ==
    /\ fat \in [Copies -> [Clusters -> Clusters \cup {FREE, EOC}]]
    /\ root \in [Slot -> Entry]
    /\ data \in [Clusters -> Data \cup {NULL}]
    /\ op \in Ops
    /\ wrecked \in BOOLEAN /\ exposed \in BOOLEAN /\ faults \in 0..MaxFaults

\* A freshly formatted volume, with or without a subdirectory.
Init ==
    /\ \/ /\ fat = [f \in Copies |-> [c \in Clusters |-> FREE]]
          /\ root = [s \in Slot |-> NoEntry]
       \/ \E n \in Names :
            /\ fat = [f \in Copies |-> [c \in Clusters |-> IF c = 2 THEN EOC ELSE FREE]]
            /\ root = [s \in Slot |-> IF s = 1
                  THEN [name |-> n, attr |-> "dir", first |-> 2, len |-> 0]
                  ELSE NoEntry]
    /\ data = [c \in Clusters |-> NULL]
    /\ op = NoOp
    /\ wrecked = FALSE
    /\ exposed = FALSE
    /\ faults = 0

-----------------------------------------------------------------------------
IsEntry(s) == root[s].attr \in {"file", "dir"}

\* The slots a scan of the root directory looks at: it stops at the first 0x00.
Scanned == {s \in Slot : \A r \in 1..(s - 1) : root[r].attr # "end"}
\* fat16_find_in_root.
Found(name) == {s \in Scanned : IsEntry(s) /\ root[s].name = name}

FreeSlots == {s \in Scanned : root[s].attr \in {"end", "deleted"}}
\* mutant: the scan's first slot is taken
FirstScanned(name) == {Min(Scanned)}
\* fat16_locate_slot: the file's slot, else the first free one, else none.
Located(name) ==
    IF Found(name) # {} THEN {Min(Found(name))}
    ELSE IF FreeSlots # {} THEN {Min(FreeSlots)} ELSE {}

\* A failed call can hurt other files when it leaves an entry that points to clusters
\* it has freed, or a cluster in use that its FAT entry calls free.
OneMore == faults < MaxFaults /\ faults' = faults + 1
Expose == exposed' = TRUE /\ OneMore
Fault == OneMore /\ UNCHANGED exposed
NoFault == UNCHANGED <<exposed, faults>>
\* A call that gives up after it began to free the chain its entry points to.
Abandon == op' = NoOp /\ exposed' = (exposed \/ op.freed)

AtOp(point) == op.at = point

\* fat16_write_file, up to its first change of the disk.
WriteFile(name, len) ==
    /\ AtOp("idle")
    /\ \E s \in Located(name) :
        op' = [NoOp EXCEPT !.at = "free", !.after = "alloc", !.name = name, !.len = len,
                           !.slot = s, !.cluster = IF IsEntry(s) THEN root[s].first ELSE 0]
    /\ UNCHANGED <<diskVars, wrecked>> /\ NoFault

\* fat16_get_next_cluster reads the first copy.
NextInChain(c) == fat[1][c]

\* fat16_free_chain.
FreeNext ==
    /\ AtOp("free")
    /\ IF op.cluster # 0 /\ op.cluster < EOC
       THEN \/ /\ op' = [op EXCEPT !.at = "set", !.c = op.cluster, !.v = FREE, !.copy = 1,
                                   !.then = "free", !.cluster = NextInChain(op.cluster),
                                   !.freed = @ \/ op.after # "fail"]
               /\ NoFault
            \/ /\ op' = [op EXCEPT !.at = op.after, !.cluster = 0]     \* the FAT cannot be read
               /\ Fault
       ELSE op' = [op EXCEPT !.at = op.after, !.cluster = 0] /\ NoFault
    /\ UNCHANGED <<diskVars, wrecked>>

LastCopy == NumFats

EntryDone == [op EXCEPT !.at = op.then, !.v = 0, !.copy = 1, !.then = "idle",
                        !.c = IF op.then = "link" THEN @ ELSE 0]

\* fat16_set_fat_entry, one copy at a time.  Nobody looks at what it returns.
SetEntry ==
    /\ AtOp("set")
    /\ \/ /\ fat' = [fat EXCEPT ![op.copy][op.c] = op.v]
          /\ op' = IF op.copy < LastCopy THEN [op EXCEPT !.copy = @ + 1]
                   ELSE EntryDone
          /\ NoFault
       \/ /\ op' = EntryDone
          /\ IF op.copy = 1 /\ op.v # FREE THEN Expose ELSE Fault
          /\ UNCHANGED fat
    /\ UNCHANGED <<root, data, wrecked>>

\* fat16_find_free_cluster reads the first copy.
FreeClusters == {c \in Clusters : fat[1][c] = FREE}

\* mutant: a full disk leaves the clusters it got allocated
KeepClusters == [op EXCEPT !.at = "fail"]
\* What has been allocated is freed again before the call fails.
FreeAgain == [op EXCEPT !.at = "free", !.cluster = op.first, !.after = "fail"]

\* mutant: one cluster too many
NeedsOneMore == op.i <= op.len
NeedsMore == op.i < op.len

AllocNext ==
    /\ AtOp("alloc")
    /\ \/ /\ NeedsMore /\ FreeClusters # {}
          /\ op' = [op EXCEPT !.at = "set", !.c = Min(FreeClusters), !.v = EOC, !.copy = 1,
                              !.then = "link"]
          /\ NoFault
       \/ /\ NeedsMore                          \* full, or the FAT cannot be read
          /\ op' = FreeAgain
          /\ IF FreeClusters = {} THEN NoFault ELSE Fault
       \/ /\ ~NeedsMore
          /\ op' = [op EXCEPT !.at = "data", !.i = 0, !.cluster = op.first, !.prev = 0]
          /\ NoFault
    /\ UNCHANGED <<diskVars, wrecked>>

\* The new cluster, op.c, becomes the first one or is linked behind the previous one.
Link ==
    /\ AtOp("link")
    /\ op' = IF op.prev = 0
             THEN [op EXCEPT !.at = "alloc", !.first = op.c, !.prev = op.c, !.i = @ + 1, !.c = 0]
             ELSE [op EXCEPT !.at = "set", !.c = op.prev, !.v = op.c, !.copy = 1,
                             !.then = "alloc", !.prev = op.c, !.i = @ + 1]
    /\ UNCHANGED <<diskVars, wrecked>> /\ NoFault

WriteData ==
    /\ AtOp("data")
    /\ op.cluster # 0 /\ op.i < op.len
    /\ \/ /\ data' = [data EXCEPT ![op.cluster] = <<op.name, op.i>>]
          /\ LET next == fat[1][op.cluster] IN
             \/ /\ op' = [op EXCEPT !.i = @ + 1, !.cluster = IF next >= EOC THEN 0 ELSE next]
                /\ NoFault
             \/ /\ op.i + 1 < op.len            \* the FAT cannot be read: a short file
                /\ op' = [op EXCEPT !.cluster = 0]
                /\ Expose
       \/ Abandon /\ OneMore /\ UNCHANGED data
    /\ UNCHANGED <<fat, root, wrecked>>

\* mutant: the entry keeps the first cluster it had
OldFirst == IF IsEntry(op.slot) THEN root[op.slot].first ELSE op.first
NewFirst == op.first

\* The directory entry is written last.
WriteEntry ==
    /\ AtOp("data")
    /\ op.cluster = 0 \/ op.i = op.len
    /\ \/ /\ root' = [root EXCEPT ![op.slot] =
                 [name |-> op.name, attr |-> "file", first |-> NewFirst, len |-> op.len]]
          /\ op' = NoOp
          /\ NoFault
       \/ Abandon /\ OneMore /\ UNCHANGED root
    /\ UNCHANGED <<fat, data, wrecked>>

WriteFails ==
    /\ AtOp("fail")
    /\ Abandon /\ UNCHANGED faults
    /\ UNCHANGED <<diskVars, wrecked>>

\* fat16_delete_file of a file that is no directory.
DeleteFile(name) ==
    /\ AtOp("idle")
    /\ \E s \in Found(name) :
        /\ root[s].attr = "file"
        /\ op' = [NoOp EXCEPT !.at = "free", !.after = "mark", !.name = name, !.slot = s,
                              !.cluster = root[s].first]
    /\ UNCHANGED <<diskVars, wrecked>> /\ NoFault

\* A FAT sector read as a root directory: its bytes make no name a call asks for, and
\* a zero byte where a name begins ends it.  e->name[0] = 0xE5 is done to that sector.
Wrecked == {[j EXCEPT ![op.slot] = [NoEntry EXCEPT !.attr = "deleted"]] :
                j \in [Slot -> {NoEntry, [NoEntry EXCEPT !.attr = "junk"]}]}

\* g_sector_buf still holds the root directory only if fat16_free_chain read no FAT
\* sector: otherwise the last one it read goes over the root directory.
MarkDeleted ==
    /\ AtOp("mark")
    /\ \/ /\ IF op.freed
             THEN root' \in Wrecked /\ wrecked' = TRUE
             ELSE root' = [root EXCEPT ![op.slot] = [NoEntry EXCEPT !.attr = "deleted"]]
                  /\ UNCHANGED wrecked
          /\ op' = NoOp
          /\ NoFault
       \/ Abandon /\ OneMore /\ UNCHANGED <<root, wrecked>>
    /\ UNCHANGED <<fat, data>>

\* The power goes off; the volume is mounted again.
PowerOff ==
    /\ op # NoOp
    /\ Abandon /\ OneMore
    /\ UNCHANGED <<diskVars, wrecked>>

Next ==
    \/ \E name \in Names, len \in 0..MaxLen : WriteFile(name, len)
    \/ \E name \in Names : DeleteFile(name)
    \/ FreeNext \/ SetEntry \/ AllocNext \/ Link \/ WriteData \/ WriteEntry \/ WriteFails
    \/ MarkDeleted \/ PowerOff

Spec == Init /\ [][Next]_vars

-----------------------------------------------------------------------------
\* fat16_read_file follows the first copy from an entry's first cluster, until it has
\* as many clusters as the file has or the chain ends.
ChainOf(e) ==
    LET walk[k \in 0..(e.len - 1)] ==
            IF k = 0 THEN e.first
            ELSE IF walk[k - 1] \in Clusters THEN fat[1][walk[k - 1]] ELSE 0
    IN  walk
Owned(e) ==
    IF e.attr = "dir" THEN {e.first}
    ELSE {ChainOf(e)[k] : k \in 0..(e.len - 1)} \cap Clusters

\* The entries no call is changing.
Settled == {s \in Slot : IsEntry(s) /\ s # op.slot}

\* Files do not hurt each other: while some call writes one file, and after it was cut
\* short by a read error or a power failure, every other file is found by its name,
\* has a chain of its own of its length and reads back what was written to it; only
\* an overwrite or a delete cut short, or a FAT write that failed, ends that.
FilesIntact ==
    ~exposed =>
        /\ \A s \in Settled : Found(root[s].name) = {s}
        /\ \A s \in Settled : root[s].attr = "file" /\ root[s].len > 0 =>
            LET walk == ChainOf(root[s]) IN
            /\ \A k \in 0..(root[s].len - 1) :
                walk[k] \in Clusters /\ data[walk[k]] = <<root[s].name, k>>
            /\ fat[1][walk[root[s].len - 1]] = EOC
        /\ \A r, s \in Settled : r # s => Owned(root[r]) \cap Owned(root[s]) = {}

\* A call that no fault cuts short leaves each cluster free or in the chain of a file,
\* even when it finds the disk full while it creates a file.  (When it overwrites one,
\* the old chain is gone by then and its entry still points there: exposed.)
NothingLeaks ==
    faults = 0 /\ ~exposed /\ ~wrecked /\ op = NoOp =>
        {c \in Clusters : fat[1][c] # FREE} =
            UNION {Owned(root[s]) : s \in {r \in Slot : IsEntry(r)}}

\* Between calls the copies of the FAT are the same, so any can replace the first.
CopiesAgree == faults = 0 /\ op = NoOp => \A f \in Copies : fat[f] = fat[1]

\* As long as no sector access fails and no call is cut short, the volume is one a disk
\* checker has nothing to say about (fat16_write_file, fat16.c:471-569,
\* which must undo what it did when it gives up, and fat16_delete_file, 574-598).
VolumeSound == NothingLeaks /\ CopiesAgree

\* A call on one file takes no other file out of the root directory; a delete of a file
\* that has clusters, which writes a FAT sector over the directory, is the exception.
OthersKept ==
    [][\A s \in Slot : IsEntry(s) /\ root[s].name # op.name =>
            root'[s] = root[s] \/ (op.at = "mark" /\ op.freed)]_vars
=============================================================================
