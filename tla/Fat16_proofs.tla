---------------------------- MODULE Fat16_proofs ----------------------------
(***************************************************************************)
(* For any volume, any number of copies of its FAT, any names and any      *)
(* lengths: a file reads back what was written to it while other files are *)
(* written and deleted, whatever fails; and without faults no cluster is   *)
(* lost.                                                                   *)
(*                                                                         *)
(* The invariant comes in three layers.  Basic needs no other: types, the  *)
(* root directory, and what the locals of a call are at each point of it.  *)
(* CopiesRight says where the copies of the FAT differ while an entry is   *)
(* being set.  VolumeRight, while the volume is not exposed, says of each  *)
(* cluster whose it is: an entry's, or part of the chain that the call     *)
(* under way frees, builds or fills.                                       *)
(*                                                                         *)
(* And for any names, directories, boot sectors and files: what FatNames   *)
(* says of them.  The loops of fat16_list_root, fat16_write_file and       *)
(* fat16_read_file are recursive functions there; each is shown to be what *)
(* its closed form is after every turn.                                    *)
(***************************************************************************)
EXTENDS MCFat16, NatSets, SequenceTheorems

-----------------------------------------------------------------------------
\* What read_file finds on a table.
WalkIn(table, e) ==
    LET walk[k \in 0..(e.len - 1)] ==
            IF k = 0 THEN e.first
            ELSE IF walk[k - 1] \in Clusters THEN table[walk[k - 1]] ELSE 0
    IN  walk

\* w lists n clusters, none twice, the first of them first; from the j-th (counted from
\* 0) each but the last points to the next.
Lists(w, n, first) ==
    /\ w \in [0..(n - 1) -> Clusters]
    /\ \A k, m \in 0..(n - 1) : w[k] = w[m] => k = m
    /\ first = IF n = 0 THEN 0 ELSE w[0]
Linked(table, w, n, j) == \A k \in (j + 1)..(n - 1) : table[w[k - 1]] = w[k]
Ended(table, w, n) == n > 0 => table[w[n - 1]] = EOC
Reads(content, w, n, name) == \A k \in 0..(n - 1) : content[w[k]] = <<name, k>>
Spots(w, j, n) == {w[k] : k \in j..(n - 1)}

\* What a file's entry promises: the chain w, and no other.
IsFile(table, content, w, e) ==
    /\ Lists(w, e.len, e.first) /\ Linked(table, w, e.len, 0) /\ Ended(table, w, e.len)
    /\ Reads(content, w, e.len, e.name)
Intact(table, content, e) ==
    /\ e.attr = "dir" => e.first \in Clusters /\ table[e.first] = EOC
    /\ e.attr = "file" => IsFile(table, content, WalkIn(table, e), e)
OwnedIn(table, e) ==
    IF e.attr = "dir" THEN {e.first}
    ELSE {WalkIn(table, e)[k] : k \in 0..(e.len - 1)} \cap Clusters

\* The root directory, whatever became of the FAT: nothing follows the end mark, no name
\* is there twice, and the call under way has the slot of its name.
RootRight ==
    /\ \A s \in Slot : IsEntry(s) => s \in Scanned
    /\ \A r, s \in Slot : IsEntry(r) /\ IsEntry(s) /\ root[r].name = root[s].name => r = s
    /\ op # NoOp => /\ op.slot \in Scanned /\ op.name \in Names
                    /\ \A s \in Slot : IsEntry(s) => (root[s].name = op.name <=> s = op.slot)

\* The points a call can be at, and what its locals then are.
Freeing == op.at = "free" \/ (op.at = "set" /\ op.then = "free")
Growing == op.at \in {"alloc", "link"} \/ (op.at = "set" /\ op.then \in {"alloc", "link"})
OpRight ==
    /\ op.at = "idle" => op = NoOp
    /\ op.at = "set" => op.c \in Clusters /\ op.then \in {"free", "alloc", "link"}
    /\ Freeing => op.after \in {"alloc", "mark", "fail"} /\ (op.at = "set" => op.v = FREE)
    /\ op.at = "set" /\ op.then = "free" => op.freed \/ op.after = "fail"
    /\ op.at = "set" /\ op.then = "link" => op.v = EOC
    /\ op.at = "set" /\ op.then = "alloc" => op.v \in Clusters
    /\ op.at = "link" => op.c \in Clusters
    /\ Growing => op.i <= op.len
    /\ op.at = "link" \/ (op.at = "set" /\ op.then = "link") => op.i < op.len
    /\ op.at = "data" => op.cluster # EOC /\ op.i <= op.len
    /\ Freeing /\ op.after = "alloc" => op.i = 0 /\ op.first = 0 /\ op.prev = 0
    /\ op.freed => op.at # "idle"

\* The entries as good as if no call were under way: all, but the one whose chain the
\* call has begun to free.
Safe == {s \in Slot : IsEntry(s) /\ (s # op.slot \/ ~op.freed)}
SoundIn(table, content, entries, S) ==
    /\ \A s \in S : Intact(table, content, entries[s])
    /\ \A r, s \in S :
        r # s => OwnedIn(table, entries[r]) \cap OwnedIn(table, entries[s]) = {}
HeldIn(table, entries, S) == UNION {OwnedIn(table, entries[s]) : s \in S}
Held == HeldIn(fat[1], root, Safe)

\* Without faults, what the table has in use beyond what is held.
InUse(X) == faults = 0 /\ ~wrecked =>
                {c \in Clusters : fat[1][c] # FREE} = Held \cup X

\* The j-th of w is next to be freed, and those behind it after it.
Rest(w, n, j) ==
    /\ w \in [0..(n - 1) -> Clusters] /\ \A k, m \in 0..(n - 1) : w[k] = w[m] => k = m
    /\ Linked(fat[1], w, n, j)
    /\ j < n => Ended(fat[1], w, n) /\ op.cluster = w[j]
    /\ j = n => op.cluster \in {0, EOC}
    /\ op.at = "set" => j > 0 /\ op.c = w[j - 1]
    /\ Spots(w, 0, n) \cap Held = {}
    /\ InUse(Spots(w, j, n) \cup IF op.at = "set" /\ op.copy = 1 THEN {op.c} ELSE {})
\* The chain of the entry is the next to be freed, and still there.
Untouched == op.at = "free" /\ op.after # "fail" /\ ~op.freed
FreeRight ==
    IF Untouched
    THEN op.cluster = (IF IsEntry(op.slot) THEN root[op.slot].first ELSE 0) /\ InUse({})
    ELSE \E n \in 0..MaxLen : \E w \in [0..(n - 1) -> Clusters], j \in 0..n : Rest(w, n, j)

\* The chain a write has so far: w, of op.i clusters, the last not linked yet while the
\* first copy of its predecessor's entry is set; and the cluster just allocated.
Linking == op.at = "set" /\ op.then = "alloc"
Fresh == op.at = "link" \/ (op.at = "set" /\ op.then = "link")
FreshFree == op.at = "set" /\ op.copy = 1
Tied == IF Linking /\ op.copy = 1 THEN op.i - 1 ELSE op.i
Built(w) ==
    /\ Lists(w, op.i, op.first)
    /\ op.prev = IF op.i = 0 THEN 0 ELSE w[op.i - 1]
    /\ \A k \in 0..(op.i - 1) : fat[1][w[k]] # FREE
    /\ Linked(fat[1], w, Tied, 0) /\ Ended(fat[1], w, Tied)
    /\ Linking => /\ op.i > 1 /\ op.c = w[op.i - 2] /\ op.v = w[op.i - 1]
                  /\ fat[1][op.v] = EOC
    /\ Spots(w, 0, op.i) \cap Held = {}
    /\ Fresh => /\ op.c \notin Held /\ op.c \notin Spots(w, 0, op.i)
                /\ fat[1][op.c] = IF FreshFree THEN FREE ELSE EOC
    /\ InUse(Spots(w, 0, op.i) \cup IF Fresh /\ ~FreshFree THEN {op.c} ELSE {})
GrowRight == \E w \in [0..(op.i - 1) -> Clusters] : Built(w)

\* The chain is complete, and filled as far as op.i.
Filled(w) ==
    /\ Lists(w, op.len, op.first) /\ Linked(fat[1], w, op.len, 0) /\ Ended(fat[1], w, op.len)
    /\ Reads(data, w, op.i, op.name)
    /\ op.cluster = IF op.i < op.len THEN w[op.i] ELSE 0
    /\ Spots(w, 0, op.len) \cap Held = {}
    /\ InUse(Spots(w, 0, op.len))
DataRight == \E w \in [0..(op.len - 1) -> Clusters] : Filled(w)

\* Without faults a call goes on without the chain its entry had.
ChainFreed ==
    faults = 0 /\ op.at # "idle" /\ ~op.freed /\ IsEntry(op.slot) /\ ~Untouched
        => root[op.slot].first = 0

VolumeRight ==
    /\ SoundIn(fat[1], data, root, Safe)
    /\ Freeing => FreeRight
    /\ Growing => GrowRight
    /\ op.at = "data" => DataRight
    /\ op.at \in {"idle", "mark", "fail"} => InUse({})
    /\ ChainFreed

\* Without faults the copies of the table differ only in the entry that is being set.
CopiesRight ==
    faults = 0 =>
        \A f \in Copies :
            IF op.at = "set"
            THEN /\ \A x \in Clusters \ {op.c} : fat[f][x] = fat[1][x]
                 /\ f < op.copy => fat[f][op.c] = op.v
            ELSE fat[f] = fat[1]

-----------------------------------------------------------------------------
\* A chain in the table is the one that reading from its first cluster finds.
LEMMA WalkIs ==
    ASSUME NEW table, NEW e, e.len \in Nat, NEW w,
           Lists(w, e.len, e.first), Linked(table, w, e.len, 0)
    PROVE  WalkIn(table, e) = w
<1> DEFINE D == 0..(e.len - 1)
           Good(g) == g = [k \in D |-> IF k = 0 THEN e.first
                               ELSE IF g[k - 1] \in Clusters THEN table[g[k - 1]] ELSE 0]
<1>1. Good(w)
  <2>1. w \in [D -> Clusters] /\ \A k \in D : k = 0 => w[k] = e.first
    BY DEF Lists
  <2>2. \A k \in D : k # 0 => k - 1 \in D /\ w[k - 1] \in Clusters /\ w[k] = table[w[k - 1]]
    BY <2>1 DEF Linked
  <2> QED
    BY <2>1, <2>2
<1>2. WalkIn(table, e) = CHOOSE g : Good(g)
  BY DEF WalkIn
<1>3. ASSUME NEW g, Good(g) PROVE g = w
  <2> DEFINE T == {k \in Nat : k \in D => g[k] = w[k]}
  <2>1. 0 \in T
    BY <1>1, <1>3
  <2>2. ASSUME NEW k \in Nat, k \in T PROVE k + 1 \in T
    <3>1. ASSUME k + 1 \in D PROVE g[k + 1] = w[k + 1]
      <4>1. k \in D /\ g[k] = w[k] /\ (k + 1) - 1 = k /\ k + 1 # 0
        BY <2>2, <3>1
      <4>2. /\ g[k + 1] = IF g[k] \in Clusters THEN table[g[k]] ELSE 0
            /\ w[k + 1] = IF w[k] \in Clusters THEN table[w[k]] ELSE 0
        BY <1>1, <1>3, <3>1, <4>1
      <4> QED
        BY <4>1, <4>2
    <3> QED
      BY <3>1
  <2>3. Nat \subseteq T
    <3> HIDE DEF T
    <3> QED
      BY <2>1, <2>2, SetInduction
  <2>4. \A k \in D : g[k] = w[k]
    BY <2>3
  <2>5. w = [k \in D |-> w[k]]
    BY DEF Lists
  <2>6. g = [k \in D |-> g[k]]
    <3> DEFINE Step(k) == IF k = 0 THEN e.first
                          ELSE IF g[k - 1] \in Clusters THEN table[g[k - 1]] ELSE 0
    <3>1. g = [k \in D |-> Step(k)]
      BY <1>3
    <3> HIDE DEF Step
    <3> QED
      BY <3>1
  <2>7. [k \in D |-> g[k]] = [k \in D |-> w[k]]
    BY <2>4
  <2> QED
    BY <2>5, <2>6, <2>7
<1> HIDE DEF Good
<1> QED
  BY <1>1, <1>2, <1>3

\* So a chain of a file's length is the file's.
LEMMA FileIs ==
    ASSUME NEW table, NEW e \in Entry, e.attr = "file", NEW w,
           Lists(w, e.len, e.first), Linked(table, w, e.len, 0)
    PROVE  WalkIn(table, e) = w /\ OwnedIn(table, e) = Spots(w, 0, e.len)
<1>1. e.len \in Nat
  BY VolumeAssumption DEF Entry
<1>2. WalkIn(table, e) = w
  BY <1>1, WalkIs
<1>3. w \in [0..(e.len - 1) -> Clusters]
  BY DEF Lists
<1> QED
  BY <1>2, <1>3 DEF OwnedIn, Spots

\* An entry stays what it is while the clusters it owns do.
LEMMA EntryKept ==
    ASSUME NEW t1, NEW d1, NEW t2, NEW d2, NEW e \in Entry, e.attr \in {"file", "dir"},
           Intact(t1, d1, e), \A c \in OwnedIn(t1, e) : t2[c] = t1[c] /\ d2[c] = d1[c]
    PROVE  Intact(t2, d2, e) /\ OwnedIn(t2, e) = OwnedIn(t1, e)
<1>1. CASE e.attr = "dir"
  BY <1>1 DEF Intact, OwnedIn
<1>2. CASE e.attr = "file"
  <2>1. PICK w : w = WalkIn(t1, e)
    OBVIOUS
  <2>2. IsFile(t1, d1, w, e)
    BY <1>2, <2>1 DEF Intact
  <2>3. OwnedIn(t1, e) = Spots(w, 0, e.len)
    BY <1>2, <2>2, FileIs DEF IsFile
  <2>4. \A k \in 0..(e.len - 1) : w[k] \in OwnedIn(t1, e)
    BY <2>3 DEF Spots
  <2>5. e.len \in Nat
    BY VolumeAssumption DEF Entry
  <2>6. Linked(t2, w, e.len, 0) /\ Ended(t2, w, e.len) /\ Reads(d2, w, e.len, e.name)
    <3>1. Linked(t2, w, e.len, 0)
      BY <2>2, <2>4, <2>5 DEF IsFile, Linked
    <3>2. Ended(t2, w, e.len)
      BY <2>2, <2>4, <2>5 DEF IsFile, Ended
    <3>3. Reads(d2, w, e.len, e.name)
      BY <2>2, <2>4, <2>5 DEF IsFile, Reads
    <3> QED
      BY <3>1, <3>2, <3>3
  <2>7. Lists(w, e.len, e.first)
    BY <2>2 DEF IsFile
  <2>8. WalkIn(t2, e) = w /\ OwnedIn(t2, e) = Spots(w, 0, e.len)
    BY <1>2, <2>6, <2>7, FileIs
  <2> QED
    BY <1>2, <2>3, <2>6, <2>7, <2>8 DEF Intact, IsFile
<1> QED
  BY <1>1, <1>2

\* What an intact entry owns is in use.
LEMMA OwnedInUse ==
    ASSUME TypeOK, NEW e \in Entry, e.attr \in {"file", "dir"}, Intact(fat[1], data, e)
    PROVE  \A c \in OwnedIn(fat[1], e) : c \in Clusters /\ fat[1][c] # FREE
<1>0. e.len \in Nat /\ EOC # FREE /\ FREE \notin Clusters
  BY VolumeAssumption DEF Entry, EOC, FREE, Clusters
<1>1. CASE e.attr = "dir"
  BY <1>0, <1>1 DEF Intact, OwnedIn
<1>2. CASE e.attr = "file"
  <2>1. PICK w : w = WalkIn(fat[1], e)
    OBVIOUS
  <2>2. IsFile(fat[1], data, w, e)
    BY <1>2, <2>1 DEF Intact
  <2>3. OwnedIn(fat[1], e) = Spots(w, 0, e.len) /\ w \in [0..(e.len - 1) -> Clusters]
    BY <1>2, <2>2, FileIs DEF IsFile, Lists
  <2>4. ASSUME NEW k \in 0..(e.len - 1) PROVE fat[1][w[k]] # FREE
    <3>1. CASE k = e.len - 1
      BY <1>0, <2>2, <3>1 DEF IsFile, Ended
    <3>2. CASE k # e.len - 1
      <4>1. k + 1 \in 1..(e.len - 1) /\ (k + 1) - 1 = k /\ k + 1 \in 0..(e.len - 1)
        BY <1>0, <3>2
      <4>2. fat[1][w[k]] = w[k + 1]
        BY <2>2, <4>1 DEF IsFile, Linked
      <4> QED
        BY <1>0, <2>3, <4>1, <4>2
    <3> QED
      BY <3>1, <3>2
  <2> QED
    BY <2>3, <2>4 DEF Spots
<1> QED
  BY <1>1, <1>2

-----------------------------------------------------------------------------
\* What the constants come to.
LEMMA Sizes ==
    /\ 1 \in Copies /\ NumFats \in Copies /\ NumFats \in Nat /\ 0 \in 0..MaxLen /\ MaxLen \in Nat
    /\ 1 \in 0..MaxLen
    /\ Clusters \subseteq Nat /\ 0 \notin Clusters /\ FREE = 0
    /\ EOC \notin Clusters /\ EOC # 0 /\ EOC \in Nat
    /\ \A c \in Clusters : c # 0 /\ c < EOC
    /\ \A c \in Clusters \cup {0, EOC} : c # 0 /\ c < EOC => c \in Clusters
    /\ 0 \in 0..RootSlots /\ Slot \subseteq 0..RootSlots /\ Slot \subseteq Nat /\ 0 \notin Slot
    /\ RootSlots \in Nat
BY VolumeAssumption DEF Copies, Clusters, FREE, EOC, Slot

\* What each local of a call can be.
LEMMA OpTyped == ASSUME TypeOK PROVE
    /\ op.at \in Points /\ op.name \in Names \cup {NULL} /\ op.len \in 0..MaxLen
    /\ op.slot \in 0..RootSlots /\ op.freed \in BOOLEAN /\ op.cluster \in Clusters \cup {0, EOC}
    /\ op.first \in Clusters \cup {0} /\ op.prev \in Clusters \cup {0} /\ op.i \in 0..MaxLen
    /\ op.c \in Clusters \cup {0} /\ op.v \in Clusters \cup {FREE, EOC} /\ op.copy \in Copies
    /\ op.then \in Points /\ op.after \in Points
BY DEF TypeOK, Ops

\* Between two calls.
LEMMA NoOpTyped ==
    NoOp \in Ops /\ NoOp.at = "idle" /\ NoOp.slot = 0 /\ ~NoOp.freed
BY Sizes DEF NoOp, Ops, Points

\* fat16_next_cluster reads a cluster or a mark.
LEMMA NextTyped ==
    ASSUME TypeOK, NEW c \in Clusters
    PROVE  NextInChain(c) = fat[1][c] /\ fat[1][c] \in Clusters \cup {0, EOC}
BY Sizes DEF TypeOK, NextInChain

\* Each step leaves the call at a point where its locals are as OpRight says.
LEMMA FreeNextOp ==
    ASSUME TypeOK, OpRight, FreeNext
    PROVE  op' \in Ops /\ OpRight' /\ op'.slot = op.slot /\ op'.name = op.name
<1>0. /\ op.at = "free" /\ Freeing /\ op.after \in {"alloc", "mark", "fail"}
      /\ op.after = "alloc" => op.i = 0 /\ op.first = 0 /\ op.prev = 0
  BY DEF FreeNext, AtOp, OpRight, Freeing
<1>1. ASSUME op.cluster # 0, op.cluster < EOC,
        op' = [op EXCEPT !.at = "set", !.c = op.cluster, !.v = FREE, !.copy = 1,
                                   !.then = "free", !.cluster = NextInChain(op.cluster),
                                   !.freed = @ \/ op.after # "fail"]
       PROVE op' \in Ops /\ OpRight' /\ op'.slot = op.slot /\ op'.name = op.name
  <2>1. op.cluster \in Clusters /\ NextInChain(op.cluster) \in Clusters \cup {0, EOC}
    BY <1>1, OpTyped, Sizes, NextTyped
  <2>2. op' = [at |-> "set", name |-> op.name, len |-> op.len, slot |-> op.slot,
               freed |-> (op.freed \/ op.after # "fail"),
               cluster |-> NextInChain(op.cluster), first |-> op.first, prev |-> op.prev,
               i |-> op.i, c |-> op.cluster, v |-> FREE, copy |-> 1, then |-> "free",
               after |-> op.after]
    BY <1>1 DEF TypeOK, Ops
  <2>3. op' \in Ops
    BY <2>1, <2>2, OpTyped, Sizes DEF Ops, Points
  <2> QED
    BY <1>0, <2>1, <2>2, <2>3 DEF OpRight, Freeing, Growing
<1>2. ASSUME op' = [op EXCEPT !.at = op.after, !.cluster = 0]
      PROVE op' \in Ops /\ OpRight' /\ op'.slot = op.slot /\ op'.name = op.name
  <2>2. op' = [at |-> op.after, name |-> op.name, len |-> op.len, slot |-> op.slot,
               freed |-> op.freed, cluster |-> 0, first |-> op.first, prev |-> op.prev,
               i |-> op.i, c |-> op.c, v |-> op.v, copy |-> op.copy, then |-> op.then,
               after |-> op.after]
    BY <1>2 DEF TypeOK, Ops
  <2>3. op' \in Ops
    BY <2>2, OpTyped, Sizes DEF Ops
  <2> QED
    BY <1>0, <2>2, <2>3, OpTyped, Sizes DEF OpRight, Freeing, Growing
<1> QED
  BY <1>1, <1>2 DEF FreeNext

\* Min is the least member.
LEMMA LeastOf ==
    ASSUME NEW S, S \subseteq Nat, S # {}
    PROVE  Min(S) \in S /\ \A x \in S : Min(S) <= x
<1>1. PICK m \in S : \A x \in S : m <= x
  BY LeastElement
<1> QED
  BY <1>1 DEF Min

\* The cluster that fat16_alloc_cluster finds is a cluster.
LEMMA LeastFree ==
    FreeClusters # {} => Min(FreeClusters) \in FreeClusters /\ Min(FreeClusters) \in Clusters
BY LeastOf, Sizes DEF FreeClusters

\* The same when an entry is set.
LEMMA SetEntryOp ==
    ASSUME TypeOK, OpRight, SetEntry
    PROVE  op' \in Ops /\ OpRight' /\ op'.slot = op.slot /\ op'.name = op.name
<1>0. /\ op.at = "set" /\ op.c \in Clusters /\ op.then \in {"free", "alloc", "link"}
      /\ op.then = "free" => op.after \in {"alloc", "mark", "fail"} /\ op.v = FREE
      /\ op.then = "free" /\ op.after = "alloc" => op.i = 0 /\ op.first = 0 /\ op.prev = 0
      /\ op.then = "free" => op.freed \/ op.after = "fail"
      /\ op.then \in {"link", "alloc"} => op.i <= op.len
      /\ op.then = "link" => op.v = EOC /\ op.i < op.len
      /\ op.then = "alloc" => op.v \in Clusters
  BY DEF SetEntry, AtOp, OpRight, Freeing, Growing
<1>1. ASSUME op.copy < NumFats, op' = [op EXCEPT !.copy = @ + 1]
      PROVE  op' \in Ops /\ OpRight' /\ op'.slot = op.slot /\ op'.name = op.name
  <2>1. op.copy + 1 \in Copies
    BY <1>0, <1>1, OpTyped, Sizes DEF Copies
  <2>2. op' = [at |-> op.at, name |-> op.name, len |-> op.len, slot |-> op.slot,
               freed |-> op.freed, cluster |-> op.cluster, first |-> op.first,
               prev |-> op.prev, i |-> op.i, c |-> op.c, v |-> op.v, copy |-> (op.copy + 1),
               then |-> op.then, after |-> op.after]
    BY <1>1 DEF TypeOK, Ops
  <2>3. op' \in Ops
    BY <2>1, <2>2, OpTyped, Sizes DEF Ops, Points
  <2> QED
    BY <1>0, <1>1, <2>1, <2>2, <2>3, OpTyped, Sizes DEF OpRight, Freeing, Growing
<1>2. ASSUME op' = [op EXCEPT !.at = op.then, !.v = 0, !.copy = 1, !.then = "idle",
                        !.c = IF op.then = "link" THEN @ ELSE 0]
      PROVE  op' \in Ops /\ OpRight' /\ op'.slot = op.slot /\ op'.name = op.name
  <2>1. (IF op.then = "link" THEN op.c ELSE 0) \in Clusters \cup {0}
    BY <1>0, <1>2, OpTyped, Sizes
  <2>2. op' = [at |-> op.then, name |-> op.name, len |-> op.len, slot |-> op.slot,
               freed |-> op.freed, cluster |-> op.cluster, first |-> op.first,
               prev |-> op.prev, i |-> op.i, c |-> (IF op.then = "link" THEN op.c ELSE 0),
               v |-> 0, copy |-> 1, then |-> "idle", after |-> op.after]
    BY <1>2 DEF TypeOK, Ops
  <2>3. op' \in Ops
    BY <2>1, <2>2, OpTyped, Sizes DEF Ops, Points
  <2> QED
    BY <1>0, <1>2, <2>1, <2>2, <2>3, OpTyped, Sizes DEF OpRight, Freeing, Growing
<1> QED
  BY <1>1, <1>2 DEF SetEntry, EntryDone, LastCopy

\* The same when a cluster is allocated.
LEMMA AllocNextOp ==
    ASSUME TypeOK, OpRight, AllocNext
    PROVE  op' \in Ops /\ OpRight' /\ op'.slot = op.slot /\ op'.name = op.name
<1>0. op.at = "alloc" /\ op.i <= op.len
  BY DEF AllocNext, AtOp, OpRight, Growing
<1>1. ASSUME op.i < op.len, NEW c \in Clusters,
             op' = [op EXCEPT !.at = "set", !.c = c, !.v = EOC, !.copy = 1, !.then = "link"]
      PROVE  op' \in Ops /\ OpRight' /\ op'.slot = op.slot /\ op'.name = op.name
  <2>1. EOC \in Clusters \cup {FREE, EOC}
    BY <1>0, <1>1, OpTyped, Sizes
  <2>2. op' = [at |-> "set", name |-> op.name, len |-> op.len, slot |-> op.slot,
               freed |-> op.freed, cluster |-> op.cluster, first |-> op.first,
               prev |-> op.prev, i |-> op.i, c |-> c, v |-> EOC, copy |-> 1,
               then |-> "link", after |-> op.after]
    BY <1>1 DEF TypeOK, Ops
  <2>3. op' \in Ops
    BY <2>1, <2>2, OpTyped, Sizes DEF Ops, Points
  <2> QED
    BY <1>0, <1>1, <2>1, <2>2, <2>3, OpTyped, Sizes DEF OpRight, Freeing, Growing
<1>2. ASSUME op' = [op EXCEPT !.at = "free", !.cluster = op.first, !.after = "fail"]
      PROVE  op' \in Ops /\ OpRight' /\ op'.slot = op.slot /\ op'.name = op.name
  <2>1. op.first \in Clusters \cup {0, EOC}
    BY <1>0, <1>2, OpTyped, Sizes
  <2>2. op' = [at |-> "free", name |-> op.name, len |-> op.len, slot |-> op.slot,
               freed |-> op.freed, cluster |-> op.first, first |-> op.first,
               prev |-> op.prev, i |-> op.i, c |-> op.c, v |-> op.v, copy |-> op.copy,
               then |-> op.then, after |-> "fail"]
    BY <1>2 DEF TypeOK, Ops
  <2>3. op' \in Ops
    BY <2>1, <2>2, OpTyped, Sizes DEF Ops, Points
  <2> QED
    BY <1>0, <1>2, <2>1, <2>2, <2>3, OpTyped, Sizes DEF OpRight, Freeing, Growing
<1>3. ASSUME op.i = op.len, op' = [op EXCEPT !.at = "data", !.i = 0, !.cluster = op.first, !.prev = 0]
      PROVE  op' \in Ops /\ OpRight' /\ op'.slot = op.slot /\ op'.name = op.name
  <2>1. op.first \in Clusters \cup {0, EOC} /\ op.first # EOC
    BY <1>0, <1>3, OpTyped, Sizes
  <2>2. op' = [at |-> "data", name |-> op.name, len |-> op.len, slot |-> op.slot,
               freed |-> op.freed, cluster |-> op.first, first |-> op.first, prev |-> 0,
               i |-> 0, c |-> op.c, v |-> op.v, copy |-> op.copy, then |-> op.then,
               after |-> op.after]
    BY <1>3 DEF TypeOK, Ops
  <2>3. op' \in Ops
    BY <2>1, <2>2, OpTyped, Sizes DEF Ops, Points
  <2> QED
    BY <1>0, <1>3, <2>1, <2>2, <2>3, OpTyped, Sizes DEF OpRight, Freeing, Growing
<1>4. FreeClusters # {} => Min(FreeClusters) \in FreeClusters /\ Min(FreeClusters) \in Clusters
  BY LeastFree
<1>5. ~NeedsMore => op.i = op.len
  BY <1>0, OpTyped, Sizes DEF NeedsMore
<1> QED
  BY <1>1, <1>2, <1>3, <1>4, <1>5 DEF AllocNext, FreeAgain, NeedsMore

\* The same when it is linked.
LEMMA LinkOp ==
    ASSUME TypeOK, OpRight, Link
    PROVE  op' \in Ops /\ OpRight' /\ op'.slot = op.slot /\ op'.name = op.name
<1>0. op.at = "link" /\ op.c \in Clusters /\ op.i < op.len
  BY DEF Link, AtOp, OpRight, Growing
<1>1. ASSUME op.prev = 0,
         op' = [op EXCEPT !.at = "alloc", !.first = op.c, !.prev = op.c, !.i = @ + 1, !.c = 0]
      PROVE  op' \in Ops /\ OpRight' /\ op'.slot = op.slot /\ op'.name = op.name
  <2>1. op.i + 1 \in 0..MaxLen /\ op.i + 1 <= op.len
    BY <1>0, <1>1, OpTyped, Sizes
  <2>2. op' = [at |-> "alloc", name |-> op.name, len |-> op.len, slot |-> op.slot,
               freed |-> op.freed, cluster |-> op.cluster, first |-> op.c, prev |-> op.c,
               i |-> (op.i + 1), c |-> 0, v |-> op.v, copy |-> op.copy, then |-> op.then,
               after |-> op.after]
    BY <1>1 DEF TypeOK, Ops
  <2>3. op' \in Ops
    BY <2>1, <2>2, OpTyped, Sizes DEF Ops, Points
  <2> QED
    BY <1>0, <1>1, <2>1, <2>2, <2>3, OpTyped, Sizes DEF OpRight, Freeing, Growing
<1>2. ASSUME op.prev # 0,
         op' = [op EXCEPT !.at = "set", !.c = op.prev, !.v = op.c, !.copy = 1,
                          !.then = "alloc", !.prev = op.c, !.i = @ + 1]
      PROVE  op' \in Ops /\ OpRight' /\ op'.slot = op.slot /\ op'.name = op.name
  <2>1. op.i + 1 \in 0..MaxLen /\ op.i + 1 <= op.len /\ op.prev \in Clusters
    BY <1>0, <1>2, OpTyped, Sizes
  <2>2. op' = [at |-> "set", name |-> op.name, len |-> op.len, slot |-> op.slot,
               freed |-> op.freed, cluster |-> op.cluster, first |-> op.first,
               prev |-> op.c, i |-> (op.i + 1), c |-> op.prev, v |-> op.c, copy |-> 1,
               then |-> "alloc", after |-> op.after]
    BY <1>2 DEF TypeOK, Ops
  <2>3. op' \in Ops
    BY <2>1, <2>2, OpTyped, Sizes DEF Ops, Points
  <2> QED
    BY <1>0, <1>2, <2>1, <2>2, <2>3, OpTyped, Sizes DEF OpRight, Freeing, Growing
<1> QED
  BY <1>1, <1>2 DEF Link

\* The same when data is written.
LEMMA WriteDataOp ==
    ASSUME TypeOK, OpRight, WriteData, op' # NoOp
    PROVE  op' \in Ops /\ OpRight' /\ op'.slot = op.slot /\ op'.name = op.name
<1>0. op.at = "data" /\ op.cluster \in Clusters /\ op.i < op.len
      /\ fat[1][op.cluster] \in Clusters \cup {0, EOC}
  BY OpTyped, Sizes, NextTyped DEF WriteData, AtOp, OpRight

<1>1. ASSUME NEW c \in Clusters \cup {0, EOC},
             op' = [op EXCEPT !.i = @ + 1, !.cluster = IF c >= EOC THEN 0 ELSE c]
      PROVE  op' \in Ops /\ OpRight' /\ op'.slot = op.slot /\ op'.name = op.name
  <2>1. op.i + 1 \in 0..MaxLen /\ op.i + 1 <= op.len /\ (IF c >= EOC THEN 0 ELSE c) \in Clusters \cup {0}
    BY <1>0, <1>1, OpTyped, Sizes
  <2>2. op' = [at |-> op.at, name |-> op.name, len |-> op.len, slot |-> op.slot,
               freed |-> op.freed, cluster |-> (IF c >= EOC THEN 0 ELSE c),
               first |-> op.first, prev |-> op.prev, i |-> (op.i + 1), c |-> op.c,
               v |-> op.v, copy |-> op.copy, then |-> op.then, after |-> op.after]
    BY <1>1 DEF TypeOK, Ops
  <2>3. op' \in Ops
    BY <2>1, <2>2, OpTyped, Sizes DEF Ops, Points
  <2> QED
    BY <1>0, <1>1, <2>1, <2>2, <2>3, OpTyped, Sizes DEF OpRight, Freeing, Growing
<1>2. ASSUME op' = [op EXCEPT !.cluster = 0]
      PROVE  op' \in Ops /\ OpRight' /\ op'.slot = op.slot /\ op'.name = op.name
  <2>1. 0 \in Clusters \cup {0}
    BY <1>0, <1>2, OpTyped, Sizes
  <2>2. op' = [at |-> op.at, name |-> op.name, len |-> op.len, slot |-> op.slot,
               freed |-> op.freed, cluster |-> 0, first |-> op.first, prev |-> op.prev,
               i |-> op.i, c |-> op.c, v |-> op.v, copy |-> op.copy, then |-> op.then,
               after |-> op.after]
    BY <1>2 DEF TypeOK, Ops
  <2>3. op' \in Ops
    BY <2>1, <2>2, OpTyped, Sizes DEF Ops, Points
  <2> QED
    BY <1>0, <1>2, <2>1, <2>2, <2>3, OpTyped, Sizes DEF OpRight, Freeing, Growing
<1> QED
  BY <1>0, <1>1, <1>2 DEF WriteData, Abandon

\* fat16_locate_slot finds the file, or a slot to put it in.
LEMMA LocatedIs ==
    ASSUME RootRight, NEW name, NEW s \in Located(name)
    PROVE  s \in Scanned /\ s \in Slot /\ \A r \in Slot : IsEntry(r) => (root[r].name = name <=> r = s)
<1>1. Scanned \subseteq Slot /\ Found(name) \subseteq Scanned /\ FreeSlots \subseteq Scanned
      /\ Slot \subseteq Nat
  BY Sizes DEF Scanned, Found, FreeSlots
<1>2. \A r \in Slot : IsEntry(r) /\ root[r].name = name <=> r \in Found(name)
  BY DEF RootRight, Found, Scanned
<1>3. CASE Found(name) # {}
  <2>1. s \in Found(name)
    BY <1>1, <1>3, LeastOf DEF Located
  <2> QED
    BY <1>1, <1>2, <2>1 DEF RootRight
<1>4. CASE Found(name) = {}
  <2>1. s \in FreeSlots
    BY <1>1, <1>4, LeastOf DEF Located
  <2> QED
    BY <1>1, <1>2, <1>4, <2>1 DEF FreeSlots, IsEntry
<1> QED
  BY <1>3, <1>4

\* The slot that fat16_delete_file finds is the one of that name.
LEMMA FoundIs ==
    ASSUME RootRight, NEW name, NEW s \in Found(name)
    PROVE  /\ s \in Scanned /\ s \in Slot /\ IsEntry(s)
           /\ \A r \in Slot : IsEntry(r) => (root[r].name = name <=> r = s)
BY DEF RootRight, Found, Scanned

\* A call begins.
Begins(s, name, len, after) ==
    op' = [at |-> "free", name |-> name, len |-> len, slot |-> s, freed |-> FALSE,
           cluster |-> IF IsEntry(s) THEN root[s].first ELSE 0, first |-> 0, prev |-> 0,
           i |-> 0, c |-> 0, v |-> 0, copy |-> 1, then |-> "idle", after |-> after]

\* Its locals are then as OpRight says.
LEMMA BeginOp ==
    ASSUME TypeOK, NEW s \in Slot, NEW name \in Names, NEW len \in 0..MaxLen,
           NEW after \in {"alloc", "mark"}, Begins(s, name, len, after)
    PROVE  /\ op' \in Ops /\ OpRight'
           /\ op'.at = "free" /\ op'.after = after /\ op'.slot = s /\ op'.name = name /\ ~op'.freed
           /\ op'.cluster = IF IsEntry(s) THEN root[s].first ELSE 0
<1>1. (IF IsEntry(s) THEN root[s].first ELSE 0) \in Clusters \cup {0, EOC}
  BY DEF TypeOK, Entry
<1>2. /\ op'.at = "free" /\ op'.after = after /\ op'.slot = s /\ op'.name = name /\ ~op'.freed
      /\ op'.cluster = IF IsEntry(s) THEN root[s].first ELSE 0
      /\ op'.i = 0 /\ op'.first = 0 /\ op'.prev = 0
  BY DEF Begins
<1>3. op' \in Ops
  BY <1>1, Sizes DEF Begins, Ops, Points
<1>4. OpRight'
  BY <1>2, Sizes DEF OpRight, Freeing, Growing
<1> QED
  BY <1>2, <1>3, <1>4

\* That is how both fat16_write_file and fat16_delete_file begin.
LEMMA StartOp ==
    ASSUME TypeOK, RootRight, OpRight,
           (\E name \in Names, len \in 0..MaxLen : WriteFile(name, len))
             \/ \E name \in Names : DeleteFile(name)
    PROVE  \E s \in Slot, name \in Names, len \in 0..MaxLen, after \in {"alloc", "mark"} :
            /\ Begins(s, name, len, after)
            /\ s \in Scanned /\ \A r \in Slot : IsEntry(r) => (root[r].name = name <=> r = s)
            /\ op = NoOp /\ UNCHANGED <<diskVars, wrecked>> /\ NoFault
            /\ after = "mark" => IsEntry(s)
<1>1. ASSUME NEW name \in Names, NEW len \in 0..MaxLen, NEW s \in Located(name),
             WriteFile(name, len),
             op' = [NoOp EXCEPT !.at = "free", !.after = "alloc", !.name = name, !.len = len,
                           !.slot = s, !.cluster = IF IsEntry(s) THEN root[s].first ELSE 0]
      PROVE  /\ Begins(s, name, len, "alloc") /\ s \in Scanned /\ s \in Slot
             /\ \A r \in Slot : IsEntry(r) => (root[r].name = name <=> r = s)
             /\ op = NoOp /\ UNCHANGED <<diskVars, wrecked>> /\ NoFault
  <2>1. s \in Scanned /\ s \in Slot /\ \A r \in Slot : IsEntry(r) => (root[r].name = name <=> r = s)
    BY LocatedIs
  <2>2. op = NoOp /\ UNCHANGED <<diskVars, wrecked>> /\ NoFault
    BY <1>1 DEF WriteFile, AtOp, OpRight
  <2> QED
    BY <1>1, <2>1, <2>2 DEF Begins, NoOp
<1>2. ASSUME NEW name \in Names, NEW s \in Found(name), DeleteFile(name),
             op' = [NoOp EXCEPT !.at = "free", !.after = "mark", !.name = name, !.slot = s,
                              !.cluster = root[s].first]
      PROVE  /\ Begins(s, name, 0, "mark") /\ s \in Scanned /\ s \in Slot /\ IsEntry(s)
             /\ \A r \in Slot : IsEntry(r) => (root[r].name = name <=> r = s)
             /\ op = NoOp /\ UNCHANGED <<diskVars, wrecked>> /\ NoFault
  <2>1. /\ s \in Scanned /\ s \in Slot /\ IsEntry(s)
        /\ \A r \in Slot : IsEntry(r) => (root[r].name = name <=> r = s)
    BY FoundIs
  <2>2. op = NoOp /\ UNCHANGED <<diskVars, wrecked>> /\ NoFault
    BY <1>2 DEF DeleteFile, AtOp, OpRight
  <2>3. Begins(s, name, 0, "mark")
    BY <1>2, <2>1 DEF Begins, NoOp
  <2> QED
    BY <2>1, <2>2, <2>3
<1>3. CASE \E name \in Names, len \in 0..MaxLen : WriteFile(name, len)
  <2>1. PICK name \in Names, len \in 0..MaxLen : WriteFile(name, len)
    BY <1>3
  <2>2. PICK s \in Located(name) :
          op' = [NoOp EXCEPT !.at = "free", !.after = "alloc", !.name = name, !.len = len,
                           !.slot = s, !.cluster = IF IsEntry(s) THEN root[s].first ELSE 0]
    BY <2>1 DEF WriteFile
  <2>3. /\ Begins(s, name, len, "alloc") /\ s \in Scanned /\ s \in Slot
        /\ \A r \in Slot : IsEntry(r) => (root[r].name = name <=> r = s)
        /\ op = NoOp /\ UNCHANGED <<diskVars, wrecked>> /\ NoFault
    BY <1>1, <2>1, <2>2
  <2> QED
    BY <2>3
<1>4. CASE \E name \in Names : DeleteFile(name)
  <2>1. PICK name \in Names : DeleteFile(name)
    BY <1>4
  <2>2. PICK s \in Found(name) :
          op' = [NoOp EXCEPT !.at = "free", !.after = "mark", !.name = name, !.slot = s,
                              !.cluster = root[s].first]
    BY <2>1 DEF DeleteFile
  <2>3. /\ Begins(s, name, 0, "mark") /\ s \in Scanned /\ s \in Slot /\ IsEntry(s)
        /\ \A r \in Slot : IsEntry(r) => (root[r].name = name <=> r = s)
        /\ op = NoOp /\ UNCHANGED <<diskVars, wrecked>> /\ NoFault
    BY <1>2, <2>1, <2>2
  <2> QED
    BY <2>3, Sizes
<1> QED
  BY <1>3, <1>4

-----------------------------------------------------------------------------
\* The call goes on, or ends, and leaves the root directory alone.
LEMMA SameCall ==
    ASSUME RootRight, root' = root, op # NoOp, op'.slot = op.slot, op'.name = op.name
    PROVE  RootRight'
BY DEF RootRight, Scanned, IsEntry

\* The call ends and leaves the root directory alone.
LEMMA CallEnds ==
    ASSUME RootRight, root' = root, op' = NoOp
    PROVE  RootRight' /\ op' \in Ops /\ OpRight'
<1>1. RootRight'
  BY DEF RootRight, Scanned, IsEntry
<1>2. OpRight'
  BY NoOpTyped DEF OpRight, Freeing, Growing, NoOp
<1> QED
  BY <1>1, <1>2, NoOpTyped

\* The entry a write puts in the root directory is the only one of its name.
LEMMA WriteEntryRoot ==
    ASSUME TypeOK, RootRight, OpRight, WriteEntry, op' = NoOp, root' # root
    PROVE  /\ root' \in [Slot -> Entry] /\ RootRight' /\ op.slot \in Slot
           /\ root' = [root EXCEPT ![op.slot] =
                 [name |-> op.name, attr |-> "file", first |-> op.first, len |-> op.len]]
<1>1. op # NoOp /\ op.slot \in Slot /\ op.name \in Names /\ op.slot \in Scanned
  BY DEF WriteEntry, AtOp, NoOp, RootRight, Scanned
<1>2. root' = [root EXCEPT ![op.slot] =
                 [name |-> op.name, attr |-> "file", first |-> op.first, len |-> op.len]]
  BY DEF WriteEntry, NewFirst
<1>3. [name |-> op.name, attr |-> "file", first |-> op.first, len |-> op.len] \in Entry
  BY OpTyped DEF Entry
<1>4. root' \in [Slot -> Entry]
  BY <1>1, <1>2, <1>3 DEF TypeOK
<1>5. /\ root'[op.slot].attr = "file" /\ root'[op.slot].name = op.name
      /\ \A s \in Slot : s # op.slot => root'[s] = root[s]
  BY <1>1, <1>2 DEF TypeOK
<1>6. \A s \in Slot : IsEntry(s)' => s = op.slot \/ (IsEntry(s) /\ root'[s] = root[s])
  BY <1>5 DEF IsEntry
<1>7. ASSUME NEW s \in Slot, s \in Scanned PROVE s \in Scanned'
  <2>1. \A r \in 1..(s - 1) : r \in Slot
    BY VolumeAssumption DEF Slot
  <2> QED
    BY <1>5, <1>7, <2>1 DEF Scanned
<1>8. \A s \in Slot : IsEntry(s)' => s \in Scanned'
  BY <1>1, <1>6, <1>7 DEF RootRight
<1>9. \A r, s \in Slot : IsEntry(r)' /\ IsEntry(s)' /\ root'[r].name = root'[s].name => r = s
  BY <1>1, <1>5, <1>6 DEF RootRight
<1> QED
  BY <1>1, <1>2, <1>4, <1>8, <1>9 DEF RootRight

\* The mark of a delete takes its own entry, or, on a stale sector, leaves none.
LEMMA MarkRoot ==
    ASSUME TypeOK, RootRight, OpRight, MarkDeleted, op' = NoOp, root' # root
    PROVE  /\ root' \in [Slot -> Entry] /\ RootRight'
           /\ op.freed => \A s \in Slot : ~IsEntry(s)'
           /\ ~op.freed => \A s \in Slot : IF s = op.slot THEN ~IsEntry(s)' ELSE root'[s] = root[s]
<1>1. op # NoOp /\ op.slot \in Slot /\ op.name \in Names
  BY DEF MarkDeleted, AtOp, NoOp, RootRight, Scanned
<1> DEFINE gone == [name |-> NULL, attr |-> "deleted", first |-> 0, len |-> 0]
           junk == [name |-> NULL, attr |-> "junk", first |-> 0, len |-> 0]
<1>2. gone \in Entry /\ NoEntry \in Entry /\ junk \in Entry
      /\ [NoEntry EXCEPT !.attr = "deleted"] = gone /\ [NoEntry EXCEPT !.attr = "junk"] = junk
  BY Sizes DEF Entry, NoEntry
<1>3. CASE op.freed
  <2>1. PICK j \in [Slot -> {NoEntry, junk}] : root' = [j EXCEPT ![op.slot] = gone]
    BY <1>2, <1>3 DEF MarkDeleted, Wrecked
  <2>2. root' \in [Slot -> {NoEntry, junk, gone}]
    BY <1>1, <2>1
  <2>3. root' \in [Slot -> Entry]
    BY <1>2, <2>2
  <2>4. \A s \in Slot : ~IsEntry(s)'
    BY <2>2 DEF IsEntry, NoEntry
  <2> QED
    BY <1>3, <2>3, <2>4 DEF RootRight
<1>4. CASE ~op.freed
  <2>1. root' = [root EXCEPT ![op.slot] = gone]
    BY <1>2, <1>4 DEF MarkDeleted
  <2>2. root' \in [Slot -> Entry] /\ root'[op.slot] = gone
        /\ \A s \in Slot : s # op.slot => root'[s] = root[s]
    BY <1>1, <1>2, <2>1 DEF TypeOK
  <2>3. \A s \in Slot : IsEntry(s)' => IsEntry(s) /\ s # op.slot
    <3>1. root'[op.slot].attr = "deleted"
      BY <2>2
    <3>2. ~(root'[op.slot].attr \in {"file", "dir"})
      BY <3>1
    <3> QED
      BY <2>2, <3>2 DEF IsEntry
  <2>4. ASSUME NEW s \in Slot, s \in Scanned PROVE s \in Scanned'
    <3>1. \A r \in 1..(s - 1) : r \in Slot
      BY VolumeAssumption DEF Slot
    <3> QED
      BY <2>2, <2>4, <3>1 DEF Scanned
  <2>5. RootRight'
    <3>1. \A s \in Slot : IsEntry(s)' => s \in Scanned'
      BY <2>3, <2>4 DEF RootRight
    <3>2. \A r, s \in Slot : IsEntry(r)' /\ IsEntry(s)' /\ root'[r].name = root'[s].name => r = s
      BY <2>2, <2>3 DEF RootRight
    <3> QED
      BY <3>1, <3>2 DEF RootRight
  <2> QED
    BY <1>4, <2>2, <2>3, <2>5
<1> QED
  BY <1>3, <1>4

\* The first layer of the invariant, which needs no other.
Basic == TypeOK /\ RootRight /\ OpRight

\* What a step does to the count of faults.
LEMMA Counted ==
    ASSUME TypeOK PROVE
    /\ Expose => exposed' \in BOOLEAN /\ faults' \in 0..MaxFaults /\ exposed' /\ faults' > 0
    /\ Fault => exposed' = exposed /\ faults' \in 0..MaxFaults /\ faults' > 0
    /\ NoFault => exposed' = exposed /\ faults' = faults
    /\ OneMore => faults' \in 0..MaxFaults /\ faults' > 0
    /\ Abandon => op' = NoOp /\ exposed' \in BOOLEAN /\ (~exposed' => ~exposed /\ ~op.freed)
<1>1. exposed \in BOOLEAN /\ faults \in 0..MaxFaults /\ op.freed \in BOOLEAN /\ MaxFaults \in Nat
  BY VolumeAssumption DEF TypeOK, Ops
<1>2. OneMore => faults' \in 0..MaxFaults /\ faults' > 0
  BY <1>1 DEF OneMore
<1>3. Abandon => op' = NoOp /\ exposed' \in BOOLEAN /\ (~exposed' => ~exposed /\ ~op.freed)
  BY <1>1 DEF Abandon
<1> QED
  BY <1>2, <1>3 DEF Expose, Fault, NoFault

\* The steps of a call on the table: it goes on.
LEMMA GoesOn ==
    ASSUME Basic, FreeNext \/ SetEntry \/ AllocNext \/ Link
    PROVE  Basic' /\ op # NoOp /\ op'.slot = op.slot /\ op'.name = op.name
<1>1. op' \in Ops /\ OpRight' /\ op'.slot = op.slot /\ op'.name = op.name
  BY FreeNextOp, SetEntryOp, AllocNextOp, LinkOp DEF Basic
<1>2. op # NoOp /\ root' = root /\ data' = data /\ wrecked' = wrecked
  <2>1. CASE FreeNext
    BY <2>1 DEF FreeNext, AtOp, NoOp, diskVars
  <2>2. CASE SetEntry
    BY <2>2 DEF SetEntry, AtOp, NoOp
  <2>3. CASE AllocNext
    BY <2>3 DEF AllocNext, AtOp, NoOp, diskVars
  <2>4. CASE Link
    BY <2>4 DEF Link, AtOp, NoOp, diskVars
  <2> QED
    BY <2>1, <2>2, <2>3, <2>4
<1>3. exposed' \in BOOLEAN /\ faults' \in 0..MaxFaults
  <2>1. Expose \/ Fault \/ NoFault
    BY DEF FreeNext, SetEntry, AllocNext, Link
  <2> QED
    BY <2>1, Counted DEF Basic, TypeOK
<1>4. fat' \in [Copies -> [Clusters -> Clusters \cup {FREE, EOC}]]
  <2>1. CASE fat' = fat
    BY <2>1 DEF Basic, TypeOK
  <2>2. CASE fat' = [fat EXCEPT ![op.copy][op.c] = op.v]
    <3>1. op.v \in Clusters \cup {FREE, EOC} /\ op.copy \in Copies
      BY OpTyped DEF Basic
    <3>2. fat \in [Copies -> [Clusters -> Clusters \cup {FREE, EOC}]]
      BY DEF Basic, TypeOK
    <3> QED
      BY <2>2, <3>1, <3>2
  <2>3. fat' = fat \/ fat' = [fat EXCEPT ![op.copy][op.c] = op.v]
    BY DEF FreeNext, SetEntry, AllocNext, Link, diskVars
  <2> QED
    BY <2>1, <2>2, <2>3
<1>5. TypeOK'
  BY <1>1, <1>2, <1>3, <1>4 DEF Basic, TypeOK
<1> QED
  BY <1>1, <1>2, <1>5, SameCall DEF Basic

\* A call begins.
LEMMA StartsBasic ==
    ASSUME Basic, NEW s \in Slot, NEW name \in Names, NEW len \in 0..MaxLen,
           NEW after \in {"alloc", "mark"}, Begins(s, name, len, after),
           s \in Scanned, \A r \in Slot : IsEntry(r) => (root[r].name = name <=> r = s),
           UNCHANGED <<diskVars, wrecked>>, NoFault
    PROVE  Basic'
<1>1. op' \in Ops /\ OpRight' /\ op'.slot = s /\ op'.name = name
  BY BeginOp DEF Basic
<1>2. TypeOK'
  BY <1>1, Counted DEF Basic, TypeOK, diskVars
<1>3. RootRight'
  BY <1>1 DEF Basic, RootRight, Scanned, IsEntry, diskVars
<1> QED
  BY <1>1, <1>2, <1>3 DEF Basic

\* Data is written.
LEMMA WriteDataBasic ==
    ASSUME Basic, WriteData
    PROVE  Basic'
<1>1. op # NoOp /\ root' = root /\ fat' = fat /\ wrecked' = wrecked
  BY DEF WriteData, AtOp, NoOp
<1>2. op' \in Ops /\ OpRight' /\ RootRight'
  <2>1. CASE op' = NoOp
    BY <1>1, <2>1, CallEnds DEF Basic
  <2>2. CASE op' # NoOp
    BY <1>1, <2>2, WriteDataOp, SameCall DEF Basic
  <2> QED
    BY <2>1, <2>2
<1>3. exposed' \in BOOLEAN /\ faults' \in 0..MaxFaults
  <2>1. Expose \/ NoFault \/ (Abandon /\ OneMore)
    BY DEF WriteData
  <2> QED
    BY <2>1, Counted DEF Basic, TypeOK
<1>4. data' \in [Clusters -> Data \cup {NULL}]
  <2>1. op.name \in Names /\ op.i \in 0..(MaxLen - 1) /\ op.cluster \in Clusters
    <3>1. op.name \in Names
      BY <1>1 DEF Basic, RootRight
    <3>2. op.i < op.len /\ op.cluster # 0 /\ op.cluster # EOC
      BY DEF WriteData, AtOp, Basic, OpRight
    <3> QED
      BY <3>1, <3>2, OpTyped, Sizes DEF Basic
  <2>2. <<op.name, op.i>> \in Data
    BY <2>1 DEF Data
  <2> QED
    BY <2>1, <2>2 DEF WriteData, Basic, TypeOK
<1> QED
  BY <1>1, <1>2, <1>3, <1>4 DEF Basic, TypeOK

\* A call ends.
LEMMA EndsBasic ==
    ASSUME Basic, WriteEntry \/ WriteFails \/ MarkDeleted \/ PowerOff
    PROVE  Basic' /\ op' = NoOp /\ op # NoOp
<1>1. op' = NoOp /\ fat' = fat /\ data' = data /\ op # NoOp
  BY DEF WriteEntry, WriteFails, MarkDeleted, PowerOff, Abandon, diskVars, AtOp, NoOp
<1>2. exposed' \in BOOLEAN /\ faults' \in 0..MaxFaults
  <2>1. NoFault \/ (Abandon /\ (OneMore \/ faults' = faults))
    BY DEF WriteEntry, WriteFails, MarkDeleted, PowerOff
  <2> QED
    BY <2>1, Counted DEF Basic, TypeOK
<1>3. wrecked' \in BOOLEAN
  BY DEF WriteEntry, WriteFails, MarkDeleted, PowerOff, Basic, TypeOK
<1>4. op' \in Ops /\ OpRight'
  <2>1. OpRight'
    BY <1>1, NoOpTyped DEF OpRight, Freeing, Growing, NoOp
  <2> QED
    BY <1>1, <2>1, NoOpTyped
<1>5. RootRight' /\ root' \in [Slot -> Entry]
  <2>1. CASE root' = root
    BY <1>1, <2>1, CallEnds DEF Basic, TypeOK
  <2>2. CASE root' # root
    BY <1>1, <2>2, WriteEntryRoot, MarkRoot DEF Basic, WriteFails, PowerOff, diskVars
  <2> QED
    BY <2>1, <2>2
<1> QED
  BY <1>1, <1>2, <1>3, <1>4, <1>5 DEF Basic, TypeOK

\* Every step keeps the first layer of the invariant.
LEMMA BasicKept == ASSUME Basic, [Next]_vars PROVE Basic'
<1>1. CASE UNCHANGED vars
  BY <1>1 DEF vars, Basic, TypeOK, RootRight, OpRight, Freeing, Growing, Scanned, IsEntry
<1>2. CASE FreeNext \/ SetEntry \/ AllocNext \/ Link
  BY <1>2, GoesOn
<1>3. CASE WriteData
  BY <1>3, WriteDataBasic
<1>4. CASE WriteEntry \/ WriteFails \/ MarkDeleted \/ PowerOff
  BY <1>4, EndsBasic
<1>5. CASE (\E name \in Names, len \in 0..MaxLen : WriteFile(name, len))
             \/ \E name \in Names : DeleteFile(name)
  <2>1. PICK s \in Slot, name \in Names, len \in 0..MaxLen, after \in {"alloc", "mark"} :
            /\ Begins(s, name, len, after)
            /\ s \in Scanned /\ \A r \in Slot : IsEntry(r) => (root[r].name = name <=> r = s)
            /\ op = NoOp /\ UNCHANGED <<diskVars, wrecked>> /\ NoFault
            /\ after = "mark" => IsEntry(s)
    BY <1>5, StartOp DEF Basic
  <2> QED
    BY <2>1, StartsBasic
<1> QED
  BY <1>1, <1>2, <1>3, <1>4, <1>5 DEF Next

\* And it holds at first.
LEMMA BasicStart == ASSUME Init PROVE Basic
<1>1. op = NoOp /\ OpRight
  BY NoOpTyped DEF Init, OpRight, Freeing, Growing, NoOp
<1>2. fat \in [Copies -> [Clusters -> Clusters \cup {FREE, EOC}]]
  BY DEF Init
<1>3. root \in [Slot -> Entry]
  <2>1. NoEntry \in Entry
    BY Sizes DEF NoEntry, Entry
  <2>2. 2 \in Clusters
    BY VolumeAssumption DEF Clusters
  <2>3. \A n \in Names : [name |-> n, attr |-> "dir", first |-> 2, len |-> 0] \in Entry
    BY <2>2, Sizes DEF Entry
  <2> QED
    BY <2>1, <2>3 DEF Init
<1>4. TypeOK
  <2>1. wrecked \in BOOLEAN /\ exposed \in BOOLEAN /\ faults \in 0..MaxFaults
    <3>1. wrecked \in BOOLEAN /\ exposed \in BOOLEAN /\ faults = 0
      BY DEF Init
    <3> QED
      BY <3>1, VolumeAssumption
  <2>2. data \in [Clusters -> Data \cup {NULL}]
    BY DEF Init
  <2> QED
    BY <1>1, <1>2, <1>3, <2>1, <2>2, NoOpTyped DEF TypeOK
<1>5. RootRight
  <2>1. \A s \in Slot : IsEntry(s) => s = 1
    BY DEF Init, IsEntry, NoEntry
  <2>2. 1 \in Slot => 1 \in Scanned
    BY DEF Scanned
  <2> QED
    BY <1>1, <2>1, <2>2 DEF RootRight
<1> QED
  BY <1>1, <1>4, <1>5 DEF Basic

\* The driver's state stays well typed (fat16.c:357-598).
THEOREM VolumeTyped == Spec => []TypeOK
<1>1. Basic => TypeOK
  BY DEF Basic
<1> QED
  BY <1>1, BasicStart, BasicKept, PTL DEF Spec

\* A call on one file takes no other out of the root directory.
THEOREM OthersAreKept == Spec => OthersKept
<1>1. ASSUME Basic, [Next]_vars
      PROVE  [\A s \in Slot : IsEntry(s) /\ root[s].name # op.name =>
                root'[s] = root[s] \/ (op.at = "mark" /\ op.freed)]_vars
  <2>1. CASE root' = root
    BY <2>1
  <2>2. CASE root' # root
    <3>1. WriteEntry \/ MarkDeleted
      BY <1>1, <2>2
         DEF Next, vars, diskVars, WriteFile, DeleteFile, FreeNext, SetEntry, AllocNext,
             Link, 
                  WriteData, WriteFails, PowerOff
    <3>2. op' = NoOp /\ op # NoOp
      BY <1>1, <3>1, EndsBasic
    <3>3. \A s \in Slot : IsEntry(s) /\ root[s].name # op.name => s # op.slot
      BY <1>1, <3>2 DEF Basic, RootRight
    <3>4. CASE WriteEntry
      BY <1>1, <2>2, <3>2, <3>3, <3>4, WriteEntryRoot DEF Basic, TypeOK
    <3>5. CASE MarkDeleted
      <4>1. op.at = "mark"
        BY <3>5 DEF MarkDeleted, AtOp
      <4> QED
        BY <1>1, <2>2, <3>2, <3>3, <3>5, <4>1, MarkRoot DEF Basic
    <3> QED
      BY <3>1, <3>4, <3>5
  <2> QED
    BY <2>1, <2>2
<1> QED
  BY <1>1, BasicStart, BasicKept, PTL DEF Spec, OthersKept

-----------------------------------------------------------------------------
\* Faults only become more.
LEMMA FaultsGrow == ASSUME TypeOK, [Next]_vars PROVE faults' = faults \/ faults' > 0
BY Counted
   DEF Next, vars, WriteFile, DeleteFile, FreeNext, SetEntry, AllocNext, Link, WriteData, 
               WriteEntry, WriteFails, MarkDeleted, PowerOff, Expose, Fault, NoFault

\* A step that leaves the table alone sets the first copy next, if it sets one.
LEMMA FirstCopyNext ==
    ASSUME Basic, [Next]_vars, op.at # "set"
    PROVE  fat' = fat /\ (op'.at = "set" => op'.copy = 1)
<1>1. CASE UNCHANGED vars
  BY <1>1 DEF vars
<1>2. CASE FreeNext \/ AllocNext \/ Link
  <2>1. fat' = fat
    BY <1>2 DEF FreeNext, AllocNext, Link, diskVars
  <2> op \in Ops
    BY DEF Basic, TypeOK
  <2>2. CASE FreeNext
    <3>1. op.after # "set"
      BY <2>2 DEF FreeNext, AtOp, Basic, OpRight, Freeing
    <3>2. \/ op' = [op EXCEPT !.at = "set", !.c = op.cluster, !.v = FREE, !.copy = 1,
                              !.then = "free", !.cluster = NextInChain(op.cluster),
                              !.freed = @ \/ op.after # "fail"]
          \/ op' = [op EXCEPT !.at = op.after, !.cluster = 0]
      BY <2>2 DEF FreeNext
    <3> QED
      BY <2>1, <3>1, <3>2 DEF Ops
  <2>3. CASE AllocNext
    <3>1. \/ op' = [op EXCEPT !.at = "set", !.c = Min(FreeClusters), !.v = EOC, !.copy = 1,
                              !.then = "link"]
          \/ op' = [op EXCEPT !.at = "free", !.cluster = op.first, !.after = "fail"]
          \/ op' = [op EXCEPT !.at = "data", !.i = 0, !.cluster = op.first, !.prev = 0]
      BY <2>3 DEF AllocNext, FreeAgain
    <3> QED
      BY <2>1, <3>1 DEF Ops
  <2>4. CASE Link
    <3>1. \/ op' = [op EXCEPT !.at = "alloc", !.first = op.c, !.prev = op.c, !.i = @ + 1, !.c = 0]
          \/ op' = [op EXCEPT !.at = "set", !.c = op.prev, !.v = op.c, !.copy = 1,
                             !.then = "alloc", !.prev = op.c, !.i = @ + 1]
      BY <2>4 DEF Link
    <3> QED
      BY <2>1, <3>1 DEF Ops
  <2> QED
    BY <1>2, <2>1, <2>2, <2>3, <2>4
<1>3. CASE SetEntry
  BY <1>3 DEF SetEntry, AtOp
<1>4. CASE WriteData
  <2>1. op'.at # "set"
    BY <1>4, NoOpTyped DEF WriteData, AtOp, Abandon, Basic, TypeOK, Ops
  <2> QED
    BY <1>4, <2>1 DEF WriteData
<1>5. CASE WriteEntry \/ WriteFails \/ MarkDeleted \/ PowerOff
  <2>1. fat' = fat
    BY <1>5 DEF WriteEntry, WriteFails, MarkDeleted, PowerOff, diskVars
  <2> QED
    BY <1>5, <2>1, EndsBasic, NoOpTyped
<1>6. CASE (\E name \in Names, len \in 0..MaxLen : WriteFile(name, len))
             \/ \E name \in Names : DeleteFile(name)
  <2>1. PICK s \in Slot, name \in Names, len \in 0..MaxLen, after \in {"alloc", "mark"} :
            Begins(s, name, len, after) /\ UNCHANGED diskVars
    BY <1>6, StartOp DEF Basic
  <2> QED
    BY <2>1 DEF Begins, diskVars
<1> QED
  BY <1>1, <1>2, <1>3, <1>4, <1>5, <1>6 DEF Next

\* Setting an entry without a fault sets it in this copy.
LEMMA SetsCopy ==
    ASSUME Basic, op.at = "set", [Next]_vars, faults' = 0
    PROVE  \/ UNCHANGED vars
           \/ /\ SetEntry /\ fat' = [fat EXCEPT ![op.copy][op.c] = op.v] /\ NoFault
              /\ op' = IF op.copy < LastCopy THEN [op EXCEPT !.copy = @ + 1] ELSE EntryDone
<1>1. CASE UNCHANGED vars
  BY <1>1
<1>2. CASE SetEntry
  BY <1>2, Counted DEF SetEntry, Basic
<1>3. CASE Next /\ ~SetEntry
  <2>1. op # NoOp
    BY DEF NoOp
  <2>2. PowerOff
    BY <1>3, <2>1
       DEF Next, WriteFile, DeleteFile, FreeNext, AllocNext, Link, WriteData, WriteEntry, 
                      WriteFails, MarkDeleted, AtOp
  <2> QED
    BY <2>2, Counted DEF PowerOff, Basic
<1> QED
  BY <1>1, <1>2, <1>3

\* Every step keeps the copies of the FAT as CopiesRight says.
LEMMA CopiesKept == ASSUME Basic, CopiesRight, [Next]_vars PROVE CopiesRight'
<1> SUFFICES ASSUME faults' = 0 PROVE CopiesRight'
  BY DEF CopiesRight
<1>1. faults = 0
  BY FaultsGrow DEF Basic
<1>2. CASE op.at # "set"
  <2>1. fat' = fat /\ (op'.at = "set" => op'.copy = 1) /\ \A f \in Copies : f >= 1 /\ fat[f] = fat[1]
    BY <1>1, <1>2, FirstCopyNext DEF CopiesRight, Copies
  <2> QED
    BY <2>1, VolumeAssumption DEF CopiesRight, Copies
<1>3. CASE op.at = "set"
  <2>1. CASE UNCHANGED vars
    BY <2>1 DEF vars, CopiesRight
  <2>2. CASE /\ SetEntry /\ fat' = [fat EXCEPT ![op.copy][op.c] = op.v]
             /\ op' = IF op.copy < LastCopy THEN [op EXCEPT !.copy = @ + 1] ELSE EntryDone
    <3>1. /\ \A f \in Copies : \A x \in Clusters \ {op.c} : fat[f][x] = fat[1][x]
          /\ \A f \in Copies : f < op.copy => fat[f][op.c] = op.v
          /\ op.c \in Clusters /\ op.copy \in Copies /\ op.v \in Clusters \cup {FREE, EOC}
          /\ fat \in [Copies -> [Clusters -> Clusters \cup {FREE, EOC}]]
      BY <1>1, <1>3, OpTyped DEF CopiesRight, Basic, OpRight, TypeOK
    <3>2. /\ fat'[op.copy][op.c] = op.v
          /\ \A f \in Copies : \A x \in Clusters : f # op.copy \/ x # op.c => fat'[f][x] = fat[f][x]
          /\ \A f \in Copies : DOMAIN fat'[f] = Clusters /\ fat'[f] = [x \in Clusters |-> fat'[f][x]]
      BY <2>2, <3>1
    <3>3. /\ \A f \in Copies : \A x \in Clusters \ {op.c} : fat'[f][x] = fat'[1][x]
          /\ \A f \in Copies : f <= op.copy => fat'[f][op.c] = op.v
      <4>1. \A f \in Copies : f <= op.copy => f < op.copy \/ f = op.copy
        BY <3>1 DEF Copies
      <4>2. ASSUME NEW f \in Copies, NEW x \in Clusters, x # op.c PROVE fat'[f][x] = fat'[1][x]
        <5>1. fat'[f][x] = fat[f][x] /\ fat'[1][x] = fat[1][x] /\ fat[f][x] = fat[1][x]
          BY <3>1, <3>2, <4>2, Sizes
        <5> QED
          BY <5>1
      <4>3. ASSUME NEW f \in Copies, f <= op.copy PROVE fat'[f][op.c] = op.v
        BY <3>1, <3>2, <4>1, <4>3
      <4> QED
        BY <4>2, <4>3
    <3>4. CASE op.copy < LastCopy
      <4>1. op'.at = "set" /\ op'.c = op.c /\ op'.v = op.v /\ op'.copy = op.copy + 1
        BY <1>3, <2>2, <3>4 DEF Basic, TypeOK, Ops
      <4>2. \A f \in Copies : f < op.copy + 1 => f <= op.copy
        BY <3>1 DEF Copies
      <4> QED
        BY <3>3, <4>1, <4>2 DEF CopiesRight
    <3>5. CASE ~(op.copy < LastCopy)
      <4>1. op'.at # "set"
        BY <1>3, <2>2, <3>5 DEF EntryDone, Basic, OpRight, TypeOK, Ops
      <4>2. \A f \in Copies : f <= op.copy
        BY <3>1, <3>5, Sizes DEF LastCopy, Copies
      <4>3. \A f \in Copies, x \in Clusters : fat'[f][x] = fat'[1][x]
        <5>1. \A f \in Copies : fat'[f][op.c] = op.v
          BY <3>3, <4>2
        <5>2. fat'[1][op.c] = op.v
          BY <5>1, Sizes
        <5> QED
          BY <3>3, <5>1, <5>2
      <4>4. \A f \in Copies : fat'[f] = fat'[1]
        <5>1. ASSUME NEW f \in Copies PROVE fat'[f] = fat'[1]
          <6>1. fat'[f] = [x \in Clusters |-> fat'[f][x]] /\ fat'[1] = [x \in Clusters |-> fat'[1][x]]
            BY ONLY <3>2, Sizes, <5>1
          <6>2. [x \in Clusters |-> fat'[f][x]] = [x \in Clusters |-> fat'[1][x]]
            BY <4>3
          <6> QED
            BY <6>1, <6>2
        <5> QED
          BY <5>1
      <4> QED
        BY <4>1, <4>4 DEF CopiesRight
    <3> QED
      BY <3>4, <3>5
  <2> QED
    BY <1>3, <2>1, <2>2, SetsCopy
<1> QED
  BY <1>2, <1>3

-----------------------------------------------------------------------------
\* Entries stay sound while the clusters they hold are left alone.
LEMMA SoundKept ==
    ASSUME NEW t1, NEW d1, NEW t2, NEW d2, NEW entries, NEW S,
           \A s \in S : entries[s] \in Entry /\ entries[s].attr \in {"file", "dir"},
           SoundIn(t1, d1, entries, S),
           \A c \in HeldIn(t1, entries, S) : t2[c] = t1[c] /\ d2[c] = d1[c]
    PROVE  SoundIn(t2, d2, entries, S) /\ HeldIn(t2, entries, S) = HeldIn(t1, entries, S)
<1>1. ASSUME NEW s \in S
      PROVE  /\ Intact(t2, d2, entries[s])
             /\ OwnedIn(t2, entries[s]) = OwnedIn(t1, entries[s])
  <2>1. \A c \in OwnedIn(t1, entries[s]) : c \in HeldIn(t1, entries, S)
    BY DEF HeldIn
  <2>2. Intact(t1, d1, entries[s])
    BY DEF SoundIn
  <2> QED
    BY <2>1, <2>2, EntryKept
<1>2. SoundIn(t2, d2, entries, S)
  BY <1>1 DEF SoundIn
<1>3. HeldIn(t2, entries, S) = HeldIn(t1, entries, S)
  BY <1>1 DEF HeldIn
<1> QED
  BY <1>2, <1>3

\* What is held, entry by entry.
LEMMA HeldParts ==
    ASSUME SoundIn(fat[1], data, root, Safe), NEW s \in Safe
    PROVE  /\ SoundIn(fat[1], data, root, Safe \ {s})
           /\ Held = HeldIn(fat[1], root, Safe \ {s}) \cup OwnedIn(fat[1], root[s])
           /\ HeldIn(fat[1], root, Safe \ {s}) \cap OwnedIn(fat[1], root[s]) = {}
BY DEF SoundIn, HeldIn, Held

\* One more entry, with clusters of its own.
LEMMA HeldMore ==
    ASSUME NEW S, NEW s, s \notin S, \A r \in S : root'[r] = root[r],
           SoundIn(fat[1], data, root, S), Intact(fat[1], data, root'[s]),
           OwnedIn(fat[1], root'[s]) \cap HeldIn(fat[1], root, S) = {}
    PROVE  /\ SoundIn(fat[1], data, root', S \cup {s})
           /\ HeldIn(fat[1], root', S \cup {s})
                = HeldIn(fat[1], root, S) \cup OwnedIn(fat[1], root'[s])
BY DEF SoundIn, HeldIn

\* A safe entry is an entry.
LEMMA SafeEntries ==
    ASSUME TypeOK
    PROVE  \A s \in Safe : s \in Slot /\ root[s] \in Entry /\ root[s].attr \in {"file", "dir"}
BY DEF TypeOK, Safe, IsEntry

\* What is held is in use.
LEMMA HeldInUse ==
    ASSUME TypeOK, SoundIn(fat[1], data, root, Safe)
    PROVE  \A c \in Held : c \in Clusters /\ fat[1][c] # FREE
<1>1. ASSUME NEW s \in Safe
      PROVE  \A c \in OwnedIn(fat[1], root[s]) : c \in Clusters /\ fat[1][c] # FREE
  BY SafeEntries, OwnedInUse DEF SoundIn
<1> QED
  BY <1>1 DEF Held, HeldIn

\* A call goes on and touches nothing of what is held.
LEMMA HeldKept ==
    ASSUME TypeOK, SoundIn(fat[1], data, root, Safe), root' = root,
           op'.slot = op.slot, op'.freed = op.freed,
           \A c \in Held : fat'[1][c] = fat[1][c] /\ data'[c] = data[c]
    PROVE  SoundIn(fat[1], data, root, Safe)' /\ Held' = Held /\ Safe' = Safe
<1>1. Safe' = Safe
  BY DEF Safe, IsEntry
<1>2. /\ SoundIn(fat'[1], data', root, Safe)
      /\ HeldIn(fat'[1], root, Safe) = HeldIn(fat[1], root, Safe)
  BY SafeEntries, SoundKept DEF Held
<1>3. SoundIn(fat[1], data, root, Safe)'
  BY <1>1, <1>2 DEF SoundIn
<1> QED
  BY <1>1, <1>2, <1>3 DEF Held

\* A volume once exposed stays so.
LEMMA ExposedStays ==
    ASSUME TypeOK, [Next]_vars, ~exposed' PROVE ~exposed
BY Counted
   DEF Next, vars, WriteFile, DeleteFile, FreeNext, SetEntry, AllocNext, Link, WriteData, 
               WriteEntry, WriteFails, MarkDeleted, PowerOff, Expose, Fault, NoFault, OneMore

\* Nothing is left behind the end of a chain.
LEMMA NoneSpots == ASSUME NEW w, NEW n \in Nat PROVE Spots(w, n, n) = {}
BY DEF Spots

\* The clusters from the j-th on are the j-th and those behind it.
LEMMA NextSpot ==
    ASSUME NEW w, NEW n \in Nat, NEW j \in Nat, j < n
    PROVE  Spots(w, j, n) = Spots(w, j + 1, n) \cup {w[j]}
<1>1. j..(n - 1) = ((j + 1)..(n - 1)) \cup {j}
  OBVIOUS
<1> QED
  BY <1>1 DEF Spots

\* The call gives up, and leaves the disk as it is; it had not begun to free the chain.
LEMMA GivesUp ==
    ASSUME Basic, VolumeRight, ~op.freed, op' = NoOp, UNCHANGED diskVars, wrecked' = wrecked,
           faults' > 0 \/ (faults' = faults /\ op.at = "fail")
    PROVE  VolumeRight'
<1>1. Safe' = {s \in Slot : IsEntry(s)} /\ Safe = {s \in Slot : IsEntry(s)}
  BY NoOpTyped DEF Safe, IsEntry, diskVars
<1>2. SoundIn(fat[1], data, root, Safe)' /\ Held' = Held
  BY <1>1 DEF VolumeRight, SoundIn, Held, HeldIn, diskVars
<1>3. InUse({})'
  BY <1>2 DEF InUse, VolumeRight, diskVars, Basic, TypeOK
<1>4. ~Freeing' /\ ~Growing' /\ op'.at = "idle"
  BY NoOpTyped DEF Freeing, Growing
<1> QED
  BY <1>2, <1>3, <1>4 DEF VolumeRight, ChainFreed

\* Which part of VolumeRight the next state owes.
LEMMA Owes ==
    ASSUME SoundIn(fat[1], data, root, Safe)', ChainFreed',
           op'.at = "free" \/ (op'.at = "set" /\ op'.then = "free") => FreeRight',
           op'.at \in {"alloc", "link"} \/ (op'.at = "set" /\ op'.then \in {"alloc", "link"}) => GrowRight',
           op'.at = "data" => DataRight',
           op'.at \in {"idle", "mark", "fail"} => InUse({})'
    PROVE  VolumeRight'
BY DEF VolumeRight, Freeing, Growing

\* A write that has no cluster yet.
LEMMA NothingBuilt ==
    ASSUME op'.at = "alloc", op'.i = 0, op'.first = 0, op'.prev = 0, InUse({})'
    PROVE  GrowRight'
<1>1. PICK w : w = [k \in 0..(0 - 1) |-> 0]
  OBVIOUS
<1>2. w \in [0..(0 - 1) -> Clusters] /\ Spots(w, 0, 0) = {}
  BY <1>1 DEF Spots
<1>3. Lists(w, 0, 0) /\ Linked(fat'[1], w, 0, 0) /\ Ended(fat'[1], w, 0)
  BY <1>1, <1>2 DEF Lists, Linked, Ended
<1>4. ~Fresh' /\ ~Linking' /\ Tied' = 0
  BY DEF Fresh, Linking, Tied
<1>5. Built(w)'
  <2>1. Spots(w, 0, op'.i) \cap Held' = {} /\ \A k \in 0..(op'.i - 1) : fat'[1][w[k]] # FREE
    BY <1>2
  <2>2. InUse(Spots(w, 0, op.i) \cup IF Fresh /\ ~FreshFree THEN {op.c} ELSE {})'
    BY <1>2, <1>4
  <2> QED
    BY <1>3, <1>4, <2>1, <2>2 DEF Built
<1> QED
  BY <1>2, <1>5 DEF GrowRight

\* The chain to be freed, as it is found in the entry.
LEMMA ChainFound ==
    ASSUME Basic, NEW s \in Slot, IsEntry(s), Intact(fat[1], data, root[s]), root[s].first # 0
    PROVE  \E n \in 0..MaxLen : \E w \in [0..(n - 1) -> Clusters] :
             /\ n > 0 /\ \A k, m \in 0..(n - 1) : w[k] = w[m] => k = m
             /\ Linked(fat[1], w, n, 0) /\ Ended(fat[1], w, n) /\ w[0] = root[s].first
             /\ OwnedIn(fat[1], root[s]) = Spots(w, 0, n)
<1> DEFINE e == root[s]
<1>0. e \in Entry /\ e.len \in 0..MaxLen /\ e.attr \in {"file", "dir"}
  BY DEF Basic, TypeOK, Entry, IsEntry
<1>1. CASE e.attr = "dir"
  <2>0. PICK n : n = 1
    OBVIOUS
  <2>1. PICK w : w = [k \in 0..(n - 1) |-> e.first]
    OBVIOUS
  <2>2. e.first \in Clusters /\ fat[1][e.first] = EOC
    BY <1>1 DEF Intact
  <2>3. w \in [0..(n - 1) -> Clusters] /\ w[0] = e.first /\ w[n - 1] = e.first
        /\ \A k, m \in 0..(n - 1) : w[k] = w[m] => k = m
    BY <2>0, <2>1, <2>2
  <2>4. Linked(fat[1], w, n, 0) /\ Ended(fat[1], w, n) /\ Spots(w, 0, n) = {e.first}
    BY <2>0, <2>2, <2>3 DEF Linked, Ended, Spots
  <2>5. OwnedIn(fat[1], e) = Spots(w, 0, n)
    BY <1>1, <2>4 DEF OwnedIn
  <2>6. n \in 0..MaxLen /\ n > 0
    BY <2>0, Sizes
  <2> QED
    BY <2>3, <2>4, <2>5, <2>6
<1>2. CASE e.attr = "file"
  <2>1. PICK w : w = WalkIn(fat[1], e)
    OBVIOUS
  <2>2. IsFile(fat[1], data, w, e)
    BY <1>2, <2>1 DEF Intact
  <2>3. OwnedIn(fat[1], e) = Spots(w, 0, e.len)
    BY <1>0, <1>2, <2>2, FileIs DEF IsFile
  <2>4. e.len > 0 /\ w \in [0..(e.len - 1) -> Clusters] /\ w[0] = e.first
        /\ \A k, m \in 0..(e.len - 1) : w[k] = w[m] => k = m
    <3>1. Lists(w, e.len, e.first)
      BY <2>2 DEF IsFile
    <3>2. e.len # 0 /\ w[0] = e.first
      BY <3>1 DEF Lists
    <3> QED
      BY <1>0, <3>1, <3>2, Sizes DEF Lists
  <2>5. Linked(fat[1], w, e.len, 0) /\ Ended(fat[1], w, e.len)
    BY <2>2 DEF IsFile
  <2> QED
    BY <1>0, <2>3, <2>4, <2>5
<1> QED
  BY <1>0, <1>1, <1>2

\* fat16_free_chain reads the next one before it frees one.
LEMMA FreesOne ==
    ASSUME TypeOK, NEW n \in Nat, NEW w \in [0..(n - 1) -> Clusters], NEW j \in 0..n, j < n,
           \A k, m \in 0..(n - 1) : w[k] = w[m] => k = m,
           Linked(fat[1], w, n, j), Ended(fat[1], w, n), op.cluster = w[j],
           fat' = fat, Spots(w, 0, n) \cap Held' = {}, InUse(Spots(w, j, n))',
           op'.at = "set", op'.c = op.cluster, op'.copy = 1, op'.cluster = NextInChain(op.cluster)
    PROVE  Rest(w, n, j + 1)' /\ j + 1 \in 0..n
<1>1. w[j] \in Clusters /\ op'.cluster = fat[1][w[j]]
  BY NextTyped
<1>2. CASE j + 1 < n
  <2>1. op'.cluster = w[j + 1]
    BY <1>1, <1>2 DEF Linked
  <2>2. Linked(fat[1], w, n, j + 1)
    BY DEF Linked
  <2>3. InUse(Spots(w, j + 1, n) \cup {w[j]})'
    <3>1. Spots(w, j, n) = Spots(w, j + 1, n) \cup {w[j]}
      BY NextSpot
    <3> QED
      BY <3>1
  <2> QED
    BY <1>2, <2>1, <2>2, <2>3 DEF Rest
<1>3. CASE j + 1 = n
  <2>1. op'.cluster = EOC /\ j = n - 1
    BY <1>1, <1>3 DEF Ended
  <2>2. Linked(fat[1], w, n, j + 1)
    BY DEF Linked
  <2>3. InUse(Spots(w, j + 1, n) \cup {w[j]})'
    <3>1. Spots(w, j, n) = Spots(w, j + 1, n) \cup {w[j]}
      BY NextSpot
    <3> QED
      BY <3>1
  <2> QED
    BY <1>3, <2>1, <2>2, <2>3 DEF Rest
<1> QED
  BY <1>2, <1>3

\* fat16_free_chain takes its next step, or is done.
LEMMA FreeNextVolume == ASSUME Basic, VolumeRight, ~exposed, FreeNext PROVE VolumeRight'
<1>0. /\ op.at = "free" /\ Freeing /\ op.after \in {"alloc", "mark", "fail"}
      /\ op.after = "alloc" => op.i = 0 /\ op.first = 0 /\ op.prev = 0
      /\ UNCHANGED <<diskVars, wrecked>> /\ FreeRight /\ op \in Ops /\ TypeOK
  BY DEF FreeNext, AtOp, Basic, OpRight, Freeing, VolumeRight, TypeOK
<1>1. ASSUME op.cluster # 0, op.cluster < EOC, NoFault,
        op' = [op EXCEPT !.at = "set", !.c = op.cluster, !.v = FREE, !.copy = 1,
                                   !.then = "free", !.cluster = NextInChain(op.cluster),
                                   !.freed = @ \/ op.after # "fail"]
      PROVE VolumeRight'
  <2>0. op.cluster \in Clusters
    BY <1>0, <1>1, OpTyped, Sizes
  <2>1. /\ op'.at = "set" /\ op'.c = op.cluster /\ op'.copy = 1 /\ op'.then = "free"
        /\ op'.cluster = NextInChain(op.cluster) /\ op'.freed = (op.freed \/ op.after # "fail")
        /\ op'.slot = op.slot /\ op'.after = op.after
    BY <1>0, <1>1 DEF Ops
  <2>2. CASE Untouched
    <3>1. op.cluster = root[op.slot].first /\ IsEntry(op.slot) /\ InUse({}) /\ ~op.freed
          /\ op.after # "fail"
      BY <1>0, <1>1, <2>2 DEF FreeRight, Untouched
    <3>2. op.slot \in Slot /\ op.slot \in Safe
      BY <1>0, <3>1, NoOpTyped DEF Basic, RootRight, Scanned, Safe
    <3>3. Safe' = Safe \ {op.slot}
      BY <1>0, <2>1, <3>1 DEF Safe, IsEntry, diskVars
    <3>4. SoundIn(fat[1], data, root, Safe) /\ Intact(fat[1], data, root[op.slot])
      BY <3>2 DEF VolumeRight, SoundIn
    <3>5a. PICK n \in 0..MaxLen : \E w \in [0..(n - 1) -> Clusters] :
             /\ n > 0 /\ \A k, m \in 0..(n - 1) : w[k] = w[m] => k = m
             /\ Linked(fat[1], w, n, 0) /\ Ended(fat[1], w, n) /\ w[0] = root[op.slot].first
             /\ OwnedIn(fat[1], root[op.slot]) = Spots(w, 0, n)
      BY <1>1, <3>1, <3>2, <3>4, ChainFound
    <3>5. PICK w \in [0..(n - 1) -> Clusters] :
             /\ n > 0 /\ \A k, m \in 0..(n - 1) : w[k] = w[m] => k = m
             /\ Linked(fat[1], w, n, 0) /\ Ended(fat[1], w, n) /\ w[0] = root[op.slot].first
             /\ OwnedIn(fat[1], root[op.slot]) = Spots(w, 0, n)
      BY <3>5a
    <3>6. /\ SoundIn(fat[1], data, root, Safe)'
          /\ Held = Held' \cup Spots(w, 0, n) /\ Held' \cap Spots(w, 0, n) = {}
      <4>1. /\ SoundIn(fat[1], data, root, Safe \ {op.slot})
            /\ Held = HeldIn(fat[1], root, Safe \ {op.slot}) \cup Spots(w, 0, n)
            /\ HeldIn(fat[1], root, Safe \ {op.slot}) \cap Spots(w, 0, n) = {}
        BY <3>2, <3>4, <3>5, HeldParts
      <4>2. fat' = fat /\ data' = data /\ root' = root
        BY <1>0 DEF diskVars
      <4>3. Held' = HeldIn(fat[1], root, Safe \ {op.slot})
        BY <3>3, <4>2 DEF Held
      <4>4. SoundIn(fat[1], data, root, Safe)'
        BY <3>3, <4>1, <4>2 DEF SoundIn
      <4> QED
        BY <4>1, <4>3, <4>4
    <3>7. InUse(Spots(w, 0, n))'
      BY <1>0, <1>1, <3>1, <3>6 DEF InUse, diskVars, NoFault
    <3>8. Rest(w, n, 0 + 1)' /\ 0 + 1 \in 0..n
      <4>1. n \in Nat /\ 0 \in 0..n /\ 0 < n /\ op.cluster = w[0] /\ fat' = fat
            /\ Spots(w, 0, n) \cap Held' = {}
        BY <1>0, <3>1, <3>5, <3>6 DEF diskVars
      <4> QED
        BY ONLY <1>0, <2>1, <3>5, <3>7, <4>1, FreesOne
    <3>9. FreeRight'
      BY <2>1, <3>8 DEF FreeRight, Untouched
    <3>10. ChainFreed'
      BY <2>1, <3>1 DEF ChainFreed
    <3> QED
      BY <2>1, <3>6, <3>9, <3>10, Owes
  <2>3. CASE ~Untouched
    <3>1. PICK n \in 0..MaxLen : \E w \in [0..(n - 1) -> Clusters], j \in 0..n : Rest(w, n, j)
      BY <1>0, <2>3 DEF FreeRight
    <3>2. PICK w \in [0..(n - 1) -> Clusters], j \in 0..n : Rest(w, n, j)
      BY <3>1
    <3>3. op'.freed = op.freed
      BY <1>0, <2>1, <2>3, OpTyped DEF Untouched
    <3>4. SoundIn(fat[1], data, root, Safe)' /\ Held' = Held
      BY <1>0, <2>1, <3>3, HeldKept DEF VolumeRight, diskVars
    <3>5. j < n /\ n \in Nat /\ op.cluster = w[j]
      BY <2>0, <3>2, Sizes DEF Rest
    <3>6. InUse(Spots(w, j, n))
      BY <1>0, <3>2 DEF Rest
    <3>7. InUse(Spots(w, j, n))'
      BY <1>0, <1>1, <3>4, <3>6 DEF InUse, diskVars, NoFault
    <3>8. /\ \A k, m \in 0..(n - 1) : w[k] = w[m] => k = m
          /\ Linked(fat[1], w, n, j) /\ Ended(fat[1], w, n)
          /\ Spots(w, 0, n) \cap Held' = {}
      BY <3>2, <3>4, <3>5 DEF Rest
    <3>9. Rest(w, n, j + 1)' /\ j + 1 \in 0..n
      <4>1. fat' = fat
        BY <1>0 DEF diskVars
      <4> QED
        BY ONLY <1>0, <2>1, <3>2, <3>5, <3>7, <3>8, <4>1, FreesOne
    <3>10. FreeRight'
      BY <2>1, <3>9 DEF FreeRight, Untouched
    <3>11. ChainFreed'
      BY <1>0, <1>1, <2>1, <2>3, <3>3
         DEF ChainFreed, VolumeRight, Untouched, IsEntry, diskVars, NoFault
    <3> QED
      BY <2>1, <3>4, <3>10, <3>11, Owes
  <2> QED
    BY <2>2, <2>3
<1>2. ASSUME op' = [op EXCEPT !.at = op.after, !.cluster = 0],
             faults' > 0 \/ (NoFault /\ ~(op.cluster # 0 /\ op.cluster < EOC))
      PROVE VolumeRight'
  <2>1. /\ op'.at = op.after /\ op'.slot = op.slot /\ op'.freed = op.freed
        /\ op'.i = op.i /\ op'.first = op.first /\ op'.prev = op.prev
    BY <1>0, <1>2 DEF Ops
  <2>2. SoundIn(fat[1], data, root, Safe)' /\ Held' = Held
    BY <1>0, <2>1, HeldKept DEF VolumeRight, diskVars
  <2>3. faults' = 0 => op.cluster \in {0, EOC} /\ faults = 0
    BY <1>0, <1>2, OpTyped, Sizes DEF NoFault
  <2>4. op.cluster \in {0, EOC} => InUse({})
    <3>1. CASE Untouched
      BY <1>0, <3>1 DEF FreeRight
    <3>2. ASSUME ~Untouched, op.cluster \in {0, EOC} PROVE InUse({})
      <4>1. PICK n \in 0..MaxLen : \E w \in [0..(n - 1) -> Clusters], j \in 0..n : Rest(w, n, j)
        BY <1>0, <3>2 DEF FreeRight
      <4>2. PICK w \in [0..(n - 1) -> Clusters], j \in 0..n : Rest(w, n, j)
        BY <4>1
      <4>3. j = n /\ n \in Nat
        BY <3>2, <4>2, Sizes DEF Rest
      <4> QED
        BY <1>0, <4>2, <4>3, NoneSpots DEF Rest
    <3> QED
      BY <3>1, <3>2
  <2>5. InUse({})'
    BY <1>0, <2>2, <2>3, <2>4 DEF InUse, diskVars
  <2>6. ChainFreed'
    <3>1. CASE Untouched
      <4>1. op.cluster = EOC => ~IsEntry(op.slot)
        <5>1. root[op.slot].first # EOC
          <6>1. op.slot \in Slot
            BY <1>0, NoOpTyped DEF Basic, RootRight, Scanned
          <6> QED
            BY <1>0, <6>1, Sizes DEF TypeOK, Entry
        <5> QED
          BY <1>0, <3>1, <5>1 DEF FreeRight
      <4> QED
        BY <1>0, <2>1, <2>3, <3>1, <4>1 DEF ChainFreed, FreeRight, IsEntry, diskVars
    <3>2. CASE ~Untouched
      BY <1>0, <2>1, <2>3, <3>2 DEF ChainFreed, VolumeRight, IsEntry, diskVars
    <3> QED
      BY <3>1, <3>2
  <2>7. op'.at = "alloc" => GrowRight'
    <3> SUFFICES ASSUME op'.at = "alloc" PROVE GrowRight'
      OBVIOUS
    <3>1. op'.i = 0 /\ op'.first = 0 /\ op'.prev = 0
      BY <1>0, <2>1
    <3> QED
      BY <2>5, <3>1, NothingBuilt
  <2> QED
    BY <1>0, <2>1, <2>2, <2>5, <2>6, <2>7, Owes
<1> QED
  BY <1>1, <1>2, Counted, <1>0 DEF FreeNext

\* What fat16_set_fat_entry does to the copy that is read: nothing, unless it sets that
\* copy.
LEMMA SetEntryTable ==
    ASSUME Basic, SetEntry, ~exposed'
    PROVE  /\ op.at = "set" /\ op.c \in Clusters /\ root' = root /\ data' = data /\ wrecked' = wrecked
           /\ op'.slot = op.slot /\ op'.freed = op.freed /\ op'.cluster = op.cluster
           /\ op'.first = op.first /\ op'.prev = op.prev /\ op'.i = op.i /\ op'.after = op.after
           /\ op'.name = op.name /\ op'.len = op.len
           /\ \/ op'.at = "set" /\ op'.then = op.then /\ op'.c = op.c /\ op'.v = op.v
                 /\ op'.copy = op.copy + 1
              \/ op'.at = op.then /\ (op.then = "link" => op'.c = op.c)
           /\ \/ /\ op.copy = 1 /\ fat'[1][op.c] = op.v
                 /\ \A x \in Clusters : x # op.c => fat'[1][x] = fat[1][x]
                 /\ faults' = faults
              \/ /\ fat'[1] = fat[1]
                 /\ op.copy # 1 \/ op.v = FREE
                 /\ faults' > 0 \/ (op.copy # 1 /\ faults' = faults)
<1>1. op.at = "set" /\ op.c \in Clusters /\ root' = root /\ data' = data /\ wrecked' = wrecked
  BY DEF SetEntry, AtOp, Basic, OpRight
<1>2. op \in Ops
  BY DEF Basic, TypeOK
<1>3. \/ op' = [op EXCEPT !.copy = @ + 1]
      \/ op' = [op EXCEPT !.at = op.then, !.v = 0, !.copy = 1, !.then = "idle",
                        !.c = IF op.then = "link" THEN @ ELSE 0]
  BY DEF SetEntry, EntryDone
<1>4. /\ op'.slot = op.slot /\ op'.freed = op.freed /\ op'.cluster = op.cluster
      /\ op'.first = op.first /\ op'.prev = op.prev /\ op'.i = op.i /\ op'.after = op.after
      /\ op'.name = op.name /\ op'.len = op.len
      /\ \/ op'.at = "set" /\ op'.then = op.then /\ op'.c = op.c /\ op'.v = op.v
                 /\ op'.copy = op.copy + 1
         \/ op'.at = op.then /\ (op.then = "link" => op'.c = op.c)
  <2>1. CASE op' = [op EXCEPT !.copy = @ + 1]
    BY <1>1, <1>2, <2>1 DEF Ops
  <2>2. CASE op' = [op EXCEPT !.at = op.then, !.v = 0, !.copy = 1, !.then = "idle",
                        !.c = IF op.then = "link" THEN @ ELSE 0]
    <3>1. op' = [at |-> op.then, name |-> op.name, len |-> op.len, slot |-> op.slot,
                 freed |-> op.freed, cluster |-> op.cluster, first |-> op.first, prev |-> op.prev,
                 i |-> op.i, c |-> IF op.then = "link" THEN op.c ELSE 0, v |-> 0, copy |-> 1,
                 then |-> "idle", after |-> op.after]
      BY <1>2, <2>2 DEF Ops
    <3> QED
      BY <3>1
  <2> QED
    BY <1>3, <2>1, <2>2
<1>5. CASE fat' = [fat EXCEPT ![op.copy][op.c] = op.v] /\ NoFault
  <2>1. /\ fat \in [Copies -> [Clusters -> Clusters \cup {FREE, EOC}]] /\ op.copy \in Copies
        /\ 1 \in Copies
    BY <1>2, Sizes DEF Basic, TypeOK, Ops
  <2>2. CASE op.copy = 1
    BY <1>1, <1>4, <1>5, <2>1, <2>2 DEF NoFault
  <2>3. CASE op.copy # 1
    BY <1>1, <1>4, <1>5, <2>1, <2>3 DEF NoFault
  <2> QED
    BY <2>2, <2>3
<1>6. CASE fat' = fat /\ Fault /\ ~(op.copy = 1 /\ op.v # FREE)
  BY <1>1, <1>4, <1>6, Counted DEF Basic
<1>7. CASE Expose
  BY <1>7, Counted DEF Basic
<1> QED
  BY <1>5, <1>6, <1>7 DEF SetEntry

\* What is in use then.
LEMMA SetEntryUse ==
    ASSUME Basic, SetEntry, ~exposed', Held' = Held, NEW X, NEW Y, InUse(X),
           op.copy # 1 => X = Y,
           op.copy = 1 =>
                IF op.v = FREE THEN op.c \notin Held /\ Y = X \ {op.c} ELSE Y = X \cup {op.c}
    PROVE  InUse(Y)'
<1> SUFFICES ASSUME faults' = 0, ~wrecked' PROVE {c \in Clusters : fat'[1][c] # FREE} = Held \cup Y
  BY DEF InUse
<1>1. faults = 0 /\ ~wrecked
  BY SetEntryTable, FaultsGrow DEF Basic, Next
<1>2. {c \in Clusters : fat[1][c] # FREE} = Held \cup X
  BY <1>1 DEF InUse
<1>3. CASE op.copy # 1
  <2>1. fat'[1] = fat[1]
    BY <1>3, SetEntryTable
  <2> QED
    BY <1>2, <1>3, <2>1
<1>4. CASE op.copy = 1
  <2>1. /\ fat'[1][op.c] = op.v /\ op.c \in Clusters
        /\ \A x \in Clusters : x # op.c => fat'[1][x] = fat[1][x]
    BY <1>4, SetEntryTable
  <2>2. CASE op.v = FREE
    <3>1. {c \in Clusters : fat'[1][c] # FREE} = {c \in Clusters : fat[1][c] # FREE} \ {op.c}
      BY <2>1, <2>2
    <3> QED
      BY <1>2, <1>4, <2>2, <3>1
  <2>3. CASE op.v # FREE
    <3>1. {c \in Clusters : fat'[1][c] # FREE} = {c \in Clusters : fat[1][c] # FREE} \cup {op.c}
      BY <2>1, <2>3
    <3> QED
      BY <1>2, <1>4, <2>3, <3>1
  <2> QED
    BY <2>2, <2>3
<1> QED
  BY <1>3, <1>4

\* One entry of the chain is freed, in one copy.
LEMMA SetFree ==
    ASSUME Basic, VolumeRight, ~exposed, ~exposed', SetEntry, op.then = "free"
    PROVE  VolumeRight'
<1>1. /\ op.at = "set" /\ op.c \in Clusters /\ op.v = FREE /\ (op.freed \/ op.after = "fail")
      /\ ~Untouched /\ FreeRight
  BY SetEntryTable DEF Basic, OpRight, Freeing, Untouched, VolumeRight
<1>2. PICK n \in 0..MaxLen : \E w \in [0..(n - 1) -> Clusters], j \in 0..n : Rest(w, n, j)
  BY <1>1 DEF FreeRight
<1>3. PICK w \in [0..(n - 1) -> Clusters], j \in 0..n : Rest(w, n, j)
  BY <1>2
<1>4. j > 0 /\ op.c = w[j - 1] /\ n \in Nat /\ j \in Nat /\ j - 1 \in 0..(n - 1)
  BY <1>1, <1>3, Sizes DEF Rest
<1>5. op.c \notin Held /\ op.c \notin Spots(w, j, n)
      /\ \A k \in j..(n - 1) : w[k] # op.c /\ w[k] \in Clusters
  BY <1>3, <1>4 DEF Rest, Spots
<1>6. SoundIn(fat[1], data, root, Safe)' /\ Held' = Held
  <2>1. \A c \in Held : fat'[1][c] = fat[1][c] /\ data'[c] = data[c]
    BY <1>5, SetEntryTable, HeldInUse DEF VolumeRight, Basic
  <2> QED
    BY <2>1, SetEntryTable, HeldKept DEF VolumeRight, Basic
<1>7. \A k \in j..(n - 1) : fat'[1][w[k]] = fat[1][w[k]]
  BY <1>5, SetEntryTable
<1>8. Linked(fat'[1], w, n, j) /\ (j < n => Ended(fat'[1], w, n))
  <2>1. \A k \in (j + 1)..(n - 1) : k - 1 \in j..(n - 1)
    BY <1>4
  <2>2. j < n => n - 1 \in j..(n - 1)
    BY <1>4
  <2> QED
    BY <1>3, <1>7, <2>1, <2>2 DEF Rest, Linked, Ended
<1>9. InUse(Spots(w, j, n) \cup IF op.at = "set" /\ op.copy = 1 THEN {op.c} ELSE {})'
  <2>1. InUse(Spots(w, j, n) \cup IF op.copy = 1 THEN {op.c} ELSE {})
    BY <1>1, <1>3 DEF Rest
  <2>2. InUse(Spots(w, j, n))'
    <3>1. op.copy # 1 => Spots(w, j, n) \cup (IF op.copy = 1 THEN {op.c} ELSE {}) = Spots(w, j, n)
      OBVIOUS
    <3>2. op.copy = 1 => Spots(w, j, n)
              = (Spots(w, j, n) \cup (IF op.copy = 1 THEN {op.c} ELSE {})) \ {op.c}
      BY <1>5
    <3>3. PICK X : X = Spots(w, j, n) \cup IF op.copy = 1 THEN {op.c} ELSE {}
      OBVIOUS
    <3>4. PICK Y : Y = Spots(w, j, n)
      OBVIOUS
    <3>5. InUse(X) /\ (op.copy # 1 => X = Y)
          /\ (op.copy = 1 => IF op.v = FREE THEN op.c \notin Held /\ Y = X \ {op.c} ELSE Y = X \cup {op.c})
      BY <1>1, <1>5, <2>1, <3>1, <3>2, <3>3, <3>4
    <3>6. InUse(Y)'
      BY ONLY <1>6, <3>5, SetEntryUse, Basic, SetEntry, ~exposed'
    <3> QED
      BY <3>4, <3>6
  <2>3. ~(op'.at = "set" /\ op'.copy = 1)
    <3>1. op.copy >= 1
      BY OpTyped DEF Basic, Copies
    <3> QED
      BY <1>1, <3>1, OpTyped, SetEntryTable DEF Basic, Copies
  <2> QED
    BY <2>2, <2>3
<1>10. Rest(w, n, j)'
  BY <1>1, <1>3, <1>4, <1>6, <1>8, <1>9, SetEntryTable DEF Rest
<1>11. (op'.at = "free" \/ (op'.at = "set" /\ op'.then = "free")) /\ ~Untouched'
  BY <1>1, SetEntryTable DEF Untouched
<1>12. FreeRight'
  BY <1>10, <1>11 DEF FreeRight
<1>13. ChainFreed'
  BY <1>1, SetEntryTable, FaultsGrow DEF ChainFreed, VolumeRight, IsEntry, Next, Basic
<1> QED
  BY <1>6, <1>11, <1>12, <1>13, Owes

\* A cluster is taken, in one copy.
LEMMA SetFresh ==
    ASSUME Basic, VolumeRight, ~exposed, ~exposed', SetEntry, op.then = "link"
    PROVE  VolumeRight'
<1>1. /\ op.at = "set" /\ op.c \in Clusters /\ op.v = EOC /\ EOC # FREE
      /\ GrowRight /\ Fresh /\ ~Linking /\ Tied = op.i /\ op.i \in Nat /\ op.copy >= 1
      /\ op.copy \in Nat
  BY SetEntryTable, OpTyped, Sizes
     DEF Basic, OpRight, Growing, VolumeRight, Fresh, Linking, Tied, Copies
<1>2. PICK w \in [0..(op.i - 1) -> Clusters] : Built(w)
  BY <1>1 DEF GrowRight
<1>3. op.c \notin Held /\ op.c \notin Spots(w, 0, op.i)
      /\ \A k \in 0..(op.i - 1) : w[k] # op.c /\ w[k] \in Clusters
  BY <1>1, <1>2 DEF Built, Spots
<1>4. SoundIn(fat[1], data, root, Safe)' /\ Held' = Held
  <2>1. \A c \in Held : fat'[1][c] = fat[1][c] /\ data'[c] = data[c]
    BY <1>3, SetEntryTable, HeldInUse DEF VolumeRight, Basic
  <2> QED
    BY <2>1, SetEntryTable, HeldKept DEF VolumeRight, Basic
<1>5. \A k \in 0..(op.i - 1) : fat'[1][w[k]] = fat[1][w[k]]
  BY <1>3, SetEntryTable
<1>6. Linked(fat'[1], w, op.i, 0) /\ Ended(fat'[1], w, op.i)
  <2>1. \A k \in (0 + 1)..(op.i - 1) : k - 1 \in 0..(op.i - 1)
    BY <1>1
  <2>2. op.i > 0 => op.i - 1 \in 0..(op.i - 1)
    BY <1>1
  <2> QED
    BY <1>1, <1>2, <1>5, <2>1, <2>2 DEF Built, Linked, Ended
<1>7. fat'[1][op.c] = EOC
  <2>1. fat[1][op.c] = IF FreshFree THEN FREE ELSE EOC
    BY <1>1, <1>2 DEF Built
  <2> QED
    BY <1>1, <2>1, SetEntryTable DEF FreshFree
<1>8. Fresh' /\ ~FreshFree' /\ ~Linking' /\ op'.c = op.c /\ op'.i = op.i /\ Tied' = op.i
  BY <1>1, SetEntryTable DEF Fresh, FreshFree, Linking, Tied
<1>9. InUse(Spots(w, 0, op.i) \cup {op.c})'
  <2>1. PICK X : X = Spots(w, 0, op.i) \cup IF op.copy # 1 THEN {op.c} ELSE {}
    OBVIOUS
  <2>2. PICK Y : Y = Spots(w, 0, op.i) \cup {op.c}
    OBVIOUS
  <2>3. Fresh /\ ~FreshFree <=> op.copy # 1
    BY <1>1 DEF FreshFree
  <2>4. InUse(X)
    BY <1>2, <2>1, <2>3 DEF Built
  <2>5. /\ op.copy # 1 => X = Y
        /\ op.copy = 1 => IF op.v = FREE THEN op.c \notin Held /\ Y = X \ {op.c} ELSE Y = X \cup {op.c}
    BY <1>1, <2>1, <2>2
  <2>6. InUse(Y)'
    BY ONLY <1>4, <2>4, <2>5, SetEntryUse, Basic, SetEntry, ~exposed'
  <2> QED
    BY <1>8, <2>2, <2>6
<1>10. Built(w)'
  <2>1. Lists(w, op'.i, op'.first) /\ op'.prev = IF op'.i = 0 THEN 0 ELSE w[op'.i - 1]
    BY <1>2, SetEntryTable DEF Built
  <2>2. \A k \in 0..(op'.i - 1) : fat'[1][w[k]] # FREE
    BY <1>2, <1>5, <1>8 DEF Built
  <2>3. Linked(fat'[1], w, Tied', 0) /\ Ended(fat'[1], w, Tied')
    BY <1>6, <1>8
  <2>4. Spots(w, 0, op'.i) \cap Held' = {}
    BY <1>2, <1>4, <1>8 DEF Built
  <2>5. op'.c \notin Held' /\ op'.c \notin Spots(w, 0, op'.i) /\ fat'[1][op'.c] = EOC
    BY <1>3, <1>4, <1>7, <1>8
  <2>6. InUse(Spots(w, 0, op.i) \cup IF Fresh /\ ~FreshFree THEN {op.c} ELSE {})'
    BY <1>8, <1>9
  <2> QED
    BY <1>8, <2>1, <2>2, <2>3, <2>4, <2>5, <2>6 DEF Built
<1>11. GrowRight'
  BY <1>8, <1>10 DEF GrowRight
<1>12. (op'.at = "link" \/ (op'.at = "set" /\ op'.then = "link")) /\ ~Untouched' /\ ~Untouched
  BY <1>1, SetEntryTable DEF Untouched
<1>13. ChainFreed'
  BY <1>1, <1>12, SetEntryTable, FaultsGrow
     DEF ChainFreed, VolumeRight, IsEntry, Next, Basic
<1> QED
  BY <1>4, <1>11, <1>12, <1>13, Owes

\* It is linked to the one before, in one copy.
LEMMA SetLinked ==
    ASSUME Basic, VolumeRight, ~exposed, ~exposed', SetEntry, op.then = "alloc"
    PROVE  VolumeRight'
<1>1. /\ op.at = "set" /\ op.c \in Clusters /\ op.v \in Clusters /\ EOC # FREE /\ op.v # FREE
      /\ GrowRight /\ ~Fresh /\ Linking /\ op.i \in Nat /\ op.copy >= 1 /\ op.copy \in Nat
  BY SetEntryTable, OpTyped, Sizes
     DEF Basic, OpRight, Growing, VolumeRight, Fresh, Linking, Copies
<1>2. PICK w \in [0..(op.i - 1) -> Clusters] : Built(w)
  BY <1>1 DEF GrowRight
<1>3. /\ op.i > 1 /\ op.c = w[op.i - 2] /\ op.v = w[op.i - 1] /\ fat[1][op.v] = EOC
      /\ op.i - 2 \in 0..(op.i - 1) /\ op.i - 1 \in 0..(op.i - 1)
      /\ \A k, m \in 0..(op.i - 1) : w[k] = w[m] => k = m
  BY <1>1, <1>2 DEF Built, Lists
<1>4. op.c \in Spots(w, 0, op.i) /\ op.c \notin Held
  BY <1>2, <1>3 DEF Built, Spots
<1>5. SoundIn(fat[1], data, root, Safe)' /\ Held' = Held
  <2>1. \A c \in Held : fat'[1][c] = fat[1][c] /\ data'[c] = data[c]
    BY <1>4, SetEntryTable, HeldInUse DEF VolumeRight, Basic
  <2> QED
    BY <2>1, SetEntryTable, HeldKept DEF VolumeRight, Basic
<1>6. \A k \in 0..(op.i - 1) : k # op.i - 2 => fat'[1][w[k]] = fat[1][w[k]]
  BY <1>3, SetEntryTable
<1>7. fat'[1][w[op.i - 2]] = w[op.i - 1]
  <2>1. CASE op.copy = 1
    BY <1>1, <1>3, <2>1, SetEntryTable
  <2>2. CASE op.copy # 1
    <3>1. Linked(fat[1], w, op.i, 0)
      BY <1>2, <2>2 DEF Built, Tied
    <3>2. op.i - 1 \in (0 + 1)..(op.i - 1) /\ (op.i - 1) - 1 = op.i - 2
      BY <1>1, <1>3
    <3>3. fat[1][w[op.i - 2]] = w[op.i - 1]
      BY <3>1, <3>2 DEF Linked
    <3> QED
      BY <2>2, <3>3, SetEntryTable
  <2> QED
    BY <2>1, <2>2
<1>8. Linked(fat'[1], w, op.i, 0) /\ Ended(fat'[1], w, op.i)
  <2>1. ASSUME NEW k \in (0 + 1)..(op.i - 1) PROVE fat'[1][w[k - 1]] = w[k]
    <3>1. CASE k = op.i - 1
      <4>1. k - 1 = op.i - 2
        BY <1>1, <3>1
      <4> QED
        BY <1>7, <3>1, <4>1
    <3>2. CASE k # op.i - 1
      <4>1. /\ k - 1 \in 0..(op.i - 1) /\ k - 1 # op.i - 2
            /\ k \in (0 + 1)..((op.i - 1) - 1)
        BY <1>1, <3>2
      <4>2. Linked(fat[1], w, op.i, 0) \/ Linked(fat[1], w, op.i - 1, 0)
        BY <1>2 DEF Built, Tied
      <4>3. fat[1][w[k - 1]] = w[k]
        BY <4>1, <4>2 DEF Linked
      <4> QED
        BY <1>6, <4>1, <4>3
    <3> QED
      BY <3>1, <3>2
  <2>2. fat'[1][w[op.i - 1]] = EOC
    BY <1>1, <1>3, <1>6
  <2> QED
    BY <2>1, <2>2 DEF Linked, Ended
<1>9. /\ ~Fresh' /\ op'.i = op.i /\ Tied' = op.i
      /\ Linking' => op'.c = op.c /\ op'.v = op.v
  BY <1>1, SetEntryTable DEF Fresh, Linking, Tied
<1>10. InUse(Spots(w, 0, op.i))'
  <2>1. PICK X : X = Spots(w, 0, op.i)
    OBVIOUS
  <2>2. X \cup {} = X
    OBVIOUS
  <2>3. InUse(X)
    BY <1>1, <1>2, <2>1, <2>2 DEF Built
  <2>4. /\ op.copy # 1 => X = X
        /\ op.copy = 1 => IF op.v = FREE THEN op.c \notin Held /\ X = X \ {op.c} ELSE X = X \cup {op.c}
    BY <1>1, <1>4, <2>1
  <2>5. InUse(X)'
    BY ONLY <1>5, <2>3, <2>4, SetEntryUse, Basic, SetEntry, ~exposed'
  <2> QED
    BY <1>9, <2>1, <2>5
<1>11. Built(w)'
  <2>1. Lists(w, op'.i, op'.first) /\ op'.prev = IF op'.i = 0 THEN 0 ELSE w[op'.i - 1]
    BY <1>2, SetEntryTable DEF Built
  <2>2. \A k \in 0..(op'.i - 1) : fat'[1][w[k]] # FREE
    <3>1. w[op.i - 1] # FREE
      BY <1>1, <1>3
    <3> QED
      BY <1>2, <1>6, <1>7, <1>9, <3>1 DEF Built
  <2>3. Linked(fat'[1], w, Tied', 0) /\ Ended(fat'[1], w, Tied')
    BY <1>8, <1>9
  <2>4. Spots(w, 0, op'.i) \cap Held' = {}
    BY <1>2, <1>5, <1>9 DEF Built
  <2>5. Linking' => /\ op'.i > 1 /\ op'.c = w[op'.i - 2] /\ op'.v = w[op'.i - 1]
                    /\ fat'[1][op'.v] = EOC
    <3>1. fat'[1][w[op.i - 1]] = EOC
      BY <1>1, <1>3, <1>6
    <3> QED
      BY <1>3, <1>9, <3>1
  <2>6. InUse(Spots(w, 0, op.i) \cup IF Fresh /\ ~FreshFree THEN {op.c} ELSE {})'
    <3>1. Spots(w, 0, op'.i) \cup (IF Fresh' /\ ~FreshFree' THEN {op'.c} ELSE {}) = Spots(w, 0, op'.i)
      BY <1>9
    <3> QED
      BY <1>9, <1>10, <3>1
  <2> QED
    BY <1>9, <2>1, <2>2, <2>3, <2>4, <2>5, <2>6 DEF Built
<1>12. GrowRight'
  BY <1>9, <1>11 DEF GrowRight
<1>13. /\ op'.at = "alloc" \/ (op'.at = "set" /\ op'.then = "alloc")
       /\ ~Untouched' /\ ~Untouched
  BY <1>1, SetEntryTable DEF Untouched
<1>14. ChainFreed'
  BY <1>1, <1>13, SetEntryTable, FaultsGrow
     DEF ChainFreed, VolumeRight, IsEntry, Next, Basic
<1> QED
  BY <1>5, <1>12, <1>13, <1>14, Owes

\* fat16_set_fat_entry sets one copy.
LEMMA SetEntryVolume ==
    ASSUME Basic, VolumeRight, ~exposed, ~exposed', SetEntry
    PROVE  VolumeRight'
<1>1. op.then \in {"free", "alloc", "link"}
  BY DEF SetEntry, AtOp, Basic, OpRight
<1> QED
  BY <1>1, SetFree, SetFresh, SetLinked

-----------------------------------------------------------------------------
\* fat16_alloc_cluster, in a write that needs one more or has all it needs.
LEMMA AllocNextVolume == ASSUME Basic, VolumeRight, ~exposed, AllocNext PROVE VolumeRight'
<1>0. /\ op.at = "alloc" /\ GrowRight /\ UNCHANGED <<diskVars, wrecked>> /\ op \in Ops /\ TypeOK
      /\ op.i \in 0..MaxLen /\ op.i \in Nat /\ ~Fresh /\ ~Linking /\ Tied = op.i /\ op.i <= op.len
  BY Sizes
     DEF AllocNext, AtOp, Basic, OpRight, Growing, VolumeRight, TypeOK, Ops, Fresh, Linking,
         Tied
<1>1. PICK w \in [0..(op.i - 1) -> Clusters] : Built(w)
  BY <1>0 DEF GrowRight
<1>2. InUse(Spots(w, 0, op.i))
  <2>1. Spots(w, 0, op.i) \cup (IF Fresh /\ ~FreshFree THEN {op.c} ELSE {}) = Spots(w, 0, op.i)
    BY <1>0
  <2> QED
    BY <1>1, <2>1 DEF Built
<1>3. /\ Lists(w, op.i, op.first) /\ op.prev = IF op.i = 0 THEN 0 ELSE w[op.i - 1]
      /\ \A k \in 0..(op.i - 1) : fat[1][w[k]] # FREE
      /\ Linked(fat[1], w, op.i, 0) /\ Ended(fat[1], w, op.i) /\ Spots(w, 0, op.i) \cap Held = {}
  BY <1>0, <1>1 DEF Built
<1>4. fat' = fat /\ data' = data /\ root' = root /\ wrecked' = wrecked
  BY <1>0 DEF diskVars
<1>5. faults' = faults \/ faults' > 0
  BY FaultsGrow, <1>0 DEF Next
<1>6. ASSUME op'.slot = op.slot, op'.freed = op.freed, op'.at # "idle"
      PROVE  /\ SoundIn(fat[1], data, root, Safe)' /\ Held' = Held
             /\ InUse(Spots(w, 0, op.i)) => \A X : X = Spots(w, 0, op.i) => InUse(X)'
             /\ ~Untouched' => ChainFreed'
  <2>1. SoundIn(fat[1], data, root, Safe)' /\ Held' = Held
    BY <1>0, <1>4, <1>6, HeldKept DEF VolumeRight
  <2>2. ChainFreed /\ ~Untouched
    BY <1>0 DEF VolumeRight, Untouched
  <2>3. ~Untouched' => ChainFreed'
    BY <1>0, <1>4, <1>5, <1>6, <2>2 DEF ChainFreed, IsEntry
  <2> QED
    BY <1>4, <1>5, <2>1, <2>3 DEF InUse
<1>7. CASE /\ op.i < op.len /\ FreeClusters # {}
           /\ op' = [op EXCEPT !.at = "set", !.c = Min(FreeClusters), !.v = EOC, !.copy = 1,
                              !.then = "link"]
  <2>1. PICK c : c = Min(FreeClusters)
    OBVIOUS
  <2>2. c \in Clusters /\ fat[1][c] = FREE
    BY <1>7, <2>1, LeastFree DEF FreeClusters
  <2>3. /\ op'.at = "set" /\ op'.c = c /\ op'.copy = 1 /\ op'.then = "link" /\ op'.slot = op.slot
        /\ op'.freed = op.freed /\ op'.i = op.i /\ op'.first = op.first /\ op'.prev = op.prev
    BY <1>0, <1>7, <2>1 DEF Ops
  <2>4. c \notin Held /\ c \notin Spots(w, 0, op.i)
    <3>1. c \notin Held
      BY <1>0, <2>2, HeldInUse DEF VolumeRight
    <3> QED
      BY <1>3, <2>2, <3>1 DEF Spots
  <2>5. Fresh' /\ FreshFree' /\ ~Linking' /\ Tied' = op.i /\ ~Untouched'
    BY <2>3 DEF Fresh, FreshFree, Linking, Tied, Untouched
  <2>6. InUse(Spots(w, 0, op.i) \cup IF Fresh /\ ~FreshFree THEN {op.c} ELSE {})'
    <3>1. Spots(w, 0, op'.i) \cup (IF Fresh' /\ ~FreshFree' THEN {op'.c} ELSE {}) = Spots(w, 0, op.i)
      BY <2>3, <2>5
    <3> QED
      BY <1>2, <1>6, <2>3, <3>1
  <2>7. Built(w)'
    BY <1>3, <1>4, <1>6, <2>2, <2>3, <2>4, <2>5, <2>6 DEF Built
  <2>8. GrowRight'
    BY <2>3, <2>7 DEF GrowRight
  <2> QED
    BY <1>6, <2>3, <2>5, <2>8, Owes
<1>8. CASE op' = [op EXCEPT !.at = "free", !.cluster = op.first, !.after = "fail"]
  <2>1. /\ op'.at = "free" /\ op'.cluster = op.first /\ op'.after = "fail" /\ op'.slot = op.slot
        /\ op'.freed = op.freed
    BY <1>0, <1>8 DEF Ops
  <2>2. ~Untouched' /\ op'.at # "set"
    BY <2>1 DEF Untouched
  <2>3. 0 \in 0..op.i /\ (0 < op.i => op.first = w[0]) /\ (0 = op.i => op.first = 0)
    BY <1>0, <1>3 DEF Lists
  <2>4. PICK n : n = op.i
    OBVIOUS
  <2>5. Rest(w, n, 0)'
    <3>1. InUse(Spots(w, 0, n) \cup IF op.at = "set" /\ op.copy = 1 THEN {op.c} ELSE {})'
      BY <1>2, <1>6, <2>1, <2>4
    <3>2. /\ w \in [0..(n - 1) -> Clusters] /\ \A k, m \in 0..(n - 1) : w[k] = w[m] => k = m
          /\ Linked(fat'[1], w, n, 0) /\ Ended(fat'[1], w, n) /\ Spots(w, 0, n) \cap Held' = {}
      BY <1>1, <1>3, <1>4, <1>6, <2>1, <2>4 DEF Lists
    <3>3. (0 < n => op'.cluster = w[0]) /\ (0 = n => op'.cluster = 0)
      BY <2>1, <2>3, <2>4
    <3> QED
      BY <2>2, <3>1, <3>2, <3>3 DEF Rest
  <2>6. FreeRight'
    <3>1. n \in 0..MaxLen /\ 0 \in 0..n /\ w \in [0..(n - 1) -> Clusters]
      BY <1>0, <1>1, <2>3, <2>4
    <3> QED
      BY <2>2, <2>5, <3>1 DEF FreeRight
  <2> QED
    BY <1>6, <2>1, <2>2, <2>6, Owes
<1>9. CASE /\ op.i = op.len
           /\ op' = [op EXCEPT !.at = "data", !.i = 0, !.cluster = op.first, !.prev = 0]
  <2>1. /\ op'.at = "data" /\ op'.i = 0 /\ op'.cluster = op.first /\ op'.slot = op.slot
        /\ op'.freed = op.freed /\ op'.len = op.i /\ op'.first = op.first /\ op'.name = op.name
    BY <1>0, <1>9 DEF Ops
  <2>2. ~Untouched'
    BY <2>1 DEF Untouched
  <2>3. op.first = IF 0 < op.i THEN w[0] ELSE 0
    BY <1>0, <1>3 DEF Lists
  <2>4. Reads(data', w, 0, op'.name)
    BY DEF Reads
  <2>5. Filled(w)'
    BY <1>2, <1>3, <1>4, <1>6, <2>1, <2>3, <2>4 DEF Filled
  <2>6. DataRight'
    BY <2>1, <2>5 DEF DataRight
  <2> QED
    BY <1>6, <2>1, <2>2, <2>6, Owes
<1>10. ~NeedsMore => op.i = op.len
  BY <1>0, OpTyped, Sizes DEF NeedsMore
<1> QED
  BY <1>7, <1>8, <1>9, <1>10 DEF AllocNext, FreeAgain, NeedsMore

\* The cluster just allocated becomes the last of the chain.
LEMMA LinkVolume == ASSUME Basic, VolumeRight, ~exposed, Link PROVE VolumeRight'
<1>0. /\ op.at = "link" /\ GrowRight /\ UNCHANGED <<diskVars, wrecked>> /\ op \in Ops /\ TypeOK
      /\ op.i \in 0..MaxLen /\ op.i \in Nat /\ Fresh /\ ~FreshFree /\ ~Linking /\ Tied = op.i
      /\ op.c \in Clusters /\ EOC # FREE
  BY Sizes
     DEF Link, AtOp, Basic, OpRight, Growing, VolumeRight, TypeOK, Ops, Fresh, FreshFree, 
               Linking, Tied
<1>1. PICK w \in [0..(op.i - 1) -> Clusters] : Built(w)
  BY <1>0 DEF GrowRight
<1>2. InUse(Spots(w, 0, op.i) \cup {op.c})
  <2>1. Spots(w, 0, op.i) \cup (IF Fresh /\ ~FreshFree THEN {op.c} ELSE {}) = Spots(w, 0, op.i) \cup {op.c}
    BY <1>0
  <2> QED
    BY <1>1, <2>1 DEF Built
<1>3. /\ Lists(w, op.i, op.first) /\ op.prev = IF op.i = 0 THEN 0 ELSE w[op.i - 1]
      /\ \A k \in 0..(op.i - 1) : fat[1][w[k]] # FREE
      /\ Linked(fat[1], w, op.i, 0) /\ Ended(fat[1], w, op.i) /\ Spots(w, 0, op.i) \cap Held = {}
      /\ op.c \notin Held /\ op.c \notin Spots(w, 0, op.i) /\ fat[1][op.c] = EOC
  BY <1>0, <1>1 DEF Built
<1>4. fat' = fat /\ data' = data /\ root' = root /\ wrecked' = wrecked /\ faults' = faults
  BY <1>0 DEF diskVars, Link, NoFault
<1>5. op.prev = 0 <=> op.i = 0
  BY <1>0, <1>3, Sizes
\* w with the new one at its end
<1>v. PICK v : v = [k \in 0..((op.i + 1) - 1) |-> IF k = op.i THEN op.c ELSE w[k]]
  OBVIOUS
<1>6. /\ v \in [0..((op.i + 1) - 1) -> Clusters] /\ v[op.i] = op.c
      /\ \A k \in 0..(op.i - 1) : v[k] = w[k] /\ w[k] # op.c
      /\ \A k \in 0..((op.i + 1) - 1) : k = op.i \/ k \in 0..(op.i - 1)
      /\ (op.i + 1) - 1 = op.i
  BY <1>0, <1>3, <1>v DEF Spots
<1>7. Spots(v, 0, op.i + 1) = Spots(w, 0, op.i) \cup {op.c}
  <2>1. 0..((op.i + 1) - 1) = (0..(op.i - 1)) \cup {op.i}
    BY <1>0
  <2> QED
    BY <1>6, <2>1 DEF Spots
<1>8. \A k, m \in 0..((op.i + 1) - 1) : v[k] = v[m] => k = m
  BY <1>3, <1>6 DEF Lists
<1>9. Linked(fat[1], v, op.i, 0) /\ Ended(fat[1], v, op.i)
  <2>1. Linked(fat[1], v, op.i, 0)
    <3>1. ASSUME NEW k \in (0 + 1)..(op.i - 1) PROVE fat[1][v[k - 1]] = v[k]
      <4>1. k \in 0..(op.i - 1) /\ k - 1 \in 0..(op.i - 1)
        BY <1>0
      <4> QED
        BY <1>3, <1>6, <4>1 DEF Linked
    <3> QED
      BY <3>1 DEF Linked
  <2>2. Ended(fat[1], v, op.i)
    <3>1. op.i > 0 => op.i - 1 \in 0..(op.i - 1)
      BY <1>0
    <3> QED
      BY <1>3, <1>6, <3>1 DEF Ended
  <2> QED
    BY <2>1, <2>2
<1>10. ASSUME op'.i = op.i + 1, op'.slot = op.slot, op'.freed = op.freed, op'.prev = op.c,
              op'.first = (IF op.i = 0 THEN op.c ELSE op.first), ~Fresh', ~Untouched',
              op'.at = "alloc" \/ (op'.at = "set" /\ op'.then = "alloc"),
              Tied' = (IF op.i = 0 THEN 1 ELSE op.i),
              Linking' => op.i > 0 /\ op'.c = op.prev /\ op'.v = op.c
       PROVE  VolumeRight'
  <2>1. SoundIn(fat[1], data, root, Safe)' /\ Held' = Held
    BY <1>0, <1>4, <1>10, HeldKept DEF VolumeRight
  <2>2. ChainFreed'
    BY <1>0, <1>4, <1>10 DEF ChainFreed, VolumeRight, Untouched, IsEntry
  <2>3. InUse(Spots(v, 0, op.i) \cup IF Fresh /\ ~FreshFree THEN {op.c} ELSE {})'
    <3>1. Spots(v, 0, op'.i) \cup (IF Fresh' /\ ~FreshFree' THEN {op'.c} ELSE {})
            = Spots(w, 0, op.i) \cup {op.c}
      BY <1>7, <1>10
    <3> QED
      BY <1>2, <1>4, <2>1, <3>1 DEF InUse
  <2>4. Lists(v, op'.i, op'.first)
    <3>1. op'.first = v[0]
      <4>1. CASE op.i = 0
        BY <1>6, <1>10, <4>1
      <4>2. CASE op.i # 0
        BY <1>0, <1>3, <1>6, <1>10, <4>2 DEF Lists
      <4> QED
        BY <4>1, <4>2
    <3> QED
      BY <1>0, <1>6, <1>8, <1>10, <3>1 DEF Lists
  <2>5. op'.prev = IF op'.i = 0 THEN 0 ELSE v[op'.i - 1]
    BY <1>0, <1>6, <1>10
  <2>6. \A k \in 0..(op'.i - 1) : fat'[1][v[k]] # FREE
    BY <1>0, <1>3, <1>4, <1>6, <1>10
  <2>7. Linked(fat'[1], v, Tied', 0) /\ Ended(fat'[1], v, Tied')
    <3>1. CASE op.i = 0
      BY <1>3, <1>4, <1>6, <1>10, <3>1 DEF Linked, Ended
    <3>2. CASE op.i # 0
      BY <1>4, <1>9, <1>10, <3>2
    <3> QED
      BY <3>1, <3>2
  <2>8. Linking' => /\ op'.i > 1 /\ op'.c = v[op'.i - 2] /\ op'.v = v[op'.i - 1]
                    /\ fat'[1][op'.v] = EOC
    <3> SUFFICES ASSUME Linking' PROVE /\ op'.i > 1 /\ op'.c = v[op'.i - 2] /\ op'.v = v[op'.i - 1]
                                       /\ fat'[1][op'.v] = EOC
      OBVIOUS
    <3>1. op.i > 0 /\ op'.c = op.prev /\ op'.v = op.c
      BY <1>10
    <3>2. (op.i + 1) - 2 = op.i - 1 /\ op.i - 1 \in 0..(op.i - 1) /\ op.prev = w[op.i - 1]
      BY <1>0, <1>3, <3>1
    <3> QED
      BY <1>0, <1>3, <1>4, <1>6, <1>10, <3>1, <3>2
  <2>9. Spots(v, 0, op'.i) \cap Held' = {}
    BY <1>3, <1>7, <1>10, <2>1
  <2>10. Built(v)'
    BY <1>10, <2>3, <2>4, <2>5, <2>6, <2>7, <2>8, <2>9 DEF Built
  <2>11. GrowRight'
    <3>1. v \in [0..(op'.i - 1) -> Clusters]
      BY <1>6, <1>10
    <3> QED
      BY <2>10, <3>1 DEF GrowRight
  <2> QED
    BY <1>10, <2>1, <2>2, <2>11, Owes
<1>11. CASE /\ op.prev = 0
            /\ op' = [op EXCEPT !.at = "alloc", !.first = op.c, !.prev = op.c, !.i = @ + 1, !.c = 0]
  <2>1. /\ op'.at = "alloc" /\ op'.first = op.c /\ op'.prev = op.c /\ op'.i = op.i + 1
        /\ op'.slot = op.slot /\ op'.freed = op.freed
    BY <1>0, <1>11 DEF Ops
  <2>2. ~Fresh' /\ ~Untouched' /\ ~Linking' /\ Tied' = op.i + 1 /\ op.i = 0
    BY <1>5, <1>11, <2>1 DEF Fresh, Untouched, Linking, Tied
  <2> QED
    BY <1>10, <2>1, <2>2
<1>12. CASE /\ op.prev # 0
            /\ op' = [op EXCEPT !.at = "set", !.c = op.prev, !.v = op.c, !.copy = 1,
                             !.then = "alloc", !.prev = op.c, !.i = @ + 1]
  <2>1. /\ op'.at = "set" /\ op'.then = "alloc" /\ op'.first = op.first /\ op'.prev = op.c
        /\ op'.i = op.i + 1 /\ op'.slot = op.slot /\ op'.freed = op.freed /\ op'.c = op.prev
        /\ op'.v = op.c /\ op'.copy = 1
    BY <1>0, <1>12 DEF Ops
  <2>2. ~Fresh' /\ ~Untouched' /\ Tied' = op.i /\ op.i # 0 /\ op.i > 0
    BY <1>0, <1>5, <1>12, <2>1 DEF Fresh, Untouched, Linking, Tied
  <2> QED
    BY <1>10, <2>1, <2>2
<1> QED
  BY <1>11, <1>12 DEF Link

-----------------------------------------------------------------------------
\* The next cluster of the chain is filled, or cannot be.
LEMMA WriteDataVolume ==
    ASSUME Basic, VolumeRight, ~exposed, ~exposed', WriteData PROVE VolumeRight'
<1>0. /\ op.at = "data" /\ DataRight /\ op \in Ops /\ TypeOK /\ fat' = fat /\ root' = root
      /\ wrecked' = wrecked /\ op.i < op.len /\ op.cluster # 0 /\ op.i \in Nat /\ op.len \in 0..MaxLen
      /\ op.len \in Nat /\ EOC \notin Clusters /\ EOC \in Nat /\ \A c \in Clusters : c < EOC /\ c \in Nat
  BY Sizes DEF WriteData, AtOp, Basic, VolumeRight, TypeOK, Ops
<1>1. PICK w \in [0..(op.len - 1) -> Clusters] : Filled(w)
  BY <1>0 DEF DataRight
<1>2. op.cluster = w[op.i] /\ op.i \in 0..(op.len - 1) /\ op.cluster \in Clusters
  BY <1>0, <1>1 DEF Filled
<1>3. op.cluster \notin Held
  BY <1>1, <1>2 DEF Filled, Spots
<1>4. CASE Abandon /\ OneMore /\ UNCHANGED data
  <2>1. op' = NoOp /\ ~op.freed /\ faults' > 0
    BY <1>0, <1>4, Counted
  <2> QED
    BY <1>0, <1>4, <2>1, GivesUp DEF diskVars
<1>5. CASE /\ data' = [data EXCEPT ![op.cluster] = <<op.name, op.i>>] /\ NoFault
           /\ op' = [op EXCEPT !.i = @ + 1,
                         !.cluster = IF fat[1][op.cluster] >= EOC THEN 0 ELSE fat[1][op.cluster]]
  <2>1. /\ op'.at = "data" /\ op'.slot = op.slot /\ op'.freed = op.freed /\ op'.len = op.len
        /\ op'.first = op.first /\ op'.name = op.name /\ op'.i = op.i + 1
        /\ op'.cluster = IF fat[1][op.cluster] >= EOC THEN 0 ELSE fat[1][op.cluster]
    BY <1>0, <1>5 DEF Ops
  <2>2. /\ \A c \in Clusters : c # op.cluster => data'[c] = data[c]
        /\ data'[op.cluster] = <<op.name, op.i>>
    BY <1>0, <1>2, <1>5 DEF TypeOK
  <2>3. SoundIn(fat[1], data, root, Safe)' /\ Held' = Held
    <3>1. \A c \in Held : fat'[1][c] = fat[1][c] /\ data'[c] = data[c]
      BY <1>0, <1>3, <2>2, HeldInUse DEF VolumeRight
    <3> QED
      BY <1>0, <2>1, <3>1, HeldKept DEF VolumeRight
  <2>4. ChainFreed' /\ ~Untouched'
    BY <1>0, <1>5, <2>1 DEF ChainFreed, VolumeRight, Untouched, IsEntry, NoFault
  <2>5. /\ Lists(w, op.len, op.first) /\ Linked(fat[1], w, op.len, 0) /\ Ended(fat[1], w, op.len)
        /\ Reads(data, w, op.i, op.name) /\ Spots(w, 0, op.len) \cap Held = {}
        /\ InUse(Spots(w, 0, op.len))
    BY <1>1 DEF Filled
  <2>6. Reads(data', w, op.i + 1, op.name)
    <3>1. ASSUME NEW k \in 0..((op.i + 1) - 1) PROVE data'[w[k]] = <<op.name, k>>
      <4>1. CASE k = op.i
        BY <1>2, <2>2, <4>1
      <4>2. CASE k # op.i
        <5>1. k \in 0..(op.i - 1) /\ k \in 0..(op.len - 1)
          BY <1>0, <4>2
        <5>2. w[k] # op.cluster /\ w[k] \in Clusters
          BY <1>1, <1>2, <2>5, <4>2, <5>1 DEF Lists
        <5> QED
          BY <2>2, <2>5, <5>1, <5>2 DEF Reads
      <4> QED
        BY <4>1, <4>2
    <3> QED
      BY <3>1 DEF Reads
  <2>7. op'.cluster = IF op'.i < op'.len THEN w[op'.i] ELSE 0
    <3>1. CASE op.i + 1 < op.len
      <4>1. op.i + 1 \in (0 + 1)..(op.len - 1) /\ (op.i + 1) - 1 = op.i /\ op.i + 1 \in 0..(op.len - 1)
        BY <1>0, <3>1
      <4>2. fat[1][op.cluster] = w[op.i + 1]
        BY <1>2, <2>5, <4>1 DEF Linked
      <4>3. w[op.i + 1] \in Clusters /\ ~(w[op.i + 1] >= EOC)
        BY <1>0, <4>1
      <4> QED
        BY <2>1, <3>1, <4>2, <4>3
    <3>2. CASE ~(op.i + 1 < op.len)
      <4>1. op.i = op.len - 1 /\ op.len > 0
        BY <1>0, <3>2
      <4>2. fat[1][op.cluster] = EOC
        BY <1>2, <2>5, <4>1 DEF Ended
      <4> QED
        BY <1>0, <2>1, <3>2, <4>2
    <3> QED
      BY <3>1, <3>2
  <2>8. InUse(Spots(w, 0, op.len))'
    BY <1>0, <1>5, <2>1, <2>3, <2>5 DEF InUse, NoFault
  <2>9. Filled(w)'
    BY <1>0, <2>1, <2>3, <2>5, <2>6, <2>7, <2>8 DEF Filled
  <2>10. DataRight'
    BY <2>1, <2>9 DEF DataRight
  <2> QED
    BY <2>1, <2>3, <2>4, <2>10, Owes
<1>6. CASE Expose
  BY <1>0, <1>6, Counted
<1> QED
  BY <1>4, <1>5, <1>6 DEF WriteData

\* What the others hold, without the entry the call is for.
LEMMA WithoutSlot ==
    ASSUME Basic, VolumeRight
    PROVE  /\ SoundIn(fat[1], data, root, Safe \ {op.slot})
           /\ HeldIn(fat[1], root, Safe \ {op.slot}) \subseteq Held
           /\ faults = 0 /\ op.at # "idle" /\ ~Untouched =>
                HeldIn(fat[1], root, Safe \ {op.slot}) = Held
<1>1. CASE op.slot \notin Safe
  <2>1. Safe \ {op.slot} = Safe
    BY <1>1
  <2> QED
    BY <2>1 DEF VolumeRight, Held
<1>2. CASE op.slot \in Safe
  <2>1. /\ SoundIn(fat[1], data, root, Safe \ {op.slot})
        /\ Held = HeldIn(fat[1], root, Safe \ {op.slot}) \cup OwnedIn(fat[1], root[op.slot])
    BY <1>2, HeldParts DEF VolumeRight
  <2>2. ASSUME faults = 0, op.at # "idle", ~Untouched PROVE OwnedIn(fat[1], root[op.slot]) = {}
    <3>1. ~op.freed /\ IsEntry(op.slot) /\ root[op.slot] \in Entry
      BY <1>2, SafeEntries DEF Safe, Basic
    <3>2. root[op.slot].first = 0
      BY <2>2, <3>1 DEF VolumeRight, ChainFreed
    <3>3. Intact(fat[1], data, root[op.slot])
      BY <1>2 DEF VolumeRight, SoundIn
    <3>4. root[op.slot].attr = "file"
      BY <3>1, <3>2, <3>3, Sizes DEF Intact, IsEntry
    <3>5. PICK w : w = WalkIn(fat[1], root[op.slot])
      OBVIOUS
    <3>6. IsFile(fat[1], data, w, root[op.slot])
      BY <3>3, <3>4, <3>5 DEF Intact
    <3>7. OwnedIn(fat[1], root[op.slot]) = Spots(w, 0, root[op.slot].len)
      BY <3>1, <3>4, <3>6, FileIs DEF IsFile
    <3>8. root[op.slot].len = 0
      <4>1. root[op.slot].len \in Nat
        BY <3>1, Sizes DEF Entry
      <4>2. Lists(w, root[op.slot].len, root[op.slot].first)
        BY <3>6 DEF IsFile
      <4>3. root[op.slot].len # 0 => w[0] \in Clusters
        BY <4>1, <4>2 DEF Lists
      <4> QED
        BY <3>2, <4>2, <4>3, Sizes DEF Lists
    <3> QED
      BY <3>7, <3>8, NoneSpots
  <2> QED
    BY <2>1, <2>2
<1> QED
  BY <1>1, <1>2

\* The entry of the chain just filled goes to the root directory.
LEMMA WriteEntryVolume ==
    ASSUME Basic, VolumeRight, ~exposed, ~exposed', WriteEntry PROVE VolumeRight'
<1>0. /\ op.at = "data" /\ DataRight /\ TypeOK /\ fat' = fat /\ data' = data /\ wrecked' = wrecked
      /\ op.i \in Nat /\ op.len \in 0..MaxLen /\ op.len \in Nat /\ op.i <= op.len /\ op' = NoOp
      /\ op # NoOp /\ 0 \notin Clusters
  BY Sizes, OpTyped DEF WriteEntry, AtOp, Basic, VolumeRight, OpRight, Abandon, NoOp
<1>1. PICK w \in [0..(op.len - 1) -> Clusters] : Filled(w)
  BY <1>0 DEF DataRight
<1>2. op.i = op.len
  <2>1. CASE op.i < op.len
    <3>1. op.cluster \in Clusters
      BY <1>0, <1>1, <2>1 DEF Filled
    <3> QED
      BY <1>0, <2>1, <3>1 DEF WriteEntry
  <2> QED
    BY <1>0, <2>1
<1>3. CASE Abandon /\ OneMore /\ UNCHANGED root
  <2>1. op' = NoOp /\ ~op.freed /\ faults' > 0
    BY <1>0, <1>3, Counted
  <2> QED
    BY <1>0, <1>3, <2>1, GivesUp DEF diskVars
<1>4. CASE /\ root' = [root EXCEPT ![op.slot] =
                 [name |-> op.name, attr |-> "file", first |-> op.first, len |-> op.len]]
           /\ NoFault
  <2>1. PICK e : e = [name |-> op.name, attr |-> "file", first |-> op.first, len |-> op.len]
    OBVIOUS
  <2>2. op.slot \in Slot /\ e \in Entry
    BY <1>0, <2>1, OpTyped DEF Basic, RootRight, Scanned, Entry
  <2>3. root'[op.slot] = e /\ \A s \in Slot : s # op.slot => root'[s] = root[s]
    BY <1>0, <1>4, <2>1, <2>2 DEF TypeOK
  <2>4. Safe' = (Safe \ {op.slot}) \cup {op.slot}
    BY <1>0, <2>1, <2>2, <2>3, NoOpTyped DEF Safe, IsEntry
  <2>5. IsFile(fat[1], data, w, e)
    BY <1>1, <1>2, <2>1 DEF Filled, IsFile
  <2>6. WalkIn(fat[1], e) = w /\ OwnedIn(fat[1], e) = Spots(w, 0, op.len)
    BY <2>1, <2>2, <2>5, FileIs DEF IsFile
  <2>7. Intact(fat[1], data, e)
    BY <2>1, <2>5, <2>6 DEF Intact
  <2>8. PICK S : S = Safe \ {op.slot}
    OBVIOUS
  <2>9. /\ SoundIn(fat[1], data, root, S) /\ HeldIn(fat[1], root, S) \subseteq Held
        /\ faults = 0 => HeldIn(fat[1], root, S) = Held
    BY <1>0, <2>8, WithoutSlot DEF Untouched
  <2>10. OwnedIn(fat[1], e) \cap HeldIn(fat[1], root, S) = {}
    BY <1>1, <2>6, <2>9 DEF Filled
  <2>11. op.slot \notin S /\ \A r \in S : root'[r] = root[r]
    BY <2>3, <2>8 DEF Safe
  <2>12. /\ SoundIn(fat[1], data, root', S \cup {op.slot})
         /\ HeldIn(fat[1], root', S \cup {op.slot}) = HeldIn(fat[1], root, S) \cup OwnedIn(fat[1], e)
    BY <2>3, <2>7, <2>9, <2>10, <2>11, HeldMore
  <2>13. SoundIn(fat[1], data, root, Safe)'
    BY <1>0, <2>4, <2>8, <2>12
  <2>14. Held' = HeldIn(fat[1], root, S) \cup Spots(w, 0, op.len)
    BY <1>0, <2>4, <2>6, <2>8, <2>12 DEF Held
  <2>15. InUse({})'
    BY <1>0, <1>1, <1>4, <2>9, <2>14 DEF InUse, Filled, NoFault
  <2>16. op'.at = "idle" /\ ChainFreed'
    BY <1>0, NoOpTyped DEF ChainFreed
  <2> QED
    BY <2>13, <2>15, <2>16, Owes
<1> QED
  BY <1>3, <1>4 DEF WriteEntry, NewFirst

\* The entry of the chain just freed is marked.
LEMMA MarkDeletedVolume ==
    ASSUME Basic, VolumeRight, ~exposed, ~exposed', MarkDeleted PROVE VolumeRight'
<1>0. /\ op.at = "mark" /\ TypeOK /\ fat' = fat /\ data' = data /\ op' = NoOp /\ op # NoOp
      /\ op.slot \in Slot /\ InUse({})
  BY DEF MarkDeleted, AtOp, Basic, VolumeRight, Abandon, NoOp, RootRight, Scanned
<1>1. op'.at = "idle" /\ ChainFreed' /\ Safe' = {s \in Slot : IsEntry(s)'}
  BY <1>0, NoOpTyped DEF ChainFreed, Safe
<1>2. CASE Abandon /\ OneMore /\ UNCHANGED <<root, wrecked>>
  <2>1. op' = NoOp /\ ~op.freed /\ faults' > 0
    BY <1>0, <1>2, Counted
  <2> QED
    BY <1>0, <1>2, <2>1, GivesUp DEF diskVars
<1>3. CASE op.freed /\ root' \in Wrecked /\ wrecked' = TRUE
  <2>1. \A s \in Slot : ~IsEntry(s)'
    <3>1. CASE root' = root
      <4>1. \A s \in Slot : root'[s].attr \in {"end", "junk", "deleted"}
        <5>1. [NoEntry EXCEPT !.attr = "deleted"].attr = "deleted"
              /\ [NoEntry EXCEPT !.attr = "junk"].attr = "junk" /\ NoEntry.attr = "end"
          BY DEF NoEntry
        <5>2. PICK gone : gone = [NoEntry EXCEPT !.attr = "deleted"]
          OBVIOUS
        <5>3. PICK junk : junk = [NoEntry EXCEPT !.attr = "junk"]
          OBVIOUS
        <5>4. PICK j \in [Slot -> {NoEntry, junk}] : root' = [j EXCEPT ![op.slot] = gone]
          BY <1>3, <5>2, <5>3 DEF Wrecked
        <5>5. root' \in [Slot -> {NoEntry, junk, gone}]
          BY <1>0, <5>4
        <5> QED
          BY <5>1, <5>2, <5>3, <5>5
      <4> QED
        BY <4>1 DEF IsEntry
    <3>2. CASE root' # root
      BY <1>0, <1>3, <3>2, MarkRoot DEF Basic
    <3> QED
      BY <3>1, <3>2
  <2>2. Safe' = {}
    BY <1>1, <2>1
  <2>3. SoundIn(fat[1], data, root, Safe)' /\ InUse({})'
    BY <1>3, <2>2 DEF SoundIn, InUse
  <2> QED
    BY <1>1, <2>3, Owes
<1>4. CASE ~op.freed /\ root' = [root EXCEPT ![op.slot] = [NoEntry EXCEPT !.attr = "deleted"]]
           /\ UNCHANGED wrecked /\ NoFault
  <2>1. /\ root'[op.slot].attr = "deleted" /\ \A s \in Slot : s # op.slot => root'[s] = root[s]
    BY <1>0, <1>4 DEF TypeOK, NoEntry
  <2>2. PICK S : S = Safe \ {op.slot}
    OBVIOUS
  <2>3. Safe' = S /\ \A s \in S : root'[s] = root[s]
    BY <1>1, <1>4, <2>1, <2>2 DEF Safe, IsEntry
  <2>5. SoundIn(fat[1], data, root, S)
    BY <1>0, <2>2, WithoutSlot
  <2>6. SoundIn(fat[1], data, root, Safe)' /\ Held' = HeldIn(fat[1], root, S)
    BY <1>0, <2>3, <2>5 DEF SoundIn, Held, HeldIn
  <2>7. faults = 0 => HeldIn(fat[1], root, S) = Held
    BY <1>0, <2>2, WithoutSlot DEF Untouched
  <2>8. InUse({})'
    BY <1>0, <1>4, <2>6, <2>7 DEF InUse, NoFault
  <2> QED
    BY <1>1, <2>6, <2>8, Owes
<1> QED
  BY <1>2, <1>3, <1>4 DEF MarkDeleted

\* A call begins: its chain is still there.
LEMMA StartVolume ==
    ASSUME Basic, VolumeRight, op = NoOp, NEW s \in Slot, NEW name \in Names, NEW len \in 0..MaxLen,
           NEW after \in {"alloc", "mark"}, Begins(s, name, len, after),
           UNCHANGED <<diskVars, wrecked>>, NoFault
    PROVE  VolumeRight'
<1>1. /\ op'.at = "free" /\ op'.after = after /\ op'.slot = s /\ ~op'.freed
      /\ op'.cluster = IF IsEntry(s) THEN root[s].first ELSE 0
  BY BeginOp DEF Basic
<1>2. UNCHANGED <<fat, root, data, wrecked, faults>>
  BY DEF diskVars, NoFault
<1>3. Safe' = Safe
  BY <1>1, <1>2, NoOpTyped DEF Safe, IsEntry
<1>4. SoundIn(fat[1], data, root, Safe)' /\ Held' = Held
  BY <1>2, <1>3 DEF VolumeRight, SoundIn, Held
<1>5. InUse({})'
  BY <1>2, <1>4, NoOpTyped DEF VolumeRight, InUse
<1>6. Untouched' /\ FreeRight' /\ ChainFreed'
  BY <1>1, <1>2, <1>5 DEF Untouched, FreeRight, ChainFreed, IsEntry
<1> QED
  BY <1>1, <1>4, <1>6, Owes

\* The inductive invariant.
VolumeInv == Basic /\ CopiesRight /\ (~exposed => VolumeRight)

\* Every step keeps the invariant.
LEMMA VolumeKept == ASSUME VolumeInv, [Next]_vars PROVE VolumeInv'
<1>1. Basic' /\ CopiesRight'
  BY BasicKept, CopiesKept DEF VolumeInv
<1>2. ASSUME ~exposed' PROVE VolumeRight'
  <2>1. ~exposed /\ VolumeRight /\ Basic /\ TypeOK
    BY <1>2, ExposedStays DEF VolumeInv, Basic
  <2>2. CASE UNCHANGED vars
    <3>1. UNCHANGED <<fat, root, data, op, wrecked, faults>>
      BY <2>2 DEF vars, diskVars
    <3>2. Safe' = Safe
      BY <3>1 DEF Safe, IsEntry
    <3>3. Held' = Held /\ SoundIn(fat[1], data, root, Safe)'
      BY <2>1, <3>1, <3>2 DEF Held, VolumeRight, SoundIn
    <3>4. FreeRight => FreeRight'
      BY <3>1, <3>3 DEF FreeRight, Untouched, Rest, InUse, IsEntry
    <3>5. GrowRight => GrowRight'
      <4>1. ASSUME NEW w, Built(w) PROVE Built(w)'
        BY <3>1, <3>3, <4>1 DEF Built, Linking, Fresh, FreshFree, Tied, InUse
      <4> QED
        BY <3>1, <4>1 DEF GrowRight
    <3>6. DataRight => DataRight'
      BY <3>1, <3>3 DEF DataRight, Filled, InUse
    <3>7. ChainFreed' /\ (InUse({}) => InUse({})')
      BY <2>1, <3>1, <3>3 DEF VolumeRight, ChainFreed, Untouched, IsEntry, InUse
    <3> QED
      BY <2>1, <3>1, <3>3, <3>4, <3>5, <3>6, <3>7 DEF VolumeRight, Freeing, Growing
  <2>3. CASE FreeNext \/ AllocNext \/ Link
    BY <2>1, <2>3, FreeNextVolume, AllocNextVolume, LinkVolume
  <2>4. CASE SetEntry
    BY <1>2, <2>1, <2>4, SetEntryVolume
  <2>5. CASE WriteData \/ WriteEntry \/ MarkDeleted
    BY <1>2, <2>1, <2>5, WriteDataVolume, WriteEntryVolume, MarkDeletedVolume
  <2>6. CASE WriteFails \/ PowerOff
    <3>1. op' = NoOp /\ ~op.freed /\ UNCHANGED diskVars /\ wrecked' = wrecked
          /\ (faults' > 0 \/ (faults' = faults /\ op.at = "fail"))
      BY <1>2, <2>1, <2>6, Counted DEF WriteFails, PowerOff, AtOp
    <3> QED
      BY <2>1, <3>1, GivesUp
  <2>7. CASE (\E name \in Names, len \in 0..MaxLen : WriteFile(name, len))
             \/ \E name \in Names : DeleteFile(name)
    <3>1. PICK s \in Slot, name \in Names, len \in 0..MaxLen, after \in {"alloc", "mark"} :
            /\ Begins(s, name, len, after)
            /\ op = NoOp /\ UNCHANGED <<diskVars, wrecked>> /\ NoFault
      BY <2>1, <2>7, StartOp DEF Basic
    <3> QED
      BY <2>1, <3>1, StartVolume
  <2> QED
    BY <2>2, <2>3, <2>4, <2>5, <2>6, <2>7 DEF Next
<1> QED
  BY <1>1, <1>2 DEF VolumeInv

\* A formatted volume with its one directory.
LEMMA VolumeStart == ASSUME Init PROVE VolumeInv
<1>0. Basic /\ op = NoOp /\ faults = 0 /\ 1 \in Copies
  BY BasicStart, Sizes DEF Init
<1>1. CopiesRight
  BY <1>0, NoOpTyped DEF Init, CopiesRight
<1>2. ~Freeing /\ ~Growing /\ op.at = "idle" /\ ChainFreed
  BY <1>0, NoOpTyped DEF Freeing, Growing, ChainFreed
<1>3. Safe = {s \in Slot : IsEntry(s)}
  BY <1>0, NoOpTyped DEF Safe
<1>4. CASE /\ fat = [f \in Copies |-> [c \in Clusters |-> FREE]]
           /\ root = [s \in Slot |-> NoEntry]
  <2>1. Safe = {}
    BY <1>3, <1>4 DEF IsEntry, NoEntry
  <2>2. Held = {} /\ SoundIn(fat[1], data, root, Safe)
    BY <2>1 DEF Held, HeldIn, SoundIn
  <2>3. \A c \in Clusters : fat[1][c] = FREE
    BY <1>0, <1>4
  <2>4. InUse({})
    BY <2>2, <2>3 DEF InUse
  <2> QED
    BY <1>0, <1>1, <1>2, <2>2, <2>4 DEF VolumeInv, VolumeRight
<1>5. ASSUME NEW n \in Names,
             fat = [f \in Copies |-> [c \in Clusters |-> IF c = 2 THEN EOC ELSE FREE]],
             root = [s \in Slot |-> IF s = 1
                  THEN [name |-> n, attr |-> "dir", first |-> 2, len |-> 0]
                  ELSE NoEntry]
      PROVE  VolumeInv
  <2>1. 1 \in Slot /\ 2 \in Clusters /\ EOC # FREE
    BY VolumeAssumption, Sizes DEF Slot, Clusters
  <2>2. Safe = {1} /\ root[1].attr = "dir" /\ root[1].first = 2
    BY <1>3, <1>5, <2>1 DEF IsEntry, NoEntry
  <2>3. /\ \A c \in Clusters : fat[1][c] = IF c = 2 THEN EOC ELSE FREE
    BY <1>0, <1>5
  <2>4. Intact(fat[1], data, root[1]) /\ OwnedIn(fat[1], root[1]) = {2}
    BY <2>1, <2>2, <2>3 DEF Intact, OwnedIn
  <2>5. Held = {2} /\ SoundIn(fat[1], data, root, Safe)
    BY <2>2, <2>4 DEF Held, HeldIn, SoundIn
  <2>6. InUse({})
    BY <2>1, <2>3, <2>5 DEF InUse
  <2> QED
    BY <1>0, <1>1, <1>2, <2>5, <2>6 DEF VolumeInv, VolumeRight
<1> QED
  BY <1>4, <1>5 DEF Init

\* Every step of every call keeps the invariant (fat16.c:357-598).
THEOREM VolumeInvariance == Spec => []VolumeInv
BY VolumeStart, VolumeKept, PTL DEF Spec

\* What reading finds, in the words of the invariant.
LEMMA ReadsChain ==
    ASSUME NEW e PROVE ChainOf(e) = WalkIn(fat[1], e) /\ Owned(e) = OwnedIn(fat[1], e)
BY DEF ChainOf, WalkIn, Owned, OwnedIn

\* Files do not hurt each other, whatever fails while one is written or deleted
\* (fat16.c:357-598).
THEOREM FilesStayIntact == Spec => []FilesIntact
<1>1. ASSUME VolumeInv PROVE FilesIntact
  <2> SUFFICES ASSUME ~exposed PROVE FilesIntact
    BY DEF FilesIntact
  <2>0. Basic /\ TypeOK /\ RootRight /\ SoundIn(fat[1], data, root, Safe)
    BY <1>1 DEF VolumeInv, VolumeRight, Basic
  <2>1. Settled \subseteq Safe
    BY DEF Settled, Safe
  <2>2. \A s \in Settled : Found(root[s].name) = {s}
    BY <2>0 DEF RootRight, Settled, Found, Scanned
  <2>3. ASSUME NEW s \in Settled, root[s].attr = "file", root[s].len > 0
        PROVE  /\ \A k \in 0..(root[s].len - 1) :
                    /\ ChainOf(root[s])[k] \in Clusters
                    /\ data[ChainOf(root[s])[k]] = <<root[s].name, k>>
               /\ fat[1][ChainOf(root[s])[root[s].len - 1]] = EOC
    <3>1. PICK w : w = ChainOf(root[s])
      OBVIOUS
    <3>2. IsFile(fat[1], data, w, root[s])
      BY <2>0, <2>1, <2>3, <3>1, ReadsChain DEF SoundIn, Intact
    <3> QED
      BY <2>3, <3>1, <3>2 DEF IsFile, Lists, Ended, Reads
  <2>4. \A r, s \in Settled : r # s => Owned(root[r]) \cap Owned(root[s]) = {}
    BY <2>0, <2>1, ReadsChain DEF SoundIn
  <2> QED
    BY <2>2, <2>3, <2>4 DEF FilesIntact
<1> QED
  BY <1>1, VolumeInvariance, PTL

\* Without faults nothing leaks and the copies of the FAT agree between calls
\* (fat16.c:357-569).
THEOREM VolumeStaysSound == Spec => []VolumeSound
<1>1. ASSUME VolumeInv PROVE VolumeSound
  <2>1. CopiesAgree
    BY <1>1, NoOpTyped DEF VolumeInv, CopiesRight, CopiesAgree
  <2>2. ASSUME faults = 0, ~exposed, ~wrecked, op = NoOp
        PROVE  {c \in Clusters : fat[1][c] # FREE} =
                   UNION {Owned(root[s]) : s \in {r \in Slot : IsEntry(r)}}
    <3>1. InUse({})
      BY <1>1, <2>2, NoOpTyped DEF VolumeInv, VolumeRight
    <3>2. Safe = {r \in Slot : IsEntry(r)}
      BY <2>2, NoOpTyped DEF Safe
    <3>3. Held = UNION {Owned(root[s]) : s \in {r \in Slot : IsEntry(r)}}
      BY <3>2, ReadsChain DEF Held, HeldIn
    <3> QED
      BY <2>2, <3>1, <3>3 DEF InUse
  <2> QED
    BY <2>1, <2>2 DEF VolumeSound, NothingLeaks
<1> QED
  BY <1>1, VolumeInvariance, PTL

-----------------------------------------------------------------------------
\* The names of files: what becomes of a name in an entry, and back.
Blank == " "
Point == "."

\* The first of n places at which a scan stops.
LEMMA ScanStops ==
    ASSUME NEW n \in Nat, NEW Stop
    PROVE  \E m \in 0..n : (\A k \in 1..m : k \notin Stop) /\ (m < n => m + 1 \in Stop)
<1> DEFINE T == {m \in 0..n : m = n \/ m + 1 \in Stop}
<1>1. T \subseteq Nat /\ n \in T
  OBVIOUS
<1>2. PICK m \in T : \A k \in T : m <= k
  <2> HIDE DEF T
  <2> QED
    BY <1>1, LeastElement
<1>3. ASSUME NEW k \in 1..m PROVE k \notin Stop
  <2>1. k - 1 \in 0..n /\ k - 1 < m /\ (k - 1) + 1 = k
    OBVIOUS
  <2>2. k - 1 \notin T
    BY <1>2, <2>1
  <2> QED
    BY <2>1, <2>2
<1> QED
  BY <1>2, <1>3

\* A part of an entry, in words the provers take.
LEMMA PaddedIs ==
    ASSUME NEW t, NEW len
    PROVE  Padded(t, len) = [k \in 1..len |-> IF k <= Len(t) THEN Upper(t[k]) ELSE Blank]
BY Zenon DEF Padded, Blank

\* Where a name ends.
LEMMA DotIs ==
    ASSUME NEW S, NEW s \in Seq(S)
    PROVE  /\ Dot(s) \in 0..Len(s)
           /\ \A k \in 1..Dot(s) : s[k] # Point
           /\ Dot(s) < Len(s) => s[Dot(s) + 1] = Point
<1> DEFINE Ends(n) == (\A k \in 1..n : s[k] # Point) /\ (n < Len(s) => s[n + 1] = Point)
<1>1. \E n \in 0..Len(s) : Ends(n)
  <2> DEFINE Stop == {j \in 1..Len(s) : s[j] = Point}
  <2>1. PICK n \in 0..Len(s) : (\A k \in 1..n : k \notin Stop) /\ (n < Len(s) => n + 1 \in Stop)
    <3> HIDE DEF Stop
    <3> QED
      BY LenProperties, ScanStops, Zenon
  <2> QED
    BY <2>1
<1>2. Dot(s) = CHOOSE n \in 0..Len(s) : Ends(n)
  BY Zenon DEF Dot, Point
<1>3. Dot(s) \in 0..Len(s) /\ Ends(Dot(s))
  <2> HIDE DEF Ends
  <2> QED
    BY <1>1, <1>2, Zenon
<1> QED
  BY <1>3

\* What is read of a part: as far as its first blank.
LEMMA TrimmedIs ==
    ASSUME NEW S, NEW t \in Seq(S)
    PROVE  \E n \in 0..Len(t) :
              /\ Trimmed(t) = SubSeq(t, 1, n)
              /\ \A k \in 1..n : t[k] # Blank
              /\ n < Len(t) => t[n + 1] = Blank
<1> DEFINE Ends(n) == (\A k \in 1..n : t[k] # Blank) /\ (n < Len(t) => t[n + 1] = Blank)
           m == CHOOSE n \in 0..Len(t) : Ends(n)
<1>1. \E n \in 0..Len(t) : Ends(n)
  <2> DEFINE Stop == {j \in 1..Len(t) : t[j] = Blank}
  <2>1. PICK n \in 0..Len(t) : (\A k \in 1..n : k \notin Stop) /\ (n < Len(t) => n + 1 \in Stop)
    <3> HIDE DEF Stop
    <3> QED
      BY LenProperties, ScanStops, Zenon
  <2> QED
    BY <2>1
<1>2. Trimmed(t) = SubSeq(t, 1, m)
  BY Zenon DEF Trimmed, Blank
<1>3. m \in 0..Len(t) /\ Ends(m)
  <2> HIDE DEF Ends
  <2> QED
    BY <1>1, Zenon
<1> QED
  BY <1>2, <1>3

\* A part padded with blanks to its length and read as far as the first of them.
LEMMA PartBack ==
    ASSUME NEW S, NEW t \in Seq(S), NEW len \in Nat, Len(t) <= len,
           \A k \in 1..Len(t) : t[k] # Blank
    PROVE  Trimmed(Padded(t, len)) = [k \in 1..Len(t) |-> Upper(t[k])]
<1> DEFINE p == Padded(t, len)
           U == {Upper(c) : c \in S} \cup {Blank}
<1>1. /\ p \in Seq(U) /\ Len(p) = len
      /\ \A k \in 1..len : p[k] = IF k <= Len(t) THEN Upper(t[k]) ELSE Blank
  BY PaddedIs
<1>2. \A c : Upper(c) = Blank => c = Blank
  BY DEF Upper, Blank
<1> HIDE DEF p, U
<1>3. PICK n \in 0..len : /\ Trimmed(p) = SubSeq(p, 1, n)
                          /\ \A k \in 1..n : p[k] # Blank
                          /\ n < len => p[n + 1] = Blank
  BY <1>1, TrimmedIs
<1>4. n = Len(t)
  <2>1. CASE n < Len(t)
    <3>1. n + 1 \in 1..Len(t) /\ n + 1 \in 1..len
      BY <2>1
    <3>2. p[n + 1] = Upper(t[n + 1])
      BY <1>1, <3>1
    <3>3. t[n + 1] # Blank
      BY <3>1
    <3> QED
      BY <1>2, <1>3, <2>1, <3>2, <3>3
  <2>2. CASE n > Len(t)
    <3>1. Len(t) + 1 \in 1..n /\ Len(t) + 1 \in 1..len
      BY <2>2
    <3>2. p[Len(t) + 1] = Blank
      BY <1>1, <3>1
    <3> QED
      BY <1>3, <3>1, <3>2
  <2> QED
    BY <2>1, <2>2
<1>5. SubSeq(p, 1, n) = [k \in 1..n |-> p[k]]
  BY <1>1
<1> QED
  BY <1>1, <1>3, <1>4, <1>5 DEF p

\* Texts are the same in any case if they are as long and their letters are.
LEMMA SameInAnyCase ==
    ASSUME NEW A, NEW B, NEW a \in Seq(A), NEW b \in Seq(B)
    PROVE  fat16_streq_ci(a, b)
               <=> Len(a) = Len(b) /\ \A k \in 1..Len(a) : Upper(a[k]) = Upper(b[k])
<1> DEFINE f == [k \in 1..Len(a) |-> Upper(a[k])]
           g == [k \in 1..Len(b) |-> Upper(b[k])]
<1>1. fat16_streq_ci(a, b) <=> f = g
  BY DEF fat16_streq_ci
<1>2. ASSUME f = g PROVE Len(a) = Len(b) /\ \A k \in 1..Len(a) : Upper(a[k]) = Upper(b[k])
  <2>1. Len(a) = Len(f) /\ Len(b) = Len(g)
    OBVIOUS
  <2>2. \A k \in 1..Len(a) : f[k] = Upper(a[k])
    OBVIOUS
  <2>3. \A k \in 1..Len(b) : g[k] = Upper(b[k])
    OBVIOUS
  <2> HIDE DEF f, g
  <2> QED
    BY <1>2, <2>1, <2>2, <2>3
<1>3. ASSUME Len(a) = Len(b), \A k \in 1..Len(a) : Upper(a[k]) = Upper(b[k]) PROVE f = g
  BY <1>3
<1> QED
  BY <1>1, <1>2, <1>3

\* A name from its parts.
LEMMA NameWritten ==
    ASSUME NEW e
    PROVE  fat16_name_to_string(e) =
              Trimmed(e.name) \o (IF e.ext[1] = Blank THEN <<>> ELSE <<Point>> \o Trimmed(e.ext))
BY Zenon DEF fat16_name_to_string, Blank, Point

\* Upper case stays, and blanks and points are no letters.
LEMMA Letters ==
    /\ \A c : Upper(Upper(c)) = Upper(c)
    /\ \A c : Upper(c) = Blank => c = Blank
    /\ \A c : c = Blank => Upper(c) = Blank
    /\ Point # Blank /\ Upper(Point) = Point
<1>1. \A c : Upper(c) = IF c = "a" THEN "A" ELSE c
  BY DEF Upper
<1>2. Blank # "a" /\ Blank # "A" /\ Point # "a" /\ Point # Blank
  BY DEF Blank, Point
<1> QED
  BY <1>1, <1>2

\* What a name leaves of itself in an entry, and what of it comes back.
LEMMA PartsOf ==
    ASSUME NEW S, NEW s \in Seq(S), Valid(s)
    PROVE  LET d == Dot(s)
               x == ExtPart(s)
               back == fat16_name_to_string(fat16_string_to_name(s))
           IN  /\ d \in 1..Len(s) /\ x \in Seq(S)
               /\ Len(x) = IF d + 2 <= Len(s) THEN Len(s) - d - 1 ELSE 0
               /\ \A k \in 1..Len(x) : x[k] = s[k + d + 1]
               /\ back = Trimmed(Padded(NamePart(s), NameLen)) \o
                      (IF Len(x) = 0 \/ x[1] = Blank THEN <<>>
                       ELSE <<Point>> \o Trimmed(Padded(x, ExtLen)))
               /\ NamePart(s) \in Seq(S) /\ Len(NamePart(s)) = d
               /\ \A k \in 1..d : NamePart(s)[k] = s[k]
               /\ d <= NameLen /\ Len(x) <= ExtLen
<1> DEFINE d == Dot(s)
           x == ExtPart(s)
           e == fat16_string_to_name(s)
<1>1. d \in 1..Len(s) /\ d <= NameLen /\ Len(x) <= ExtLen
  BY DotIs, NameAssumption DEF Valid
<1>2. /\ x \in Seq(S)
      /\ Len(x) = IF d + 2 <= Len(s) THEN Len(s) - d - 1 ELSE 0
      /\ \A k \in 1..Len(x) : x[k] = s[k + d + 1]
  <2>1. x = SubSeq(s, d + 2, Len(s))
    BY DEF ExtPart
  <2>2. CASE d + 2 <= Len(s)
    BY <1>1, <2>1, <2>2
  <2>3. CASE d + 2 > Len(s)
    BY <1>1, <2>1, <2>3
  <2> QED
    BY <1>1, <2>2, <2>3
<1>3. /\ NamePart(s) \in Seq(S) /\ Len(NamePart(s)) = d
      /\ \A k \in 1..d : NamePart(s)[k] = s[k]
  BY <1>1 DEF NamePart
<1>4. e.name = Padded(NamePart(s), NameLen) /\ e.ext = Padded(x, ExtLen)
  BY DEF fat16_string_to_name
<1>5. (e.ext[1] = Blank) <=> (Len(x) = 0 \/ x[1] = Blank)
  <2>1. 1 \in 1..ExtLen
    BY NameAssumption
  <2>2. e.ext[1] = IF 1 <= Len(x) THEN Upper(x[1]) ELSE Blank
    BY <1>4, <2>1, PaddedIs
  <2>3. Len(x) \in Nat
    BY <1>2
  <2> HIDE DEF x, e
  <2> QED
    BY <2>2, <2>3, Letters
<1> HIDE DEF d, x
<1>6. fat16_name_to_string(e) =
          Trimmed(e.name) \o (IF e.ext[1] = Blank THEN <<>> ELSE <<Point>> \o Trimmed(e.ext))
  BY NameWritten, Zenon
<1>7. fat16_name_to_string(e) = Trimmed(Padded(NamePart(s), NameLen)) \o
          (IF Len(x) = 0 \/ x[1] = Blank THEN <<>> ELSE <<Point>> \o Trimmed(Padded(x, ExtLen)))
  BY <1>4, <1>5, <1>6, Zenon
<1> QED
  BY <1>1, <1>2, <1>3, <1>7 DEF d, x

\* What is read of a part has no blank in it.
LEMMA TrimmedClean ==
    ASSUME NEW S, NEW t \in Seq(S), NEW len \in Nat
    PROVE  LET r == Trimmed(Padded(t, len)) IN
           \E V : r \in Seq(V) /\ Blank \notin V
<1> DEFINE U == {Upper(c) : c \in S} \cup {Blank}
           p == Padded(t, len)
<1>1. p \in Seq(U)
  BY PaddedIs
<1> HIDE DEF U, p
<1>2. PICK n \in 0..Len(p) : /\ Trimmed(p) = SubSeq(p, 1, n)
                             /\ \A k \in 1..n : p[k] # Blank
  BY <1>1, TrimmedIs
<1>3. SubSeq(p, 1, n) \in Seq(U \ {Blank})
  BY <1>1, <1>2
<1>4. Blank \notin U \ {Blank}
  OBVIOUS
<1> HIDE DEF p
<1>5. Trimmed(p) \in Seq(U \ {Blank})
  BY <1>2, <1>3
<1> QED
  BY <1>4, <1>5, Zenon DEF p

\* A file is found under the name it was written with, but for the two exceptions, for
\* names of any length over any letters (fat16_string_to_name, fat16_name_to_string,
\* fat16_streq_ci).
THEOREM NameFound ==
    ASSUME NEW S, NEW s \in Seq(S) PROVE NameKept(s)
<1> SUFFICES ASSUME Valid(s)
             PROVE  fat16_streq_ci(fat16_name_to_string(fat16_string_to_name(s)), s)
                      <=> Blank \notin Range(s) /\ ~(s[Len(s)] = Point /\ ExtPart(s) = <<>>)
  BY Zenon DEF NameKept, Blank, Point
<1> DEFINE d == Dot(s)
           x == ExtPart(s)
           back == fat16_name_to_string(fat16_string_to_name(s))
           n == Trimmed(Padded(NamePart(s), NameLen))
           e == Trimmed(Padded(x, ExtLen))
<1>1. /\ d \in 1..Len(s) /\ x \in Seq(S)
      /\ Len(x) = IF d + 2 <= Len(s) THEN Len(s) - d - 1 ELSE 0
      /\ \A k \in 1..Len(x) : x[k] = s[k + d + 1]
      /\ back = n \o (IF Len(x) = 0 \/ x[1] = Blank THEN <<>> ELSE <<Point>> \o e)
      /\ NamePart(s) \in Seq(S) /\ Len(NamePart(s)) = d
      /\ \A k \in 1..d : NamePart(s)[k] = s[k]
      /\ d <= NameLen /\ Len(x) <= ExtLen
  BY PartsOf
<1>2. NameLen \in Nat /\ ExtLen \in Nat
  BY NameAssumption
<1>3. PICK V : n \in Seq(V) /\ Blank \notin V
  BY <1>1, <1>2, TrimmedClean
<1>4. PICK W : e \in Seq(W) /\ Blank \notin W
  BY <1>1, <1>2, TrimmedClean
<1>6. d < Len(s) => s[d + 1] = Point
  BY DotIs
<1>7. \A k \in 1..d : s[k] # Point
  BY DotIs
<1>5. (\A k \in 1..Len(s) : s[k] # Blank) =>
          /\ n = [k \in 1..d |-> Upper(s[k])]
          /\ e = [k \in 1..Len(x) |-> Upper(x[k])]
  <2> SUFFICES ASSUME \A k \in 1..Len(s) : s[k] # Blank
               PROVE  n = [k \in 1..d |-> Upper(s[k])] /\ e = [k \in 1..Len(x) |-> Upper(x[k])]
    OBVIOUS
  <2>1. ASSUME NEW k \in 1..d PROVE NamePart(s)[k] # Blank
    <3>1. k \in 1..Len(s)
      BY <1>1
    <3> QED
      BY <1>1, <3>1
  <2>2. n = [k \in 1..Len(NamePart(s)) |-> Upper(NamePart(s)[k])]
    BY <1>1, <1>2, <2>1, PartBack
  <2>3. ASSUME NEW k \in 1..Len(x) PROVE x[k] # Blank
    <3>1. k + d + 1 \in 1..Len(s) /\ x[k] = s[k + d + 1]
      BY <1>1
    <3> QED
      BY <3>1
  <2>4. e = [k \in 1..Len(x) |-> Upper(x[k])]
    BY <1>1, <1>2, <2>3, PartBack
  <2> QED
    BY <1>1, <2>2, <2>4
<1> HIDE DEF d, x, back, n, e
<1> DEFINE Z == V \cup W \cup {Point}
<1>13. n \in Seq(Z) /\ e \in Seq(Z) /\ <<Point>> \in Seq(Z) /\ Blank \notin Z
  BY <1>3, <1>4, Letters
<1> HIDE DEF Z
<1>8. back \in Seq(Z) /\ Blank \notin Z
  <2>1. <<Point>> \o e \in Seq(Z) /\ <<>> \in Seq(Z)
    BY <1>13
  <2> QED
    BY <1>1, <1>13, <2>1
<1>9. fat16_streq_ci(back, s)
          <=> Len(back) = Len(s) /\ \A k \in 1..Len(back) : Upper(back[k]) = Upper(s[k])
  BY <1>8, SameInAnyCase
<1>10. Blank \in Range(s) <=> \E k \in 1..Len(s) : s[k] = Blank
  BY DEF Range
<1>11. CASE Blank \in Range(s)
  <2>1. PICK j \in 1..Len(s) : s[j] = Blank
    BY <1>10, <1>11
  <2>2. ASSUME Len(back) = Len(s), \A k \in 1..Len(back) : Upper(back[k]) = Upper(s[k]) PROVE FALSE
    <3>1. back[j] = Blank
      BY <2>1, <2>2, Letters
    <3> QED
      BY <1>8, <2>1, <2>2, <3>1
  <2> QED
    BY <1>9, <1>11, <2>2 DEF back
<1>12. CASE Blank \notin Range(s)
  <2>1. n = [k \in 1..d |-> Upper(s[k])] /\ e = [k \in 1..Len(x) |-> Upper(x[k])]
    BY <1>5, <1>10, <1>12
  <2>2. CASE Len(x) = 0
    <3>1. back = n /\ Len(back) = d
      BY <1>1, <1>3, <2>1, <2>2
    <3>2. x = <<>> /\ (Len(s) = d \/ Len(s) = d + 1)
      BY <1>1, <2>2
    <3>3. CASE Len(s) = d
      <4>1. s[Len(s)] # Point
        BY <1>1, <1>7, <3>3
      <4>2. \A k \in 1..Len(back) : Upper(back[k]) = Upper(s[k])
        BY <2>1, <3>1, Letters
      <4> QED
        BY <1>9, <1>12, <3>1, <3>3, <4>1, <4>2 DEF back
    <3>4. CASE Len(s) = d + 1
      <4>1. s[Len(s)] = Point
        BY <1>1, <1>6, <3>4
      <4> QED
        BY <1>1, <1>9, <3>1, <3>2, <3>4, <4>1 DEF back, x
    <3> QED
      BY <3>2, <3>3, <3>4
  <2>3. CASE Len(x) # 0
    <3>1. Len(x) = Len(s) - d - 1 /\ Len(s) >= d + 2 /\ Len(x) \in Nat
      BY <1>1, <2>3
    <3>2. x[1] # Blank
      BY <1>1, <1>10, <1>12, <3>1
    <3>3. back = n \o (<<Point>> \o e)
      BY <1>1, <2>3, <3>2
    <3>4. Len(n) = d /\ Len(e) = Len(x) /\ d \in Nat
      BY <1>1, <2>1, <3>1
    <3>5. Len(back) = Len(s)
      <4>1. Len(<<Point>> \o e) = 1 + Len(e)
        BY <1>13
      <4>2. Len(back) = Len(n) + Len(<<Point>> \o e)
        BY <1>13, <3>3
      <4> QED
        BY <3>1, <3>4, <4>1, <4>2
    <3>6. ASSUME NEW k \in 1..Len(s) PROVE Upper(back[k]) = Upper(s[k])
      <4>1. CASE k \in 1..d
        <5>1. back[k] = n[k] /\ n[k] = Upper(s[k])
          BY <1>3, <1>4, <2>1, <3>3, <3>4, <4>1
        <5> QED
          BY <5>1, Letters
      <4>2. CASE k = d + 1
        <5>1. back[k] = Point
          <6> DEFINE q == <<Point>>
                     r == q \o e
          <6>1. q \in Seq(Z)
            BY <1>13
          <6>2. Len(q) = 1 /\ q[1] = Point
            OBVIOUS
          <6>3. back = n \o r
            BY <3>3
          <6> HIDE DEF q
          <6>4. r \in Seq(Z) /\ Len(r) = Len(q) + Len(e)
                /\ \A i \in 1..(Len(q) + Len(e)) : r[i] = IF i <= Len(q) THEN q[i] ELSE e[i - Len(q)]
            BY <1>13, <6>1, ConcatProperties
          <6>5. Len(r) >= 1 /\ r[1] = Point
            BY <3>1, <3>4, <6>2, <6>4
          <6> HIDE DEF r
          <6>6. \A i \in 1..(Len(n) + Len(r)) :
                    (n \o r)[i] = IF i <= Len(n) THEN n[i] ELSE r[i - Len(n)]
            BY <1>13, <6>4, ConcatProperties
          <6>7. k \in 1..(Len(n) + Len(r)) /\ ~(k <= Len(n)) /\ k - Len(n) = 1
            BY <3>4, <4>2, <6>4, <6>5
          <6> QED
            BY <6>3, <6>5, <6>6, <6>7
        <5>2. s[k] = Point
          BY <1>6, <3>1, <3>4, <4>2
        <5> QED
          BY <5>1, <5>2
      <4>3. CASE k > d + 1
        <5>1. k - d - 1 \in 1..Len(x)
          BY <3>1, <3>4, <4>3
        <5>2. back[k] = e[k - d - 1]
          BY <1>3, <1>4, <3>3, <3>4, <4>3, <5>1
        <5>3. e[k - d - 1] = Upper(x[k - d - 1]) /\ x[k - d - 1] = s[k]
          BY <1>1, <2>1, <3>4, <5>1
        <5> QED
          BY <5>2, <5>3, Letters
      <4> QED
        BY <3>4, <4>1, <4>2, <4>3
    <3>7. x # <<>>
      BY <2>3
    <3> QED
      BY <1>9, <1>12, <3>5, <3>6, <3>7 DEF back, x
  <2> QED
    BY <2>2, <2>3
<1> QED
  BY <1>11, <1>12 DEF back

-----------------------------------------------------------------------------
\* What "ls" lists and what is found.
\* The name of one letter, and none.
LEMMA FileNamed ==
    ASSUME NEW kind, NEW c
    PROVE  fat16_name_to_string(File(kind, c)) = IF c = Blank THEN <<>> ELSE <<Upper(c)>>
<1> DEFINE t == <<c>>
           e == File(kind, c)
           S == {c}
           p == Padded(<<>>, ExtLen)
<1>1. t \in Seq(S) /\ Len(t) = 1 /\ t[1] = c
  OBVIOUS
<1>2. NameLen \in Nat \ {0} /\ ExtLen \in Nat \ {0}
  BY NameAssumption
<1>3. e.name = Padded(t, NameLen) /\ e.ext = p
  BY DEF File
<1>4. p[1] = Blank
  <2>1. p = [k \in 1..ExtLen |-> IF k <= Len(<<>>) THEN Upper(<<>>[k]) ELSE Blank]
    BY PaddedIs, Zenon
  <2>2. 1 \in 1..ExtLen /\ ~(1 <= Len(<<>>))
    BY <1>2
  <2> HIDE DEF p
  <2> QED
    BY <2>1, <2>2
<1> HIDE DEF t, e, p
<1>5. fat16_name_to_string(e) = Trimmed(Padded(t, NameLen)) \o <<>>
  BY <1>3, <1>4, NameWritten, Zenon
<1>6. CASE c # Blank
  <2>1. \A k \in 1..Len(t) : t[k] # Blank
    BY <1>1, <1>6
  <2>2. Trimmed(Padded(t, NameLen)) = [k \in 1..Len(t) |-> Upper(t[k])]
    BY <1>1, <1>2, <2>1, PartBack
  <2>3. [k \in 1..Len(t) |-> Upper(t[k])] = <<Upper(c)>>
    BY <1>1
  <2>4. fat16_name_to_string(e) = <<Upper(c)>> \o <<>>
    BY <1>5, <2>2, <2>3, Zenon
  <2>5. <<Upper(c)>> \o <<>> = <<Upper(c)>>
    OBVIOUS
  <2> QED
    BY <1>6, <2>4, <2>5 DEF e
<1>7. CASE c = Blank
  <2> DEFINE U == {Upper(x) : x \in S} \cup {Blank}
             q == Padded(t, NameLen)
  <2>1. q = [k \in 1..NameLen |-> IF k <= Len(t) THEN Upper(t[k]) ELSE Blank]
    BY PaddedIs
  <2>2. q \in Seq(U) /\ Len(q) = NameLen
    BY <1>1, <1>2, <2>1
  <2>3. q[1] = Blank
    <3>1. 1 \in 1..NameLen
      BY <1>2
    <3>2. q[1] = Upper(t[1])
      BY <1>1, <2>1, <3>1
    <3> QED
      BY <1>1, <1>7, <3>2, Letters
  <2> HIDE DEF q, U
  <2>4. PICK n \in 0..Len(q) : Trimmed(q) = SubSeq(q, 1, n) /\ \A k \in 1..n : q[k] # Blank
    BY <2>2, TrimmedIs
  <2>5. n = 0
    <3>1. n # 0 => 1 \in 1..n
      BY <2>2, <1>2
    <3> QED
      BY <2>3, <2>4, <3>1
  <2>6. SubSeq(q, 1, 0) = <<>>
    BY <2>2
  <2>7. fat16_name_to_string(e) = <<>> \o <<>>
    BY <1>5, <2>4, <2>5, <2>6 DEF q
  <2> QED
    BY <1>7, <2>7 DEF e
<1> QED
  BY <1>6, <1>7

\* What the listing is after k places.
Listing(dir, bad, h) ==
    /\ h \in [0..Len(dir) -> Seq(Nat)] /\ h[0] = <<>> /\ fat16_list_root(dir, bad) = h[Len(dir)]
    /\ \A k \in 1..Len(dir) :
        h[k] = IF k \in Shown(dir, bad) /\ Len(h[k - 1]) < MaxListed THEN Append(h[k - 1], k)
               ELSE h[k - 1]

ListingBody(dir, bad, w) ==
    [k \in 0..Len(dir) |->
        IF k = 0 THEN <<>>
        ELSE IF k \in Shown(dir, bad) /\ Len(w[k - 1]) < MaxListed THEN Append(w[k - 1], k)
             ELSE w[k - 1]]

\* The listing grows by one place at a time.
LEMMA ListingSteps ==
    ASSUME NEW dir, NEW bad, Len(dir) \in Nat
    PROVE  \E h : Listing(dir, bad, h)
<1> DEFINE n == Len(dir)
           A == Shown(dir, bad)
           f == [x \in Seq(Nat) \X (1..n) |->
                    IF x[2] \in A /\ Len(x[1]) < MaxListed THEN Append(x[1], x[2]) ELSE x[1]]
<1>1. n \in Nat
  OBVIOUS
<1> HIDE DEF n, A
<1>2. f \in [Seq(Nat) \X (1..n) -> Seq(Nat)]
  <2>1. ASSUME NEW x \in Seq(Nat) \X (1..n)
        PROVE  (IF x[2] \in A /\ Len(x[1]) < MaxListed THEN Append(x[1], x[2]) ELSE x[1]) \in Seq(Nat)
    <3>1. PICK v \in Seq(Nat), k \in 1..n : x[1] = v /\ x[2] = k
      OBVIOUS
    <3>2. Append(v, k) \in Seq(Nat)
      BY <1>1
    <3> QED
      BY <3>1, <3>2
  <2> QED
    BY ONLY <2>1
<1>3. \A v \in Seq(Nat), k \in 1..n :
        f[<<v, k>>] = IF k \in A /\ Len(v) < MaxListed THEN Append(v, k) ELSE v
  OBVIOUS
<1> HIDE DEF f
<1>4. PICK g \in [0..n -> Seq(Nat)] : g = [k \in 0..n |-> IF k = 0 THEN <<>> ELSE f[<<g[k - 1], k>>]]
  <2>1. <<>> \in Seq(Nat)
    OBVIOUS
  <2>2. \E g \in [0..n -> Seq(Nat)] : Accumulates(g, n, f, <<>>)
    BY <1>1, <1>2, <2>1, Accumulation
  <2> QED
    BY <2>2 DEF Accumulates
<1>5. g = ListingBody(dir, bad, g)
  <2>1. ASSUME NEW k \in 0..n
        PROVE  g[k] = IF k = 0 THEN <<>>
                      ELSE IF k \in A /\ Len(g[k - 1]) < MaxListed THEN Append(g[k - 1], k)
                      ELSE g[k - 1]
    <3>1. CASE k = 0
      BY <1>1, <1>4, <3>1
    <3>2. CASE k # 0
      <4>1. k \in 1..n /\ k - 1 \in 0..n
        BY <1>1, <3>2
      <4>2. g[k] = f[<<g[k - 1], k>>] /\ g[k - 1] \in Seq(Nat)
        BY <1>4, <3>2, <4>1
      <4> QED
        BY <1>3, <3>2, <4>1, <4>2
    <3> QED
      BY <3>1, <3>2
  <2>2. g = [k \in 0..n |-> g[k]]
    OBVIOUS
  <2> QED
    BY <2>1, <2>2 DEF ListingBody, n, A
<1> DEFINE h == CHOOSE w : w = ListingBody(dir, bad, w)
<1>6. h = ListingBody(dir, bad, h)
  BY <1>5
<1>7. fat16_list_root(dir, bad) = h[n]
  BY DEF fat16_list_root, ListingBody, n
<1> HIDE DEF h
<1>8. DOMAIN h = 0..n
      /\ \A k \in 0..n : h[k] = IF k = 0 THEN <<>>
                                ELSE IF k \in A /\ Len(h[k - 1]) < MaxListed THEN Append(h[k - 1], k)
                                ELSE h[k - 1]
  <2>1. DOMAIN ListingBody(dir, bad, h) = 0..n
    BY DEF ListingBody, n
  <2>2. ASSUME NEW k \in 0..n
        PROVE  ListingBody(dir, bad, h)[k] =
                  IF k = 0 THEN <<>>
                  ELSE IF k \in A /\ Len(h[k - 1]) < MaxListed THEN Append(h[k - 1], k) ELSE h[k - 1]
    BY DEF ListingBody, n, A
  <2> QED
    BY <1>6, <2>1, <2>2
<1>9. \A k \in 0..n : h[k] \in Seq(Nat)
  <2> DEFINE T == {k \in Nat : k <= n => h[k] \in Seq(Nat)}
  <2>1. 0 \in T
    <3>1. 0 \in 0..n
      BY <1>1
    <3>2. h[0] = <<>>
      BY <1>8, <3>1
    <3>3. <<>> \in Seq(Nat)
      OBVIOUS
    <3> QED
      BY ONLY <3>2, <3>3
  <2>2. ASSUME NEW k \in Nat, k \in T PROVE k + 1 \in T
    <3>1. SUFFICES ASSUME k + 1 <= n PROVE h[k + 1] \in Seq(Nat)
      OBVIOUS
    <3>2. k + 1 \in 0..n /\ k + 1 # 0 /\ (k + 1) - 1 = k /\ k <= n
      BY <1>1, <3>1
    <3>3. PICK v \in Seq(Nat) : v = h[k]
      BY <2>2, <3>2
    <3>4. h[k + 1] = IF k + 1 \in A /\ Len(v) < MaxListed THEN Append(v, k + 1) ELSE v
      BY <1>8, <3>2, <3>3
    <3> QED
      BY <3>3, <3>4
  <2>3. Nat \subseteq T
    <3> HIDE DEF T
    <3> QED
      BY <2>1, <2>2, SetInduction
  <2> QED
    BY <2>3
<1>10. h \in [0..n -> Seq(Nat)] /\ h[0] = <<>>
  <2>1. h = [k \in 0..n |-> h[k]]
    BY <1>6, <1>8 DEF ListingBody, n
  <2>2. 0 \in 0..n
    BY <1>1
  <2> QED
    BY <1>8, <1>9, <2>1, <2>2
<1>11. ASSUME NEW k \in 1..n
       PROVE  h[k] = IF k \in A /\ Len(h[k - 1]) < MaxListed THEN Append(h[k - 1], k) ELSE h[k - 1]
  <2>1. k \in 0..n /\ k # 0
    BY <1>1
  <2> QED
    BY <1>8, <2>1
<1> QED
  BY <1>7, <1>10, <1>11 DEF Listing, n, A

\* One more place is one more of what a sequence has.
LEMMA RangeAppend ==
    ASSUME NEW v \in Seq(Nat), NEW k \in Nat PROVE Range(Append(v, k)) = Range(v) \cup {k}
<1> DEFINE a == Append(v, k)
<1>1. Len(a) = Len(v) + 1 /\ a \in Seq(Nat) /\ Len(v) \in Nat
  OBVIOUS
<1>2. \A i \in 1..Len(v) : a[i] = v[i]
  OBVIOUS
<1>3. a[Len(v) + 1] = k
  OBVIOUS
<1> HIDE DEF a
<1>4. Range(a) = {a[i] : i \in 1..Len(a)} /\ Range(v) = {v[i] : i \in 1..Len(v)}
  <2>1. DOMAIN a = 1..Len(a) /\ DOMAIN v = 1..Len(v)
    BY <1>1
  <2> QED
    BY ONLY <2>1, Zenon DEF Range
<1>5. \A i \in 1..Len(a) : i \in 1..Len(v) \/ i = Len(v) + 1
  BY <1>1
<1>6. Len(v) + 1 \in 1..Len(a) /\ \A i \in 1..Len(v) : i \in 1..Len(a)
  BY <1>1
<1> QED
  BY <1>2, <1>3, <1>4, <1>5, <1>6 DEF a

\* The listing has what the scan shows, and all of it unless there is no more room.
LEMMA ListedIsShown ==
    ASSUME NEW dir, NEW bad, Len(dir) \in Nat
    PROVE  /\ Range(fat16_list_root(dir, bad)) \subseteq Shown(dir, bad)
           /\ Len(fat16_list_root(dir, bad)) < MaxListed =>
                Range(fat16_list_root(dir, bad)) = Shown(dir, bad)
<1> DEFINE n == Len(dir)
           A == Shown(dir, bad)
<1>1. PICK h : Listing(dir, bad, h)
  BY ListingSteps
<1>2. /\ h \in [0..n -> Seq(Nat)] /\ h[0] = <<>> /\ fat16_list_root(dir, bad) = h[n]
      /\ \A k \in 1..n :
          h[k] = IF k \in A /\ Len(h[k - 1]) < MaxListed THEN Append(h[k - 1], k) ELSE h[k - 1]
  BY <1>1 DEF Listing
<1>3. A \subseteq 1..n
  BY DEF Shown, Reached
<1>4. n \in Nat
  OBVIOUS
<1> HIDE DEF n, A
<1> DEFINE Good(k) == Range(h[k]) \subseteq A
                      /\ (Len(h[k]) < MaxListed => Range(h[k]) = {m \in A : m <= k})
           T == {k \in Nat : k <= n => Good(k)}
<1>5. 0 \in T
  <2>1. Range(h[0]) = {}
    BY <1>2 DEF Range
  <2>2. \A m \in A : ~(m <= 0)
    BY <1>3, <1>4
  <2>3. {m \in A : m <= 0} = {}
    BY ONLY <2>2
  <2>4. 0 \in Nat
    OBVIOUS
  <2> QED
    BY <2>1, <2>3, <2>4
<1>6. ASSUME NEW k \in Nat, k \in T PROVE k + 1 \in T
  <2>1. SUFFICES ASSUME k + 1 <= n PROVE Good(k + 1)
    OBVIOUS
  <2>2. k + 1 \in 1..n /\ (k + 1) - 1 = k /\ k \in 0..n
    BY <1>4, <2>1
  <2>3. PICK v \in Seq(Nat) : v = h[k]
    BY <1>2, <2>2
  <2>4. h[k + 1] = IF k + 1 \in A /\ Len(v) < MaxListed THEN Append(v, k + 1) ELSE v
    BY <1>2, <2>2, <2>3
  <2>5. Range(v) \subseteq A /\ (Len(v) < MaxListed => Range(v) = {m \in A : m <= k})
    BY <1>6, <2>2, <2>3
  <2>6. {m \in A : m <= k + 1} = {m \in A : m <= k} \cup ({k + 1} \cap A)
    <3>1. \A m \in A : m <= k + 1 <=> m <= k \/ m = k + 1
      BY <1>3, <1>4
    <3> QED
      BY ONLY <3>1
  <2>7. CASE k + 1 \in A /\ Len(v) < MaxListed
    <3>1. Range(h[k + 1]) = Range(v) \cup {k + 1}
      BY <2>4, <2>7, RangeAppend
    <3> QED
      BY <2>5, <2>6, <2>7, <3>1
  <2>8. CASE k + 1 \notin A
    <3>1. h[k + 1] = v
      BY <2>4, <2>8
    <3> QED
      BY <2>5, <2>6, <2>8, <3>1
  <2>9. CASE ~(Len(v) < MaxListed)
    <3>1. h[k + 1] = v
      BY <2>4, <2>9
    <3> QED
      BY <2>5, <2>9, <3>1
  <2> QED
    BY <2>7, <2>8, <2>9
<1>7. Nat \subseteq T
  <2> HIDE DEF T
  <2> QED
    BY <1>5, <1>6, SetInduction
<1>8. Good(n)
  BY <1>4, <1>7
<1>9. {m \in A : m <= n} = A
  <2>1. \A m \in A : m <= n
    BY <1>3, <1>4
  <2> QED
    BY ONLY <2>1
<1> QED
  BY <1>2, <1>8, <1>9 DEF n, A

\* No two entries that a scan shows have the same name, in any case.
NamedApart(dir, bad) ==
    \A k, m \in Shown(dir, bad) :
        fat16_streq_ci(fat16_name_to_string(dir[k]), fat16_name_to_string(dir[m])) => k = m

\* The least number of a set.
LEMMA MinIs ==
    ASSUME NEW T, T \subseteq Nat, T # {}
    PROVE  Min(T) \in T /\ \A k \in T : Min(T) <= k
<1>1. \E m \in T : \A k \in T : m <= k
  BY LeastElement
<1> QED
  BY <1>1 DEF Min

\* Where names are apart, what is found is what the scan shows.
LEMMA FoundIsShown ==
    ASSUME NEW dir, NEW bad, Len(dir) \in Nat, NamedApart(dir, bad)
    PROVE  FoundIn(dir, bad) = Shown(dir, bad)
<1> DEFINE A == Shown(dir, bad)
           same(s) == {k \in A : fat16_streq_ci(fat16_name_to_string(dir[k]), s)}
<1>1. A \subseteq 1..Len(dir) /\ A \subseteq Nat
  BY DEF Shown, Reached
<1>2. \A s : fat16_find_in_root(dir, bad, s) = IF same(s) = {} THEN 0 ELSE Min(same(s))
  BY DEF fat16_find_in_root
<1>3. ASSUME NEW k \in A PROVE fat16_find_in_root(dir, bad, fat16_name_to_string(dir[k])) = k
  <2> DEFINE T == same(fat16_name_to_string(dir[k]))
  <2>1. fat16_streq_ci(fat16_name_to_string(dir[k]), fat16_name_to_string(dir[k]))
    BY DEF fat16_streq_ci
  <2>2. T = {k}
    BY <2>1 DEF NamedApart
  <2>3. T \subseteq Nat /\ T # {}
    BY <1>1, <2>2
  <2> HIDE DEF T
  <2>4. Min(T) = k
    BY <2>2, <2>3, MinIs
  <2> QED
    BY <1>2, <2>3, <2>4 DEF T
<1>4. ASSUME NEW k \in 1..Len(dir), fat16_find_in_root(dir, bad, fat16_name_to_string(dir[k])) = k
      PROVE  k \in A
  <2> DEFINE T == same(fat16_name_to_string(dir[k]))
  <2>1. k # 0
    OBVIOUS
  <2>2. T \subseteq A /\ T \subseteq Nat
    BY <1>1
  <2>3. k = IF T = {} THEN 0 ELSE Min(T)
    BY <1>2, <1>4
  <2> HIDE DEF T
  <2>4. T # {} /\ k = Min(T)
    BY <2>1, <2>3
  <2>5. k \in T
    BY <2>2, <2>4, MinIs
  <2> QED
    BY <2>2, <2>5
<1> QED
  BY <1>1, <1>3, <1>4 DEF FoundIn

\* "ls" lists what can be found and nothing else, for any directory without two entries of
\* a name, and whatever sectors of it cannot be read (fat16_list_root, fat16_find_in_root).
THEOREM ListedIsFound ==
    ASSUME NEW dir, NEW bad, Len(dir) \in Nat, NamedApart(dir, bad)
    PROVE  ListedIn(dir, bad)
<1> DEFINE A == Shown(dir, bad)
<1>1. FoundIn(dir, bad) = A
  BY FoundIsShown
<1>2. ASSUME bad = {}, NEW k \in 1..Len(dir), dir[k].kind \in {"file", "dir"}
      PROVE  k \in A \/ \E m \in 1..k : dir[m].kind = "end"
  BY <1>2 DEF Shown, Reached
<1> HIDE DEF A
<1> QED
  BY <1>1, <1>2, ListedIsShown DEF ListedIn, A

-----------------------------------------------------------------------------
\* Where fat16_init puts the areas of a volume.
\* More times p is more.
LEMMA ProductGrows ==
    ASSUME NEW i \in Nat, NEW j \in Nat, NEW p \in Nat, i <= j PROVE i * p <= j * p
<1>1. PICK m \in Nat : j = i + m
  <2>1. j - i \in Nat /\ j = i + (j - i)
    OBVIOUS
  <2> QED
    BY <2>1
<1>2. j * p = i * p + m * p
  BY <1>1
<1>3. m * p \in Nat /\ i * p \in Nat
  OBVIOUS
<1> QED
  BY <1>2, <1>3

\* A number is so many times p, and a rest.
LEMMA Divided ==
    ASSUME NEW n \in Nat, NEW p \in Nat \ {0}
    PROVE  /\ n \div p \in Nat /\ n % p \in 0..(p - 1)
           /\ n = (n \div p) * p + (n % p)
OBVIOUS

Sectors == [fats : Nat, per_cluster : Nat, per_fat : Nat, total : Nat, reserved : Nat,
            root_entries : Nat]

\* No area of a volume reaches into the next and no cluster out of the volume, and a
\* cluster's entry is in its copy of the FAT just if that has so many, for any boot sector
\* (fat16_init, fat16_get_next_cluster).
THEOREM AreasStayApart ==
    ASSUME NEW b \in Sectors, NEW start \in Nat PROVE Apart(b, start)
<1> SUFFICES ASSUME Mountable(b) PROVE
        LET l == Layout(b, start) IN
        /\ start <= l.fat_start /\ l.fat_start + b.fats * b.per_fat <= l.root_start
        /\ PerSector * (l.data_start - l.root_start) >= b.root_entries
        /\ \A c \in 2..(l.clusters + 1) :
            /\ ClusterAt(l, b, c) >= l.data_start
            /\ ClusterAt(l, b, c) + b.per_cluster <= l.end
            /\ \A copy \in 0..(b.fats - 1) :
                EntryAt(l, b, copy, c) < l.fat_start + (copy + 1) * b.per_fat
                    <=> c < b.per_fat * FatPerSector
  BY DEF Apart
<1> DEFINE l == Layout(b, start)
           area == b.fats * b.per_fat
           roots == (b.root_entries + PerSector - 1) \div PerSector
           room == IF l.end > l.data_start THEN l.end - l.data_start ELSE 0
<1>1. /\ b.fats \in Nat /\ b.per_cluster \in Nat \ {0} /\ b.per_fat \in Nat /\ b.total \in Nat
      /\ b.reserved \in Nat /\ b.root_entries \in Nat
  BY DEF Sectors, Mountable
<1>2. PerSector \in Nat \ {0} /\ FatPerSector \in Nat \ {0}
  BY NameAssumption
<1>3. area \in Nat
  BY <1>1
<1>4. roots \in Nat /\ roots * PerSector >= b.root_entries
  <2> DEFINE m == b.root_entries + PerSector - 1
  <2>1. m \in Nat /\ m >= b.root_entries + (PerSector - 1)
    BY <1>1, <1>2
  <2>2. roots = m \div PerSector
    OBVIOUS
  <2> HIDE DEF m, roots
  <2>3. /\ roots \in Nat /\ m % PerSector \in 0..(PerSector - 1)
        /\ m = roots * PerSector + (m % PerSector)
    BY <1>2, <2>1, <2>2, Divided
  <2> QED
    BY <1>1, <1>2, <2>1, <2>3
<1> HIDE DEF area, roots
<1>5. /\ l.fat_start = start + b.reserved /\ l.root_start = l.fat_start + area
      /\ l.data_start = l.root_start + roots /\ l.end = start + b.total
      /\ l.clusters = room \div b.per_cluster
  BY DEF Layout, area, roots
<1> HIDE DEF l
<1>6. /\ l.fat_start \in Nat /\ l.root_start \in Nat /\ l.data_start \in Nat /\ l.end \in Nat
      /\ room \in Nat
  BY <1>1, <1>3, <1>4, <1>5
<1> HIDE DEF room
<1>7. l.clusters \in Nat /\ l.clusters * b.per_cluster <= room
  <2>1. PICK p \in Nat \ {0} : p = b.per_cluster
    BY <1>1
  <2>2. l.clusters = room \div p
    BY <1>5, <2>1
  <2>3. room \div p \in Nat /\ room % p \in 0..(p - 1) /\ room = (room \div p) * p + (room % p)
    BY <1>6, <2>1, Divided
  <2>4. l.clusters * p <= room /\ l.clusters \in Nat
    BY <1>6, <2>1, <2>2, <2>3
  <2> QED
    BY <2>1, <2>4
<1>12. l.data_start < l.end => room = l.end - l.data_start
  BY <1>6 DEF room
<1>13. room > 0 => l.data_start < l.end
  BY <1>6 DEF room
<1>8. start <= l.fat_start /\ l.fat_start + area <= l.root_start
  BY <1>1, <1>3, <1>5
<1>9. PerSector * (l.data_start - l.root_start) >= b.root_entries
  BY <1>2, <1>4, <1>5, <1>6
<1>10. ASSUME NEW c \in 2..(l.clusters + 1)
       PROVE  ClusterAt(l, b, c) >= l.data_start /\ ClusterAt(l, b, c) + b.per_cluster <= l.end
  <2>1. c - 2 \in Nat /\ c - 1 \in Nat /\ c - 1 <= l.clusters
    BY <1>7
  <2>2. (c - 1) * b.per_cluster <= l.clusters * b.per_cluster
    BY <1>1, <1>7, <2>1, ProductGrows
  <2>3. (c - 1) * b.per_cluster = (c - 2) * b.per_cluster + b.per_cluster
    BY <1>1, <2>1
  <2>4. /\ (c - 2) * b.per_cluster \in Nat /\ (c - 1) * b.per_cluster \in Nat
        /\ l.clusters * b.per_cluster \in Nat
    BY <1>1, <1>7, <2>1
  <2>5. ClusterAt(l, b, c) = l.data_start + (c - 2) * b.per_cluster
    BY DEF ClusterAt
  <2>6. (c - 2) * b.per_cluster + b.per_cluster <= room /\ b.per_cluster > 0
    BY <1>1, <1>7, <1>6, <2>2, <2>3, <2>4
  <2> QED
    BY <1>1, <1>6, <1>12, <1>13, <2>4, <2>5, <2>6
<1>11. ASSUME NEW c \in 2..(l.clusters + 1), NEW copy \in 0..(b.fats - 1)
       PROVE  EntryAt(l, b, copy, c) < l.fat_start + (copy + 1) * b.per_fat
                  <=> c < b.per_fat * FatPerSector
  <2> DEFINE q == c \div FatPerSector
             r == c % FatPerSector
  <2>1. c \in Nat /\ copy \in Nat
    BY <1>7, <1>1
  <2>2. q \in Nat /\ r \in 0..(FatPerSector - 1) /\ c = q * FatPerSector + r
    BY <1>2, <2>1, Divided
  <2> HIDE DEF q, r
  <2>3. EntryAt(l, b, copy, c) = l.fat_start + copy * b.per_fat + q
    BY DEF EntryAt, q
  <2>4. (copy + 1) * b.per_fat = copy * b.per_fat + b.per_fat /\ copy * b.per_fat \in Nat
    BY <1>1, <2>1
  <2>5. EntryAt(l, b, copy, c) < l.fat_start + (copy + 1) * b.per_fat <=> q < b.per_fat
    BY <1>1, <1>6, <2>2, <2>3, <2>4
  <2>6. CASE q < b.per_fat
    <3>1. (q + 1) * FatPerSector <= b.per_fat * FatPerSector
      BY <1>1, <1>2, <2>2, <2>6, ProductGrows
    <3>2. (q + 1) * FatPerSector = q * FatPerSector + FatPerSector /\ q * FatPerSector \in Nat
          /\ b.per_fat * FatPerSector \in Nat
      BY <1>1, <1>2, <2>2
    <3> QED
      BY <1>2, <2>2, <2>5, <2>6, <3>1, <3>2
  <2>7. CASE ~(q < b.per_fat)
    <3>1. b.per_fat * FatPerSector <= q * FatPerSector
      BY <1>1, <1>2, <2>2, <2>7, ProductGrows
    <3>2. q * FatPerSector \in Nat /\ b.per_fat * FatPerSector \in Nat
      BY <1>1, <1>2, <2>2
    <3> QED
      BY <1>2, <2>2, <2>5, <2>7, <3>1, <3>2
  <2> QED
    BY <2>6, <2>7
<1> QED
  BY <1>8, <1>9, <1>10, <1>11 DEF l, area

-----------------------------------------------------------------------------
\* The bytes of a file.
\* Where sector n of a file ends, in bytes.
EndOf(n) == n * SectorBytes
Smaller(i, j) == IF i <= j THEN i ELSE j

\* The next sector ends a sector further.
LEMMA EndsOf ==
    /\ EndOf(0) = 0
    /\ \A n \in Nat : EndOf(n) \in Nat
    /\ \A n \in Nat \ {0} : EndOf(n) = EndOf(n - 1) + SectorBytes
<1>1. SectorBytes \in Nat \ {0}
  BY NameAssumption
<1>2. EndOf(0) = 0 /\ \A n \in Nat : EndOf(n) \in Nat
  BY <1>1 DEF EndOf
<1>3. ASSUME NEW n \in Nat \ {0} PROVE EndOf(n) = EndOf(n - 1) + SectorBytes
  <2>1. n * SectorBytes = (n - 1) * SectorBytes + SectorBytes
    BY <1>1
  <2> QED
    BY <2>1 DEF EndOf
<1> QED
  BY <1>2, <1>3

\* The lesser of two numbers.
LEMMA MinOfTwo ==
    ASSUME NEW i \in Nat, NEW j \in Nat PROVE Min({i, j}) = Smaller(i, j)
<1>1. {i, j} \subseteq Nat /\ {i, j} # {}
  OBVIOUS
<1> DEFINE m == Min({i, j})
<1>2. m \in {i, j} /\ \A k \in {i, j} : m <= k
  BY <1>1, MinIs
<1> HIDE DEF m
<1>3. (m = i \/ m = j) /\ m <= i /\ m <= j
  BY ONLY <1>2
<1>4. m = Smaller(i, j)
  BY <1>3 DEF Smaller
<1> QED
  BY <1>4 DEF m

\* The bytes of sector m of a file.
SectorOfFile(bytes, m) ==
    [k \in 1..SectorBytes |-> IF EndOf(m - 1) + k <= Len(bytes) THEN bytes[EndOf(m - 1) + k] ELSE 0]
\* The disk once the first n sectors of a file are written.
Written(bytes, places, old, n) ==
    [q \in DOMAIN old |->
        IF \E m \in 1..n : places[m] = q /\ EndOf(m - 1) < Len(bytes)
        THEN SectorOfFile(bytes, CHOOSE m \in 1..Len(places) : places[m] = q) ELSE old[q]]
\* Places for a file on a disk: as many as it needs, and no two the same.
FileRoom(bytes, places, old) ==
    /\ Len(bytes) \in Nat /\ Len(places) \in Nat
    /\ \A m \in 1..Len(places) : places[m] \in DOMAIN old
    /\ \A m, n \in 1..Len(places) : places[m] = places[n] => m = n
    /\ old = [q \in DOMAIN old |-> old[q]]

\* A place is that of one sector of the file.
LEMMA PlaceIs ==
    ASSUME NEW bytes, NEW places, NEW old, FileRoom(bytes, places, old),
           NEW n \in 1..Len(places)
    PROVE  (CHOOSE m \in 1..Len(places) : places[m] = places[n]) = n
BY DEF FileRoom

\* The next sector of the file is written, if there is one.
LEMMA WriteStep ==
    ASSUME NEW bytes, NEW places, NEW old, FileRoom(bytes, places, old),
           NEW n \in 1..Len(places)
    PROVE  Written(bytes, places, old, n) =
               IF EndOf(n - 1) >= Len(bytes) THEN Written(bytes, places, old, n - 1)
               ELSE [Written(bytes, places, old, n - 1) EXCEPT ![places[n]] = SectorOfFile(bytes, n)]
<1> DEFINE L == Len(bytes)
           W(k) == Written(bytes, places, old, k)
           In(k, q) == \E m \in 1..k : places[m] = q /\ EndOf(m - 1) < L
           S(q) == SectorOfFile(bytes, CHOOSE m \in 1..Len(places) : places[m] = q)
<1>1. /\ L \in Nat /\ n \in Nat \ {0} /\ n - 1 \in Nat /\ EndOf(n - 1) \in Nat
      /\ n <= Len(places) /\ Len(places) \in Nat
  BY EndsOf DEF FileRoom
<1>2. \A k : W(k) = [q \in DOMAIN old |-> IF In(k, q) THEN S(q) ELSE old[q]]
  BY Zenon DEF Written
<1>3. S(places[n]) = SectorOfFile(bytes, n)
  BY PlaceIs
<1>4. places[n] \in DOMAIN old
  BY DEF FileRoom
<1>5. \A m : m \in 1..n <=> m \in 1..(n - 1) \/ m = n
  BY <1>1
<1>6. \A q : In(n, q) <=> In(n - 1, q) \/ (places[n] = q /\ EndOf(n - 1) < L)
  BY ONLY <1>5, Zenon
<1>7. CASE EndOf(n - 1) >= L
  <2>1. ~(EndOf(n - 1) < L)
    BY <1>1, <1>7
  <2>2. \A q : In(n, q) <=> In(n - 1, q)
    BY ONLY <1>6, <2>1, Zenon
  <2> HIDE DEF In, S
  <2>3. W(n) = W(n - 1)
    BY ONLY <1>2, <2>2, Zenon
  <2> QED
    BY <1>7, <2>3
<1>8. CASE ~(EndOf(n - 1) >= L)
  <2>1. EndOf(n - 1) < L
    BY <1>1, <1>8
  <2>2. \A q : In(n, q) <=> In(n - 1, q) \/ places[n] = q
    BY ONLY <1>6, <2>1, Zenon
  <2> HIDE DEF In, S
  <2> DEFINE V == [W(n - 1) EXCEPT ![places[n]] = SectorOfFile(bytes, n)]
  <2>3. V = [q \in DOMAIN old |-> IF q = places[n] THEN SectorOfFile(bytes, n) ELSE W(n - 1)[q]]
    BY <1>2, <1>4
  <2>4. ASSUME NEW q \in DOMAIN old
        PROVE  (IF In(n, q) THEN S(q) ELSE old[q]) =
               (IF q = places[n] THEN SectorOfFile(bytes, n) ELSE W(n - 1)[q])
    <3>1. W(n - 1)[q] = IF In(n - 1, q) THEN S(q) ELSE old[q]
      BY <1>2
    <3>2. CASE q = places[n]
      <4>1. In(n, q) /\ S(q) = SectorOfFile(bytes, n)
        BY ONLY <1>3, <2>2, <3>2
      <4> QED
        BY ONLY <3>2, <4>1
    <3>3. CASE q # places[n]
      <4>1. In(n, q) <=> In(n - 1, q)
        BY ONLY <2>2, <3>3
      <4> QED
        BY ONLY <3>1, <3>3, <4>1
    <3> QED
      BY ONLY <3>2, <3>3
  <2>5. W(n) = V
    <3> HIDE DEF V, W
    <3> QED
      BY ONLY <1>2, <2>3, <2>4, Zenon
  <2> QED
    BY ONLY <1>8, <2>5
<1> QED
  BY ONLY <1>7, <1>8

\* What one turn of the loop makes of the number of bytes done and of the disk.
PutNext(bytes, places, s, n) ==
    IF s.done >= Len(bytes) THEN s ELSE
    [done |-> s.done + Piece(s.done, Len(bytes)),
     to |-> [s.to EXCEPT ![places[n]] = [k \in 1..SectorBytes |->
                IF s.done + k <= Len(bytes) THEN bytes[s.done + k] ELSE 0]]]
PutBody(bytes, places, old, w) ==
    [n \in 0..Len(places) |->
        IF n = 0 THEN [done |-> 0, to |-> old] ELSE PutNext(bytes, places, w[n - 1], n)]

PutState(bytes, places, old, n) ==
    [done |-> Smaller(EndOf(n), Len(bytes)), to |-> Written(bytes, places, old, n)]

\* So do the turns of the loop.
LEMMA PutSteps ==
    ASSUME NEW bytes, NEW places, NEW old, FileRoom(bytes, places, old)
    PROVE  /\ PutState(bytes, places, old, 0) = [done |-> 0, to |-> old]
           /\ \A n \in 1..Len(places) :
                PutState(bytes, places, old, n) =
                    PutNext(bytes, places, PutState(bytes, places, old, n - 1), n)
<1> DEFINE L == Len(bytes)
           W(k) == Written(bytes, places, old, k)
<1>1. L \in Nat /\ SectorBytes \in Nat \ {0}
  BY NameAssumption DEF FileRoom
<1>2. PutState(bytes, places, old, 0) = [done |-> 0, to |-> old]
  <2>1. Smaller(EndOf(0), L) = 0
    BY <1>1, EndsOf DEF Smaller
  <2>2. \A q : ~\E m \in 1..0 : places[m] = q /\ EndOf(m - 1) < L
    OBVIOUS
  <2>3. W(0) = [q \in DOMAIN old |-> old[q]]
    BY ONLY <2>2, Zenon DEF Written
  <2>4. W(0) = old
    BY <2>3 DEF FileRoom
  <2> QED
    BY ONLY <2>1, <2>4 DEF PutState
<1>3. ASSUME NEW n \in 1..Len(places), NEW s, s = PutState(bytes, places, old, n - 1)
      PROVE  PutState(bytes, places, old, n) =
                IF s.done >= L THEN s ELSE
                [done |-> s.done + Piece(s.done, L),
                 to |-> [s.to EXCEPT ![places[n]] = [k \in 1..SectorBytes |->
                            IF s.done + k <= L THEN bytes[s.done + k] ELSE 0]]]
  <2>1. n \in Nat \ {0} /\ n - 1 \in Nat
    BY DEF FileRoom
  <2>2. /\ EndOf(n - 1) \in Nat /\ EndOf(n) \in Nat /\ EndOf(n) = EndOf(n - 1) + SectorBytes
    BY <2>1, EndsOf
  <2>3. s.done = Smaller(EndOf(n - 1), L) /\ s.to = W(n - 1) /\ s = [done |-> s.done, to |-> s.to]
    BY <1>3 DEF PutState
  <2>4. W(n) = IF EndOf(n - 1) >= L THEN W(n - 1)
               ELSE [W(n - 1) EXCEPT ![places[n]] = SectorOfFile(bytes, n)]
    BY WriteStep
  <2> HIDE DEF W, L
  <2>5. CASE s.done >= L
    <3>1. EndOf(n - 1) >= L /\ s.done = L /\ Smaller(EndOf(n), L) = L
      BY <1>1, <2>2, <2>3, <2>5 DEF Smaller
    <3>2. PutState(bytes, places, old, n) = [done |-> L, to |-> W(n - 1)]
      BY ONLY <2>4, <3>1 DEF PutState, W, L
    <3> QED
      BY ONLY <2>3, <2>5, <3>1, <3>2
  <2>6. CASE ~(s.done >= L)
    <3>1. ~(EndOf(n - 1) >= L) /\ s.done = EndOf(n - 1)
      BY <1>1, <2>2, <2>3, <2>6 DEF Smaller
    <3>2. Piece(s.done, L) = Smaller(SectorBytes, L - s.done)
      <4>1. L - s.done \in Nat
        BY <1>1, <2>2, <3>1
      <4> QED
        BY <1>1, <4>1, MinOfTwo DEF Piece
    <3>3. Smaller(EndOf(n), L) = s.done + Piece(s.done, L)
      <4>1. Smaller(EndOf(n), L) = EndOf(n - 1) + Smaller(SectorBytes, L - EndOf(n - 1))
        BY <1>1, <2>2, <3>1 DEF Smaller
      <4> QED
        BY ONLY <3>1, <3>2, <4>1
    <3>4. SectorOfFile(bytes, n) = [k \in 1..SectorBytes |->
                            IF s.done + k <= L THEN bytes[s.done + k] ELSE 0]
      BY ONLY <3>1, Zenon DEF SectorOfFile, L
    <3>5. W(n) = [s.to EXCEPT ![places[n]] = [k \in 1..SectorBytes |->
                            IF s.done + k <= L THEN bytes[s.done + k] ELSE 0]]
      BY ONLY <2>3, <2>4, <3>1, <3>4
    <3>6. PutState(bytes, places, old, n) = [done |-> Smaller(EndOf(n), L), to |-> W(n)]
      BY DEF PutState, W, L
    <3> QED
      BY ONLY <2>6, <3>3, <3>5, <3>6
  <2> QED
    BY ONLY <2>5, <2>6
<1> QED
  BY ONLY <1>2, <1>3, Zenon DEF PutNext, L

\* fat16_write_file puts each sector of the file in its place, and touches no other place.
LEMMA PutIs ==
    ASSUME NEW bytes, NEW places, NEW old, FileRoom(bytes, places, old)
    PROVE  Put(bytes, places, old) = Written(bytes, places, old, Len(places))
<1> DEFINE N == Len(places)
           p == [n \in 0..N |-> PutState(bytes, places, old, n)]
           h == CHOOSE w : w = PutBody(bytes, places, old, w)
<1>1. N \in Nat
  BY DEF FileRoom
<1>2. Put(bytes, places, old) = h[N].to
  BY Zenon DEF Put, PutBody, PutNext
<1>3. p = PutBody(bytes, places, old, p)
  <2>1. ASSUME NEW n \in 0..N PROVE p[n] = PutBody(bytes, places, old, p)[n]
    <3>1. CASE n = 0
      BY <3>1, PutSteps DEF PutBody
    <3>2. CASE n # 0
      <4>1. n \in 1..N /\ n - 1 \in 0..N
        BY <1>1, <3>2
      <4>2. p[n - 1] = PutState(bytes, places, old, n - 1) /\ p[n] = PutState(bytes, places, old, n)
        BY <4>1
      <4>3. PutState(bytes, places, old, n) =
                PutNext(bytes, places, PutState(bytes, places, old, n - 1), n)
        BY ONLY <4>1, PutSteps, FileRoom(bytes, places, old)
      <4> HIDE DEF p
      <4> QED
        BY ONLY <3>2, <4>2, <4>3, n \in 0..N, Zenon DEF PutBody
    <3> QED
      BY <3>1, <3>2
  <2> DEFINE b == PutBody(bytes, places, old, p)
  <2>2. p = [n \in 0..N |-> p[n]]
    OBVIOUS
  <2> HIDE DEF p
  <2>3. b = [n \in 0..N |-> b[n]]
    BY Zenon DEF PutBody
  <2>4. \A n \in 0..N : p[n] = b[n]
    BY <2>1
  <2> HIDE DEF b
  <2>5. p = b
    BY ONLY <2>2, <2>3, <2>4, Zenon
  <2> QED
    BY <2>5 DEF b
<1>4. h = PutBody(bytes, places, old, h)
  <2> HIDE DEF p
  <2> QED
    BY <1>3, Zenon
<1> HIDE DEF h
<1> DEFINE T == {n \in Nat : n <= N => h[n] = PutState(bytes, places, old, n)}
<1>5. 0 \in T
  <2>1. 0 \in 0..N
    BY <1>1
  <2>2. h[0] = [done |-> 0, to |-> old]
    <3>1. PutBody(bytes, places, old, h)[0] = [done |-> 0, to |-> old]
      BY <2>1, Zenon DEF PutBody
    <3> QED
      BY ONLY <1>4, <3>1
  <2> QED
    BY <2>2, PutSteps
<1>6. ASSUME NEW n \in Nat, n \in T PROVE n + 1 \in T
  <2>1. SUFFICES ASSUME n + 1 <= N PROVE h[n + 1] = PutState(bytes, places, old, n + 1)
    OBVIOUS
  <2>2. n + 1 \in 0..N /\ n + 1 \in 1..N /\ n + 1 # 0 /\ (n + 1) - 1 = n /\ n <= N
    BY <1>1, <2>1
  <2> DEFINE s == PutState(bytes, places, old, n)
  <2>3. h[n] = s
    BY <1>6, <2>2
  <2>4. PutBody(bytes, places, old, h)[n + 1] = PutNext(bytes, places, s, n + 1)
    BY ONLY <2>2, <2>3, Zenon DEF PutBody
  <2>5. PutState(bytes, places, old, n + 1) = PutNext(bytes, places, s, n + 1)
    BY ONLY <2>2, PutSteps, FileRoom(bytes, places, old)
  <2> HIDE DEF s
  <2>6. h[n + 1] = PutBody(bytes, places, old, h)[n + 1]
    BY ONLY <1>4
  <2> QED
    BY ONLY <2>4, <2>5, <2>6
<1>7. Nat \subseteq T
  <2> HIDE DEF T
  <2> QED
    BY <1>5, <1>6, SetInduction
<1>8. h[N] = PutState(bytes, places, old, N)
  BY <1>1, <1>7
<1> QED
  BY <1>2, <1>8 DEF PutState

\* The front of a text and the piece that follows it are a longer front.
LEMMA PiecesJoin ==
    ASSUME NEW B, NEW s \in Seq(B), NEW t \in Seq(B), NEW i \in Nat, NEW j \in Nat,
           i + j <= Len(s), j <= Len(t), \A k \in 1..j : t[k] = s[i + k]
    PROVE  SubSeq(s, 1, i) \o SubSeq(t, 1, j) = SubSeq(s, 1, i + j)
<1> DEFINE u == SubSeq(s, 1, i)
           v == SubSeq(t, 1, j)
           w == SubSeq(s, 1, i + j)
<1>1. /\ u \in Seq(B) /\ Len(u) = i /\ \A k \in 1..i : u[k] = s[k]
      /\ v \in Seq(B) /\ Len(v) = j /\ \A k \in 1..j : v[k] = t[k]
      /\ w \in Seq(B) /\ Len(w) = i + j /\ \A k \in 1..(i + j) : w[k] = s[k]
  OBVIOUS
<1> HIDE DEF u, v, w
<1> DEFINE x == u \o v
<1>2. /\ x \in Seq(B) /\ Len(x) = Len(u) + Len(v)
      /\ \A k \in 1..(Len(u) + Len(v)) : x[k] = IF k <= Len(u) THEN u[k] ELSE v[k - Len(u)]
  <2>1. u \in Seq(B) /\ v \in Seq(B)
    BY <1>1
  <2> QED
    BY ONLY <2>1, ConcatProperties
<1> HIDE DEF x
<1>3. ASSUME NEW k \in 1..(i + j) PROVE x[k] = w[k]
  <2>1. x[k] = IF k <= i THEN u[k] ELSE v[k - i]
    BY ONLY <1>1, <1>2, k \in 1..(i + j)
  <2>2. w[k] = s[k]
    BY ONLY <1>1, k \in 1..(i + j)
  <2>3. CASE k <= i
    <3>1. k \in 1..i
      BY <2>3
    <3>2. u[k] = s[k]
      BY ONLY <1>1, <3>1
    <3> QED
      BY ONLY <2>1, <2>2, <2>3, <3>2
  <2>4. CASE ~(k <= i)
    <3>1. k - i \in 1..j /\ i + (k - i) = k
      BY <2>4
    <3>2. v[k - i] = t[k - i]
      BY ONLY <1>1, <3>1
    <3>3. t[k - i] = s[k]
      BY ONLY <3>1, \A m \in 1..j : t[m] = s[i + m]
    <3> QED
      BY ONLY <2>1, <2>2, <2>4, <3>2, <3>3
  <2> QED
    BY ONLY <2>3, <2>4
<1>4. x = w
  BY ONLY <1>1, <1>2, <1>3, SeqEqual
<1> QED
  BY ONLY <1>4 DEF u, v, w, x

GetNext(places, sectors, r, got, n) ==
    IF Len(got) >= r THEN got
    ELSE got \o SubSeq(sectors[places[n]], 1, Piece(Len(got), r))
GetBody(places, sectors, r, w) ==
    [n \in 0..Len(places) |-> IF n = 0 THEN <<>> ELSE GetNext(places, sectors, r, w[n - 1], n)]
\* The first r bytes of a file, as far as its first n sectors have them.
Got(bytes, r, n) == SubSeq(bytes, 1, Smaller(EndOf(n), r))

\* Each turn of the loop adds the piece of its sector.
LEMMA GetSteps ==
    ASSUME NEW B, NEW bytes \in Seq(B), NEW places, Len(places) \in Nat, NEW sectors,
           NEW r \in 0..Len(bytes),
           \A n \in 1..Len(places) :
               EndOf(n - 1) < Len(bytes) => sectors[places[n]] = SectorOfFile(bytes, n)
    PROVE  /\ Got(bytes, r, 0) = <<>>
           /\ \A n \in 1..Len(places) :
                Got(bytes, r, n) = GetNext(places, sectors, r, Got(bytes, r, n - 1), n)
<1> DEFINE L == Len(bytes)
<1>1. L \in Nat /\ r \in Nat /\ r <= L /\ SectorBytes \in Nat \ {0}
  BY NameAssumption
<1>2. Got(bytes, r, 0) = <<>>
  <2>1. Smaller(EndOf(0), r) = 0
    BY <1>1, EndsOf DEF Smaller
  <2>2. SubSeq(bytes, 1, 0) = <<>>
    OBVIOUS
  <2> QED
    BY ONLY <2>1, <2>2 DEF Got
<1>3. ASSUME NEW n \in 1..Len(places)
      PROVE  Got(bytes, r, n) = GetNext(places, sectors, r, Got(bytes, r, n - 1), n)
  <2> DEFINE s == Got(bytes, r, n - 1)
             e == EndOf(n - 1)
             j == Piece(e, r)
  <2>1. n \in Nat \ {0} /\ n - 1 \in Nat
    OBVIOUS
  <2>2. e \in Nat /\ EndOf(n) \in Nat /\ EndOf(n) = e + SectorBytes
    BY <2>1, EndsOf
  <2>3. Smaller(e, r) \in 0..L
    BY <1>1, <2>2 DEF Smaller
  <2>4. Len(s) = Smaller(e, r)
    <3> DEFINE m == Smaller(e, r)
    <3>1. m \in 0..L
      BY <2>3
    <3> HIDE DEF m
    <3>2. Len(SubSeq(bytes, 1, m)) = m
      BY <3>1
    <3> QED
      BY ONLY <3>2 DEF Got, m
  <2>5. CASE e >= r
    <3>1. Smaller(e, r) = r /\ Smaller(EndOf(n), r) = r
      BY <1>1, <2>2, <2>5 DEF Smaller
    <3>2. Got(bytes, r, n) = s /\ Len(s) >= r
      <4>1. r >= r
        BY <1>1
      <4> QED
        BY ONLY <2>4, <3>1, <4>1 DEF Got
    <3> QED
      BY ONLY <3>2 DEF GetNext
  <2>6. CASE ~(e >= r)
    <3>1. e < r /\ e < L /\ Smaller(e, r) = e
      BY <1>1, <2>2, <2>6 DEF Smaller
    <3>2. j = Smaller(SectorBytes, r - e)
      <4>1. r - e \in Nat
        BY <1>1, <2>2, <3>1
      <4> QED
        BY <1>1, <4>1, MinOfTwo DEF Piece
    <3> HIDE DEF j
    <3>3. j \in Nat /\ j <= SectorBytes /\ e + j <= L /\ Smaller(EndOf(n), r) = e + j
      BY <1>1, <2>2, <3>1, <3>2 DEF Smaller
    <3> DEFINE t == SectorOfFile(bytes, n)
               C == B \cup {0}
    <3>4. bytes \in Seq(C)
      OBVIOUS
    <3>5. t \in [1..SectorBytes -> C]
      <4>1. ASSUME NEW k \in 1..SectorBytes
            PROVE  (IF e + k <= Len(bytes) THEN bytes[e + k] ELSE 0) \in C
        <5>1. e + k <= Len(bytes) => e + k \in 1..Len(bytes)
          BY <1>1, <2>2
        <5> QED
          BY <5>1
      <4> QED
        BY <4>1 DEF SectorOfFile
    <3>6. ASSUME NEW k \in 1..j PROVE t[k] = bytes[e + k]
      <4>1. k \in 1..SectorBytes /\ e + k <= Len(bytes)
        BY <1>1, <2>2, <3>3
      <4> QED
        BY <4>1 DEF SectorOfFile
    <3> HIDE DEF t, C
    <3>7. t \in Seq(C) /\ Len(t) = SectorBytes
      BY <1>1, <3>5
    <3> HIDE DEF e
    <3>8. SubSeq(bytes, 1, e) \o SubSeq(t, 1, j) = SubSeq(bytes, 1, e + j)
      BY <2>2, <3>3, <3>4, <3>6, <3>7, PiecesJoin
    <3>9. s = SubSeq(bytes, 1, e) /\ Got(bytes, r, n) = SubSeq(bytes, 1, e + j) /\ Len(s) = e
      BY ONLY <2>4, <3>1, <3>3 DEF Got, e
    <3>10. sectors[places[n]] = t
      BY <3>1 DEF t, e
    <3>11. ~(Len(s) >= r)
      BY ONLY <2>6, <3>9
    <3> HIDE DEF s
    <3>12. Got(bytes, r, n) = s \o SubSeq(sectors[places[n]], 1, Piece(Len(s), r))
      BY ONLY <3>8, <3>9, <3>10 DEF j
    <3>13. Got(bytes, r, n) = GetNext(places, sectors, r, s, n)
      BY ONLY <3>11, <3>12 DEF GetNext
    <3> QED
      BY ONLY <3>13 DEF s
  <2> QED
    BY ONLY <2>5, <2>6
<1> QED
  BY ONLY <1>2, <1>3

\* fat16_read_file puts them together again.
LEMMA GetIs ==
    ASSUME NEW B, NEW bytes \in Seq(B), NEW places, Len(places) \in Nat, NEW sectors,
           NEW cap \in Nat,
           \A n \in 1..Len(places) :
               EndOf(n - 1) < Len(bytes) => sectors[places[n]] = SectorOfFile(bytes, n),
           EndOf(Len(places)) >= Len(bytes)
    PROVE  Get(Len(bytes), places, sectors, cap) = SubSeq(bytes, 1, Smaller(Len(bytes), cap))
<1> DEFINE N == Len(places)
           r == Min({Len(bytes), cap})
           p == [n \in 0..N |-> Got(bytes, r, n)]
           h == CHOOSE w : w = GetBody(places, sectors, r, w)
<1>1. N \in Nat /\ Len(bytes) \in Nat
  OBVIOUS
<1>2. Get(Len(bytes), places, sectors, cap) = h[N]
  BY Zenon DEF Get, GetBody, GetNext
<1>3. r = Smaller(Len(bytes), cap)
  BY <1>1, MinOfTwo
<1> HIDE DEF r
<1>4. r \in 0..Len(bytes) /\ r \in Nat /\ r <= Len(bytes)
  BY <1>1, <1>3 DEF Smaller
<1>5. /\ Got(bytes, r, 0) = <<>>
      /\ \A n \in 1..N : Got(bytes, r, n) = GetNext(places, sectors, r, Got(bytes, r, n - 1), n)
  BY <1>4, GetSteps
<1>6. p = GetBody(places, sectors, r, p)
  <2> DEFINE b == GetBody(places, sectors, r, p)
  <2>1. ASSUME NEW n \in 0..N PROVE p[n] = b[n]
    <3>1. /\ p[n] = Got(bytes, r, n)
          /\ b[n] = IF n = 0 THEN <<>> ELSE GetNext(places, sectors, r, p[n - 1], n)
      BY Zenon DEF GetBody
    <3>2. CASE n = 0
      BY <1>5, <3>1, <3>2
    <3>3. CASE n # 0
      <4>1. n \in 1..N /\ n - 1 \in 0..N
        BY <1>1, <3>3
      <4>2. p[n - 1] = Got(bytes, r, n - 1)
        BY <4>1
      <4> HIDE DEF p, b
      <4> QED
        BY <1>5, <3>1, <3>3, <4>1, <4>2
    <3> QED
      BY <3>2, <3>3
  <2>2. p = [n \in 0..N |-> p[n]]
    OBVIOUS
  <2> HIDE DEF p
  <2>3. b = [n \in 0..N |-> b[n]]
    BY Zenon DEF GetBody
  <2>4. \A n \in 0..N : p[n] = b[n]
    BY <2>1
  <2> HIDE DEF b
  <2>5. p = b
    BY ONLY <2>2, <2>3, <2>4, Zenon
  <2> QED
    BY <2>5 DEF b
<1>7. h = GetBody(places, sectors, r, h)
  <2> HIDE DEF p
  <2> QED
    BY <1>6, Zenon
<1> HIDE DEF h, p
<1>8. \A n \in 0..N : h[n] = IF n = 0 THEN <<>> ELSE GetNext(places, sectors, r, h[n - 1], n)
  <2>1. \A n \in 0..N : GetBody(places, sectors, r, h)[n] =
                            IF n = 0 THEN <<>> ELSE GetNext(places, sectors, r, h[n - 1], n)
    BY Zenon DEF GetBody
  <2> QED
    BY ONLY <1>7, <2>1
<1> DEFINE T == {n \in Nat : n <= N => h[n] = Got(bytes, r, n)}
<1>9. 0 \in T
  <2>1. 0 \in 0..N
    BY <1>1
  <2>2. h[0] = <<>>
    BY <1>8, <2>1
  <2> QED
    BY <1>5, <2>2
<1>10. ASSUME NEW n \in Nat, n \in T PROVE n + 1 \in T
  <2>1. SUFFICES ASSUME n + 1 <= N PROVE h[n + 1] = Got(bytes, r, n + 1)
    OBVIOUS
  <2>2. n + 1 \in 0..N /\ n + 1 \in 1..N /\ n + 1 # 0 /\ (n + 1) - 1 = n /\ n <= N
    BY <1>1, <2>1
  <2>3. h[n] = Got(bytes, r, n)
    BY <1>10, <2>2
  <2>4. h[n + 1] = GetNext(places, sectors, r, h[n], n + 1)
    BY ONLY <1>8, <2>2
  <2>5. Got(bytes, r, n + 1) = GetNext(places, sectors, r, Got(bytes, r, n), n + 1)
    BY ONLY <1>5, <2>2
  <2> QED
    BY ONLY <2>3, <2>4, <2>5
<1>11. Nat \subseteq T
  <2> HIDE DEF T
  <2> QED
    BY <1>9, <1>10, SetInduction
<1>12. h[N] = Got(bytes, r, N)
  BY <1>1, <1>11
<1>13. Smaller(EndOf(N), r) = r
  <2>1. EndOf(N) \in Nat
    BY <1>1, EndsOf
  <2> QED
    BY <1>1, <1>4, <2>1 DEF Smaller
<1> QED
  BY ONLY <1>2, <1>3, <1>12, <1>13 DEF Got

\* What was put into places is got from them, as far as the buffer goes.
LEMMA PlacesReadBack ==
    ASSUME NEW B, NEW bytes \in Seq(B), NEW places, NEW old, NEW cap \in Nat,
           FileRoom(bytes, places, old), EndOf(Len(places)) >= Len(bytes),
           Range(places) = {places[n] : n \in 1..Len(places)}
    PROVE  Kept(bytes, places, old, cap)
<1> DEFINE N == Len(places)
           new == Put(bytes, places, old)
<1>1. N \in Nat /\ Len(bytes) \in Nat
  BY DEF FileRoom
<1>2. new = Written(bytes, places, old, N)
  BY PutIs
<1> HIDE DEF new
<1>3. ASSUME NEW n \in 1..N, EndOf(n - 1) < Len(bytes)
      PROVE  new[places[n]] = SectorOfFile(bytes, n)
  <2>1. places[n] \in DOMAIN old
    BY DEF FileRoom
  <2>2. (CHOOSE m \in 1..N : places[m] = places[n]) = n
    BY PlaceIs
  <2>3. new[places[n]] = SectorOfFile(bytes, CHOOSE m \in 1..N : places[m] = places[n])
    BY ONLY <1>2, <1>3, n \in 1..N, <2>1, Zenon DEF Written
  <2> QED
    BY ONLY <2>2, <2>3
<1>4. ASSUME NEW q \in DOMAIN old \ Range(places) PROVE new[q] = old[q]
  <2>1. \A n \in 1..N : places[n] # q
    OBVIOUS
  <2> QED
    BY ONLY <1>2, q \in DOMAIN old \ Range(places), <2>1, Zenon DEF Written
<1> DEFINE text == Get(Len(bytes), places, new, cap)
<1>5. text = SubSeq(bytes, 1, Smaller(Len(bytes), cap))
  BY <1>1, <1>3, GetIs
<1> HIDE DEF text
<1>6. Len(text) = Smaller(Len(bytes), cap)
  <2> DEFINE m == Smaller(Len(bytes), cap)
  <2>1. m \in 0..Len(bytes)
    BY <1>1 DEF Smaller
  <2> HIDE DEF m
  <2>2. Len(SubSeq(bytes, 1, m)) = m
    BY <2>1
  <2> QED
    BY ONLY <1>5, <2>2 DEF m
<1>7. (Len(text) < Len(bytes)) <=> (Len(bytes) > cap)
  BY <1>1, <1>6 DEF Smaller
<1>8. Min({Len(bytes), cap}) = Smaller(Len(bytes), cap)
  BY <1>1, MinOfTwo
<1>9. Cat(Len(bytes), places, new, cap) = [text |-> text, cut |-> Len(text) < Len(bytes)]
  BY Zenon DEF Cat, text
<1>10. Cat(Len(bytes), places, new, cap) =
            [text |-> SubSeq(bytes, 1, Min({Len(bytes), cap})), cut |-> Len(bytes) > cap]
  <2>1. (Len(text) < Len(bytes)) = (Len(bytes) > cap)
    BY <1>7
  <2> QED
    BY ONLY <1>5, <1>8, <1>9, <2>1, Zenon
<1> QED
  BY ONLY <1>4, <1>10, Zenon DEF Kept, new

\* A number falls into a multiple of p and a rest below p in one way only.
Parts(n, p, i, q) == i \in Nat /\ q \in 0..(p - 1) /\ n = i * p + q

LEMMA DividedOnce ==
    ASSUME NEW p \in Nat \ {0}, NEW k, NEW i, NEW j, NEW q, NEW r,
           Parts(k, p, i, q), Parts(k, p, j, r)
    PROVE  i = j /\ q = r
<1>0. /\ i \in Nat /\ j \in Nat /\ q \in 0..(p - 1) /\ r \in 0..(p - 1)
      /\ i * p + q = j * p + r
  BY DEF Parts
<1>1. ASSUME NEW m \in Nat, NEW n \in Nat, NEW x \in 0..(p - 1), NEW y \in 0..(p - 1),
             m * p + x = n * p + y, m < n
      PROVE  FALSE
  <2>1. (m + 1) * p <= n * p
    BY <1>1, ProductGrows
  <2>2. (m + 1) * p = m * p + p /\ m * p \in Nat /\ n * p \in Nat
    OBVIOUS
  <2> QED
    BY <1>1, <2>1, <2>2
<1>2. ~(i < j) /\ ~(j < i)
  BY <1>0, <1>1
<1>3. i = j
  BY <1>0, <1>2
<1>4. i * p \in Nat
  BY <1>0
<1> QED
  BY <1>0, <1>3, <1>4

\* Clusters that are apart make places that are apart.
LEMMA PlacesApart ==
    ASSUME NEW chain, NEW l, NEW b, Len(chain) \in Nat, l.data_start \in Nat,
           b.per_cluster \in Nat \ {0},
           \A i \in 1..Len(chain) : chain[i] \in Nat \ {0, 1},
           \A i, j \in 1..Len(chain) : chain[i] = chain[j] => i = j
    PROVE  LET places == Places(chain, l, b) IN
           /\ Len(places) = Len(chain) * b.per_cluster /\ Len(places) \in Nat
           /\ DOMAIN places = 1..Len(places)
           /\ \A n \in 1..Len(places) :
                \E i \in 1..Len(chain), q \in 0..(b.per_cluster - 1) :
                    places[n] = ClusterAt(l, b, chain[i]) + q
           /\ \A m, n \in 1..Len(places) : places[m] = places[n] => m = n
<1> DEFINE places == Places(chain, l, b)
           c == Len(chain)
<1>1. PICK p \in Nat \ {0} : p = b.per_cluster
  OBVIOUS
<1>2. PICK d \in Nat : d = l.data_start
  OBVIOUS
<1> DEFINE at(n) == (n - 1) \div p
           in(n) == (n - 1) % p
           N == c * p
<1>3. c \in Nat /\ N \in Nat
  BY <1>1
<1>4. places = [n \in 1..N |-> ClusterAt(l, b, chain[at(n) + 1]) + in(n)]
  BY <1>1 DEF Places
<1> HIDE DEF N
<1>5. /\ Len(places) = N /\ DOMAIN places = 1..N
      /\ \A n \in 1..N : places[n] = ClusterAt(l, b, chain[at(n) + 1]) + in(n)
  BY <1>3, <1>4
<1> HIDE DEF places
<1>6. ASSUME NEW n \in 1..N
      PROVE  /\ at(n) \in 0..(c - 1) /\ at(n) + 1 \in 1..c /\ in(n) \in 0..(p - 1)
             /\ n - 1 = at(n) * p + in(n)
             /\ places[n] = d + (chain[at(n) + 1] - 2) * p + in(n)
  <2>1. n - 1 \in Nat /\ n - 1 < N
    BY <1>3
  <2>2. at(n) \in Nat /\ in(n) \in 0..(p - 1) /\ n - 1 = at(n) * p + in(n)
    BY <2>1, Divided
  <2>3. places[n] = ClusterAt(l, b, chain[at(n) + 1]) + in(n)
    BY <1>5
  <2> HIDE DEF at, in
  <2>4. at(n) < c
    <3>1. SUFFICES ASSUME c <= at(n) PROVE FALSE
      BY <1>3, <2>2
    <3>2. c * p <= at(n) * p
      BY <1>3, <2>2, <3>1, ProductGrows
    <3>3. at(n) * p \in Nat
      BY <2>2
    <3> QED
      BY <1>3, <2>1, <2>2, <3>2, <3>3 DEF N
  <2>5. at(n) \in 0..(c - 1) /\ at(n) + 1 \in 1..c
    BY <1>3, <2>2, <2>4
  <2>6. ClusterAt(l, b, chain[at(n) + 1]) = d + (chain[at(n) + 1] - 2) * p
    BY <1>1, <1>2 DEF ClusterAt
  <2> QED
    BY <2>2, <2>3, <2>5, <2>6
<1> HIDE DEF at, in
<1>7. ASSUME NEW m \in 1..N, NEW n \in 1..N, places[m] = places[n] PROVE m = n
  <2>1. PICK u \in 0..(c - 1), q \in 0..(p - 1) :
            u + 1 \in 1..c /\ m - 1 = u * p + q /\ places[m] = d + (chain[u + 1] - 2) * p + q
    BY <1>6
  <2>2. PICK v \in 0..(c - 1), r \in 0..(p - 1) :
            v + 1 \in 1..c /\ n - 1 = v * p + r /\ places[n] = d + (chain[v + 1] - 2) * p + r
    BY <1>6
  <2>3. PICK i \in Nat, j \in Nat :
            i = chain[u + 1] - 2 /\ j = chain[v + 1] - 2 /\ (i = j => chain[u + 1] = chain[v + 1])
    <3>1. chain[u + 1] \in Nat \ {0, 1} /\ chain[v + 1] \in Nat \ {0, 1}
      BY <2>1, <2>2
    <3>2. /\ chain[u + 1] - 2 \in Nat /\ chain[v + 1] - 2 \in Nat
          /\ chain[u + 1] - 2 = chain[v + 1] - 2 => chain[u + 1] = chain[v + 1]
      BY ONLY <3>1
    <3> QED
      BY ONLY <3>2
  <2>4. d + i * p + q = d + j * p + r
    BY ONLY <1>7, <2>1, <2>2, <2>3
  <2>5. i * p + q = j * p + r
    <3>1. i * p \in Nat /\ j * p \in Nat
      OBVIOUS
    <3> QED
      BY ONLY <2>4, <3>1, d \in Nat, q \in 0..(p - 1), r \in 0..(p - 1), p \in Nat
  <2>6. i = j /\ q = r
    <3>1. Parts(i * p + q, p, i, q) /\ Parts(i * p + q, p, j, r)
      BY ONLY <2>5, i \in Nat, j \in Nat, q \in 0..(p - 1), r \in 0..(p - 1) DEF Parts
    <3> QED
      BY ONLY <3>1, p \in Nat \ {0}, DividedOnce
  <2>7. u = v
    <3>1. u + 1 = v + 1
      BY <2>1, <2>2, <2>3, <2>6
    <3> QED
      BY ONLY <3>1, u \in 0..(c - 1), v \in 0..(c - 1)
  <2>8. m - 1 = n - 1
    BY ONLY <2>1, <2>2, <2>6, <2>7
  <2> QED
    BY ONLY <2>8, m \in 1..N, n \in 1..N
<1>8. ASSUME NEW n \in 1..N
      PROVE  \E i \in 1..c, q \in 0..(p - 1) : places[n] = ClusterAt(l, b, chain[i]) + q
  <2>1. at(n) + 1 \in 1..c /\ in(n) \in 0..(p - 1)
    BY <1>6
  <2>2. places[n] = ClusterAt(l, b, chain[at(n) + 1]) + in(n)
    BY <1>5 DEF at, in
  <2> QED
    BY ONLY <2>1, <2>2
<1> QED
  BY <1>1, <1>3, <1>5, <1>7, <1>8 DEF N, places

\* As many clusters as fat16_write_file counts have room for the file.
LEMMA ClustersSuffice ==
    ASSUME NEW size \in Nat, NEW p \in Nat \ {0}
    PROVE  /\ ClustersFor(size, p) \in Nat
           /\ \A c \in Nat : ClustersFor(size, p) <= c <=> size <= EndOf(c * p)
<1> DEFINE bytes == SectorBytes * p
           m == size + bytes - 1
           q == m \div bytes
<1>1. SectorBytes \in Nat \ {0}
  BY NameAssumption
<1>2. bytes \in Nat \ {0}
  BY <1>1
<1>3. ClustersFor(size, p) = q
  BY DEF ClustersFor
<1>4. \A c \in Nat : EndOf(c * p) = c * bytes
  <2>1. \A c \in Nat : (c * p) * SectorBytes = c * (SectorBytes * p)
    BY <1>1
  <2> QED
    BY <2>1 DEF EndOf
<1> HIDE DEF bytes
<1>5. m \in Nat
  BY <1>2
<1>6. q \in Nat /\ m % bytes \in 0..(bytes - 1) /\ m = q * bytes + (m % bytes)
  BY <1>2, <1>5, Divided
<1> DEFINE r == m % bytes
<1> HIDE DEF q, r
<1>7. ASSUME NEW c \in Nat PROVE q <= c <=> size <= c * bytes
  <2>1. c * bytes \in Nat /\ q * bytes \in Nat /\ (c + 1) * bytes = c * bytes + bytes
    BY <1>2, <1>6
  <2>2. size + bytes - 1 = q * bytes + r /\ r \in 0..(bytes - 1)
    BY <1>6 DEF r
  <2>3. CASE q <= c
    <3>1. q * bytes <= c * bytes
      BY <1>2, <1>6, <2>3, ProductGrows
    <3> QED
      BY <1>2, <2>1, <2>2, <2>3, <3>1
  <2>4. CASE ~(q <= c)
    <3>1. (c + 1) * bytes <= q * bytes
      BY <1>2, <1>6, <2>4, ProductGrows
    <3> QED
      BY <1>2, <2>1, <2>2, <2>4, <3>1
  <2> QED
    BY <2>3, <2>4
<1> QED
  BY <1>3, <1>4, <1>6, <1>7

\* What was written is read, as far as the buffer goes, "cat" says that it cut the file just
\* if it did, and no other sector is touched: for a file of any bytes, sectors and clusters
\* of any size, and any chain of clusters that fat16_write_file gives it (fat16.c:272-306,
\* 495-545).
THEOREM FileReadsBack ==
    ASSUME NEW B, NEW bytes \in Seq(B), NEW chain, NEW l, NEW b, NEW old, NEW cap \in Nat,
           Len(chain) \in Nat, l.data_start \in Nat, b.per_cluster \in Nat \ {0},
           \A i \in 1..Len(chain) : chain[i] \in Nat \ {0, 1},
           \A i, j \in 1..Len(chain) : chain[i] = chain[j] => i = j,
           ClustersFor(Len(bytes), b.per_cluster) <= Len(chain),
           old = [p \in DOMAIN old |-> old[p]],
           \A i \in 1..Len(chain), q \in 0..(b.per_cluster - 1) :
               ClusterAt(l, b, chain[i]) + q \in DOMAIN old
    PROVE  Kept(bytes, Places(chain, l, b), old, cap)
<1> DEFINE places == Places(chain, l, b)
           N == Len(places)
<1>1. /\ N = Len(chain) * b.per_cluster /\ N \in Nat /\ DOMAIN places = 1..N
      /\ \A n \in 1..N : \E i \in 1..Len(chain), q \in 0..(b.per_cluster - 1) :
            places[n] = ClusterAt(l, b, chain[i]) + q
      /\ \A m, n \in 1..N : places[m] = places[n] => m = n
  BY PlacesApart
<1> HIDE DEF places
<1>2. \A n \in 1..N : places[n] \in DOMAIN old
  BY <1>1
<1>3. Len(bytes) \in Nat
  OBVIOUS
<1>4. FileRoom(bytes, places, old)
  BY ONLY <1>1, <1>2, <1>3, old = [p \in DOMAIN old |-> old[p]] DEF FileRoom
<1>5. EndOf(N) >= Len(bytes)
  <2>1. Len(bytes) <= EndOf(N)
    BY <1>1, <1>3, ClustersSuffice
  <2>2. EndOf(N) \in Nat
    BY <1>1, EndsOf
  <2> QED
    BY <1>3, <2>1, <2>2
<1>6. Range(places) = {places[n] : n \in 1..N}
  BY ONLY <1>1, Zenon DEF Range
<1> QED
  BY <1>4, <1>5, <1>6, PlacesReadBack DEF places

-----------------------------------------------------------------------------
\* All of it together, and the directory that the calls make.
\* The files of the run are among them.
LEMMA BytesAllKept == BytesKept
<1> DEFINE vol(pc) == [fats |-> 1, per_cluster |-> pc, per_fat |-> 1, total |-> 20,
                       reserved |-> 1, root_entries |-> 1]
           disk == [p \in 5..25 |-> [k \in 1..SectorBytes |-> "old"]]
<1>1. ASSUME NEW size \in 0..(4 * SectorBytes), NEW pc \in 1..2, NEW cap \in {0, 3, 4, 9},
             NEW order \in {<<2, 3, 4, 5>>, <<4, 2, 5, 3>>}
      PROVE  Kept([k \in 1..size |-> k],
                  Places(SubSeq(order, 1, ClustersFor(size, pc)), Layout(vol(pc), 5), vol(pc)),
                  disk, cap)
  <2> DEFINE bytes == [k \in 1..size |-> k]
             n == ClustersFor(size, pc)
             chain == SubSeq(order, 1, n)
             b == vol(pc)
             l == Layout(b, 5)
  <2>1. size \in Nat /\ pc \in Nat \ {0} /\ cap \in Nat /\ pc <= 2
    BY NameAssumption
  <2>2. bytes \in Seq(Nat) /\ Len(bytes) = size
    BY <2>1
  <2>3. n \in Nat /\ n <= 4 /\ size <= EndOf(n * pc)
    <3>1. n \in Nat /\ \A c \in Nat : n <= c <=> size <= EndOf(c * pc)
      BY <2>1, ClustersSuffice
    <3>2. size <= EndOf(4 * pc)
      <4>1. PICK s \in Nat \ {0} : s = SectorBytes
        BY NameAssumption
      <4>2. size <= (4 * pc) * s
        <5>1. pc = 1 \/ pc = 2
          BY <2>1
        <5>2. size <= 4 * s
          BY <4>1
        <5> QED
          BY <2>1, <5>1, <5>2
      <4> QED
        BY <4>1, <4>2 DEF EndOf
    <3>3. n <= n
      BY <3>1
    <3> QED
      BY <3>1, <3>2, <3>3
  <2> HIDE DEF n
  <2>4. /\ order \in Seq(Nat) /\ Len(order) = 4 /\ \A i \in 1..4 : order[i] \in 2..5
        /\ \A i, j \in 1..4 : order[i] = order[j] => i = j
    <3>1. CASE order = <<2, 3, 4, 5>>
      BY <3>1
    <3>2. CASE order = <<4, 2, 5, 3>>
      BY <3>2
    <3> QED
      BY <3>1, <3>2
  <2>5. Len(chain) = n /\ \A i \in 1..n : i \in 1..4 /\ chain[i] = order[i]
    BY <2>3, <2>4
  <2>6. l.data_start = 8 /\ b.per_cluster = pc
    <3>1. PICK s \in Nat \ {0} : s = PerSector
      BY NameAssumption
    <3>2. (1 + s - 1) \div s = 1
      <4>1. 1 + s - 1 = s
        OBVIOUS
      <4>2. s = (s \div s) * s + (s % s) /\ s \div s \in Nat /\ s % s \in 0..(s - 1)
        BY Divided
      <4>3. s = 1 * s + 0
        OBVIOUS
      <4>4. s \div s = 1
        <5>1. Parts(s, s, s \div s, s % s) /\ Parts(s, s, 1, 0)
          BY ONLY <4>2, <4>3, s \in Nat \ {0} DEF Parts
        <5> QED
          BY ONLY <5>1, s \in Nat \ {0}, DividedOnce
      <4> QED
        BY <4>1, <4>4
    <3>3. l.data_start = 5 + 1 + 1 * 1 + (1 + s - 1) \div s
      BY <3>1 DEF Layout
    <3> QED
      BY <3>2, <3>3
  <2> HIDE DEF l, b, chain, bytes
  <2>7. ASSUME NEW i \in 1..Len(chain), NEW q \in 0..(b.per_cluster - 1)
        PROVE  ClusterAt(l, b, chain[i]) + q \in DOMAIN disk
    <3>1. chain[i] \in 2..5 /\ q \in 0..(pc - 1)
      BY <2>4, <2>5, <2>6
    <3>2. ClusterAt(l, b, chain[i]) = 8 + (chain[i] - 2) * pc
      BY <2>6 DEF ClusterAt
    <3>3. ASSUME NEW c \in 2..5 PROVE (c - 2) * pc \in 0..6
      <4>1. pc = 1 \/ pc = 2
        BY <2>1
      <4> QED
        BY <4>1
    <3>4. PICK x \in 0..6 : (chain[i] - 2) * pc = x
      BY <3>1, <3>3
    <3>5. 8 + x + q \in 5..25
      BY ONLY <2>1, <3>1, x \in 0..6
    <3>6. DOMAIN disk = 5..25
      OBVIOUS
    <3> QED
      BY ONLY <3>2, <3>4, <3>5, <3>6
  <2>8. /\ Len(chain) \in Nat /\ l.data_start \in Nat /\ b.per_cluster \in Nat \ {0}
        /\ \A i \in 1..Len(chain) : chain[i] \in Nat \ {0, 1}
        /\ \A i, j \in 1..Len(chain) : chain[i] = chain[j] => i = j
    <3>1. Len(chain) \in Nat /\ l.data_start \in Nat /\ b.per_cluster \in Nat \ {0}
      BY ONLY <2>1, <2>3, <2>5, <2>6
    <3>2. \A i \in 1..Len(chain) : chain[i] \in 2..5
      BY ONLY <2>4, <2>5
    <3>3. \A i \in 1..Len(chain) : chain[i] \in Nat \ {0, 1}
      BY ONLY <3>2
    <3>4. \A i, j \in 1..Len(chain) : chain[i] = chain[j] => i = j
      BY ONLY <2>4, <2>5
    <3> QED
      BY ONLY <3>1, <3>3, <3>4
  <2>9. ClustersFor(Len(bytes), b.per_cluster) <= Len(chain)
    <3>1. n <= n
      BY <2>3
    <3> QED
      BY <2>2, <2>5, <2>6, <3>1 DEF n
  <2>10. disk = [p \in DOMAIN disk |-> disk[p]]
    OBVIOUS
  <2> HIDE DEF disk
  <2>11. Kept(bytes, Places(chain, l, b), disk, cap)
    BY ONLY <2>1, <2>2, <2>7, <2>8, <2>9, <2>10, FileReadsBack
  <2> QED
    BY ONLY <2>11 DEF bytes, chain, n, l, b
<1> QED
  BY ONLY <1>1, Zenon DEF BytesKept

\* So are its names,
LEMMA NamesAllKept == NamesKept
<1>1. ASSUME NEW s \in Texts PROVE NameKept(s)
  <2>1. \A C : \A n \in 1..(NameLen + ExtLen + 2) : \A u \in [1..n -> C] : u \in Seq(C)
    OBVIOUS
  <2>2. \E C : \E n \in 1..(NameLen + ExtLen + 2) : s \in [1..n -> C]
    BY ONLY s \in Texts, Zenon DEF Texts
  <2>3. PICK C : s \in Seq(C)
    BY ONLY <2>1, <2>2
  <2> QED
    BY <2>3, NameFound
<1> QED
  BY ONLY <1>1 DEF NamesKept

\* Names of one letter each, no two of which are the same in any case.
LEMMA OneLetterNames ==
    ASSUME NEW dir, NEW bad, NEW kind, NEW letter,
           \A k \in Shown(dir, bad) : dir[k] = File(kind[k], letter[k]) /\ letter[k] # Blank,
           \A k, m \in Shown(dir, bad) : Upper(letter[k]) = Upper(letter[m]) => k = m
    PROVE  NamedApart(dir, bad)
<1>1. ASSUME NEW k \in Shown(dir, bad) PROVE fat16_name_to_string(dir[k]) = <<Upper(letter[k])>>
  BY FileNamed
<1>2. ASSUME NEW k \in Shown(dir, bad), NEW m \in Shown(dir, bad),
             fat16_streq_ci(fat16_name_to_string(dir[k]), fat16_name_to_string(dir[m]))
      PROVE  k = m
  <2> DEFINE x == <<Upper(letter[k])>>
             y == <<Upper(letter[m])>>
  <2>1. fat16_streq_ci(x, y)
    BY ONLY <1>1, <1>2, k \in Shown(dir, bad), m \in Shown(dir, bad)
  <2>2. [i \in 1..Len(x) |-> Upper(x[i])] = [i \in 1..Len(y) |-> Upper(y[i])]
    BY ONLY <2>1 DEF fat16_streq_ci
  <2>3. Len(x) = 1 /\ Len(y) = 1 /\ x[1] = Upper(letter[k]) /\ y[1] = Upper(letter[m])
    OBVIOUS
  <2> HIDE DEF x, y
  <2>4. Upper(x[1]) = Upper(y[1])
    <3>1. 1 \in 1..Len(x) /\ 1 \in 1..Len(y)
      BY <2>3
    <3> QED
      BY ONLY <2>2, <3>1, Zenon
  <2>5. Upper(letter[k]) = Upper(letter[m])
    BY ONLY <2>3, <2>4, Letters
  <2> QED
    BY <2>5
<1> QED
  BY ONLY <1>2 DEF NamedApart

\* and its directories,
LEMMA ListedAllFound == ListedFound
<1>1. ASSUME NEW dir \in Directories, NEW bad PROVE ListedIn(dir, bad)
  <2> DEFINE letter == <<"a", "b", "c", "d">>
  <2>1. PICK kinds : dir = [k \in 1..4 |-> File(kinds[k], letter[k])]
    BY DEF Directories
  <2>2. Len(dir) = 4 /\ \A k \in 1..4 : dir[k] = File(kinds[k], letter[k])
    BY <2>1
  <2>3. Shown(dir, bad) \subseteq 1..4
    BY <2>2 DEF Shown, Reached
  <2>4. \A k \in 1..4 : letter[k] # Blank
    <3>1. "a" # Blank /\ "b" # Blank /\ "c" # Blank /\ "d" # Blank
      BY Zenon DEF Blank
    <3> QED
      BY <3>1
  <2>5. \A k, m \in 1..4 : Upper(letter[k]) = Upper(letter[m]) => k = m
    BY DEF Upper
  <2> HIDE DEF letter
  <2>6. NamedApart(dir, bad)
    BY ONLY <2>2, <2>3, <2>4, <2>5, OneLetterNames
  <2>7. Len(dir) \in Nat
    BY <2>2
  <2> QED
    BY <2>6, <2>7, ListedIsFound
<1> QED
  BY ONLY <1>1 DEF ListedFound

\* and its boot sectors.
LEMMA AreasAllApart == AreasApart
<1>1. ASSUME NEW b \in [fats : 0..2, per_cluster : 0..2, per_fat : 0..2, total : 0..9,
                        reserved : 0..2, root_entries : 0..3]
      PROVE  Apart(b, 5)
  <2>1. b \in Sectors
    BY DEF Sectors
  <2> QED
    BY <2>1, AreasStayApart
<1> QED
  BY ONLY <1>1, Zenon DEF AreasApart

\* An entry in use has a name a call can ask for.
EntriesNamed == \A s \in Slot : IsEntry(s) => root[s].name \in Names

\* It is so at first,
LEMMA NamedAtFirst == ASSUME Init PROVE EntriesNamed
<1>1. \A s \in Slot : root[s] = NoEntry \/ \E n \in Names : root[s].name = n
  BY DEF Init
<1> QED
  BY <1>1 DEF EntriesNamed, IsEntry, NoEntry

\* and every step keeps it.
LEMMA NamedKept == ASSUME Basic, EntriesNamed, [Next]_vars PROVE EntriesNamed'
<1>1. CASE root' = root
  BY <1>1 DEF EntriesNamed, IsEntry
<1>2. CASE root' # root
  <2>1. WriteEntry \/ MarkDeleted
    BY <1>2 DEF Next, vars, diskVars, WriteFile, DeleteFile, FreeNext, SetEntry, AllocNext, Link,
                WriteData, WriteFails, PowerOff
  <2>2. op' = NoOp /\ op # NoOp
    BY <2>1, EndsBasic
  <2>3. CASE WriteEntry
    <3>1. /\ op.slot \in Slot
          /\ root' = [root EXCEPT ![op.slot] =
                 [name |-> op.name, attr |-> "file", first |-> op.first, len |-> op.len]]
      BY <1>2, <2>2, <2>3, WriteEntryRoot DEF Basic
    <3>2. op.name \in Names
      BY <2>2 DEF Basic, RootRight
    <3>3. root \in [Slot -> Entry]
      BY DEF Basic, TypeOK
    <3>4. ASSUME NEW s \in Slot, IsEntry(s)' PROVE root'[s].name \in Names
      <4>1. CASE s = op.slot
        BY <3>1, <3>2, <3>3, <4>1
      <4>2. CASE s # op.slot
        BY <3>1, <3>3, <3>4, <4>2 DEF EntriesNamed, IsEntry
      <4> QED
        BY <4>1, <4>2
    <3> QED
      BY <3>4 DEF EntriesNamed
  <2>4. CASE MarkDeleted
    <3>1. /\ op.freed => \A s \in Slot : ~IsEntry(s)'
          /\ ~op.freed => \A s \in Slot : IF s = op.slot THEN ~IsEntry(s)' ELSE root'[s] = root[s]
      BY <1>2, <2>2, <2>4, MarkRoot DEF Basic
    <3> QED
      BY <3>1 DEF EntriesNamed, IsEntry
  <2> QED
    BY <2>1, <2>3, <2>4
<1> QED
  BY <1>1, <1>2

\* What "ls" lists of the directory the calls have made.
LEMMA DirectoryListed == ASSUME Basic, EntriesNamed PROVE ListedOnce
<1> DEFINE kind == [s \in Slot |-> IF root[s].attr = "junk" THEN "other" ELSE root[s].attr]
           letter == [s \in Slot |-> IF root[s].name = NULL THEN Blank ELSE root[s].name]
           E == {s \in Slot : IsEntry(s)}
           listed == fat16_list_root(Named, {})
<1>1. Len(Named) \in Nat /\ Len(Named) = RootSlots /\ Slot = 1..RootSlots
  BY VolumeAssumption DEF Named, Slot
<1>2. \A s \in Slot : Named[s] = File(kind[s], letter[s]) /\ Named[s].kind = kind[s]
  BY Zenon DEF Named, File, Blank
<1>3. Shown(Named, {}) = E
  <2>1. \A s \in Slot : /\ kind[s] # "end" <=> root[s].attr # "end"
                        /\ kind[s] \in {"file", "dir"} <=> IsEntry(s)
    BY DEF IsEntry
  <2>2. Reached(Named, {}) = {s \in Slot : \A m \in 1..s : Named[m].kind # "end"}
    BY <1>1 DEF Reached
  <2>3. \A s \in Slot : \A m \in 1..s : m \in Slot /\ (m \in 1..(s - 1) \/ m = s)
    BY <1>1
  <2>4. \A s \in E : \A m \in 1..s : root[m].attr # "end"
    BY <2>3 DEF Basic, RootRight, Scanned, IsEntry
  <2> HIDE DEF kind
  <2>5. E \subseteq Reached(Named, {})
    BY <1>2, <2>1, <2>2, <2>3, <2>4
  <2>6. Shown(Named, {}) = {s \in Reached(Named, {}) : IsEntry(s)}
    BY <1>2, <2>1, <2>2 DEF Shown
  <2> QED
    BY <2>2, <2>5, <2>6
<1>4. \A s \in E : root[s].name \in Names /\ letter[s] = root[s].name /\ letter[s] # Blank
  <2>1. \A n \in Names : n # Blank /\ n # NULL
    BY LetterAssumption, Zenon DEF Blank
  <2> QED
    BY <2>1 DEF EntriesNamed
<1>5. \A r, s \in E : Upper(letter[r]) = Upper(letter[s]) => r = s
  <2>1. \A m, n \in Names : Upper(m) = Upper(n) => m = n
    BY LetterAssumption, Zenon
  <2>2. \A r, s \in E : root[r].name = root[s].name => r = s
    BY DEF Basic, RootRight
  <2> HIDE DEF letter
  <2> QED
    BY <1>4, <2>1, <2>2
<1> HIDE DEF letter, kind
<1>6. NamedApart(Named, {})
  <2>1. \A k \in E : Named[k] = File(kind[k], letter[k]) /\ letter[k] # Blank
    BY <1>2, <1>4
  <2> QED
    BY ONLY <1>3, <1>5, <2>1, OneLetterNames
<1>7. ListedIn(Named, {})
  BY <1>1, <1>6, ListedIsFound
<1>8. FoundIn(Named, {}) = E
  BY <1>1, <1>3, <1>6, FoundIsShown
<1> HIDE DEF listed
<1>9. Range(listed) \subseteq E /\ (Len(listed) < MaxListed => Range(listed) = E)
  BY ONLY <1>7, <1>8, Zenon DEF ListedIn, listed
<1>10. \A k \in E : fat16_find_in_root(Named, {}, fat16_name_to_string(Named[k])) = k
  BY ONLY <1>8 DEF FoundIn
<1>11. {root[k].name : k \in E} = {n \in Names : Found(n) # {}}
  <2>1. \A n \in Names : Found(n) # {} <=> \E k \in E : root[k].name = n
    BY DEF Found, Scanned, Basic, RootRight
  <2> QED
    BY <1>4, <2>1
<1> QED
  BY ONLY <1>9, <1>10, <1>11, Zenon DEF ListedOnce, listed

\* Every entry has a name a call can ask for.
LEMMA NamedInvariance == Spec => [](Basic /\ EntriesNamed)
<1>1. Init => Basic /\ EntriesNamed
  BY BasicStart, NamedAtFirst
<1>2. Basic /\ EntriesNamed /\ [Next]_vars => (Basic /\ EntriesNamed)'
  BY BasicKept, NamedKept
<1> QED
  BY <1>1, <1>2, PTL DEF Spec

\* A name leads to its file, and a file's clusters are its own place on the disk, for names
\* and parts of names of any length, sectors of any size and room for any number of entries
\* in "ls", whatever calls came before (fat16.c:81-107, 113-171, 197-349, 495-545).
THEOREM NamesStayRight == Spec => []NamesRight
<1>1. Basic /\ EntriesNamed => NamesRight
  BY NamesAllKept, ListedAllFound, AreasAllApart, BytesAllKept, DirectoryListed DEF NamesRight
<1> QED
  BY <1>1, NamedInvariance, PTL
=============================================================================
