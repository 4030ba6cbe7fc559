------------------------------ MODULE MCFat16 ------------------------------
EXTENDS Fat16, FatNames

\* Each name of Fat16 is a name of one letter for FatNames, and no two are the same to
\* fat16_streq_ci.
ASSUME LetterAssumption ==
    /\ NULL \notin Names
    /\ \A m, n \in Names : m # " " /\ (Upper(m) = Upper(n) => m = n)

\* The root directory of Fat16 as FatNames has it.
Named ==
    [s \in Slot |-> File(IF root[s].attr = "junk" THEN "other" ELSE root[s].attr,
                         IF root[s].name = NULL THEN " " ELSE root[s].name)]

\* Whatever calls came before, and wherever they were cut short, "ls" shows each file once
\* and under the name that leads to that very entry, and, unless it has room for no more,
\* just the files that write and delete find (fat16_list_root, fat16.c:197-228, against
\* fat16_locate_slot, 411-466).  A call changes the directory in its last step.
ListedOnce ==
    op = NoOp =>
    LET listed == fat16_list_root(Named, {})
    IN  /\ \A k \in Range(listed) :
            fat16_find_in_root(Named, {}, fat16_name_to_string(Named[k])) = k
        /\ Len(listed) < MaxListed =>
            {root[k].name : k \in Range(listed)} = {n \in Names : Found(n) # {}}

\* A name leads to its file, and a file's clusters are its own place on the disk
\* (fat16.c:81-107, 113-171, 197-349, 495-545).
NamesRight == NamesKept /\ ListedFound /\ AreasApart /\ BytesKept /\ ListedOnce

Symmetry == Permutations(Names)
=============================================================================
