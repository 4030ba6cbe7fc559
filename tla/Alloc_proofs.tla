---------------------------- MODULE Alloc_proofs ----------------------------
(***************************************************************************)
(* For any number of pages: no page has two owners and none is lost, and   *)
(* used_pages counts the set bits unless an operation ran between the load *)
(* and the store of an interrupted free_pages.                             *)
(***************************************************************************)
EXTENDS Alloc, NatSets

\* Blocks lie within memory, and the interrupted free_pages is where it says.
RangeOK ==
    /\ \A b \in held : b.first + b.n <= TotalPages
    /\ freeing.i <= freeing.n
    /\ freeing.at \in {"load", "store"} => freeing.i = freeing.n
    /\ freeing.first + freeing.n <= TotalPages
    /\ freeing.at = "store" /\ ~torn => freeing.loaded = used_pages

IInv == TypeOK /\ RangeOK /\ BitmapExact /\ UsedExact

-----------------------------------------------------------------------------
\* find_free_pages returns a run of clear bits that lies within memory.
LEMMA FoundIsClear ==
    ASSUME TypeOK, NEW n \in 1..MaxRun, NEW first \in FindFreePages(n)
    PROVE  /\ first \in AllPages
           /\ first + n <= TotalPages
           /\ (first..(first + n - 1)) \cap bitmap = {}
<1>1. PICK lo \in AllPages \cup {0}, hi \in AllPages \cup {TotalPages} : first \in Runs(n, lo, hi)
  BY DEF FindFreePages, FirstOf, TypeOK
<1>2. lo \in Nat /\ hi \in Nat /\ hi <= TotalPages /\ n \in Nat /\ n >= 1
  BY <1>1, SizeAssumption DEF AllPages
<1>3. first \in lo..(hi - n) /\ \A k \in first..(first + n - 1) : k \notin bitmap
  BY <1>1 DEF Runs
<1> QED
  BY <1>2, <1>3, SizeAssumption DEF AllPages

LEMMA BlockPages ==
    ASSUME NEW b, b.first \in Nat, b.n \in Nat
    PROVE  IsFiniteSet(PagesOf(b)) /\ Cardinality(PagesOf(b)) = b.n
<1>1. b.first + b.n - 1 \in Int /\ b.first \in Int
  OBVIOUS
<1>2. IsFiniteSet(PagesOf(b)) /\
      Cardinality(PagesOf(b)) = IF b.first > b.first + b.n - 1 THEN 0
                                ELSE (b.first + b.n - 1) - b.first + 1
  BY <1>1, FS_Interval DEF PagesOf
<1> QED
  BY <1>2

LEMMA BitmapFinite == ASSUME TypeOK PROVE IsFiniteSet(bitmap) /\ Cardinality(bitmap) \in Nat
<1>1. IsFiniteSet(AllPages)
  BY FS_Interval, SizeAssumption DEF AllPages
<1> QED
  BY <1>1, FS_Subset, FS_CardinalityType DEF TypeOK

LEMMA InitInv == Init => IInv
<1> SUFFICES ASSUME Init PROVE IInv
  OBVIOUS
<1>1. TypeOK
  <2>1. 0 \in AllPages /\ ReservedPages \subseteq AllPages /\ Reserved \in Nat /\ MaxRun \in Nat
    BY SizeAssumption DEF AllPages, ReservedPages
  <2>2. Idle \in Freeing
    BY <2>1 DEF Idle, Freeing
  <2> QED
    BY <2>1, <2>2 DEF Init, TypeOK
<1>2. RangeOK
  <2>1. 0 + 0 <= TotalPages /\ 0 <= 0
    BY SizeAssumption
  <2> QED
    BY <2>1 DEF Init, RangeOK, Idle
<1>3. Pending = {} /\ Uncounted = 0
  BY DEF Init, Pending, Uncounted, Idle
<1>4. BitmapExact
  BY <1>3 DEF Init, BitmapExact
<1>5. Cardinality(ReservedPages) = Reserved
  BY FS_Interval, SizeAssumption DEF ReservedPages
<1>6. UsedExact
  BY <1>3, <1>5, SizeAssumption DEF Init, UsedExact
<1> QED
  BY <1>1, <1>2, <1>4, <1>6 DEF IInv

-----------------------------------------------------------------------------
\* What the invariant says of the numbers involved.
LEMMA Numbers ==
    ASSUME IInv
    PROVE  /\ TotalPages \in Nat /\ MaxRun \in Nat /\ used_pages \in Nat
           /\ last_alloc_idx \in AllPages /\ AllPages \subseteq Nat
           /\ \A b \in held : /\ b.first \in AllPages /\ b.n \in 1..MaxRun
                            /\ PagesOf(b) \subseteq bitmap
           /\ freeing.first \in AllPages /\ freeing.n \in 0..MaxRun
           /\ freeing.i \in 0..MaxRun /\ freeing.loaded \in Nat
<1>1. TotalPages \in Nat /\ MaxRun \in Nat /\ AllPages \subseteq Nat
  BY SizeAssumption DEF AllPages
<1>2. \A b \in held : b.first \in AllPages /\ b.n \in 1..MaxRun
  BY DEF IInv, TypeOK, Block
<1>3. \A b \in held : PagesOf(b) \subseteq bitmap
  BY DEF IInv, BitmapExact
<1>4. /\ freeing.first \in AllPages /\ freeing.n \in 0..MaxRun
      /\ freeing.i \in 0..MaxRun /\ freeing.loaded \in Nat
  BY DEF IInv, TypeOK, Freeing
<1> QED
  BY <1>1, <1>2, <1>3, <1>4 DEF IInv, TypeOK

LEMMA AllocInv == ASSUME IInv, NEW n \in 1..MaxRun, Alloc(n) PROVE IInv'
<1>1. PICK first \in FindFreePages(n) :
         /\ bitmap' = bitmap \cup PagesOf([first |-> first, n |-> n])
         /\ last_alloc_idx' = (first + n) % TotalPages
         /\ held' = held \cup {[first |-> first, n |-> n]}
  BY DEF Alloc, Mark, NextHint
<1>2. /\ used_pages' = used_pages + n
      /\ torn' = (torn \/ freeing.at = "store")
      /\ freeing' = freeing
  BY DEF Alloc, Tear
<1> DEFINE new == [first |-> first, n |-> n]
<1>3. new.first = first /\ new.n = n /\ n \in Nat \ {0} /\ first \in Nat
  BY <1>1, FoundIsClear, Numbers DEF IInv
<1>4. first \in AllPages /\ first + n <= TotalPages /\ PagesOf(new) \cap bitmap = {}
  BY <1>1, <1>3, FoundIsClear DEF IInv, PagesOf
<1>5. PagesOf(new) \subseteq AllPages
  BY <1>3, <1>4, SizeAssumption DEF PagesOf, AllPages
<1> HIDE DEF new
<1>6. TypeOK'
  <2>1. bitmap' \subseteq AllPages
    BY <1>1, <1>5 DEF IInv, TypeOK, new
  <2>2. used_pages' \in Nat
    BY <1>2, <1>3, Numbers
  <2>3. last_alloc_idx' \in AllPages
    BY <1>1, <1>3, SizeAssumption DEF AllPages
  <2>4. held' \subseteq Block
    BY <1>1, <1>4 DEF IInv, TypeOK, Block
  <2>5. freeing' \in Freeing /\ torn' \in BOOLEAN
    BY <1>2 DEF IInv, TypeOK
  <2> QED
    BY <2>1, <2>2, <2>3, <2>4, <2>5 DEF TypeOK
<1>7. RangeOK'
  BY <1>1, <1>2, <1>3, <1>4 DEF IInv, RangeOK, new
<1>8. Pending' = Pending /\ Uncounted' = Uncounted
  BY <1>2 DEF Pending, Uncounted
<1>9. BitmapExact'
  <2>1. held' = held \cup {new} /\ bitmap' = bitmap \cup PagesOf(new)
    BY <1>1 DEF new
  <2>2. bitmap' = ReservedPages \cup Pending' \cup UNION {PagesOf(b) : b \in held'}
    BY <2>1, <1>8 DEF IInv, BitmapExact
  <2>3. \A b \in held : PagesOf(b) \subseteq bitmap
    BY Numbers
  <2>4. ReservedPages \subseteq bitmap /\ Pending \subseteq bitmap
    BY DEF IInv, BitmapExact
  <2>5. \A b \in held' : PagesOf(b) \cap (ReservedPages \cup Pending') = {}
    BY <2>1, <2>4, <1>4, <1>8 DEF IInv, BitmapExact
  <2>6. \A b, c \in held' : b # c => PagesOf(b) \cap PagesOf(c) = {}
    BY <2>1, <2>3, <1>4 DEF IInv, BitmapExact
  <2>7. Pending' \cap ReservedPages = {}
    BY <1>8 DEF IInv, BitmapExact
  <2> QED
    BY <2>2, <2>5, <2>6, <2>7 DEF BitmapExact
<1>10. UsedExact'
  <2>1. IsFiniteSet(bitmap) /\ Cardinality(bitmap) \in Nat
    BY BitmapFinite DEF IInv
  <2>2. IsFiniteSet(PagesOf(new)) /\ Cardinality(PagesOf(new)) = n
    BY <1>3, BlockPages DEF new
  <2>3. Cardinality(bitmap') = Cardinality(bitmap) + n
    <3>1. bitmap' = bitmap \cup PagesOf(new)
      BY <1>1 DEF new
    <3>2. Cardinality(bitmap \cap PagesOf(new)) = 0
      BY <1>4, FS_EmptySet
    <3>3. Cardinality(bitmap \cup PagesOf(new)) =
            Cardinality(bitmap) + Cardinality(PagesOf(new)) - Cardinality(bitmap \cap PagesOf(new))
      BY <2>1, <2>2, FS_Union
    <3> QED
      BY <2>1, <2>2, <3>1, <3>2, <3>3, <1>3
  <2>4. Uncounted \in Nat
    BY Numbers DEF Uncounted
  <2>5. ~torn' => used_pages = Cardinality(bitmap) + Uncounted
    BY <1>2 DEF IInv, UsedExact
  <2>6. used_pages = Cardinality(bitmap) + Uncounted =>
            used_pages' = Cardinality(bitmap') + Uncounted'
    BY <2>1, <2>3, <2>4, <1>2, <1>3, <1>8
  <2> QED
    BY <2>5, <2>6 DEF UsedExact
<1> QED
  BY <1>6, <1>7, <1>9, <1>10 DEF IInv

\* A held block, given back: the others and the pages being freed stay as they were.
LEMMA Removed ==
    ASSUME IInv, NEW b \in held
    PROVE  /\ bitmap \ PagesOf(b) =
                ReservedPages \cup Pending \cup UNION {PagesOf(c) : c \in held \ {b}}
           /\ IsFiniteSet(bitmap \ PagesOf(b))
           /\ Cardinality(bitmap \ PagesOf(b)) = Cardinality(bitmap) - b.n
           /\ b.n <= Cardinality(bitmap)
<1>1. bitmap \ PagesOf(b) =
        ReservedPages \cup Pending \cup UNION {PagesOf(c) : c \in held \ {b}}
  BY DEF IInv, BitmapExact
<1>2. IsFiniteSet(bitmap) /\ Cardinality(bitmap) \in Nat
  BY BitmapFinite DEF IInv
<1>3. b.first \in Nat /\ b.n \in Nat
  BY Numbers
<1>4. IsFiniteSet(PagesOf(b)) /\ Cardinality(PagesOf(b)) = b.n
  BY <1>3, BlockPages
<1>5. PagesOf(b) \subseteq bitmap
  BY Numbers
<1>6. bitmap \cap PagesOf(b) = PagesOf(b)
  BY <1>5
<1>7. /\ IsFiniteSet(bitmap \ PagesOf(b))
      /\ Cardinality(bitmap \ PagesOf(b)) = Cardinality(bitmap) - b.n
  <2>1. /\ IsFiniteSet(bitmap \ PagesOf(b))
        /\ Cardinality(bitmap \ PagesOf(b)) =
             Cardinality(bitmap) - Cardinality(bitmap \cap PagesOf(b))
    BY <1>2, FS_Difference
  <2> QED
    BY <1>4, <1>6, <2>1
<1>8. b.n <= Cardinality(bitmap)
  BY <1>2, <1>4, <1>5, FS_Subset
<1> QED
  BY <1>1, <1>7, <1>8

LEMMA FreePagesInv == ASSUME IInv, NEW b \in held, FreePages(b) PROVE IInv'
<1>1. /\ held' = held \ {b}
      /\ bitmap' = bitmap \ PagesOf(b)
      /\ used_pages' = Less(used_pages, b.n)
      /\ last_alloc_idx' = Lower(b.first)
      /\ torn' = (torn \/ freeing.at = "store")
      /\ freeing' = freeing
  BY DEF FreePages, Tear
<1>2. b.first \in AllPages /\ b.n \in Nat /\ b.n >= 1
  BY Numbers
<1>3. TypeOK'
  <2>1. used_pages' \in Nat
    BY <1>1, <1>2, Numbers DEF Less
  <2>2. last_alloc_idx' \in AllPages
    BY <1>1, <1>2, Numbers DEF Lower
  <2>3. bitmap' \subseteq AllPages /\ held' \subseteq Block /\ freeing' \in Freeing /\ torn' \in BOOLEAN
    BY <1>1 DEF IInv, TypeOK
  <2> QED
    BY <2>1, <2>2, <2>3 DEF TypeOK
<1>4. RangeOK'
  BY <1>1 DEF IInv, RangeOK
<1>5. Pending' = Pending /\ Uncounted' = Uncounted
  BY <1>1 DEF Pending, Uncounted
<1>6. BitmapExact'
  BY <1>1, <1>5, Removed DEF IInv, BitmapExact
<1>7. UsedExact'
  <2>1. Cardinality(bitmap) \in Nat
    BY BitmapFinite DEF IInv
  <2>2. Uncounted \in Nat
    BY Numbers DEF Uncounted
  <2>3. Cardinality(bitmap') = Cardinality(bitmap) - b.n /\ b.n <= Cardinality(bitmap)
    BY <1>1, Removed
  <2>4. ~torn' => used_pages = Cardinality(bitmap) + Uncounted
    BY <1>1 DEF IInv, UsedExact
  <2>5. used_pages = Cardinality(bitmap) + Uncounted =>
            used_pages' = Cardinality(bitmap') + Uncounted'
    BY <2>1, <2>2, <2>3, <1>1, <1>2, <1>5 DEF Less
  <2> QED
    BY <2>4, <2>5 DEF UsedExact
<1> QED
  BY <1>3, <1>4, <1>6, <1>7 DEF IInv

LEMMA FreeBeginInv == ASSUME IInv, NEW b \in held, FreeBegin(b) PROVE IInv'
<1>1. /\ freeing = Idle
      /\ held' = held \ {b}
      /\ freeing' = [first |-> b.first, n |-> b.n, i |-> 0, at |-> "clear", loaded |-> 0]
      /\ bitmap' = bitmap /\ used_pages' = used_pages
      /\ last_alloc_idx' = last_alloc_idx /\ torn' = torn
  BY DEF FreeBegin
<1>2. /\ b.first \in AllPages /\ b.n \in 1..MaxRun /\ MaxRun \in Nat
      /\ b.first + b.n <= TotalPages /\ b.first \in Nat
  BY Numbers DEF IInv, RangeOK
<1>3. TypeOK'
  <2>1. b.n \in 0..MaxRun /\ 0 \in 0..MaxRun
    BY <1>2
  <2>2. freeing' \in Freeing
    BY <1>1, <1>2, <2>1 DEF Freeing
  <2> QED
    BY <1>1, <2>2 DEF IInv, TypeOK
<1>4. RangeOK'
  BY <1>1, <1>2 DEF IInv, RangeOK
<1>5. Pending = {} /\ Uncounted = 0 /\ Uncounted' = 0
  BY <1>1 DEF Pending, Uncounted, Idle
<1>6. Pending' = PagesOf(b)
  BY <1>1, <1>2 DEF Pending, PagesOf
<1>7. BitmapExact'
  <2>1. bitmap' = ReservedPages \cup Pending' \cup UNION {PagesOf(c) : c \in held'}
    BY <1>1, <1>5, <1>6 DEF IInv, BitmapExact
  <2>2. \A c \in held' : PagesOf(c) \cap (ReservedPages \cup Pending') = {}
    BY <1>1, <1>6 DEF IInv, BitmapExact
  <2>3. \A c, d \in held' : c # d => PagesOf(c) \cap PagesOf(d) = {}
    BY <1>1 DEF IInv, BitmapExact
  <2>4. Pending' \cap ReservedPages = {}
    BY <1>6 DEF IInv, BitmapExact
  <2> QED
    BY <2>1, <2>2, <2>3, <2>4 DEF BitmapExact
<1>8. UsedExact'
  BY <1>1, <1>5 DEF IInv, UsedExact
<1> QED
  BY <1>3, <1>4, <1>7, <1>8 DEF IInv

LEMMA FreeClearInv == ASSUME IInv, FreeClear PROVE IInv'
<1>1. /\ freeing.at = "clear"
      /\ used_pages' = used_pages /\ last_alloc_idx' = last_alloc_idx
      /\ held' = held /\ torn' = torn
  BY DEF FreeClear
<1>2. /\ freeing \in Freeing /\ MaxRun \in Nat /\ freeing.first \in Nat
      /\ freeing.n \in 0..MaxRun /\ freeing.i \in 0..MaxRun /\ freeing.i <= freeing.n
      /\ freeing.first + freeing.n <= TotalPages
  BY Numbers DEF IInv, TypeOK, RangeOK
<1>3. CASE freeing.i = freeing.n
  <2>1. freeing' = [freeing EXCEPT !.at = "load"] /\ bitmap' = bitmap
    BY <1>3 DEF FreeClear, Cleared
  <2>2. /\ freeing' \in Freeing /\ freeing'.at = "load"
        /\ freeing'.i = freeing.i /\ freeing'.n = freeing.n /\ freeing'.first = freeing.first
    BY <1>2, <2>1 DEF Freeing
  <2>3. TypeOK' /\ RangeOK'
    BY <1>1, <1>3, <2>1, <2>2 DEF IInv, TypeOK, RangeOK
  <2>4. Pending = {} /\ Pending' = {} /\ Uncounted' = Uncounted
    BY <1>1, <1>2, <1>3, <2>2 DEF Pending, Uncounted
  <2>5. BitmapExact' /\ UsedExact'
    BY <1>1, <2>1, <2>4 DEF IInv, BitmapExact, UsedExact
  <2> QED
    BY <2>3, <2>5 DEF IInv
<1>4. CASE freeing.i # freeing.n
  <2> DEFINE page == freeing.first + freeing.i
  <2>1. bitmap' = bitmap \ {page} /\ freeing' = [freeing EXCEPT !.i = @ + 1]
    BY <1>4 DEF FreeClear, Cleared
  <2>2. freeing.i + 1 \in 0..MaxRun /\ freeing.i + 1 <= freeing.n
    BY <1>2, <1>4
  <2>3. /\ freeing' \in Freeing /\ freeing'.at = "clear"
        /\ freeing'.i = freeing.i + 1 /\ freeing'.n = freeing.n /\ freeing'.first = freeing.first
    BY <1>1, <1>2, <2>1, <2>2 DEF Freeing
  <2>4. TypeOK' /\ RangeOK'
    BY <1>1, <1>2, <2>1, <2>2, <2>3 DEF IInv, TypeOK, RangeOK
  <2>5. Pending = {page} \cup Pending' /\ page \notin Pending'
    BY <1>1, <1>2, <1>4, <2>3 DEF Pending
  <2>6. Uncounted = freeing.i /\ Uncounted' = freeing.i + 1
    BY <1>1, <2>3 DEF Uncounted
  <2>7. BitmapExact'
    <3>1. page \in bitmap /\ page \notin ReservedPages /\ \A b \in held : page \notin PagesOf(b)
      BY <2>5 DEF IInv, BitmapExact
    <3>2. bitmap' = ReservedPages \cup Pending' \cup UNION {PagesOf(b) : b \in held'}
      BY <1>1, <2>1, <2>5, <3>1 DEF IInv, BitmapExact
    <3>3. \A b \in held' : PagesOf(b) \cap (ReservedPages \cup Pending') = {}
      BY <1>1, <2>5 DEF IInv, BitmapExact
    <3>4. Pending' \cap ReservedPages = {}
      BY <2>5 DEF IInv, BitmapExact
    <3> QED
      BY <1>1, <3>2, <3>3, <3>4 DEF IInv, BitmapExact
  <2>8. UsedExact'
    <3>1. IsFiniteSet(bitmap) /\ Cardinality(bitmap) \in Nat /\ page \in bitmap
      BY BitmapFinite, <2>5 DEF IInv, BitmapExact
    <3>2. Cardinality(bitmap') = Cardinality(bitmap) - 1
      BY <2>1, <3>1, FS_RemoveElement
    <3>3. Cardinality(bitmap') + Uncounted' = Cardinality(bitmap) + Uncounted
      BY <1>2, <2>6, <3>1, <3>2
    <3> QED
      BY <1>1, <3>3 DEF IInv, UsedExact
  <2> QED
    BY <2>4, <2>7, <2>8 DEF IInv
<1> QED
  BY <1>3, <1>4

LEMMA FreeLoadInv == ASSUME IInv, FreeLoad PROVE IInv'
<1>1. /\ freeing.at = "load"
      /\ freeing' = [freeing EXCEPT !.at = "store", !.loaded = used_pages]
      /\ bitmap' = bitmap /\ used_pages' = used_pages
      /\ last_alloc_idx' = last_alloc_idx /\ held' = held /\ torn' = torn
  BY DEF FreeLoad
<1>2. freeing \in Freeing /\ used_pages \in Nat
  BY DEF IInv, TypeOK
<1>3. /\ freeing' \in Freeing /\ freeing'.at = "store" /\ freeing'.loaded = used_pages
      /\ freeing'.i = freeing.i /\ freeing'.n = freeing.n /\ freeing'.first = freeing.first
  BY <1>1, <1>2 DEF Freeing
<1>4. TypeOK' /\ RangeOK'
  BY <1>1, <1>3 DEF IInv, TypeOK, RangeOK
<1>5. Pending' = Pending /\ Uncounted' = Uncounted
  BY <1>1, <1>3 DEF Pending, Uncounted
<1>6. BitmapExact' /\ UsedExact'
  BY <1>1, <1>5 DEF IInv, BitmapExact, UsedExact
<1> QED
  BY <1>4, <1>6 DEF IInv

LEMMA FreeStoreInv == ASSUME IInv, FreeStore PROVE IInv'
<1>1. /\ freeing.at = "store"
      /\ used_pages' = Less(freeing.loaded, freeing.n)
      /\ freeing' = [freeing EXCEPT !.at = "hint"]
      /\ bitmap' = bitmap /\ last_alloc_idx' = last_alloc_idx /\ held' = held /\ torn' = torn
  BY DEF FreeStore
<1>2. /\ freeing \in Freeing /\ MaxRun \in Nat /\ freeing.loaded \in Nat
      /\ freeing.n \in Nat /\ freeing.i = freeing.n
  BY <1>1, Numbers DEF IInv, TypeOK, RangeOK
<1>3. /\ freeing' \in Freeing /\ freeing'.at = "hint"
      /\ freeing'.i = freeing.i /\ freeing'.n = freeing.n /\ freeing'.first = freeing.first
  BY <1>1, <1>2 DEF Freeing
<1>4. TypeOK' /\ RangeOK'
  <2>1. used_pages' \in Nat
    BY <1>1, <1>2 DEF Less
  <2> QED
    BY <1>1, <1>3, <2>1 DEF IInv, TypeOK, RangeOK
<1>5. Pending' = Pending /\ Uncounted = freeing.n /\ Uncounted' = 0
  BY <1>1, <1>2, <1>3 DEF Pending, Uncounted
<1>6. BitmapExact'
  BY <1>1, <1>5 DEF IInv, BitmapExact
<1>7. UsedExact'
  <2>1. ~torn' => /\ freeing.loaded = used_pages
                  /\ used_pages = Cardinality(bitmap) + Uncounted
    BY <1>1 DEF IInv, UsedExact, RangeOK
  <2>2. Cardinality(bitmap) \in Nat
    BY BitmapFinite DEF IInv
  <2>3. (freeing.loaded = used_pages /\ used_pages = Cardinality(bitmap) + Uncounted)
            => used_pages' = Cardinality(bitmap') + Uncounted'
    BY <1>1, <1>2, <1>5, <2>2 DEF Less
  <2> QED
    BY <2>1, <2>3 DEF UsedExact
<1> QED
  BY <1>4, <1>6, <1>7 DEF IInv

LEMMA IdleOK == Idle \in Freeing /\ Idle.first + Idle.n <= TotalPages /\ Idle.i <= Idle.n
<1>1. 0 \in AllPages /\ TotalPages \in Nat /\ MaxRun \in Nat /\ 0 \in 0..MaxRun
  BY SizeAssumption DEF AllPages
<1> QED
  BY <1>1 DEF Idle, Freeing

LEMMA FreeHintInv == ASSUME IInv, FreeHint \/ FreeLower PROVE IInv'
<1>1. /\ freeing.at \in {"hint", "lower"}
      /\ freeing' = [freeing EXCEPT !.at = "lower"] \/ freeing' = Idle
      /\ bitmap' = bitmap /\ used_pages' = used_pages
      /\ last_alloc_idx' \in {last_alloc_idx, freeing.first}
      /\ held' = held /\ torn' = torn
  BY DEF FreeHint, FreeLower
<1>2. freeing \in Freeing /\ freeing.first \in AllPages
  BY Numbers DEF IInv, TypeOK
<1>3. /\ freeing' \in Freeing /\ freeing'.at \notin {"clear", "load", "store"}
      /\ freeing'.i <= freeing'.n /\ freeing'.first + freeing'.n <= TotalPages
  <2>1. CASE freeing' = [freeing EXCEPT !.at = "lower"]
    BY <1>2, <2>1 DEF Freeing, IInv, RangeOK
  <2>2. CASE freeing' = Idle
    BY <2>2, IdleOK DEF Idle
  <2> QED
    BY <1>1, <2>1, <2>2
<1>4. TypeOK' /\ RangeOK'
  BY <1>1, <1>2, <1>3 DEF IInv, TypeOK, RangeOK
<1>5. Pending' = {} /\ Pending = {} /\ Uncounted' = 0 /\ Uncounted = 0
  BY <1>1, <1>3 DEF Pending, Uncounted
<1>6. BitmapExact' /\ UsedExact'
  BY <1>1, <1>5 DEF IInv, BitmapExact, UsedExact
<1> QED
  BY <1>4, <1>6 DEF IInv

LEMMA NextInv == IInv /\ [Next]_vars => IInv'
<1> SUFFICES ASSUME IInv, [Next]_vars PROVE IInv'
  OBVIOUS
<1>1. ASSUME NEW n \in 1..MaxRun, Alloc(n) PROVE IInv'
  BY <1>1, AllocInv
<1>2. ASSUME NEW b \in held, FreePages(b) \/ FreeBegin(b) PROVE IInv'
  BY <1>2, FreePagesInv, FreeBeginInv
<1>3. ASSUME FreeClear \/ FreeLoad \/ FreeStore \/ FreeHint \/ FreeLower PROVE IInv'
  BY <1>3, FreeClearInv, FreeLoadInv, FreeStoreInv, FreeHintInv
<1>4. ASSUME UNCHANGED vars PROVE IInv'
  BY <1>4 DEF vars, IInv, TypeOK, RangeOK, BitmapExact, UsedExact, Pending, Uncounted
<1> QED
  BY <1>1, <1>2, <1>3, <1>4 DEF Next

-----------------------------------------------------------------------------
\* The inductive invariant: types, what the interrupted free_pages knows of itself,
\* and the two facts the theorems below state.
THEOREM Invariance == Spec => []IInv
  BY InitInv, NextInv, PTL DEF Spec

\* The state keeps its types: in particular last_alloc_idx stays a page number.
THEOREM TypeCorrect == Spec => []TypeOK
<1>1. IInv => TypeOK
  BY DEF IInv
<1> QED
  BY <1>1, Invariance, PTL

\* alloc_pages_raw hands out no page twice and free_pages loses none, wherever a
\* timer tick cuts free_pages short; and used_pages counts the set bits as long as no
\* operation has run between the load and the store of an interrupted free_pages.
THEOREM BooksStayExact == Spec => []BooksExact
<1>1. IInv => BooksExact
  BY DEF IInv, BooksExact
<1> QED
  BY <1>1, Invariance, PTL

-----------------------------------------------------------------------------
\* The search of find_free_pages: both loops together pass every page.
LEMMA ClearIsFound ==
    ASSUME IInv, bitmap # AllPages
    PROVE  FindFreePages(1) # {}
<1>1. /\ last_alloc_idx \in Nat /\ last_alloc_idx < TotalPages /\ TotalPages \in Nat
      /\ bitmap \subseteq AllPages
  BY Numbers DEF IInv, TypeOK, AllPages
<1>2. PICK p \in AllPages : p \notin bitmap
  BY <1>1
<1>3. p \in Nat /\ p < TotalPages /\ \A k \in p..(p + 1 - 1) : k \notin bitmap
  BY <1>1, <1>2 DEF AllPages
<1>4. \A lo \in Nat, hi \in Nat : Runs(1, lo, hi) \subseteq Nat
  BY DEF Runs
<1>5. \A S \in SUBSET Nat : S # {} => FirstOf(S) # {}
  BY LeastElement DEF FirstOf
<1>6. CASE Runs(1, last_alloc_idx, TotalPages) # {}
  BY <1>1, <1>4, <1>5, <1>6 DEF FindFreePages
<1>7. CASE Runs(1, last_alloc_idx, TotalPages) = {}
  <2>1. ~(last_alloc_idx <= p)
    BY <1>1, <1>3, <1>7 DEF Runs
  <2>2. p \in Runs(1, 0, last_alloc_idx)
    BY <1>1, <1>3, <2>1 DEF Runs
  <2> QED
    BY <1>1, <1>4, <1>5, <1>7, <2>2 DEF FindFreePages
<1> QED
  BY <1>6, <1>7

\* As long as the count has not drifted, a page can be allocated whenever one is
\* clear: neither the hint nor the test of used_pages hides it (alloc.c:41-66).
THEOREM ClearPageFits == Spec => []SinglePageFits
<1>1. IInv => SinglePageFits
  <2> SUFFICES ASSUME IInv, ~torn, freeing = Idle, bitmap # AllPages PROVE CanAlloc(1)
    BY DEF SinglePageFits
  <2>1. used_pages = Cardinality(bitmap)
    <3>1. Uncounted = 0
      BY DEF Uncounted, Idle
    <3>2. Cardinality(bitmap) \in Nat
      BY BitmapFinite DEF IInv
    <3> QED
      BY <3>1, <3>2 DEF IInv, UsedExact
  <2>2. IsFiniteSet(AllPages) /\ Cardinality(AllPages) = TotalPages
    BY FS_Interval, SizeAssumption DEF AllPages
  <2>3. Cardinality(bitmap) <= TotalPages /\ Cardinality(bitmap) # TotalPages
    BY <2>2, FS_Subset DEF IInv, TypeOK
  <2>4. used_pages + 1 <= TotalPages
    BY <2>1, <2>3, Numbers
  <2> QED
    BY <2>4, ClearIsFound DEF CanAlloc
<1> QED
  BY <1>1, Invariance, PTL

-----------------------------------------------------------------------------
\* The allocator implements PageMap: its blocks are the page sets of the held
\* ones, and available are the pages whose bit is clear.
Lent == {PagesOf(b) : b \in held}
Spare == AllPages \ bitmap

LEMMA InitMaps == Init => Abstract!Init
BY DEF Init, Abstract!Init

LEMMA AllocGrabs ==
    ASSUME IInv, NEW n \in 1..MaxRun, Alloc(n)
    PROVE  Abstract!Grab
<1>1. PICK first \in FindFreePages(n) :
         /\ bitmap' = bitmap \cup PagesOf([first |-> first, n |-> n])
         /\ held' = held \cup {[first |-> first, n |-> n]}
  BY DEF Alloc, Mark
<1> DEFINE block == PagesOf([first |-> first, n |-> n])
<1>2. n \in Nat \ {0} /\ first \in AllPages /\ first + n <= TotalPages /\ block \cap bitmap = {}
  BY <1>1, FoundIsClear, Numbers DEF IInv, PagesOf
<1>3. block = first..(first + n - 1)
  BY DEF PagesOf
<1>4. block \subseteq Spare /\ block # {} /\ first \in block /\ first + n - 1 \in block
  <2>1. first \in block /\ first + n - 1 \in block /\ first \in Nat
    BY <1>2, <1>3, SizeAssumption DEF AllPages
  <2>2. block \subseteq AllPages
    BY <1>2, <1>3, SizeAssumption DEF AllPages
  <2> HIDE DEF block
  <2> QED
    BY <1>2, <2>1, <2>2 DEF Spare
<1>5. ReservedPages \subseteq bitmap
  BY DEF IInv, BitmapExact
<1>6. Abstract!Run(block)
  BY <1>3, <1>4, <1>5 DEF Abstract!Run, Spare
<1>7. Lent' = Lent \cup {block} /\ Spare' = Spare \ block
  BY <1>1 DEF Lent, Spare
<1> HIDE DEF block
<1> QED
  BY <1>4, <1>6, <1>7 DEF Abstract!Grab, Lent, Spare

\* No two held blocks are the same set of pages.
LEMMA OneBlockEach ==
    ASSUME IInv, NEW b \in held
    PROVE  {PagesOf(c) : c \in held \ {b}} = Lent \ {PagesOf(b)}
<1>1. \A c \in held : PagesOf(c) # {}
  BY Numbers DEF PagesOf
<1>2. \A c \in held : c # b => PagesOf(c) # PagesOf(b)
  BY <1>1 DEF IInv, BitmapExact
<1> QED
  BY <1>2 DEF Lent

LEMMA FreeReleases ==
    ASSUME IInv, NEW b \in held, FreePages(b) \/ FreeBegin(b)
    PROVE  Abstract!Release
<1>1. Lent' = Lent \ {PagesOf(b)}
  BY OneBlockEach DEF FreePages, FreeBegin, Lent
<1>2. PagesOf(b) \in Lent /\ PagesOf(b) \subseteq AllPages
  BY Numbers DEF Lent, IInv, TypeOK
<1>3. PICK back \in SUBSET PagesOf(b) : Spare' = Spare \cup back
  <2>1. CASE FreePages(b)
    BY <1>2, <2>1 DEF FreePages, Spare
  <2>2. CASE FreeBegin(b)
    <3>1. Spare' = Spare \cup {} /\ {} \in SUBSET PagesOf(b)
      BY <2>2 DEF FreeBegin, Spare
    <3> QED
      BY <3>1
  <2> QED
    BY <2>1, <2>2
<1> QED
  BY <1>1, <1>2, <1>3 DEF Abstract!Release, Lent, Spare

LEMMA ClearReturns ==
    ASSUME IInv, FreeClear
    PROVE  Abstract!Return
<1>1. Lent' = Lent
  BY DEF FreeClear, Lent
<1>2. PICK back \in SUBSET Pending : bitmap' = bitmap \ back
  <2>1. CASE Cleared(freeing)
    <3>1. bitmap' = bitmap \ {} /\ {} \in SUBSET Pending
      BY <2>1 DEF FreeClear
    <3> QED
      BY <3>1
  <2>2. CASE ~Cleared(freeing)
    <3>1. /\ freeing.first \in Nat /\ freeing.n \in Nat /\ freeing.i \in Nat
          /\ freeing.i < freeing.n
      BY <2>2, Numbers DEF IInv, RangeOK, Cleared
    <3>2. freeing.first + freeing.i \in Pending
      BY <3>1 DEF FreeClear, Pending
    <3> QED
      BY <2>2, <3>2 DEF FreeClear
  <2> QED
    BY <2>1, <2>2
<1>3. /\ back \in SUBSET ((AllPages \ ReservedPages) \ UNION Lent)
      /\ Spare' = Spare \cup back
  <2>1. Pending \subseteq bitmap /\ Pending \cap ReservedPages = {}
        /\ \A b \in held : PagesOf(b) \cap Pending = {}
    BY DEF IInv, BitmapExact
  <2> QED
    BY <1>2, <2>1 DEF IInv, TypeOK, Spare, Lent
<1> QED
  BY <1>1, <1>3 DEF Abstract!Return, Lent, Spare

LEMMA StepMaps ==
    ASSUME IInv, [Next]_vars
    PROVE  Abstract!Next \/ UNCHANGED <<Lent, Spare>>
<1>1. ASSUME NEW n \in 1..MaxRun, Alloc(n) PROVE Abstract!Next
  BY <1>1, AllocGrabs DEF Abstract!Next
<1>2. ASSUME NEW b \in held, FreePages(b) \/ FreeBegin(b) PROVE Abstract!Next
  BY <1>2, FreeReleases DEF Abstract!Next
<1>3. ASSUME FreeClear PROVE Abstract!Next
  BY <1>3, ClearReturns DEF Abstract!Next
<1>4. ASSUME FreeLoad \/ FreeStore \/ FreeHint \/ FreeLower \/ UNCHANGED vars
      PROVE  UNCHANGED <<Lent, Spare>>
  BY <1>4 DEF FreeLoad, FreeStore, FreeHint, FreeLower, vars, Lent, Spare
<1> QED
  BY <1>1, <1>2, <1>3, <1>4 DEF Next

\* The allocator is a page map: every block handed out is a run of pages nobody
\* has, and pages come back only from blocks given back, one by one when a tick
\* cuts free_pages short.
THEOREM AllocIsPageMap == Spec => IsPageMap
<1>1. IInv /\ [Next]_vars => [Abstract!Next]_<<Lent, Spare>>
  BY StepMaps
<1> QED
  BY <1>1, InitMaps, Invariance, PTL DEF Spec, IsPageMap, Abstract!Spec, Lent, Spare

=============================================================================
