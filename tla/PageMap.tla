------------------------------- MODULE PageMap -------------------------------
(***************************************************************************)
(* What the page allocator promises its callers: a block it hands out is a *)
(* run of pages nobody else has, and a page returned can be handed out     *)
(* again.  Where it looks and how it keeps count are left open.            *)
(***************************************************************************)
EXTENDS Naturals

CONSTANT Pages      \* the pages alloc_init leaves available
VARIABLES
    held,           \* the blocks callers have, each a set of pages
    available       \* the pages no block holds and no free_pages is returning

Init == held = {} /\ available = Pages

Run(block) == \E lo, hi \in Pages : block = lo..hi

Grab ==
    \E block \in SUBSET available :
        /\ block # {} /\ Run(block)
        /\ held' = held \cup {block}
        /\ available' = available \ block

Release ==
    \E block \in held :
        /\ held' = held \ {block}
        /\ \E back \in SUBSET block : available' = available \cup back

Return ==
    /\ \E back \in SUBSET (Pages \ UNION held) : available' = available \cup back
    /\ UNCHANGED held

Next == Grab \/ Release \/ Return
Spec == Init /\ [][Next]_<<held, available>>
=============================================================================
