------------------------------ MODULE MCLoader ------------------------------
\* Two uses of one memory.  Either the shell alone allocates and frees, up to four chunks
\* of every size on four pages; or programs are loaded and run beside up to two small
\* chunks, on six.
EXTENDS Loader

File(size, image, entry, magic, stack) ==
    [size |-> size, image_size |-> image, entry |-> entry, magic |-> magic, stack |-> stack]

\* A program of one page; one whose entry lies outside its image; one that claims more
\* than the file holds; one with the wrong magic; one with a stack of two pages.
MCFiles == {File(9, 5, 4, TRUE, 0), File(9, 5, 20, TRUE, 0), File(9, 7, 1, TRUE, 0),
            File(9, 5, 0, FALSE, 0), File(12, 8, 0, TRUE, 17)}

VARIABLE alone

Alone ==
    /\ tasks' = {} /\ load' \in {Idle, [Idle EXCEPT !.at = "free", !.buf = load'.buf]}
    /\ \A b \in blocks' : b.first + b.pags <= 4
Beside == Cardinality(used') <= 2 /\ \A u \in used' : u.asked \in {1, 9, 12}

MCInit == LoaderInit /\ alone \in BOOLEAN
MCNext == LoaderNext /\ (IF alone THEN Alone ELSE Beside) /\ UNCHANGED alone
MCSpec == MCInit /\ [][MCNext]_<<allVars, alone>>
=============================================================================
