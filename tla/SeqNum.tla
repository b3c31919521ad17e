------------------------------- MODULE SeqNum -------------------------------
(***************************************************************************)
(* The sequence-number arithmetic and the window update of                 *)
(* lab2/src/util.c.  The code computes modulo 2^31 (it masks a uint32_t    *)
(* with 0x7fffffff); SEQMOD stands for that modulus.                       *)
(***************************************************************************)
EXTENDS Integers

CONSTANT SEQMOD     \* 2^31 in the code

ASSUME SeqModAssumption == SEQMOD \in Nat \ {0}

SeqNums == 0 .. SEQMOD - 1

\* Mutant: the mask is forgotten.
get_unmasked_seqnum == SEQMOD

\* "Random" first sequence number: the code always returns INT32_MAX.
get_random_seqnum == SEQMOD - 1

\* (seqnum + addnum) & 0x7fffffff; 2^31 divides 2^32, so the wrap of the
\* unsigned addition does not show.
seqnum_add(seqnum, addnum) == (seqnum + addnum) % SEQMOD

\* Steps from l forward to r.
sqn_dis(l, r) == (r - l) % SEQMOD

\* Is seqnum in the circular interval [l, r)?  With l = r it answers TRUE.
seqnum_is_in(seqnum, l, r) ==
    IF l < r THEN seqnum >= l /\ seqnum < r
             ELSE seqnum >= l \/ seqnum < r

-----------------------------------------------------------------------------
\* A window is an array of flags, window[k] for the k-th packet after the base.
Windows(wsize) == [0 .. wsize - 1 -> BOOLEAN]

EmptyWindow(wsize) == [k \in 0 .. wsize - 1 |-> FALSE]

\* Mutant: every flag of a window counts, with gaps between them or not.
FlagCount(window, wsize) ==
    CHOOSE n \in 0 .. wsize : /\ \A k \in n .. wsize - 1 : ~window[k]
                              /\ n = 0 \/ window[n - 1]

\* Length of the run of set flags a window starts with.
LeadingRun(window, wsize) ==
    CHOOSE n \in 0 .. wsize : /\ \A k \in 0 .. n - 1 : window[k]
                              /\ n = wsize \/ ~window[n]

\* Mutant: nothing is cleared at the top.
ShiftKeepsTop(window, wsize, shift) ==
    [k \in 0 .. wsize - 1 |->
        IF k + shift < wsize THEN window[k + shift] ELSE window[k]]

\* The window moved down by shift, zeroes coming in at the top.
ShiftWindow(window, wsize, shift) ==
    [k \in 0 .. wsize - 1 |-> k + shift < wsize /\ window[k + shift]]

\* update_window marks flag ind, drops the leading run and returns its length.
update_window(window, wsize, ind) ==
    LET marked == [window EXCEPT ![ind] = TRUE]
        shift  == LeadingRun(marked, wsize)
    IN  [shift |-> shift, window |-> ShiftWindow(marked, wsize, shift)]
=============================================================================
