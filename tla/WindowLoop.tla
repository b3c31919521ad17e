----------------------------- MODULE WindowLoop -----------------------------
(***************************************************************************)
(* update_window of lab2/src/util.c as the code runs it: two loops over an *)
(* array of ints and a memset, one action per turn of a loop.  RtpSender   *)
(* and RtpReceiver use its result in one step, the operator update_window  *)
(* of SeqNum; this module is checked against that operator for every       *)
(* window and every index.                                                 *)
(***************************************************************************)
EXTENDS SeqNum

CONSTANT MaxWindow      \* bound: largest window size tried

ASSUME MaxWindowAssumption == MaxWindow \in Nat \ {0}

VARIABLES
    wsize, ind, window0,    \* the arguments of the call
    window,                 \* the array, changed in place
    lind, rind, wshift,     \* the locals lind, rind and shift
    upc                     \* "count", "move", "clear", "done"

uvars == <<wsize, ind, window0, window, lind, rind, wshift, upc>>

LoopInit ==
    /\ wsize \in 1 .. MaxWindow
    /\ ind \in 0 .. wsize - 1
    /\ window0 \in Windows(wsize)
    /\ window = [window0 EXCEPT ![ind] = TRUE]
    /\ lind = 0 /\ rind = 0 /\ wshift = 0
    /\ upc = "count"

\* while (shift < wsize && window[shift]) ++shift;
CountFlag ==
    /\ upc = "count"
    /\ wshift < wsize /\ window[wshift]
    /\ wshift' = wshift + 1
    /\ UNCHANGED <<wsize, ind, window0, window, lind, rind, upc>>

\* Mutant: the copy starts one flag too far up.
CountEndsTooFar ==
    /\ upc = "count"
    /\ wshift < wsize => ~window[wshift]
    /\ rind' = wshift + 1
    /\ upc' = "move"
    /\ UNCHANGED <<wsize, ind, window0, window, lind, wshift>>

\* Mutant: the copy starts at the bottom.
CountEndsAtBottom ==
    /\ upc = "count"
    /\ wshift < wsize => ~window[wshift]
    /\ rind' = lind
    /\ upc' = "move"
    /\ UNCHANGED <<wsize, ind, window0, window, lind, wshift>>

\* rind = shift;
CountEnds ==
    /\ upc = "count"
    /\ wshift < wsize => ~window[wshift]
    /\ rind' = wshift
    /\ upc' = "move"
    /\ UNCHANGED <<wsize, ind, window0, window, lind, wshift>>

\* while (rind < wsize) window[lind++] = window[rind++];
MoveFlag ==
    /\ upc = "move"
    /\ rind < wsize
    /\ window' = [window EXCEPT ![lind] = window[rind]]
    /\ lind' = lind + 1
    /\ rind' = rind + 1
    /\ UNCHANGED <<wsize, ind, window0, wshift, upc>>

\* Mutant: the flags above the copied ones stay.
RestStays ==
    /\ upc = "move"
    /\ rind >= wsize
    /\ upc' = "done"
    /\ UNCHANGED <<wsize, ind, window0, window, lind, rind, wshift>>

\* memset(window + lind, 0, (wsize - lind) * sizeof(int));
ClearRest ==
    /\ upc = "move"
    /\ rind >= wsize
    /\ window' = [k \in 0 .. wsize - 1 |-> k < lind /\ window[k]]
    /\ upc' = "done"
    /\ UNCHANGED <<wsize, ind, window0, lind, rind, wshift>>

Returned == upc = "done" /\ UNCHANGED uvars

LoopNext == CountFlag \/ CountEnds \/ MoveFlag \/ ClearRest \/ Returned

LoopSpec == LoopInit /\ [][LoopNext]_uvars

LoopTypeOK ==
    /\ window0 \in Windows(wsize) /\ window \in Windows(wsize)
    /\ ind \in 0 .. wsize - 1
    /\ wshift \in 0 .. wsize
    /\ lind \in 0 .. wsize /\ rind \in 0 .. wsize
    /\ upc \in {"count", "move", "done"}

\* The loops compute what the one-step operator says: the length of the
\* leading run, and the window moved down by it with zeroes behind.  The copy
\* runs over the array it reads from, so the order of its turns matters.
LoopsComputeUpdate ==
    upc = "done" =>
        [shift |-> wshift, window |-> window] = update_window(window0, wsize, ind)

\* The packets the caller goes on to count as finished are all flagged, and
\* the first packet of the new window is not: a window never rests on a
\* packet that is already finished, which nobody would send or confirm again.
BaseIsUnfinished ==
    upc = "done" =>
        /\ \A k \in 0 .. wshift - 1 : window0[k] \/ k = ind
        /\ ~window[0]
=============================================================================
