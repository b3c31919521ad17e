-------------------------- MODULE WindowLoopProofs --------------------------
(***************************************************************************)
(* The loops of update_window compute the operator update_window, for      *)
(* every window size, every window and every index.                        *)
(***************************************************************************)
EXTENDS WindowLoop, SeqNumProofs

\* The array after window[ind] = 1.
Marked == [window0 EXCEPT ![ind] = TRUE]

\* What the loops rely on: the flags counted so far are set; the copy reads
\* wshift flags above where it writes, so what it still has to read is as it
\* was, whatever it has overwritten below.
LoopInv ==
    /\ wsize \in Nat \ {0}
    /\ LoopTypeOK
    /\ \A k \in 0 .. wshift - 1 : Marked[k]
    /\ upc = "count" => window = Marked /\ lind = 0 /\ rind = 0
    /\ upc # "count" => rind = lind + wshift /\ (wshift = wsize \/ ~Marked[wshift])
    /\ upc = "move" => \A k \in 0 .. wsize - 1 :
                            window[k] = IF k < lind THEN Marked[k + wshift] ELSE Marked[k]
    /\ upc = "done" => window = ShiftWindow(Marked, wsize, wshift)

\* There is only one number that the two conditions of a leading run allow.
LEMMA LeadingRunIs ==
    ASSUME NEW n \in Nat, NEW w \in Windows(n), NEW s \in 0 .. n,
           \A k \in 0 .. s - 1 : w[k], s = n \/ ~w[s]
    PROVE  LeadingRun(w, n) = s
<1> DEFINE run == LeadingRun(w, n)
<1>1. run \in 0 .. n /\ (\A k \in 0 .. run - 1 : w[k]) /\ (run = n \/ ~w[run])
  BY LeadingRunExists
<1> HIDE DEF run
<1>2. ~(run < s)
  BY <1>1
<1>3. ~(s < run)
  BY <1>1
<1>4. run = s
  BY <1>1, <1>2, <1>3
<1> QED
  BY <1>4 DEF run

\* Marking a flag makes a window of a window.
LEMMA MarkedIsWindow ==
    ASSUME LoopTypeOK
    PROVE  Marked \in Windows(wsize)
BY DEF LoopTypeOK, Windows, Marked

LEMMA InitLoopInv == LoopInit => LoopInv
<1> SUFFICES ASSUME LoopInit PROVE LoopInv
  OBVIOUS
<1>1. wsize \in Nat \ {0} /\ ind \in 0 .. wsize - 1
  BY MaxWindowAssumption DEF LoopInit
<1>2. window = Marked /\ window \in Windows(wsize)
  BY DEF LoopInit, Marked, Windows
<1>3. LoopTypeOK
  BY <1>1, <1>2 DEF LoopInit, LoopTypeOK
<1> QED
  BY <1>1, <1>2, <1>3 DEF LoopInit, LoopInv

LEMMA NextLoopInv == LoopInv /\ [LoopNext]_uvars => LoopInv'
<1> SUFFICES ASSUME LoopInv, [LoopNext]_uvars PROVE LoopInv'
  OBVIOUS
<1>1. LoopTypeOK /\ Marked \in Windows(wsize) /\ wsize \in Nat \ {0}
  BY MarkedIsWindow DEF LoopInv
<1>2. UNCHANGED <<wsize, ind, window0>> /\ Marked' = Marked
  BY DEF LoopNext, CountFlag, CountEnds, MoveFlag, ClearRest, Returned, uvars, Marked
<1>3. CASE CountFlag
  BY <1>1, <1>2, <1>3 DEF CountFlag, LoopInv, LoopTypeOK
<1>4. CASE CountEnds
  BY <1>1, <1>2, <1>4 DEF CountEnds, LoopInv, LoopTypeOK
<1>5. CASE MoveFlag
  <2>1. /\ lind' = lind + 1 /\ rind' = rind + 1 /\ wshift' = wshift /\ upc' = upc
        /\ upc = "move" /\ rind = lind + wshift /\ rind < wsize
        /\ lind \in Nat /\ wshift \in Nat /\ rind \in 0 .. wsize - 1 /\ lind \in 0 .. wsize - 1
        /\ window' = [window EXCEPT ![lind] = window[rind]]
    BY <1>1, <1>5 DEF MoveFlag, LoopInv, LoopTypeOK
  <2>2. window[rind] = Marked[rind] /\ window \in [0 .. wsize - 1 -> BOOLEAN]
    BY <1>1, <2>1 DEF LoopInv, LoopTypeOK, Windows
  <2>3. window' \in Windows(wsize)
    BY <2>1, <2>2 DEF Windows
  <2>4. \A k \in 0 .. wsize - 1 :
            window'[k] = IF k < lind + 1 THEN Marked[k + wshift] ELSE Marked[k]
    <3> SUFFICES ASSUME NEW k \in 0 .. wsize - 1
                 PROVE  window'[k] = IF k < lind + 1 THEN Marked[k + wshift] ELSE Marked[k]
      OBVIOUS
    <3>1. window[k] = IF k < lind THEN Marked[k + wshift] ELSE Marked[k]
      BY <2>1 DEF LoopInv
    <3>2. window'[k] = IF k = lind THEN Marked[lind + wshift] ELSE window[k]
      BY <2>1, <2>2
    <3> QED
      BY <2>1, <3>1, <3>2
  <2>5. LoopTypeOK'
    BY <1>1, <1>2, <2>1, <2>3 DEF LoopTypeOK
  <2> QED
    BY <1>1, <1>2, <2>1, <2>4, <2>5 DEF LoopInv
<1>6. CASE ClearRest
  <2>1. /\ UNCHANGED <<lind, rind, wshift>> /\ upc = "move" /\ upc' = "done"
        /\ rind = lind + wshift /\ rind = wsize
        /\ window' = [k \in 0 .. wsize - 1 |-> k < lind /\ window[k]]
        /\ lind \in 0 .. wsize /\ wshift \in 0 .. wsize
    BY <1>1, <1>6 DEF ClearRest, LoopInv, LoopTypeOK
  <2>2. \A k \in 0 .. wsize - 1 :
            (k < lind /\ window[k]) = (k + wshift < wsize /\ Marked[k + wshift])
    <3> SUFFICES ASSUME NEW k \in 0 .. wsize - 1
                 PROVE  (k < lind /\ window[k]) = (k + wshift < wsize /\ Marked[k + wshift])
      OBVIOUS
    <3>1. k < lind <=> k + wshift < wsize
      BY <1>1, <2>1
    <3>2. k < lind => window[k] = Marked[k + wshift]
      BY <2>1 DEF LoopInv
    <3> QED
      BY <3>1, <3>2, Zenon
  <2>3. window' = ShiftWindow(Marked, wsize, wshift)
    BY <2>1, <2>2, Zenon DEF ShiftWindow
  <2>4. window' \in Windows(wsize)
    BY <2>1 DEF Windows
  <2>5. LoopTypeOK'
    BY <1>1, <1>2, <2>1, <2>4 DEF LoopTypeOK
  <2> QED
    BY <1>1, <1>2, <2>1, <2>3, <2>5 DEF LoopInv
<1>7. CASE UNCHANGED uvars
  BY <1>2, <1>7 DEF uvars, LoopInv, LoopTypeOK, ShiftWindow
<1> QED
  BY <1>3, <1>4, <1>5, <1>6, <1>7 DEF LoopNext, Returned

\* The locals stay within the array: no turn of a loop reads or writes beyond
\* its ends.
THEOREM LoopTypeCorrect == LoopSpec => []LoopTypeOK
<1>1. LoopInv => LoopTypeOK
  BY DEF LoopInv
<1> QED
  BY <1>1, InitLoopInv, NextLoopInv, PTL DEF LoopSpec

\* The copy over the array that it reads from comes out as the operator that
\* the models of the two programs use.
THEOREM LoopsAgree == LoopSpec => []LoopsComputeUpdate
<1>1. LoopInv => LoopsComputeUpdate
  <2> SUFFICES ASSUME LoopInv, upc = "done"
               PROVE  [shift |-> wshift, window |-> window] = update_window(window0, wsize, ind)
    BY DEF LoopsComputeUpdate
  <2>1. Marked \in Windows(wsize) /\ wsize \in Nat /\ wshift \in 0 .. wsize
    BY MarkedIsWindow DEF LoopInv, LoopTypeOK
  <2>2. LeadingRun(Marked, wsize) = wshift
    BY <2>1, LeadingRunIs DEF LoopInv
  <2> QED
    BY <2>2 DEF LoopInv, update_window, Marked
<1> QED
  BY <1>1, InitLoopInv, NextLoopInv, PTL DEF LoopSpec

\* The packets counted as finished are all flagged, and the window never comes
\* to rest on a finished packet.
THEOREM BaseUnfinished == LoopSpec => []BaseIsUnfinished
<1>1. LoopInv => BaseIsUnfinished
  <2> SUFFICES ASSUME LoopInv, upc = "done"
               PROVE  (\A k \in 0 .. wshift - 1 : window0[k] \/ k = ind) /\ ~window[0]
    BY DEF BaseIsUnfinished
  <2>1. /\ window0 \in Windows(wsize) /\ ind \in 0 .. wsize - 1
        /\ wshift \in 0 .. wsize /\ wsize \in Nat \ {0}
    BY DEF LoopInv, LoopTypeOK
  <2>2. \A k \in 0 .. wsize - 1 : Marked[k] => window0[k] \/ k = ind
    BY <2>1 DEF Marked, Windows
  <2>3. window[0] => wshift < wsize /\ Marked[wshift]
    <3>1. window[0] = (0 + wshift < wsize /\ Marked[0 + wshift])
      BY <2>1 DEF LoopInv, ShiftWindow
    <3>2. 0 + wshift = wshift
      BY <2>1
    <3> QED
      BY <3>1, <3>2, Zenon
  <2> QED
    BY <2>1, <2>2, <2>3 DEF LoopInv
<1> QED
  BY <1>1, InitLoopInv, NextLoopInv, PTL DEF LoopSpec
=============================================================================
