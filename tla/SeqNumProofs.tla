---------------------------- MODULE SeqNumProofs ----------------------------
(***************************************************************************)
(* Facts about the sequence-number arithmetic and the window update of     *)
(* SeqNum, for every modulus and every window size.                        *)
(***************************************************************************)
EXTENDS SeqNum, TLAPS, WellFoundedInduction

\* A set of naturals has a least element.
LEMMA LeastNat ==
    ASSUME NEW T \in SUBSET Nat, T # {}
    PROVE  \E m \in T : \A k \in T : m <= k
<1>1. IsWellFoundedOn(OpToRel(<, Nat), Nat)
  BY NatLessThanWellFounded, Zenon
<1>2. PICK m \in T : \A k \in T : <<k, m>> \notin OpToRel(<, Nat)
  BY <1>1, WFMin, Zenon
<1>3. \A k \in T : ~(k < m)
  BY <1>2 DEF OpToRel
<1> QED
  BY <1>3

-----------------------------------------------------------------------------
\* seqnum_add stays in range.
LEMMA AddType ==
    ASSUME NEW s \in Int, NEW n \in Int
    PROVE  seqnum_add(s, n) \in SeqNums
BY SeqModAssumption DEF seqnum_add, SeqNums

\* seqnum_add is plain addition while the sum is in range.
LEMMA AddPlain ==
    ASSUME NEW s \in Int, NEW n \in Int, 0 <= s + n, s + n < SEQMOD
    PROVE  seqnum_add(s, n) = s + n
BY SeqModAssumption DEF seqnum_add

\* seqnum_add of a negative number wraps upward.
LEMMA AddBelow ==
    ASSUME NEW s \in Int, NEW n \in Int, s + n < 0, -SEQMOD <= s + n
    PROVE  seqnum_add(s, n) = s + n + SEQMOD
BY SeqModAssumption DEF seqnum_add

\* seqnum_add past the largest number wraps to 0 and up.
LEMMA AddAbove ==
    ASSUME NEW s \in Int, NEW n \in Int, SEQMOD <= s + n, s + n < 2 * SEQMOD
    PROVE  seqnum_add(s, n) = s + n - SEQMOD
BY SeqModAssumption DEF seqnum_add

\* sqn_dis counts the steps forward.
LEMMA DistancePlain ==
    ASSUME NEW l \in Int, NEW r \in Int, 0 <= r - l, r - l < SEQMOD
    PROVE  sqn_dis(l, r) = r - l
BY SeqModAssumption DEF sqn_dis

\* The test of util.c says what its comment says, "logically in [l, r)": the
\* number is met on the way from l forward before r is, wherever the interval
\* wraps.  An empty interval (l = r) is the exception: it contains everything,
\* so callers must not ask about one.
THEOREM IntervalTest ==
    ASSUME NEW s \in SeqNums, NEW l \in SeqNums, NEW r \in SeqNums
    PROVE  /\ l # r => (seqnum_is_in(s, l, r) <=> sqn_dis(l, s) < sqn_dis(l, r))
           /\ l = r => seqnum_is_in(s, l, r)
<1>1. \A x \in SeqNums : sqn_dis(l, x) = IF l <= x THEN x - l ELSE x - l + SEQMOD
  BY SeqModAssumption DEF sqn_dis, SeqNums
<1>2. l \in Int /\ r \in Int /\ s \in Int
  BY DEF SeqNums
<1>3. 0 <= s /\ s < SEQMOD /\ 0 <= l /\ l < SEQMOD /\ 0 <= r /\ r < SEQMOD
  BY SeqModAssumption DEF SeqNums
<1> QED
  BY <1>1, <1>2, <1>3, SeqModAssumption DEF seqnum_is_in

\* Going n steps forward and measuring the way gives n back.
THEOREM DistanceOfAdd ==
    ASSUME NEW l \in SeqNums, NEW n \in 0 .. SEQMOD - 1
    PROVE  sqn_dis(l, seqnum_add(l, n)) = n
<1>1. l \in Int /\ 0 <= l /\ l < SEQMOD /\ SEQMOD \in Int
  BY SeqModAssumption DEF SeqNums
<1>2. CASE l + n < SEQMOD
  BY <1>1, <1>2, AddPlain, DistancePlain
<1>3. CASE l + n >= SEQMOD
  <2>1. seqnum_add(l, n) = l + n - SEQMOD
    BY <1>1, <1>3, AddAbove
  <2>2. (l + n - SEQMOD) - l = n - SEQMOD
    BY <1>1
  <2>3. (n - SEQMOD) % SEQMOD = n
    BY <1>1, SeqModAssumption
  <2> QED
    BY <2>1, <2>2, <2>3 DEF sqn_dis
<1> QED
  BY <1>1, <1>2, <1>3

-----------------------------------------------------------------------------
\* The leading run exists, and is what its definition says.
LEMMA LeadingRunExists ==
    ASSUME NEW wsize \in Nat, NEW w \in Windows(wsize)
    PROVE  /\ LeadingRun(w, wsize) \in 0 .. wsize
           /\ \A k \in 0 .. LeadingRun(w, wsize) - 1 : w[k]
           /\ LeadingRun(w, wsize) = wsize \/ ~w[LeadingRun(w, wsize)]
<1> DEFINE Stops == {n \in 0 .. wsize : n = wsize \/ ~w[n]}
<1>1. PICK m \in Stops : \A k \in Stops : m <= k
  <2>1. Stops \in SUBSET Nat /\ wsize \in Stops
    OBVIOUS
  <2> QED
    BY <2>1, LeastNat
<1>2. \A k \in 0 .. m - 1 : w[k]
  BY <1>1 DEF Windows
<1>3. \E n \in 0 .. wsize : (\A k \in 0 .. n - 1 : w[k]) /\ (n = wsize \/ ~w[n])
  BY <1>1, <1>2
<1> QED
  BY <1>3 DEF LeadingRun

\* What update_window returns and leaves: the flags below the shift were set
\* or are the one just marked, the others moved down by the shift, and the
\* first flag of the new window is clear.
THEOREM UpdateWindow ==
    ASSUME NEW wsize \in Nat \ {0}, NEW w \in Windows(wsize), NEW ind \in 0 .. wsize - 1,
           NEW u, u = update_window(w, wsize, ind)
    PROVE  /\ u.shift \in 0 .. wsize
           /\ u.window \in Windows(wsize)
           /\ \A k \in 0 .. u.shift - 1 : w[k] \/ k = ind
           /\ \A k \in 0 .. wsize - 1 :
                 u.window[k] <=> /\ k + u.shift < wsize
                                 /\ w[k + u.shift] \/ k + u.shift = ind
           /\ ~u.window[0]
<1> DEFINE marked == [w EXCEPT ![ind] = TRUE]
           run == LeadingRun(marked, wsize)
<1>1. marked \in Windows(wsize) /\ \A k \in 0 .. wsize - 1 : marked[k] <=> w[k] \/ k = ind
  BY DEF Windows
<1>2. /\ run \in 0 .. wsize
      /\ \A k \in 0 .. run - 1 : marked[k]
      /\ run = wsize \/ ~marked[run]
  BY <1>1, LeadingRunExists
<1>3. u.shift = run /\ u.window = [k \in 0 .. wsize - 1 |-> k + run < wsize /\ marked[k + run]]
  BY DEF update_window, ShiftWindow
<1> HIDE DEF marked, run
<1>4. u.window \in Windows(wsize)
  BY <1>1, <1>2, <1>3 DEF Windows
<1>5. \A k \in 0 .. wsize - 1 : u.window[k] <=> k + run < wsize /\ (w[k + run] \/ k + run = ind)
  <2> SUFFICES ASSUME NEW k \in 0 .. wsize - 1
               PROVE  u.window[k] <=> k + run < wsize /\ (w[k + run] \/ k + run = ind)
    OBVIOUS
  <2>1. u.window[k] <=> k + run < wsize /\ marked[k + run]
    BY <1>3
  <2>2. k + run < wsize => k + run \in 0 .. wsize - 1
    BY <1>2
  <2> QED
    BY <1>1, <2>1, <2>2
<1> QED
  BY <1>1, <1>2, <1>3, <1>4, <1>5
=============================================================================
