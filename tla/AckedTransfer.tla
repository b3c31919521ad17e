---------------------------- MODULE AckedTransfer ----------------------------
(***************************************************************************)
(* What an RTP transfer promises, without packets, windows or numbers.  A  *)
(* file of chunks 0 .. N-1 goes from a sender to a receiver.  The receiver *)
(* collects chunks, saves what it has at some moment, and from then on     *)
(* collects no more.  The sender knows of a growing prefix of the file     *)
(* that it was collected.  Only when it knows so of the whole file can the *)
(* two of them close, the receiver first.  Either may fail at any time.    *)
(***************************************************************************)
EXTENDS Integers, TLAPS

CONSTANT N      \* number of chunks in the file

VARIABLES
    got,        \* chunks the receiver has
    confirmed,  \* chunks below this one are confirmed to the sender
    saved,      \* has the receiver saved the file?
    receiver,   \* the receiver is "open", "closed" or "failed"
    sender      \* and so is the sender

avars == <<got, confirmed, saved, receiver, sender>>

TransferTypeOK ==
    /\ got \subseteq 0 .. N - 1
    /\ confirmed \in 0 .. N
    /\ saved \in BOOLEAN
    /\ {receiver, sender} \subseteq {"open", "closed", "failed"}

TransferInit ==
    /\ got = {}
    /\ confirmed = 0
    /\ saved = FALSE
    /\ receiver = "open"
    /\ sender = "open"

Collect(i) ==
    /\ ~saved /\ receiver = "open"
    /\ got' = got \cup {i}
    /\ UNCHANGED <<confirmed, saved, receiver, sender>>

Confirm(n) ==
    /\ sender = "open"
    /\ n > confirmed
    /\ 0 .. n - 1 \subseteq got
    /\ confirmed' = n
    /\ UNCHANGED <<got, saved, receiver, sender>>

Save ==
    /\ ~saved /\ receiver = "open"
    /\ saved' = TRUE
    /\ UNCHANGED <<got, confirmed, receiver, sender>>

ReceiverCloses ==
    /\ receiver = "open"
    /\ saved
    /\ confirmed = N
    /\ receiver' = "closed"
    /\ UNCHANGED <<got, confirmed, saved, sender>>

SenderCloses ==
    /\ sender = "open"
    /\ receiver = "closed"
    /\ sender' = "closed"
    /\ UNCHANGED <<got, confirmed, saved, receiver>>

ReceiverFails ==
    /\ receiver = "open"
    /\ receiver' = "failed"
    /\ UNCHANGED <<got, confirmed, saved, sender>>

SenderFails ==
    /\ sender = "open"
    /\ sender' = "failed"
    /\ UNCHANGED <<got, confirmed, saved, receiver>>

TransferNext ==
    \/ \E i \in 0 .. N - 1 : Collect(i)
    \/ \E n \in 1 .. N : Confirm(n)
    \/ Save
    \/ ReceiverCloses
    \/ SenderCloses
    \/ ReceiverFails
    \/ SenderFails

TransferSpec == TransferInit /\ [][TransferNext]_avars

\* Whoever closed, the whole file was collected and saved.
ClosedMeansSaved ==
    sender = "closed" \/ receiver = "closed" => saved /\ got = 0 .. N - 1

\* What has been confirmed was collected, and nothing is closed too early.
PromiseInv ==
    /\ TransferTypeOK
    /\ 0 .. confirmed - 1 \subseteq got
    /\ receiver = "closed" => saved /\ confirmed = N
    /\ sender = "closed" => receiver = "closed"

\* The promise is kept by every transfer, of a file of any length: a program
\* that implements this module never ends well with a file cut short.
THEOREM PromiseKept ==
    ASSUME N \in Nat
    PROVE  TransferSpec => []ClosedMeansSaved
<1>0. N \in Nat
  OBVIOUS
<1>1. TransferInit => PromiseInv
  <2> SUFFICES ASSUME TransferInit PROVE PromiseInv
    OBVIOUS
  <2>1. TransferTypeOK
    <3>1. saved \in BOOLEAN
      BY Zenon DEF TransferInit
    <3>2. got \subseteq 0 .. N - 1 /\ confirmed \in 0 .. N
      BY <1>0 DEF TransferInit
    <3>3. {receiver, sender} \subseteq {"open", "closed", "failed"}
      BY DEF TransferInit
    <3> QED
      BY <3>1, <3>2, <3>3 DEF TransferTypeOK
  <2>2. 0 .. confirmed - 1 \subseteq got
    BY DEF TransferInit
  <2>3. receiver # "closed" /\ sender # "closed"
    BY DEF TransferInit
  <2> QED
    BY <2>1, <2>2, <2>3 DEF PromiseInv
<1>2. PromiseInv /\ [TransferNext]_avars => PromiseInv'
  <2> SUFFICES ASSUME PromiseInv, [TransferNext]_avars PROVE PromiseInv'
    OBVIOUS
  <2> USE DEF PromiseInv, TransferTypeOK
  <2>1. CASE \E i \in 0 .. N - 1 : Collect(i)
    BY <2>1 DEF Collect
  <2>2. CASE \E n \in 1 .. N : Confirm(n)
    BY <1>0, <2>2 DEF Confirm
  <2>3. CASE Save
    BY <2>3 DEF Save
  <2>4. CASE ReceiverCloses
    BY <2>4 DEF ReceiverCloses
  <2>5. CASE SenderCloses
    BY <2>5 DEF SenderCloses
  <2>6. CASE ReceiverFails
    BY <2>6 DEF ReceiverFails
  <2>7. CASE SenderFails
    BY <2>7 DEF SenderFails
  <2>8. CASE UNCHANGED avars
    BY <2>8 DEF avars
  <2> QED
    BY <2>1, <2>2, <2>3, <2>4, <2>5, <2>6, <2>7, <2>8 DEF TransferNext
<1>3. PromiseInv => ClosedMeansSaved
  BY <1>0 DEF PromiseInv, TransferTypeOK, ClosedMeansSaved
<1> QED
  BY <1>1, <1>2, <1>3, PTL DEF TransferSpec
=============================================================================
