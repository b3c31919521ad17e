-------------------------- MODULE RtpTransferProofs --------------------------
(***************************************************************************)
(* What the steps of Rtp may do: nothing is ever undone, and every step is *)
(* one of the abstract transfer of AckedTransfer or is invisible there.    *)
(***************************************************************************)
EXTENDS RtpProofs, RtpTransfer

-----------------------------------------------------------------------------
\* What a step of the sender does to its count and to its place: the count
\* moves in transfer_data only, and never back, and the sender exits only when
\* the receiver has met its FIN.
LEMMA SenderAdvance ==
    ASSUME IInv, NEW a, Arrived(a, toS), SenderHandles(a)
    PROVE  /\ ~SenderDead
           /\ shift' >= shift
           /\ shift' # shift => spc' \in {"data", "fin"}
           /\ spc' = "exit" => rpc \in {"last", "exit"}
<1>1. SenderTypeOK /\ SenderInv /\ shift \in Nat
  BY Numbers DEF IInv, TypeOK
<1>2. CASE SynAckArrives(a) \/ SynRetry(a) \/ FinRetry(a) \/ ReadFails(a)
  BY <1>1, <1>2 DEF SynAckArrives, SynRetry, FinRetry, ReadFails, SenderDead
<1>3. CASE FinAckArrives(a)
  <2>1. a.rtp \in DOMAIN toS /\ a.rtp.flags = ACK \cup FIN
    BY <1>3 DEF FinAckArrives, IsFinAck, Is, Arrived
  <2>2. rpc \in {"last", "exit"}
    BY <2>1 DEF IInv, NetworkInv, TrueToSender
  <2> QED
    BY <1>1, <1>3, <2>2 DEF FinAckArrives, SenderDead
<1>4. CASE TransferBegins(a)
  BY <1>1, <1>4 DEF TransferBegins, Continue, SenderInv, SenderDead
<1>5. CASE Resend(a) \/ SenderIgnores(a)
  BY <1>1, <1>5 DEF Resend, SenderIgnores, Continue, SenderDead
<1>6. CASE SelectiveAck(a) \/ CumulativeAck(a)
  <2>1. spc = "data" /\ IsUsefulAck(a)
    BY <1>6 DEF SelectiveAck, CumulativeAck
  <2> DEFINE n == Acked(a) - shift
  <2>2. n \in 0 .. SWSIZE - 1 /\ sqn_dis(swbase, Acked(a)) = n
    BY <1>1, <2>1, UsefulAck, Numbers DEF SenderInv
  <2> HIDE DEF n
  <2>3. update_window(swindow, SWSIZE, n).shift \in 0 .. SWSIZE
    BY <1>1, <2>2, Numbers, UpdateWindow DEF SenderTypeOK
  <2>4. \E m \in Nat : shift' = shift + m
    BY <1>6, <2>2, <2>3, Numbers DEF SelectiveAck, CumulativeAck, Continue
  <2>5. spc' \in {"data", "fin"}
    BY <1>6 DEF SelectiveAck, CumulativeAck, Continue
  <2> QED
    BY <1>1, <2>1, <2>4, <2>5 DEF SenderDead
<1> QED
  BY <1>2, <1>3, <1>4, <1>5, <1>6 DEF SenderHandles

\* The steps of the receiver that store a packet put one chunk, if it is not
\* empty, in its place.
LEMMA ReceiverStores ==
    ASSUME IInv, NEW a, Arrived(a, toR), DataSR(a) \/ DataGBN(a)
    PROVE  /\ rpc = "data" /\ rpc' = rpc /\ written' = written
           /\ rshift' >= rshift /\ rfsize' >= rfsize
           /\ \E i \in Chunks : rbuf' = rbuf \/ rbuf' = [rbuf EXCEPT ![i] = i]
<1> DEFINE i == a.rtp.payload
<1>1. /\ rpc = "data" /\ IsData(a) /\ ReceiverTypeOK /\ ReceiverInv
      /\ rpc' = rpc /\ written' = written
  BY DEF DataSR, DataGBN, IInv, TypeOK
<1>2. a.rtp.seq_num = i /\ a.rtp.length = dsize(i) /\ i \in Chunks
  BY <1>1 DEF IsData, Is, Arrived, IInv, NetworkInv, TrueToReceiver
<1>3. i \in Nat /\ dsize(i) \in Nat /\ rfsize \in Int /\ rshift \in Nat
      /\ PAYLOAD_MAX \in Nat
  BY SMTT(40), <1>1, <1>2, Numbers, FileFacts, ConfigAssumption DEF ReceiverTypeOK, Chunks
<1> HIDE DEF i
<1>4. CASE DataSR(a)
  <2>1. rwbase = rshift /\ SR
    BY <1>1, <1>4 DEF DataSR, ReceiverInv
  <2>2. seqnum_add(rshift, RWSIZE) = rshift + RWSIZE
    BY Numbers, AddPlain
  <2>3. i - rshift \in 0 .. RWSIZE - 1 /\ i < NPACKET
    BY <1>2, <1>3, <1>4, <2>1, <2>2, Numbers
       DEF DataSR, IsInWindow, seqnum_is_in, Chunks
  <2>4. sqn_dis(rwbase, a.rtp.seq_num) = i - rshift /\ rshift + (i - rshift) = i
    BY <1>2, <1>3, <2>1, <2>3, Numbers, DistancePlain
  <2> DEFINE n == i - rshift
             u == update_window(rwindow, RWSIZE, n)
  <2>5. u.shift \in 0 .. RWSIZE
    <3> HIDE DEF n
    <3>1. n \in 0 .. RWSIZE - 1
      BY <2>3 DEF n
    <3> QED
      BY <1>1, <3>1, Numbers, UpdateWindow DEF ReceiverTypeOK
  <2>6. /\ rbuf' = memcpy(i, a.rtp)
        /\ rfsize' = IF rfsize < i * PAYLOAD_MAX + dsize(i)
                     THEN i * PAYLOAD_MAX + dsize(i) ELSE rfsize
        /\ rshift' = rshift + u.shift
    BY <1>2, <1>4, <2>4 DEF DataSR
  <2>7. rbuf' = rbuf \/ rbuf' = [rbuf EXCEPT ![i] = i]
    BY <2>6 DEF memcpy, i
  <2> HIDE DEF u
  <2>8. rshift' >= rshift /\ rfsize' >= rfsize
    BY <1>3, <2>5, <2>6
  <2> QED
    BY <1>1, <1>2, <2>7, <2>8
<1>5. CASE DataGBN(a)
  <2>1. i = rshift
    BY <1>1, <1>2, <1>5 DEF DataGBN, ReceiverInv
  <2>2. rbuf' = rbuf \/ rbuf' = [rbuf EXCEPT ![i] = i]
    BY <1>5, <2>1 DEF DataGBN, memcpy, i
  <2>3. rshift' = rshift + 1 /\ rfsize' = rfsize + dsize(i)
    BY <1>2, <1>5 DEF DataGBN
  <2>4. rshift' >= rshift /\ rfsize' >= rfsize
    BY <1>3, <2>3
  <2> QED
    BY <1>1, <1>2, <2>2, <2>4
<1> QED
  BY <1>4, <1>5

\* What the other steps of the receiver do to its place, and to the file.
LEMMA ReceiverMoves ==
    ASSUME IInv, NEW a, ReceiverHandles(a), ~DataSR(a), ~DataGBN(a)
    PROVE  /\ UNCHANGED <<rbuf, rshift, rfsize>>
           /\ \/ rpc' = rpc /\ written' = written
              \/ rpc = "listen" /\ rpc' \in {"synack", "fatal"} /\ written' = written
              \/ rpc = "synack" /\ rpc' \in {"data", "fatal"} /\ written' = written
              \/ rpc = "data" /\ rpc' = "brk" /\ written' = TRUE
              \/ rpc = "data" /\ rpc' = "fatal" /\ written' = written
              \/ rpc = "brk" /\ rpc' = "last" /\ written' = written
              \/ rpc = "last" /\ rpc' = "exit" /\ written' = written
<1>1. ReceiverInv /\ SizeInv
  BY DEF IInv
<1>2. CASE SynArrives(a) \/ ListenTimesOut(a) \/ ListenIgnores(a) \/ SynAckRetry(a)
  BY <1>2 DEF SynArrives, ListenTimesOut, ListenIgnores, SynAckRetry, transfervars, rvars
<1>3. CASE HandshakeEnds(a)
  BY <1>1, <1>3 DEF HandshakeEnds, ReceiverInv
<1>4. CASE FileWritten(a) \/ WriteFails(a) \/ ReceiverIgnores(a)
  BY <1>4 DEF FileWritten, WriteFails, ReceiverIgnores, transfervars, rvars
<1>5. CASE OldDataSR(a) \/ OtherDataGBN(a)
  BY <1>5 DEF OldDataSR, OtherDataGBN, rvars
<1>6. CASE FinArrives(a) \/ BreakIgnores(a) \/ ReceiverExits(a)
  BY <1>6 DEF FinArrives, BreakIgnores, ReceiverExits, transfervars, rvars
<1> QED
  BY <1>2, <1>3, <1>4, <1>5, <1>6 DEF ReceiverHandles

\* The steps of Rtp, as the two lemmas speak of them.
LEMMA StepKinds ==
    ASSUME IInv, [Next]_vars
    PROVE  \/ UNCHANGED <<svars, rvars>>
           \/ UNCHANGED rvars /\ SenderStarts
           \/ UNCHANGED rvars /\ \E a : Arrived(a, toS) /\ SenderHandles(a)
           \/ UNCHANGED svars /\ \E a : Arrived(a, toR) /\ ReceiverHandles(a)
           \/ UNCHANGED rvars /\ SenderKilled
           \/ UNCHANGED svars /\ ReceiverKilled
<1>1. DOMAIN toS \subseteq Packet /\ DOMAIN toR \subseteq Packet
  BY DEF IInv, TypeOK
<1>2. CASE Sender /\ UNCHANGED rvars
  BY <1>1, <1>2, ArrivalsArrive DEF Sender, SenderReceives, SenderTimesOut
<1>3. CASE Receiver /\ UNCHANGED svars
  BY <1>1, <1>3, ArrivalsArrive DEF Receiver, ReceiverReceives, ReceiverTimesOut
<1> QED
  BY <1>2, <1>3 DEF Next, Terminated, vars

-----------------------------------------------------------------------------
\* No step of the two programs or of the network takes back a confirmation,
\* a packet counted or a chunk stored: resent, doubled and late packets least
\* of all.
THEOREM NothingUndone == Spec => NeverUndone
<1>1. IInv /\ [Next]_vars => [OnlyForward]_vars
  <2> SUFFICES ASSUME IInv, [Next]_vars PROVE OnlyForward
    OBVIOUS
  <2>1. /\ shift \in Int /\ rshift \in Int /\ rfsize \in Int
        /\ \A i \in Chunks : rbuf[i] = NoChunk \/ rbuf[i] = i
        /\ rbuf \in [Chunks -> Chunks \cup {NoChunk}]
    BY Numbers DEF IInv, TypeOK, ReceiverTypeOK, ReceiverInv
  <2>2. ASSUME UNCHANGED rvars, shift' >= shift PROVE OnlyForward
    BY <2>1, <2>2 DEF OnlyForward, rvars
  <2>3. ASSUME UNCHANGED svars, NEW a, Arrived(a, toR), ReceiverHandles(a)
        PROVE  OnlyForward
    <3>1. CASE DataSR(a) \/ DataGBN(a)
      <4>1. /\ rshift' >= rshift /\ rfsize' >= rfsize
            /\ \E i \in Chunks : rbuf' = rbuf \/ rbuf' = [rbuf EXCEPT ![i] = i]
        BY <2>3, <3>1, ReceiverStores
      <4>2. \A i \in Chunks : rbuf[i] # NoChunk => rbuf'[i] = rbuf[i]
        BY <2>1, <4>1
      <4> QED
        BY <2>1, <2>3, <4>1, <4>2 DEF OnlyForward, svars
    <3>2. CASE ~DataSR(a) /\ ~DataGBN(a)
      <4>1. UNCHANGED <<rbuf, rshift, rfsize>>
        BY <2>3, <3>2, ReceiverMoves
      <4> QED
        BY <2>1, <2>3, <4>1 DEF OnlyForward, svars
    <3> QED
      BY <3>1, <3>2
  <2>4. CASE UNCHANGED <<svars, rvars>>
    BY <2>1, <2>4 DEF OnlyForward, svars, rvars
  <2>5. CASE UNCHANGED rvars /\ (SenderStarts \/ SenderKilled)
    BY <2>1, <2>2, <2>5 DEF SenderStarts, SenderKilled
  <2>6. CASE UNCHANGED svars /\ ReceiverKilled
    BY <2>1, <2>6 DEF OnlyForward, ReceiverKilled, transfervars, svars
  <2>7. CASE UNCHANGED rvars /\ \E a : Arrived(a, toS) /\ SenderHandles(a)
    BY <2>2, <2>7, SenderAdvance
  <2> QED
    BY <2>3, <2>4, <2>5, <2>6, <2>7, StepKinds
<1> QED
  BY <1>1, Invariance, PTL DEF Spec, NeverUndone
-----------------------------------------------------------------------------
\* The steps of the abstract transfer, as the mapping of RtpTransfer reads
\* them.
Collected == {i \in Chunks : rbuf[i] = i}
ConfirmedCollected == 0 .. shift - 1 \subseteq Collected

\* What is confirmed to the sender was collected, if no chunk is empty.
LEMMA Confirmed ==
    ASSUME FSIZE = 0 \/ tsize # 0
    PROVE  IInv => ConfirmedCollected
<1> SUFFICES ASSUME IInv, NEW i \in 0 .. shift - 1 PROVE i \in Collected
  BY DEF ConfirmedCollected
<1>1. i \in Chunks /\ Has(i)
  BY Numbers DEF IInv, SenderInv, Chunks
<1>2. dsize(i) # 0
  <2>1. tsize # 0
    BY <1>1, FileFacts DEF Chunks
  <2> QED
    BY <2>1, ConfigAssumption DEF dsize
<1> QED
  BY <1>1, <1>2 DEF IInv, ReceiverInv, Collected

\* A step of the sender confirms more packets, closes, fails or is invisible.
LEMMA SenderImplements ==
    ASSUME IInv, IInv', ConfirmedCollected', UNCHANGED rvars,
           \/ SenderStarts
           \/ SenderKilled
           \/ \E a : Arrived(a, toS) /\ SenderHandles(a)
    PROVE  [Transfer!TransferNext]_(Transfer!avars)
<1>1. /\ ~SenderDead
      /\ shift' >= shift
      /\ shift' # shift => spc' \in {"data", "fin"}
      /\ spc' = "exit" => rpc \in {"last", "exit"}
  <2>1. CASE SenderStarts \/ SenderKilled
    BY <2>1, Numbers DEF SenderStarts, SenderKilled, SenderDead
  <2>2. CASE \E a : Arrived(a, toS) /\ SenderHandles(a)
    BY <2>2, SenderAdvance
  <2> QED
    BY <2>1, <2>2
<1>2. UNCHANGED <<rbuf, written, rpc>>
  BY DEF rvars
<1>3. CASE shift' # shift
  <2>1. shift' \in 1 .. NPACKET /\ shift' > shift
    <3>1. shift' \in 0 .. NPACKET
      BY DEF IInv, TypeOK, SenderTypeOK
    <3> QED
      BY <1>1, <1>3, <3>1, Numbers
  <2>2. 0 .. shift' - 1 \subseteq Collected
    BY <1>2 DEF ConfirmedCollected, Collected
  <2>3. Transfer!Confirm(shift')
    BY <1>1, <1>2, <1>3, <2>1, <2>2 DEF Transfer!Confirm, Collected, SenderDead
  <2> QED
    BY <2>1, <2>3 DEF Transfer!TransferNext
<1>4. CASE shift' = shift /\ spc' = "exit"
  <2>1. Transfer!SenderCloses
    BY <1>1, <1>2, <1>4 DEF Transfer!SenderCloses, SenderDead
  <2> QED
    BY <2>1 DEF Transfer!TransferNext
<1>5. CASE shift' = shift /\ spc' = "fatal"
  <2>1. Transfer!SenderFails
    BY <1>1, <1>2, <1>5 DEF Transfer!SenderFails, SenderDead
  <2> QED
    BY <2>1 DEF Transfer!TransferNext
<1>6. CASE shift' = shift /\ spc' \notin {"exit", "fatal"}
  BY <1>1, <1>2, <1>6 DEF Transfer!avars, SenderDead
<1> QED
  BY <1>3, <1>4, <1>5, <1>6

\* What the receiver's steps are in the abstract transfer, by their effects.
LEMMA ReceiverImplements ==
    ASSUME IInv, IInv', UNCHANGED svars,
           \/ ReceiverKilled
           \/ \E a : Arrived(a, toR) /\ ReceiverHandles(a)
    PROVE  [Transfer!TransferNext]_(Transfer!avars)
<1>1. UNCHANGED <<shift, spc>>
  BY DEF svars
<1>2. ASSUME NEW i \in Chunks,
             rpc = "data", rpc' = rpc, written' = written,
             rbuf' = rbuf \/ rbuf' = [rbuf EXCEPT ![i] = i]
      PROVE  [Transfer!TransferNext]_(Transfer!avars)
  <2>1. CASE rbuf' = rbuf
    BY <1>1, <1>2, <2>1 DEF Transfer!avars
  <2>2. CASE rbuf' = [rbuf EXCEPT ![i] = i]
    <3>1. Collected' = Collected \cup {i}
      BY <2>2 DEF Collected, IInv, TypeOK, ReceiverTypeOK
    <3>2. ~written
      BY <1>2 DEF IInv, ClosingInv
    <3>3. Transfer!Collect(i)
      BY <1>1, <1>2, <3>1, <3>2 DEF Transfer!Collect, Collected
    <3> QED
      BY <3>3 DEF Transfer!TransferNext, Chunks
  <2> QED
    BY <1>2, <2>1, <2>2
<1>3. ASSUME UNCHANGED rbuf,
             \/ rpc' = rpc /\ written' = written
             \/ rpc = "listen" /\ rpc' = "synack" /\ written' = written
             \/ rpc = "synack" /\ rpc' = "data" /\ written' = written
             \/ rpc = "last" /\ rpc' = "exit" /\ written' = written
      PROVE  UNCHANGED Transfer!avars
  BY <1>1, <1>3 DEF Transfer!avars
<1>4. ASSUME UNCHANGED rbuf, written' = written,
             rpc \notin {"last", "exit", "fatal"}, rpc' = "fatal"
      PROVE  Transfer!ReceiverFails
  BY <1>1, <1>4 DEF Transfer!ReceiverFails
<1>5. ASSUME UNCHANGED rbuf, rpc = "data", rpc' = "brk", written' = TRUE
      PROVE  Transfer!Save
  <2>1. ~written
    BY <1>5 DEF IInv, ClosingInv
  <2> QED
    BY <1>1, <1>5, <2>1 DEF Transfer!Save
<1>6. ASSUME UNCHANGED rbuf, rpc = "brk", rpc' = "last", written' = written
      PROVE  Transfer!ReceiverCloses
  <2>1. written /\ shift = NPACKET
    BY <1>1, <1>6 DEF IInv, ClosingInv
  <2> QED
    BY <1>1, <1>6, <2>1 DEF Transfer!ReceiverCloses
<1>7. CASE ReceiverKilled
  <2>1. /\ UNCHANGED <<rbuf, written>> /\ rpc \notin {"exit", "fatal"}
        /\ rpc' = IF rpc = "last" THEN "exit" ELSE "fatal"
    BY <1>7 DEF ReceiverKilled, ReceiverDead, transfervars
  <2> QED
    BY <1>3, <1>4, <2>1 DEF Transfer!TransferNext
<1>8. ASSUME NEW a, Arrived(a, toR), ReceiverHandles(a)
      PROVE  [Transfer!TransferNext]_(Transfer!avars)
  <2>1. CASE DataSR(a) \/ DataGBN(a)
    BY <1>2, <1>8, <2>1, ReceiverStores
  <2>2. CASE ~DataSR(a) /\ ~DataGBN(a)
    BY <1>3, <1>4, <1>5, <1>6, <1>8, <2>2, ReceiverMoves DEF Transfer!TransferNext
  <2> QED
    BY <2>1, <2>2
<1> QED
  BY <1>7, <1>8

\* Rtp implements AckedTransfer: every transfer, of every file without an
\* empty last packet, over every window in both modes, with all the faults of
\* the network and early timeouts, goes through the steps of the abstract one.
THEOREM Implementation ==
    ASSUME FSIZE = 0 \/ tsize # 0
    PROVE  Spec => ImplementsTransfer
<1>0. IInv => ConfirmedCollected
  BY Confirmed
<1>1. Init => Transfer!TransferInit
  BY DEF Init, SenderInit, ReceiverInit, Transfer!TransferInit, Chunks, NoChunk
<1>2. IInv /\ IInv' /\ ConfirmedCollected' /\ [Next]_vars
          => [Transfer!TransferNext]_(Transfer!avars)
  <2> SUFFICES ASSUME IInv, IInv', ConfirmedCollected', [Next]_vars
               PROVE  [Transfer!TransferNext]_(Transfer!avars)
    OBVIOUS
  <2>1. CASE UNCHANGED <<svars, rvars>>
    BY <2>1 DEF svars, rvars, Transfer!avars
  <2>2. CASE UNCHANGED rvars /\ (\/ SenderStarts \/ SenderKilled
                                 \/ \E a : Arrived(a, toS) /\ SenderHandles(a))
    BY <2>2, SenderImplements
  <2>3. CASE UNCHANGED svars /\ (\/ ReceiverKilled
                                 \/ \E a : Arrived(a, toR) /\ ReceiverHandles(a))
    BY <2>3, ReceiverImplements
  <2> QED
    BY <2>1, <2>2, <2>3, StepKinds
<1> QED
  BY <1>0, <1>1, <1>2, Invariance, PTL DEF Spec, ImplementsTransfer, Transfer!TransferSpec

\* So the promise of the abstract transfer is kept by the two programs: if
\* either side closed, the receiver has collected and saved the whole file.
THEOREM PromiseInherited ==
    ASSUME FSIZE = 0 \/ tsize # 0
    PROVE  Spec => []Transfer!ClosedMeansSaved
<1>1. Spec => Transfer!TransferSpec
  BY Implementation DEF ImplementsTransfer
<1>2. NPACKET \in Nat
  BY FileFacts
<1>3. Transfer!TransferSpec => []Transfer!ClosedMeansSaved
  BY <1>2, Transfer!PromiseKept
<1> QED
  BY <1>1, <1>3, PTL
=============================================================================
