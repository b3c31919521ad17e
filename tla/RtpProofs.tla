------------------------------ MODULE RtpProofs ------------------------------
(***************************************************************************)
(* Safety of Rtp for every file, window, mode and fault budget: IInv of    *)
(* RtpInvariant is an inductive invariant, and the properties follow.      *)
(* Timely plays no part: all is proved with timeouts at any moment.        *)
(***************************************************************************)
EXTENDS RtpInvariant, SeqNumProofs

-----------------------------------------------------------------------------
\* The file and its chunks.
LEMMA FileFacts ==
    /\ NPACKET \in Nat
    /\ tsize \in 0 .. PAYLOAD_MAX - 1
    /\ FSIZE = 0 <=> NPACKET = 0
    /\ tsize # 0 => FSIZE = (NPACKET - 1) * PAYLOAD_MAX + tsize
    /\ \A i \in Chunks : dsize(i) \in 0 .. PAYLOAD_MAX
<1>1. tsize \in 0 .. PAYLOAD_MAX - 1
  BY ConfigAssumption DEF tsize
<1> DEFINE q == FSIZE \div PAYLOAD_MAX
<1>2. q \in Nat /\ FSIZE = q * PAYLOAD_MAX + tsize
  BY ConfigAssumption DEF tsize
<1>3. NPACKET = IF tsize = 0 THEN q ELSE q + 1
  <2>1. CASE tsize = 0
    <3>1. FSIZE + PAYLOAD_MAX - 1 = q * PAYLOAD_MAX + (PAYLOAD_MAX - 1)
      BY <1>2, <2>1, ConfigAssumption
    <3> QED
      BY <1>2, <2>1, <3>1, ConfigAssumption DEF NPACKET
  <2>2. CASE tsize # 0
    <3>1. FSIZE + PAYLOAD_MAX - 1 = (q + 1) * PAYLOAD_MAX + (tsize - 1)
      BY <1>1, <1>2, <2>2, ConfigAssumption
    <3> QED
      BY <1>1, <1>2, <2>2, <3>1, ConfigAssumption DEF NPACKET
  <2> QED
    BY <2>1, <2>2
<1>4. FSIZE = 0 <=> NPACKET = 0
  BY <1>1, <1>2, <1>3, ConfigAssumption
<1> QED
  BY <1>1, <1>2, <1>3, <1>4, ConfigAssumption DEF dsize

-----------------------------------------------------------------------------
\* Sending puts only the packets sent into the network.
LEMMA SendDomain ==
    ASSUME NEW net, NEW S
    PROVE  DOMAIN send_packets(net, S) \subseteq DOMAIN net \cup S
BY DEF send_packets, SetToBag, (+)

\* What a process can rely on after recv_packet: a sound packet was in flight.
Arrived(a, net) ==
    /\ DOMAIN a.left \subseteq DOMAIN net
    /\ a.cost \in Nat
    /\ a.scode = 0 => a.rtp \in DOMAIN net
    /\ a.scode # -2 => a.rtp \in Packet

LEMMA ArrivalsArrive ==
    ASSUME NEW net, DOMAIN net \subseteq Packet
    PROVE  /\ \A a \in Arrivals(net) : Arrived(a, net)
           /\ Arrived(TimeOut(net), net)
<1>1. Arrived(TimeOut(net), net)
  BY DEF Arrived, TimeOut
<1>2. ASSUME NEW a \in Arrivals(net) PROVE Arrived(a, net)
  <2>1. \A p : DOMAIN (net (-) SetToBag({p})) \subseteq DOMAIN net
    BY DEF SetToBag, (-)
  <2>2. ASSUME NEW p \in DOMAIN net,
               a = [scode |-> 0, rtp |-> p, left |-> net (-) SetToBag({p}), cost |-> 0]
        PROVE  Arrived(a, net)
    BY <2>1, <2>2 DEF Arrived
  <2>3. ASSUME NEW p \in DOMAIN net,
               a = [scode |-> 0, rtp |-> p, left |-> net, cost |-> 1]
        PROVE  Arrived(a, net)
    BY <2>3 DEF Arrived
  <2>4. ASSUME NEW p \in DOMAIN net, NEW c \in Corruptions(p),
               a = [scode |-> -1, rtp |-> c, left |-> net (-) SetToBag({p}), cost |-> 1]
        PROVE  Arrived(a, net)
    <3>1. p \in Packet
      OBVIOUS
    <3>2. PICK f \in Flags : c = [p EXCEPT !.flags = f]
      <4>1. p.flags \in Flags
        BY <3>1 DEF Packet
      <4> QED
        BY <4>1 DEF Corruptions
    <3>3. c \in Packet
      BY <3>1, <3>2 DEF Packet
    <3>4. a.scode = -1 /\ a.rtp = c /\ a.left = net (-) SetToBag({p}) /\ a.cost = 1
      BY <2>4
    <3>5. DOMAIN a.left \subseteq DOMAIN net
      BY <2>1, <3>4, Zenon
    <3> QED
      BY <3>3, <3>4, <3>5 DEF Arrived
  <2>5. \/ \E p \in DOMAIN net :
              a = [scode |-> 0, rtp |-> p, left |-> net (-) SetToBag({p}), cost |-> 0]
        \/ \E p \in DOMAIN net :
              a = [scode |-> 0, rtp |-> p, left |-> net, cost |-> 1]
        \/ \E p \in DOMAIN net : \E c \in Corruptions(p) :
              a = [scode |-> -1, rtp |-> c, left |-> net (-) SetToBag({p}), cost |-> 1]
    BY <1>2, Zenon DEF Arrivals, BagToSet
  <2> QED
    BY <2>2, <2>3, <2>4, <2>5
<1> QED
  BY <1>1, <1>2

LEMMA FaultArrives ==
    ASSUME NEW a, NEW net, Arrived(a, net)
    PROVE  Arrived(WithFault(a), net)
BY DEF Arrived, WithFault

\* The packets of the handshakes and of data are packets.
LEMMA PacketTypes ==
    /\ \A s \in SeqNums, f \in Flags : ControlPacket(s, f) \in Packet
    /\ \A s \in SeqNums, i \in Chunks : DataPacket(s, i) \in Packet
    /\ SYN \in Flags /\ ACK \in Flags /\ FIN \in Flags
    /\ SYN \cup ACK \in Flags /\ ACK \cup FIN \in Flags
<1>1. \A s \in SeqNums, f \in Flags : ControlPacket(s, f) \in Packet
  BY ConfigAssumption DEF ControlPacket, Packet
<1>2. \A s \in SeqNums, i \in Chunks : DataPacket(s, i) \in Packet
  BY FileFacts DEF DataPacket, Packet, Flags
<1> QED
  BY <1>1, <1>2 DEF SYN, ACK, FIN, Flags

\* The five kinds of flags differ.
LEMMA FlagsDiffer ==
    /\ SYN # {} /\ ACK # {} /\ FIN # {} /\ SYN \cup ACK # {} /\ ACK \cup FIN # {}
    /\ SYN # ACK /\ SYN # FIN /\ ACK # FIN
    /\ SYN # SYN \cup ACK /\ SYN # ACK \cup FIN
    /\ ACK # SYN \cup ACK /\ ACK # ACK \cup FIN
    /\ FIN # SYN \cup ACK /\ FIN # ACK \cup FIN
    /\ SYN \cup ACK # ACK \cup FIN
BY DEF SYN, ACK, FIN

-----------------------------------------------------------------------------
\* A step of the sender keeps IInv if it keeps the sender's own part of it and
\* sends only packets that are true of the new state.
LEMMA SenderFrame ==
    ASSUME IInv, UNCHANGED rvars,
           NEW a, Arrived(a, toS), NEW out, SenderIO(a, out),
           \A p \in out : p \in Packet /\ TrueToReceiver(p)',
           SenderTypeOK', SenderInv',
           \A i \in Chunks : SentUpTo(i) => SentUpTo(i)',
           shift = NPACKET => shift' = NPACKET,
           spc' = "exit" => rpc \in {"last", "exit"}
    PROVE  IInv'
<1>1. DOMAIN toS' \subseteq DOMAIN toS /\ DOMAIN toR' \subseteq DOMAIN toR \cup out
  BY SendDomain DEF SenderIO, Arrived
<1>2. \A i : Has(i)' <=> Has(i)
  BY DEF rvars, Has
<1>3. TypeOK'
  BY <1>1 DEF IInv, TypeOK, SenderIO, Arrived, rvars, ReceiverTypeOK
<1>4. NetworkInv'
  <2>1. \A p \in DOMAIN toR : TrueToReceiver(p)'
    BY DEF IInv, NetworkInv, TrueToReceiver
  <2>2. \A p \in DOMAIN toS : TrueToSender(p)'
    BY <1>2 DEF IInv, NetworkInv, TrueToSender, rvars
  <2> QED
    BY <1>1, <2>1, <2>2 DEF NetworkInv
<1>5. ReceiverInv'
  BY <1>2 DEF IInv, ReceiverInv, rvars
<1>6. SizeInv'
  BY <1>2 DEF IInv, SizeInv, rvars
<1>7. ClosingInv'
  BY DEF IInv, ClosingInv, rvars
<1> QED
  BY <1>3, <1>4, <1>5, <1>6, <1>7 DEF IInv

\* The loop of transfer_data, entered with a confirmed prefix sh and a window
\* that are true, keeps IInv.
LEMMA ContinueStep ==
    ASSUME IInv, UNCHANGED rvars, spc \in {"ack", "data"},
           NEW a, Arrived(a, toS),
           NEW sh \in shift .. NPACKET, NEW sqn \in sh .. NPACKET, sqn <= sh + SWSIZE,
           spc = "data" => sqn = ssqn,
           NEW win \in Windows(SWSIZE),
           \A k \in 0 .. SWSIZE - 1 : win[k] => SR /\ sh + k < sqn /\ Has(sh + k),
           \A i \in 0 .. sh - 1 : Has(i),
           NEW out, \A p \in out : p \in Packet /\ TrueToReceiver(p)',
           Continue(a, sh, sh, sqn, win, out)
    PROVE  IInv'
<1> DEFINE done  == sh >= NPACKET
           n     == IF done \/ sh # sqn THEN 0
                    ELSE IF SWSIZE < NPACKET - sh THEN SWSIZE ELSE NPACKET - sh
           batch == {DataPacket(seqnum_add(sqn, i), sh + i) : i \in 0 .. n - 1}
           fin   == IF done THEN {ControlPacket(sqn, FIN)} ELSE {}
<1>1. /\ spc' = IF done THEN "fin" ELSE "data"
      /\ stries' = IF done THEN Attempt(0) ELSE stries
      /\ ssqn' = seqnum_add(sqn, n)
      /\ shift' = sh
      /\ swbase' = sh
      /\ swindow' = win
      /\ SenderIO(a, out \cup batch \cup fin)
  BY DEF Continue
<1> HIDE DEF batch, fin
<1>2. NPACKET \in Nat /\ SWSIZE \in Nat \ {0} /\ SEQMOD \in Nat /\ NPACKET < SEQMOD
  BY FileFacts, ConfigAssumption, SeqModAssumption, NoWrapAssumption
<1>3. shift \in Nat
  BY <1>2 DEF IInv, TypeOK, SenderTypeOK
<1>4. n \in Nat /\ sqn + n <= NPACKET /\ sqn + n <= sh + SWSIZE /\ (~done => sh < sqn + n)
  BY <1>2, <1>3
<1>5. ssqn' = sqn + n
  BY <1>1, <1>2, <1>3, <1>4, AddPlain
<1>6. SenderTypeOK'
  <2>1. Attempt(0) \in 0 .. SEND_TR + 1 /\ stries \in 0 .. SEND_TR + 1
    BY ConfigAssumption DEF Attempt, IInv, TypeOK, SenderTypeOK
  <2>2. sh \in SeqNums /\ sqn + n \in SeqNums
    BY <1>2, <1>3, <1>4 DEF SeqNums
  <2> QED
    BY <1>1, <1>2, <1>3, <1>5, <2>1, <2>2 DEF SenderTypeOK
<1>7. \A i : Has(i)' <=> Has(i)
  BY DEF rvars, Has
<1>8. SenderInv'
  <2>1. \A k \in 0 .. SWSIZE - 1 : swindow'[k] => SR /\ shift' + k < ssqn' /\ Has(shift' + k)
    BY <1>1, <1>2, <1>3, <1>4, <1>5
  <2>2. \A i \in 0 .. shift' - 1 : Has(i)
    BY <1>1
  <2>3. done => sh = NPACKET
    BY <1>2, <1>3
  <2>4. Attempt(0) <= SEND_TR
    BY ConfigAssumption DEF Attempt
  <2> QED
    BY <1>1, <1>4, <1>5, <1>7, <2>1, <2>2, <2>3, <2>4 DEF SenderInv
<1>9. \A i \in Chunks : i < sqn + n => SentUpTo(i)'
  BY <1>1, <1>4, <1>5 DEF SentUpTo
<1>10. \A i \in Chunks : SentUpTo(i) => SentUpTo(i)'
  <2>1. spc = "data" => sqn = ssqn
    OBVIOUS
  <2> QED
    BY <1>2, <1>3, <1>4, <1>9, <2>1 DEF SentUpTo, Chunks
<1>11. \A p \in batch : p \in Packet /\ TrueToReceiver(p)'
  <2> SUFFICES ASSUME NEW i \in 0 .. n - 1, NEW p, p = DataPacket(seqnum_add(sqn, i), sh + i)
               PROVE  p \in Packet /\ TrueToReceiver(p)'
    BY DEF batch
  <2>1. n # 0 => sh = sqn
    OBVIOUS
  <2>2. seqnum_add(sqn, i) = sh + i /\ sh + i \in Chunks /\ sh + i \in SeqNums
        /\ sh + i < sqn + n
    BY <1>2, <1>3, <1>4, <2>1, AddPlain DEF Chunks, SeqNums
  <2>3. p \in Packet
    BY <2>2, PacketTypes
  <2>4. p.flags = {} /\ p.payload = sh + i /\ p.seq_num = sh + i /\ p.length = dsize(sh + i)
    BY <2>2 DEF DataPacket
  <2> QED
    BY <1>9, <2>2, <2>3, <2>4, FlagsDiffer DEF TrueToReceiver
<1>12. \A p \in fin : p \in Packet /\ TrueToReceiver(p)'
  <2> SUFFICES ASSUME done, NEW p, p = ControlPacket(sqn, FIN)
               PROVE  p \in Packet /\ TrueToReceiver(p)'
    BY DEF fin
  <2>1. p \in Packet /\ p.flags = FIN
    BY <1>2, <1>3, PacketTypes DEF ControlPacket, SeqNums
  <2>2. shift' = NPACKET
    BY <1>1, <1>2, <1>3
  <2> QED
    BY <2>1, <2>2, FlagsDiffer DEF TrueToReceiver
<1>13. shift = NPACKET => shift' = NPACKET
  BY <1>1, <1>2, <1>3
<1> QED
  BY <1>1, <1>6, <1>8, <1>10, <1>11, <1>12, <1>13, SenderFrame

-----------------------------------------------------------------------------
\* The numbers every step works with.
LEMMA Numbers ==
    ASSUME IInv
    PROVE  /\ NPACKET \in Nat /\ SEQMOD \in Nat \ {0}
           /\ SWSIZE \in Nat \ {0} /\ NPACKET + SWSIZE < SEQMOD
           /\ RWSIZE \in Nat \ {0} /\ NPACKET + RWSIZE < SEQMOD
           /\ shift \in 0 .. NPACKET /\ rshift \in 0 .. NPACKET
           /\ ssqn \in Int /\ swbase \in Int /\ rsqn \in Int /\ rwbase \in Int
BY FileFacts, ConfigAssumption, SeqModAssumption, NoWrapAssumption
   DEF IInv, TypeOK, SenderTypeOK, ReceiverTypeOK, SeqNums

\* The two ends of the first handshake: INT32_MAX and, one up, zero.
LEMMA FirstNumbers ==
    /\ get_random_seqnum = SEQMOD - 1 /\ get_random_seqnum \in SeqNums
    /\ seqnum_add(SEQMOD - 1, 1) = 0 /\ 0 \in SeqNums
BY SeqModAssumption, AddAbove DEF get_random_seqnum, SeqNums

\* The receiver has only what was sent.
LEMMA HasIsSent ==
    ASSUME IInv, NEW i \in Nat, Has(i)
    PROVE  i \in Chunks /\ SentUpTo(i)
<1>1. i \in Chunks
  BY Numbers DEF IInv, ReceiverInv, Has, Chunks
<1> QED
  BY <1>1 DEF IInv, ReceiverInv

\* The steps of the sender that do not touch the window.
LEMMA SenderControlStep ==
    ASSUME IInv, UNCHANGED rvars, NEW a, Arrived(a, toS),
           SynAckArrives(a) \/ SynRetry(a) \/ FinAckArrives(a) \/ FinRetry(a)
    PROVE  IInv'
<1>1. /\ UNCHANGED <<swbase, shift, swindow>>
      /\ SenderTypeOK /\ SenderInv
  BY DEF IInv, TypeOK, SynAckArrives, SynRetry, FinAckArrives, FinRetry
<1>2. \A i : Has(i)' <=> Has(i)
  BY DEF rvars, Has
<1>3. spc \in {"syn", "fin"} =>
         /\ Attempt(stries) \in 0 .. SEND_TR + 1
         /\ SEND_TR \in Nat
  BY <1>1, ConfigAssumption DEF Attempt, SenderTypeOK, SenderInv
<1>4. CASE SynAckArrives(a)
  <2>1. spc = "syn" /\ shift = 0 /\ ssqn' = 0 /\ spc' = "ack" /\ stries' = stries
    BY <1>1, <1>4, FirstNumbers DEF SynAckArrives, SenderInv
  <2>2. SenderIO(a, {ControlPacket(0, ACK)})
    BY <1>1, <1>4, FirstNumbers DEF SynAckArrives, SenderInv
  <2>3. SenderTypeOK'
    BY <1>1, <2>1, FirstNumbers DEF SenderTypeOK
  <2>4. \A k \in 0 .. SWSIZE - 1 : ~swindow[k]
    BY <1>1, <2>1, HasIsSent, Numbers DEF SenderInv, SentUpTo
  <2>5. SenderInv'
    BY <1>1, <1>2, <2>1, <2>4 DEF SenderInv
  <2>6. ControlPacket(0, ACK) \in Packet /\ TrueToReceiver(ControlPacket(0, ACK))'
    BY PacketTypes, FirstNumbers, FlagsDiffer DEF TrueToReceiver, ControlPacket
  <2> QED
    BY <1>1, <2>1, <2>2, <2>3, <2>5, <2>6, SenderFrame DEF SentUpTo
<1>5. CASE SynRetry(a)
  <2>1. /\ spc = "syn" /\ ssqn' = ssqn /\ ssqn = SEQMOD - 1
        /\ stries' = Attempt(stries)
        /\ spc' = IF stries' > SEND_TR THEN "fatal" ELSE "syn"
        /\ SenderIO(a, {ControlPacket(SEQMOD - 1, SYN)})
    BY <1>1, <1>5 DEF SynRetry, SenderInv
  <2>2. SenderTypeOK'
    BY <1>1, <1>3, <2>1 DEF SenderTypeOK
  <2>3. SenderInv'
    BY <1>1, <1>2, <1>3, <2>1 DEF SenderInv
  <2>4. ControlPacket(SEQMOD - 1, SYN) \in Packet
        /\ TrueToReceiver(ControlPacket(SEQMOD - 1, SYN))'
    BY PacketTypes, FirstNumbers, FlagsDiffer DEF TrueToReceiver, ControlPacket
  <2> QED
    BY <1>1, <2>1, <2>2, <2>3, <2>4, SenderFrame DEF SentUpTo
<1>6. CASE FinAckArrives(a)
  <2>1. spc = "fin" /\ spc' = "exit" /\ UNCHANGED <<ssqn, stries>> /\ SenderIO(a, {})
    BY <1>6 DEF FinAckArrives
  <2>2. a.rtp \in DOMAIN toS /\ a.rtp.flags = ACK \cup FIN
    BY <1>6 DEF FinAckArrives, IsFinAck, Is, Arrived
  <2>3. rpc \in {"last", "exit"}
    BY <2>2 DEF IInv, NetworkInv, TrueToSender
  <2>4. SenderTypeOK'
    BY <1>1, <2>1 DEF SenderTypeOK
  <2>5. SenderInv'
    BY <1>1, <1>2, <2>1 DEF SenderInv
  <2> QED
    BY <1>1, <2>1, <2>3, <2>4, <2>5, SenderFrame DEF SentUpTo
<1>7. CASE FinRetry(a)
  <2>1. /\ spc = "fin" /\ ssqn' = ssqn
        /\ stries' = Attempt(stries)
        /\ spc' = IF stries' > SEND_TR THEN "fatal" ELSE "fin"
        /\ SenderIO(a, {ControlPacket(ssqn, FIN)})
    BY <1>7 DEF FinRetry
  <2>2. SenderTypeOK'
    BY <1>1, <1>3, <2>1 DEF SenderTypeOK
  <2>3. SenderInv'
    BY <1>1, <1>2, <1>3, <2>1 DEF SenderInv
  <2>4. ControlPacket(ssqn, FIN) \in Packet /\ TrueToReceiver(ControlPacket(ssqn, FIN))'
    BY <1>1, <2>1, PacketTypes, FlagsDiffer
       DEF TrueToReceiver, ControlPacket, SenderTypeOK, SenderInv
  <2> QED
    BY <1>1, <2>1, <2>2, <2>3, <2>4, SenderFrame DEF SentUpTo
<1> QED
  BY <1>4, <1>5, <1>6, <1>7

-----------------------------------------------------------------------------
\* The flags of an empty window are clear.
LEMMA EmptyWindowFacts ==
    \A w : /\ EmptyWindow(w) \in Windows(w)
           /\ \A k \in 0 .. w - 1 : ~EmptyWindow(w)[k]
BY DEF EmptyWindow, Windows

\* The end of establish_connection: transfer_data starts, or read_file fails.
LEMMA SenderBeginStep ==
    ASSUME IInv, UNCHANGED rvars, NEW a, Arrived(a, toS), TransferBegins(a) \/ ReadFails(a)
    PROVE  IInv'
<1>1. /\ spc = "ack" /\ ssqn = 0 /\ shift = 0
      /\ SenderTypeOK /\ SenderInv
  BY DEF IInv, TypeOK, TransferBegins, ReadFails, SenderInv
<1>2. \A p \in LateAck(a) : p \in Packet /\ TrueToReceiver(p)'
  BY <1>1, PacketTypes, FirstNumbers, FlagsDiffer DEF LateAck, TrueToReceiver, ControlPacket
<1>3. CASE TransferBegins(a)
  <2>1. Continue(a, 0, 0, 0, EmptyWindow(SWSIZE), LateAck(a))
    BY <1>1, <1>3 DEF TransferBegins
  <2> QED
    BY <1>1, <1>2, <2>1, Numbers, EmptyWindowFacts, ContinueStep
<1>4. CASE ReadFails(a)
  <2>1. /\ spc' = "fatal" /\ SenderIO(WithFault(a), LateAck(a))
        /\ UNCHANGED <<ssqn, stries, swbase, shift, swindow>>
    BY <1>4 DEF ReadFails
  <2>2. Arrived(WithFault(a), toS)
    BY FaultArrives
  <2>3. SenderTypeOK' /\ \A i : Has(i)' <=> Has(i)
    BY <1>1, <2>1 DEF SenderTypeOK, Has, rvars
  <2>4. SenderInv'
    BY <1>1, <2>1, <2>3 DEF SenderInv
  <2>5. \A i \in Chunks : SentUpTo(i) => SentUpTo(i)'
    BY <1>1 DEF SentUpTo
  <2> QED
    BY <1>1, <1>2, <2>1, <2>2, <2>3, <2>4, <2>5, SenderFrame
<1> QED
  BY <1>3, <1>4

\* An ACK of a packet that is outstanding speaks of one the receiver has, and
\* in GBN so do the numbers below it.
LEMMA UsefulAck ==
    ASSUME IInv, spc = "data", NEW a, Arrived(a, toS), IsUsefulAck(a)
    PROVE  /\ Acked(a) \in shift .. ssqn - 1
           /\ sqn_dis(swbase, Acked(a)) = Acked(a) - shift
           /\ Has(Acked(a))
           /\ ~SR => \A i \in 0 .. Acked(a) : Has(i)
<1>1. swbase = shift /\ shift < ssqn /\ ssqn <= NPACKET
  BY DEF IInv, SenderInv
<1>2. a.rtp \in DOMAIN toS /\ a.rtp.flags = ACK /\ a.rtp.seq_num \in SeqNums
  BY DEF IsUsefulAck, Is, Arrived, IInv, TypeOK, Packet
<1>3. /\ Acked(a) \in SeqNums
      /\ Acked(a) = IF SR THEN a.rtp.seq_num
                    ELSE IF a.rtp.seq_num = 0 THEN SEQMOD - 1 ELSE a.rtp.seq_num - 1
  <2>1. a.rtp.seq_num \in Int /\ 0 <= a.rtp.seq_num /\ a.rtp.seq_num < SEQMOD
    BY <1>2, Numbers DEF SeqNums
  <2>2. SR => seqnum_add(a.rtp.seq_num, 0) = a.rtp.seq_num
    BY <2>1, AddPlain
  <2>3. a.rtp.seq_num # 0 => seqnum_add(a.rtp.seq_num, -1) = a.rtp.seq_num - 1
    BY <2>1, SeqModAssumption DEF seqnum_add
  <2>4. seqnum_add(0, -1) = SEQMOD - 1
    BY Numbers, AddBelow
  <2> QED
    BY <2>1, <2>2, <2>3, <2>4, Numbers DEF Acked, SeqNums
<1>4. Acked(a) \in shift .. ssqn - 1
  BY <1>1, <1>3, Numbers DEF IsUsefulAck, seqnum_is_in, SeqNums
<1>5. sqn_dis(swbase, Acked(a)) = Acked(a) - shift
  BY <1>1, <1>4, Numbers, DistancePlain
<1>6. TrueToSender(a.rtp)
  BY <1>2 DEF IInv, NetworkInv
<1>7. CASE SR
  BY <1>2, <1>3, <1>4, <1>5, <1>6, <1>7 DEF TrueToSender
<1>8. CASE ~SR
  <2>1. Acked(a) < rshift
    BY <1>1, <1>2, <1>3, <1>4, <1>6, <1>8, Numbers DEF TrueToSender, SeqNums
  <2> QED
    BY <1>4, <1>5, <2>1, Numbers DEF Has
<1> QED
  BY <1>7, <1>8

\* The steps of the sender in transfer_data.
LEMMA SenderDataStep ==
    ASSUME IInv, UNCHANGED rvars, NEW a, Arrived(a, toS),
           Resend(a) \/ SenderIgnores(a) \/ SelectiveAck(a) \/ CumulativeAck(a)
    PROVE  IInv'
<1>1. /\ spc = "data" /\ SenderTypeOK /\ SenderInv
      /\ swbase = shift /\ shift < ssqn /\ ssqn <= NPACKET /\ ssqn <= shift + SWSIZE
  BY DEF IInv, TypeOK, Resend, SenderIgnores, SelectiveAck, CumulativeAck, SenderInv
<1>2. /\ swindow \in Windows(SWSIZE)
      /\ \A k \in 0 .. SWSIZE - 1 : swindow[k] => SR /\ shift + k < ssqn /\ Has(shift + k)
      /\ \A i \in 0 .. shift - 1 : Has(i)
  BY <1>1 DEF SenderInv, SenderTypeOK
<1>3. CASE SenderIgnores(a)
  <2>1. Continue(a, shift, shift, ssqn, swindow, {})
    BY <1>1, <1>3 DEF SenderIgnores
  <2> QED
    BY <1>1, <1>2, <2>1, Numbers, ContinueStep
<1>4. CASE Resend(a)
  <2> DEFINE again == {DataPacket(seqnum_add(swbase, i), shift + i) :
                          i \in {j \in Outstanding : ~(SR /\ swindow[j])}}
  <2>1. Continue(a, shift, shift, ssqn, swindow, again)
    BY <1>1, <1>4 DEF Resend
  <2>2. \A p \in again : p \in Packet /\ TrueToReceiver(p)'
    <3> SUFFICES ASSUME NEW i \in Outstanding, NEW p, p = DataPacket(seqnum_add(swbase, i), shift + i)
                 PROVE  p \in Packet /\ TrueToReceiver(p)'
      OBVIOUS
    <3>1. i \in Nat /\ i < SEQMOD /\ \A j \in 0 .. i : seqnum_add(shift, j) < ssqn
      BY <1>1, Numbers DEF Outstanding
    <3>2. shift + i < ssqn
      <4> SUFFICES ASSUME shift + i >= ssqn PROVE FALSE
        BY <1>1, <3>1, Numbers
      <4>1. ssqn - shift \in 0 .. i /\ seqnum_add(shift, ssqn - shift) = ssqn
        BY <1>1, <3>1, Numbers, AddPlain
      <4> QED
        BY <3>1, <4>1, Numbers
    <3>3. seqnum_add(swbase, i) = shift + i /\ shift + i \in Chunks /\ shift + i \in SeqNums
      BY <1>1, <3>1, <3>2, Numbers, AddPlain DEF Chunks, SeqNums
    <3>4. p \in Packet
      BY <3>3, PacketTypes
    <3>5. p.flags = {} /\ p.payload = shift + i /\ p.seq_num = shift + i
          /\ p.length = dsize(shift + i)
      BY <3>3 DEF DataPacket
    <3>6. SentUpTo(p.payload)'
      <4>1. spc' = "data" /\ ssqn' = ssqn /\ shift' = shift
        <5>1. ~(shift >= NPACKET) /\ shift # ssqn
          BY <1>1, Numbers
        <5>2. seqnum_add(ssqn, 0) = ssqn
          BY <1>1, Numbers, AddPlain
        <5> QED
          BY <2>1, <5>1, <5>2 DEF Continue
      <4> QED
        BY <1>1, <3>2, <3>5, <4>1 DEF SentUpTo
    <3> QED
      BY <3>3, <3>4, <3>5, <3>6, FlagsDiffer DEF TrueToReceiver
  <2> HIDE DEF again
  <2> QED
    BY <1>1, <1>2, <2>1, <2>2, Numbers, ContinueStep
<1>5. CASE CumulativeAck(a)
  <2>1. /\ Acked(a) \in shift .. ssqn - 1
        /\ sqn_dis(swbase, Acked(a)) + 1 = Acked(a) + 1 - shift
        /\ \A i \in 0 .. Acked(a) : Has(i)
    BY <1>1, <1>5, UsefulAck, Numbers DEF CumulativeAck
  <2> DEFINE sh == Acked(a) + 1
  <2>2. sh \in shift .. NPACKET /\ ssqn \in sh .. NPACKET /\ ssqn <= sh + SWSIZE
    BY <1>1, <2>1, Numbers
  <2>3. shift + (sqn_dis(swbase, Acked(a)) + 1) = sh
        /\ seqnum_add(swbase, sqn_dis(swbase, Acked(a)) + 1) = sh
    BY <1>1, <2>1, <2>2, Numbers, AddPlain
  <2>4. Continue(a, sh, sh, ssqn, swindow, {})
    BY <1>5, <2>3 DEF CumulativeAck
  <2>5. \A k \in 0 .. SWSIZE - 1 : ~swindow[k]
    BY <1>2, <1>5 DEF CumulativeAck
  <2>6. \A i \in 0 .. sh - 1 : Has(i)
    BY <2>1
  <2> HIDE DEF sh
  <2> QED
    BY <1>1, <1>2, <2>2, <2>4, <2>5, <2>6, ContinueStep
<1>6. CASE SelectiveAck(a)
  <2> DEFINE ind == Acked(a) - shift
             u   == update_window(swindow, SWSIZE, ind)
             sh  == shift + u.shift
  <2>1. ind \in 0 .. ssqn - shift - 1 /\ sqn_dis(swbase, Acked(a)) = ind /\ Has(shift + ind)
    BY <1>1, <1>6, UsefulAck, Numbers DEF SelectiveAck
  <2>2. /\ ind \in 0 .. SWSIZE - 1
        /\ \A k \in 0 .. SWSIZE - 1 : swindow[k] \/ k = ind => shift + k < ssqn /\ Has(shift + k)
    BY <1>1, <1>2, <2>1, Numbers
  <2> HIDE DEF ind
  <2>3. /\ u.shift \in 0 .. SWSIZE
        /\ u.window \in Windows(SWSIZE)
        /\ \A k \in 0 .. u.shift - 1 : swindow[k] \/ k = ind
        /\ \A k \in 0 .. SWSIZE - 1 :
              u.window[k] <=> /\ k + u.shift < SWSIZE
                              /\ swindow[k + u.shift] \/ k + u.shift = ind
    BY <1>2, <2>2, Numbers, UpdateWindow
  <2> HIDE DEF u
  <2>4. sh \in shift .. ssqn
    <3>1. u.shift # 0 => u.shift - 1 \in 0 .. SWSIZE - 1 /\ u.shift - 1 \in 0 .. u.shift - 1
      BY <2>3, Numbers
    <3>2. u.shift # 0 => shift + (u.shift - 1) < ssqn
      BY <2>2, <2>3, <3>1
    <3> QED
      BY <1>1, <2>3, <3>2, Numbers
  <2>5. sh \in shift .. NPACKET /\ ssqn \in sh .. NPACKET /\ ssqn <= sh + SWSIZE
    BY <1>1, <2>3, <2>4, Numbers
  <2>6. seqnum_add(swbase, u.shift) = sh
    BY <1>1, <2>3, <2>4, Numbers, AddPlain
  <2>7. Continue(a, sh, sh, ssqn, u.window, {})
    BY <1>6, <2>1, <2>6 DEF SelectiveAck, u
  <2>8. \A k \in 0 .. SWSIZE - 1 : u.window[k] => SR /\ sh + k < ssqn /\ Has(sh + k)
    <3> SUFFICES ASSUME NEW k \in 0 .. SWSIZE - 1, u.window[k]
                 PROVE  sh + k < ssqn /\ Has(sh + k)
      BY <1>6 DEF SelectiveAck
    <3>1. k + u.shift \in 0 .. SWSIZE - 1 /\ (swindow[k + u.shift] \/ k + u.shift = ind)
      BY <2>3, Numbers
    <3>2. sh + k = shift + (k + u.shift)
      BY <2>3, Numbers
    <3> QED
      BY <2>2, <3>1, <3>2
  <2>9. \A i \in 0 .. sh - 1 : Has(i)
    <3> SUFFICES ASSUME NEW i \in 0 .. sh - 1, i >= shift PROVE Has(i)
      BY <1>2, <2>3, Numbers
    <3>1. i - shift \in 0 .. u.shift - 1 /\ i - shift \in 0 .. SWSIZE - 1 /\ shift + (i - shift) = i
      BY <2>3, Numbers
    <3> QED
      BY <2>2, <2>3, <3>1
  <2> HIDE DEF sh
  <2> QED
    BY <1>1, <2>3, <2>5, <2>7, <2>8, <2>9, ContinueStep
<1> QED
  BY <1>3, <1>4, <1>5, <1>6

-----------------------------------------------------------------------------
\* A step of the receiver keeps IInv if it keeps the receiver's own part of
\* it, loses no packet it has, and sends only what is true of the new state.
LEMMA ReceiverFrame ==
    ASSUME IInv, UNCHANGED svars,
           NEW a, Arrived(a, toR), NEW out, ReceiverIO(a, out),
           \A p \in out : p \in Packet /\ TrueToSender(p)',
           ReceiverTypeOK', ReceiverInv', SizeInv',
           \A i \in Nat : Has(i) => Has(i)',
           rshift' >= rshift,
           rpc \in {"last", "exit"} => rpc' \in {"last", "exit"},
           rpc' \in {"listen", "synack", "data"} => ~written',
           rpc' \in {"brk", "last", "exit"} => written',
           rpc' \in {"last", "exit"} => shift = NPACKET
    PROVE  IInv'
<1>1. DOMAIN toR' \subseteq DOMAIN toR /\ DOMAIN toS' \subseteq DOMAIN toS \cup out
  BY SendDomain DEF ReceiverIO, Arrived
<1>2. TypeOK'
  BY <1>1 DEF IInv, TypeOK, ReceiverIO, Arrived, svars, SenderTypeOK
<1>3. NetworkInv'
  <2>1. \A p \in DOMAIN toR : TrueToReceiver(p)'
    BY DEF IInv, NetworkInv, TrueToReceiver, SentUpTo, svars
  <2>2. ASSUME NEW p \in DOMAIN toS PROVE TrueToSender(p)'
    <3>1. TrueToSender(p) /\ p.seq_num \in Nat
      BY Numbers DEF IInv, NetworkInv, TypeOK, Packet, SeqNums
    <3>2. p.flags = ACK \cup FIN => rpc' \in {"last", "exit"}
      BY <3>1 DEF TrueToSender
    <3>3. p.flags = ACK => IF SR THEN p.seq_num < NPACKET /\ Has(p.seq_num)'
                                 ELSE p.seq_num <= rshift'
      <4>1. rshift \in Int /\ rshift' \in Int
        BY Numbers, <1>2, FileFacts DEF TypeOK, ReceiverTypeOK
      <4> QED
        BY <3>1, <4>1 DEF TrueToSender
    <3> QED
      BY <3>2, <3>3 DEF TrueToSender
  <2> QED
    BY <1>1, <2>1, <2>2 DEF NetworkInv
<1>4. SenderInv'
  <2>1. \A k \in 0 .. SWSIZE - 1 : shift + k \in Nat
    BY Numbers
  <2> QED
    BY <2>1 DEF IInv, SenderInv, svars
<1>5. ClosingInv'
  BY DEF IInv, ClosingInv, svars
<1> QED
  BY <1>2, <1>3, <1>4, <1>5 DEF IInv

\* The same for a step that stores nothing.
LEMMA ReceiverControlFrame ==
    ASSUME IInv, UNCHANGED svars, UNCHANGED <<rshift, rwindow, rbuf, rfsize>>,
           NEW a, Arrived(a, toR), NEW out, ReceiverIO(a, out),
           \A p \in out : p \in Packet /\ TrueToSender(p)',
           rpc' \in {"listen", "synack", "data", "brk", "last", "exit", "fatal"},
           rsqn' \in SeqNums, rwbase' \in SeqNums,
           rtries' \in 0 .. SEND_TR + 1,
           written' \in BOOLEAN,
           rpc \in {"last", "exit"} => rpc' \in {"last", "exit"},
           rpc' \in {"listen", "synack", "data"} => ~written',
           rpc' \in {"listen", "synack"} => rpc \in {"listen", "synack"},
           rpc' = "synack" => rsqn' = 0 /\ rtries' <= SEND_TR,
           rpc' = "data" => IF SR THEN rwbase' = rshift ELSE rsqn' = rshift,
           rpc' \in {"brk", "last", "exit"} => written',
           rpc' \in {"last", "exit"} => shift = NPACKET
    PROVE  IInv'
<1>1. \A i : Has(i)' <=> Has(i)
  BY DEF Has
<1>2. \A i : SentUpTo(i)' <=> SentUpTo(i)
  BY DEF SentUpTo, svars
<1>3. ReceiverTypeOK'
  BY DEF IInv, TypeOK, ReceiverTypeOK
<1>4. ReceiverInv'
  BY <1>1, <1>2 DEF IInv, ReceiverInv
<1>5. SizeInv'
  BY <1>1 DEF IInv, SizeInv
<1>6. rshift' >= rshift
  BY Numbers
<1> QED
  BY <1>1, <1>3, <1>4, <1>5, <1>6, ReceiverFrame

-----------------------------------------------------------------------------
\* The steps of establish_connection.
LEMMA ReceiverEstablishStep ==
    ASSUME IInv, UNCHANGED svars, NEW a, Arrived(a, toR),
           \/ SynArrives(a) \/ ListenTimesOut(a) \/ ListenIgnores(a)
           \/ HandshakeEnds(a) \/ SynAckRetry(a)
    PROVE  IInv'
<1>1. /\ ReceiverTypeOK /\ ReceiverInv
      /\ rpc \in {"listen", "synack"} /\ rshift = 0 /\ rfsize = 0
      /\ written' = written /\ ~written
  BY DEF IInv, ClosingInv, TypeOK, ReceiverInv, SynArrives, ListenTimesOut, ListenIgnores,
         HandshakeEnds, SynAckRetry, rvars
<1>2. /\ rsqn \in SeqNums /\ rwbase \in SeqNums /\ rtries \in 0 .. SEND_TR + 1
      /\ written \in BOOLEAN /\ SEND_TR \in Nat \ {0}
  BY <1>1, ConfigAssumption DEF ReceiverTypeOK
<1>3. ControlPacket(0, SYN \cup ACK) \in Packet /\ TrueToSender(ControlPacket(0, SYN \cup ACK))'
  BY PacketTypes, FirstNumbers, FlagsDiffer DEF TrueToSender, ControlPacket
<1>4. CASE SynArrives(a)
  <2>1. a.rtp.seq_num = SEQMOD - 1
    BY <1>4, FlagsDiffer DEF SynArrives, Is, Arrived, IInv, NetworkInv, TrueToReceiver
  <2>2. /\ rpc' = "synack" /\ rsqn' = 0 /\ rtries' = ReplyAttempt(0)
        /\ ReceiverIO(a, {ControlPacket(0, SYN \cup ACK)})
        /\ UNCHANGED <<rshift, rwindow, rbuf, rfsize, rwbase>>
    BY <1>4, <2>1, FirstNumbers DEF SynArrives, transfervars
  <2>3. rtries' \in 0 .. SEND_TR + 1 /\ rtries' <= SEND_TR
    BY <1>2, <2>2 DEF ReplyAttempt
  <2> QED
    BY <1>1, <1>2, <1>3, <2>2, <2>3, FirstNumbers, ReceiverControlFrame
<1>5. CASE ListenTimesOut(a)
  <2>1. rpc' = "fatal" /\ ReceiverIO(a, {})
        /\ UNCHANGED <<rshift, rwindow, rbuf, rfsize, rwbase, rsqn, rtries>>
    BY <1>5 DEF ListenTimesOut, transfervars
  <2> QED
    BY <1>1, <1>2, <2>1, ReceiverControlFrame
<1>6. CASE ListenIgnores(a)
  <2>1. rpc' = "listen" /\ ReceiverIO(a, {})
        /\ UNCHANGED <<rshift, rwindow, rbuf, rfsize, rwbase, rsqn, rtries>>
    BY <1>6 DEF ListenIgnores, rvars
  <2> QED
    BY <1>1, <1>2, <2>1, ReceiverControlFrame
<1>7. CASE HandshakeEnds(a)
  <2>1. rwindow = EmptyWindow(RWSIZE)
    BY <1>1 DEF ReceiverInv, ReceiverTypeOK, EmptyWindow, Windows
  <2>2. /\ rpc' = "data" /\ rwbase' = 0 /\ rsqn' = 0 /\ ReceiverIO(a, {})
        /\ UNCHANGED <<rshift, rwindow, rbuf, rfsize, rtries>>
    BY <1>1, <1>7, <2>1 DEF HandshakeEnds, ReceiverInv
  <2> QED
    BY <1>1, <1>2, <2>2, FirstNumbers, ReceiverControlFrame
<1>8. CASE SynAckRetry(a)
  <2>1. /\ rpc = "synack" /\ rsqn = 0 /\ rtries <= SEND_TR /\ rsqn' = 0
        /\ rtries' = ReplyAttempt(rtries)
        /\ rpc' = IF rtries' > SEND_TR THEN "fatal" ELSE "synack"
        /\ ReceiverIO(a, {ControlPacket(0, SYN \cup ACK)})
        /\ UNCHANGED <<rshift, rwindow, rbuf, rfsize, rwbase>>
    BY <1>1, <1>8 DEF SynAckRetry, ReceiverInv, transfervars
  <2>2. rtries' \in 0 .. SEND_TR + 1
    BY <1>2, <2>1 DEF ReplyAttempt
  <2>3. rpc' = "synack" => rtries' <= SEND_TR
    BY <1>2, <2>1, <2>2
  <2> QED
    BY <1>1, <1>2, <1>3, <2>1, <2>2, <2>3, FirstNumbers, ReceiverControlFrame
<1> QED
  BY <1>4, <1>5, <1>6, <1>7, <1>8

-----------------------------------------------------------------------------
\* The steps of transfer_data that store nothing.
LEMMA ReceiverIdleStep ==
    ASSUME IInv, UNCHANGED svars, NEW a, Arrived(a, toR),
           \/ FileWritten(a) \/ WriteFails(a) \/ ReceiverIgnores(a)
           \/ OldDataSR(a) \/ OtherDataGBN(a)
    PROVE  IInv'
<1>1. /\ rpc = "data" /\ ReceiverTypeOK /\ ReceiverInv /\ ~written
      /\ IF SR THEN rwbase = rshift ELSE rsqn = rshift
  BY DEF IInv, ClosingInv, TypeOK, ReceiverInv, FileWritten, WriteFails, ReceiverIgnores,
         OldDataSR, OtherDataGBN
<1>2. /\ rsqn \in SeqNums /\ rwbase \in SeqNums /\ rtries \in 0 .. SEND_TR + 1
      /\ written \in BOOLEAN /\ SR \in BOOLEAN
  BY <1>1, ConfigAssumption DEF ReceiverTypeOK
<1>3. CASE FileWritten(a)
  <2>1. rpc' = "brk" /\ written' = TRUE /\ ReceiverIO(a, {})
        /\ UNCHANGED <<rshift, rwindow, rbuf, rfsize, rwbase, rsqn, rtries>>
    BY <1>3 DEF FileWritten, transfervars
  <2> QED
    BY <1>1, <1>2, <2>1, ReceiverControlFrame
<1>4. CASE WriteFails(a)
  <2>1. Arrived(WithFault(a), toR)
    BY FaultArrives
  <2>2. rpc' = "fatal" /\ ReceiverIO(WithFault(a), {})
        /\ UNCHANGED <<rshift, rwindow, rbuf, rfsize, rwbase, rsqn, rtries, written>>
    BY <1>4 DEF WriteFails, transfervars
  <2> QED
    BY <1>1, <1>2, <2>1, <2>2, ReceiverControlFrame
<1>5. CASE ReceiverIgnores(a)
  <2>1. rpc' = rpc /\ ReceiverIO(a, {})
        /\ UNCHANGED <<rshift, rwindow, rbuf, rfsize, rwbase, rsqn, rtries, written>>
    BY <1>5 DEF ReceiverIgnores, rvars
  <2> QED
    BY <1>1, <1>2, <2>1, ReceiverControlFrame
<1>6. CASE OldDataSR(a)
  <2>1. /\ rpc' = rpc /\ ReceiverIO(a, {ControlPacket(a.rtp.seq_num, ACK)}) /\ SR
        /\ UNCHANGED <<rshift, rwindow, rbuf, rfsize, rwbase, rsqn, rtries, written>>
    BY <1>6 DEF OldDataSR, rvars
  <2>2. a.rtp.seq_num \in SeqNums /\ a.rtp.seq_num \in Chunks
    BY <1>6 DEF OldDataSR, IsData, Is, Arrived, IInv, TypeOK, Packet, NetworkInv, TrueToReceiver
  <2>3. a.rtp.seq_num < rshift
    <3>1. CASE rshift < RWSIZE
      <4>1. seqnum_add(rshift, -RWSIZE) = rshift - RWSIZE + SEQMOD
        BY <3>1, Numbers, AddBelow
      <4> QED
        BY <1>1, <1>6, <2>1, <2>2, <4>1, Numbers
           DEF OldDataSR, IsBelowWindow, seqnum_is_in, Chunks
    <3>2. CASE rshift >= RWSIZE
      <4>1. seqnum_add(rshift, -RWSIZE) = rshift - RWSIZE
        BY <3>2, Numbers, SeqModAssumption DEF seqnum_add
      <4> QED
        BY <1>1, <1>6, <2>1, <2>2, <4>1, Numbers
           DEF OldDataSR, IsBelowWindow, seqnum_is_in, Chunks
    <3> QED
      BY <3>1, <3>2, Numbers
  <2> DEFINE p == ControlPacket(a.rtp.seq_num, ACK)
  <2>4. p \in Packet /\ p.flags = ACK /\ p.seq_num = a.rtp.seq_num
    BY <2>2, PacketTypes DEF ControlPacket
  <2>5. Has(a.rtp.seq_num)' /\ a.rtp.seq_num < NPACKET
    BY <2>1, <2>2, <2>3, Numbers DEF Has, Chunks
  <2>6. TrueToSender(p)'
    BY <2>1, <2>4, <2>5, FlagsDiffer DEF TrueToSender
  <2> HIDE DEF p
  <2> QED
    BY <1>1, <1>2, <2>1, <2>4, <2>6, ReceiverControlFrame DEF p
<1>7. CASE OtherDataGBN(a)
  <2>1. /\ rpc' = rpc /\ ReceiverIO(a, {ControlPacket(rsqn, ACK)}) /\ ~SR
        /\ UNCHANGED <<rshift, rwindow, rbuf, rfsize, rwbase, rsqn, rtries, written>>
    BY <1>7 DEF OtherDataGBN, rvars
  <2>2. ControlPacket(rsqn, ACK) \in Packet /\ TrueToSender(ControlPacket(rsqn, ACK))'
    BY <1>1, <1>2, <2>1, PacketTypes, FlagsDiffer, Numbers DEF TrueToSender, ControlPacket
  <2> QED
    BY <1>1, <1>2, <2>1, <2>2, ReceiverControlFrame
<1> QED
  BY <1>3, <1>4, <1>5, <1>6, <1>7

\* The steps of break_connection.
LEMMA ReceiverBreakStep ==
    ASSUME IInv, UNCHANGED svars, NEW a, Arrived(a, toR),
           FinArrives(a) \/ BreakIgnores(a) \/ ReceiverExits(a)
    PROVE  IInv'
<1>1. /\ rpc \in {"brk", "last"} /\ ReceiverTypeOK /\ written' = written
      /\ UNCHANGED <<rshift, rwindow, rbuf, rfsize, rwbase, rtries>>
  BY DEF IInv, TypeOK, FinArrives, BreakIgnores, ReceiverExits, rvars, transfervars
<1>2. /\ rsqn \in SeqNums /\ rwbase \in SeqNums /\ rtries \in 0 .. SEND_TR + 1
      /\ written \in BOOLEAN
  BY <1>1 DEF ReceiverTypeOK
<1>3. a.scode # -2 => a.rtp.seq_num \in SeqNums
  BY DEF Arrived, Packet
<1>4. ASSUME Is(a, FIN)
      PROVE  shift = NPACKET /\ a.rtp.seq_num \in SeqNums
  BY <1>4, FlagsDiffer DEF Is, Arrived, IInv, NetworkInv, TrueToReceiver, TypeOK, Packet
<1>5. ASSUME rpc' \in {"last", "exit"}, NEW s \in SeqNums
      PROVE  ControlPacket(s, ACK \cup FIN) \in Packet
             /\ TrueToSender(ControlPacket(s, ACK \cup FIN))'
  BY <1>5, PacketTypes, FlagsDiffer DEF TrueToSender, ControlPacket, svars
<1>6. written
  BY <1>1 DEF IInv, ClosingInv
<1>7. CASE BreakIgnores(a)
  <2>1. rpc = "brk" /\ rpc' = "brk" /\ ReceiverIO(a, {}) /\ rsqn' = rsqn
    BY <1>7 DEF BreakIgnores, rvars
  <2> QED
    BY <1>1, <1>2, <1>6, <2>1, ReceiverControlFrame
<1>8. CASE FinArrives(a)
  <2>1. /\ rpc' = "last" /\ rsqn' = a.rtp.seq_num
        /\ ReceiverIO(a, {ControlPacket(a.rtp.seq_num, ACK \cup FIN)})
    BY <1>8 DEF FinArrives
  <2>2. written' /\ shift = NPACKET /\ a.rtp.seq_num \in SeqNums
    BY <1>1, <1>4, <1>6, <1>8 DEF FinArrives
  <2> QED
    BY <1>1, <1>2, <1>5, <2>1, <2>2, ReceiverControlFrame
<1>9. CASE ReceiverExits(a)
  <2> DEFINE out == IF Is(a, FIN) THEN {ControlPacket(a.rtp.seq_num, ACK \cup FIN)} ELSE {}
  <2>1. rpc = "last" /\ rpc' = "exit" /\ rsqn' \in SeqNums /\ ReceiverIO(a, out)
    BY <1>2, <1>3, <1>9 DEF ReceiverExits
  <2>2. written' /\ shift = NPACKET
    BY <1>1, <1>6, <2>1 DEF IInv, ClosingInv
  <2>3. \A p \in out : p \in Packet /\ TrueToSender(p)'
    BY <1>4, <1>5, <2>1
  <2> HIDE DEF out
  <2> QED
    BY <1>1, <1>2, <2>1, <2>2, <2>3, ReceiverControlFrame
<1> QED
  BY <1>7, <1>8, <1>9

-----------------------------------------------------------------------------
\* Chunks end within the file's blocks, one after the other.
LEMMA EndFacts ==
    /\ \A i \in Chunks : End(i) \in 0 .. NPACKET * PAYLOAD_MAX
    /\ \A i, j \in Chunks : i < j => End(i) = (i + 1) * PAYLOAD_MAX /\ End(i) <= End(j)
<1>1. /\ NPACKET \in Nat /\ PAYLOAD_MAX \in Nat \ {0}
      /\ \A i \in Chunks : dsize(i) \in 0 .. PAYLOAD_MAX
  BY FileFacts, ConfigAssumption
<1>2. \A i, j \in Nat : i <= j => i * PAYLOAD_MAX <= j * PAYLOAD_MAX
  <2> SUFFICES ASSUME NEW i \in Nat, NEW j \in Nat, i <= j
               PROVE  i * PAYLOAD_MAX <= j * PAYLOAD_MAX
    OBVIOUS
  <2>1. PICK d \in Nat : j = i + d
    <3>1. j - i \in Nat /\ j = i + (j - i)
      OBVIOUS
    <3> QED
      BY <3>1
  <2>2. j * PAYLOAD_MAX = i * PAYLOAD_MAX + d * PAYLOAD_MAX
    BY <1>1, <2>1
  <2>3. d * PAYLOAD_MAX \in Nat /\ i * PAYLOAD_MAX \in Nat
    BY <1>1
  <2> QED
    BY <2>2, <2>3
<1>3. \A i \in Nat : (i + 1) * PAYLOAD_MAX = i * PAYLOAD_MAX + PAYLOAD_MAX
                    /\ i * PAYLOAD_MAX \in Nat
  BY <1>1
<1>4. ASSUME NEW i \in Chunks PROVE End(i) \in 0 .. NPACKET * PAYLOAD_MAX
  <2>1. i \in Nat /\ i + 1 <= NPACKET
    BY <1>1 DEF Chunks
  <2>2. (i + 1) * PAYLOAD_MAX <= NPACKET * PAYLOAD_MAX /\ NPACKET * PAYLOAD_MAX \in Nat
    BY <1>1, <1>2, <2>1
  <2> QED
    BY <1>1, <1>3, <2>1, <2>2 DEF End
<1>5. ASSUME NEW i \in Chunks, NEW j \in Chunks, i < j
      PROVE  End(i) = (i + 1) * PAYLOAD_MAX /\ End(i) <= End(j)
  <2>1. i \in Nat /\ j \in Nat /\ i + 1 <= j /\ i # NPACKET - 1
    BY <1>1, <1>5 DEF Chunks
  <2>2. (i + 1) * PAYLOAD_MAX <= j * PAYLOAD_MAX
    BY <1>2, <2>1
  <2>3. End(i) = (i + 1) * PAYLOAD_MAX
    BY <1>1, <1>3, <2>1 DEF End, dsize
  <2> QED
    BY <1>1, <1>3, <2>1, <2>2, <2>3 DEF End
<1> QED
  BY <1>4, <1>5

-----------------------------------------------------------------------------
\* A step of the receiver that takes data packet i, new or not, and counts it.
LEMMA StoreFrame ==
    ASSUME IInv, UNCHANGED svars, rpc = "data",
           UNCHANGED <<rpc, rtries, written>>,
           NEW a, Arrived(a, toR), IsData(a),
           NEW i, i = a.rtp.payload,
           rbuf' = memcpy(i, a.rtp),
           rshift' \in rshift .. NPACKET,
           rwindow' \in Windows(RWSIZE), ~rwindow'[0],
           \A k \in 0 .. RWSIZE - 1 : rwindow'[k] => SR /\ rshift' + k < NPACKET,
           rsqn' \in SeqNums, rwbase' \in SeqNums,
           IF SR THEN rwbase' = rshift' ELSE rsqn' = rshift',
           \A j \in Nat : Has(j)' <=> Has(j) \/ j = i,
           IF SR THEN rfsize' = IF rfsize < End(i) THEN End(i) ELSE rfsize
                 ELSE rshift' = rshift + 1 /\ i = rshift /\ rfsize' = rfsize + dsize(i),
           NEW s \in SeqNums, ReceiverIO(a, {ControlPacket(s, ACK)}),
           s = IF SR THEN i ELSE rshift'
    PROVE  IInv'
<1>1. /\ i \in Chunks /\ i \in Nat /\ a.rtp.length = dsize(i) /\ SentUpTo(i)
      /\ ReceiverTypeOK /\ ReceiverInv /\ SizeInv
  BY Numbers DEF IsData, Is, Arrived, IInv, TypeOK, NetworkInv, TrueToReceiver, Chunks
<1>2. \A j \in Chunks : j \in Nat
  BY Numbers DEF Chunks
<1>3. \A j : SentUpTo(j)' <=> SentUpTo(j)
  BY DEF SentUpTo, svars
<1>4. rbuf' = IF dsize(i) = 0 THEN rbuf ELSE [rbuf EXCEPT ![i] = i]
  BY <1>1 DEF memcpy
<1>5. rfsize \in 0 .. NPACKET * PAYLOAD_MAX /\ NPACKET * PAYLOAD_MAX \in Nat
      /\ rfsize \in Nat /\ \A j \in Chunks : End(j) \in Nat
  BY <1>1, EndFacts, Numbers, ConfigAssumption DEF ReceiverTypeOK
<1>6. ~SR => rfsize' = End(i)
  <2>1. SUFFICES ASSUME ~SR PROVE rfsize' = End(i)
    OBVIOUS
  <2>2. i = rshift /\ rfsize' = rfsize + dsize(i)
    BY <2>1
  <2>3. rfsize = i * PAYLOAD_MAX
    <3>1. CASE i = 0
      BY <1>1, <2>1, <2>2, <3>1, ConfigAssumption DEF SizeInv
    <3>2. CASE i # 0
      <4>1. i - 1 \in Chunks /\ i - 1 < i /\ (i - 1) + 1 = i
        BY <1>1, <3>2, Numbers DEF Chunks
      <4>2. rfsize = End(i - 1)
        BY <1>1, <2>1, <2>2, <3>2 DEF SizeInv
      <4> QED
        BY <1>1, <4>1, <4>2, EndFacts
    <3> QED
      BY <3>1, <3>2
  <2> QED
    BY <2>2, <2>3 DEF End
<1>7. ReceiverTypeOK'
  <2>1. rfsize' \in 0 .. NPACKET * PAYLOAD_MAX
    BY <1>1, <1>5, <1>6, EndFacts
  <2>2. rbuf' \in [Chunks -> Chunks \cup {NoChunk}]
    BY <1>1, <1>4 DEF ReceiverTypeOK
  <2>3. rshift' \in 0 .. NPACKET
    BY Numbers
  <2> QED
    BY <1>1, <2>1, <2>2, <2>3 DEF ReceiverTypeOK
<1>8. ReceiverInv'
  <2>1. \A j \in Chunks : Has(j)' => SentUpTo(j)'
    BY <1>1, <1>2, <1>3 DEF ReceiverInv
  <2>2. \A j \in Chunks : rbuf'[j] = IF Has(j)' /\ dsize(j) # 0 THEN j ELSE NoChunk
    <3> SUFFICES ASSUME NEW j \in Chunks
                 PROVE  rbuf'[j] = IF Has(j)' /\ dsize(j) # 0 THEN j ELSE NoChunk
      OBVIOUS
    <3>1. rbuf[j] = IF Has(j) /\ dsize(j) # 0 THEN j ELSE NoChunk
      BY <1>1 DEF ReceiverInv
    <3>2. Has(j)' <=> Has(j) \/ j = i
      BY <1>2
    <3>3. rbuf'[j] = IF j = i /\ dsize(i) # 0 THEN i ELSE rbuf[j]
      BY <1>1, <1>4 DEF ReceiverTypeOK
    <3> QED
      BY <3>1, <3>2, <3>3
  <2> QED
    BY <2>1, <2>2 DEF ReceiverInv
<1>9. SizeInv'
  <2>1. \A j \in Chunks : Has(j)' => End(j) <= rfsize'
    <3> SUFFICES ASSUME NEW j \in Chunks, Has(j)' PROVE End(j) <= rfsize'
      OBVIOUS
    <3>1. CASE SR
      BY <1>1, <1>2, <1>5, <3>1 DEF SizeInv
    <3>2. CASE ~SR
      <4>1. j < i \/ j = i
        BY <1>1, <1>2, <3>2, Numbers DEF Has
      <4> QED
        BY <1>1, <1>5, <1>6, <3>2, <4>1, EndFacts
    <3> QED
      BY <3>1, <3>2
  <2>2. Has(i)' /\ (rfsize' = End(i) \/ (SR /\ rfsize' = rfsize))
    BY <1>1, <1>6
  <2>3. rfsize' = 0 \/ \E j \in Chunks : Has(j)' /\ rfsize' = End(j)
    BY <1>1, <1>2, <2>2 DEF SizeInv
  <2>4. ~SR => rfsize' = IF rshift' = 0 THEN 0 ELSE End(rshift' - 1)
    BY <1>1, <1>6, Numbers
  <2> QED
    BY <2>1, <2>3, <2>4 DEF SizeInv
<1>10. ControlPacket(s, ACK) \in Packet /\ TrueToSender(ControlPacket(s, ACK))'
  <2> DEFINE p == ControlPacket(s, ACK)
  <2>1. p \in Packet /\ p.flags = ACK /\ p.seq_num = s
    BY PacketTypes DEF ControlPacket
  <2>2. SR => Has(p.seq_num)' /\ p.seq_num < NPACKET
    BY <1>1, <2>1, Numbers DEF Chunks
  <2>3. ~SR => p.seq_num <= rshift'
    BY <2>1, Numbers
  <2> HIDE DEF p
  <2>4. p \in Packet /\ TrueToSender(p)'
    BY <2>1, <2>2, <2>3, FlagsDiffer DEF TrueToSender
  <2> QED
    BY <2>4 DEF p
<1>11. rshift' >= rshift /\ ~written
  BY Numbers DEF IInv, ClosingInv
<1> QED
  BY <1>7, <1>8, <1>9, <1>10, <1>11, ReceiverFrame

\* GBN stores the next packet.
LEMMA DataGBNStep ==
    ASSUME IInv, UNCHANGED svars, NEW a, Arrived(a, toR), DataGBN(a)
    PROVE  IInv'
<1>1. /\ rpc = "data" /\ ~SR /\ IsData(a) /\ ReceiverTypeOK /\ ReceiverInv
      /\ rsqn = rshift /\ a.rtp.seq_num = rshift
  BY DEF DataGBN, IInv, TypeOK, ReceiverInv
<1>2. a.rtp.payload = rshift /\ a.rtp.length = dsize(rshift) /\ rshift \in Chunks
  BY <1>1 DEF IsData, Is, Arrived, IInv, NetworkInv, TrueToReceiver
<1>3. rshift + 1 \in 0 .. NPACKET /\ rshift + 1 \in SeqNums /\ seqnum_add(rshift, 1) = rshift + 1
  BY <1>2, Numbers, AddPlain DEF Chunks, SeqNums
<1>4. /\ UNCHANGED <<rpc, rtries, written, rwbase, rwindow>>
      /\ rbuf' = memcpy(rshift, a.rtp)
      /\ rshift' = rshift + 1 /\ rsqn' = rshift + 1
      /\ rfsize' = rfsize + dsize(rshift)
      /\ ReceiverIO(a, {ControlPacket(rshift + 1, ACK)})
  BY <1>1, <1>2, <1>3 DEF DataGBN
<1>5. \A j \in Nat : Has(j)' <=> Has(j) \/ j = rshift
  BY <1>1, <1>4, Numbers DEF Has
<1>6. /\ rwindow' \in Windows(RWSIZE) /\ ~rwindow'[0] /\ rwbase' \in SeqNums
      /\ \A k \in 0 .. RWSIZE - 1 : ~rwindow'[k]
  BY <1>1, <1>4 DEF ReceiverTypeOK, ReceiverInv
<1>7. rshift' \in rshift .. NPACKET
  BY <1>3, <1>4, Numbers
<1> QED
  BY <1>1, <1>2, <1>3, <1>4, <1>5, <1>6, <1>7, StoreFrame

\* SR stores a packet of its window, again or for the first time.
LEMMA DataSRStep ==
    ASSUME IInv, UNCHANGED svars, NEW a, Arrived(a, toR), DataSR(a)
    PROVE  IInv'
<1> DEFINE i   == a.rtp.payload
           ind == i - rshift
           u   == update_window(rwindow, RWSIZE, ind)
<1>1. /\ rpc = "data" /\ SR /\ IsData(a) /\ ReceiverTypeOK /\ ReceiverInv /\ rwbase = rshift
  BY DEF DataSR, IInv, TypeOK, ReceiverInv
<1>2. a.rtp.seq_num = i /\ a.rtp.length = dsize(i) /\ i \in Chunks
  BY <1>1 DEF IsData, Is, Arrived, IInv, NetworkInv, TrueToReceiver
<1> HIDE DEF i
<1>3. seqnum_add(rshift, RWSIZE) = rshift + RWSIZE
  BY Numbers, AddPlain
<1>4. i \in Nat /\ i < NPACKET /\ ind \in 0 .. RWSIZE - 1
  BY <1>1, <1>2, <1>3, Numbers DEF DataSR, IsInWindow, seqnum_is_in, Chunks
<1>5. sqn_dis(rwbase, a.rtp.seq_num) = ind /\ rshift + ind = i
  BY <1>1, <1>2, <1>4, Numbers, DistancePlain
<1>6. /\ UNCHANGED <<rpc, rsqn, rtries, written>>
      /\ rbuf' = memcpy(i, a.rtp)
      /\ rfsize' = IF rfsize < End(i) THEN End(i) ELSE rfsize
      /\ rwindow' = u.window
      /\ rshift' = rshift + u.shift
      /\ rwbase' = seqnum_add(rshift, u.shift)
      /\ ReceiverIO(a, {ControlPacket(i, ACK)})
  BY <1>1, <1>2, <1>5 DEF DataSR, End
<1>7. /\ u.shift \in 0 .. RWSIZE
      /\ u.window \in Windows(RWSIZE)
      /\ \A k \in 0 .. u.shift - 1 : rwindow[k] \/ k = ind
      /\ \A k \in 0 .. RWSIZE - 1 :
            u.window[k] <=> /\ k + u.shift < RWSIZE
                            /\ rwindow[k + u.shift] \/ k + u.shift = ind
      /\ ~u.window[0]
  <2>1. rwindow \in Windows(RWSIZE)
    BY <1>1 DEF ReceiverTypeOK
  <2> HIDE DEF ind
  <2> QED
    BY <1>4, <2>1, Numbers, UpdateWindow
<1> HIDE DEF u
<1>8. \A k \in 0 .. RWSIZE - 1 : rwindow[k] \/ k = ind => rshift + k < NPACKET
  BY <1>1, <1>4, <1>5 DEF ReceiverInv
<1>9. rshift' \in rshift .. NPACKET
  <2>1. u.shift # 0 => u.shift - 1 \in 0 .. RWSIZE - 1 /\ u.shift - 1 \in 0 .. u.shift - 1
    BY <1>7, Numbers
  <2>2. u.shift # 0 => rshift + (u.shift - 1) < NPACKET
    BY <1>7, <1>8, <2>1
  <2> QED
    BY <1>6, <1>7, <2>2, Numbers
<1>10. \A k \in 0 .. RWSIZE - 1 : rwindow'[k] => rshift' + k < NPACKET
  <2> SUFFICES ASSUME NEW k \in 0 .. RWSIZE - 1, u.window[k] PROVE rshift + u.shift + k < NPACKET
    BY <1>6
  <2>1. k + u.shift \in 0 .. RWSIZE - 1 /\ (rwindow[k + u.shift] \/ k + u.shift = ind)
    BY <1>7, Numbers
  <2>2. rshift + (k + u.shift) < NPACKET
    BY <1>8, <2>1
  <2> QED
    BY <1>7, <2>2, Numbers
<1>11. ASSUME NEW j \in Nat PROVE Has(j)' <=> Has(j) \/ j = i
  <2> DEFINE k == j - rshift
  <2>1. Has(j) \/ j = i <=> j < rshift \/ (k \in 0 .. RWSIZE - 1 /\ (rwindow[k] \/ k = ind))
    BY <1>1, <1>4, <1>5, Numbers DEF Has
  <2>2. Has(j)' <=>
           k < u.shift \/ (k - u.shift \in 0 .. RWSIZE - 1 /\ u.window[k - u.shift])
    <3>1. j < rshift' <=> k < u.shift
      BY <1>6, <1>7, Numbers
    <3>2. j - rshift' = k - u.shift
      BY <1>6, <1>7, Numbers
    <3> QED
      BY <1>1, <1>6, <3>1, <3>2 DEF Has
  <2>3. CASE k < 0
    BY <1>7, <2>1, <2>2, <2>3, Numbers
  <2>4. CASE k >= 0 /\ k < u.shift
    <3>1. k \in 0 .. u.shift - 1 /\ k \in 0 .. RWSIZE - 1
      BY <1>7, <2>4, Numbers
    <3> QED
      BY <1>7, <2>1, <2>2, <2>4, <3>1
  <2>5. CASE k >= u.shift
    <3>1. k - u.shift \in Nat /\ (k - u.shift) + u.shift = k /\ k \in Nat
      BY <1>7, <2>5, Numbers
    <3>2. CASE k - u.shift \in 0 .. RWSIZE - 1
      <4>1. u.window[k - u.shift] <=> k < RWSIZE /\ (rwindow[k] \/ k = ind)
        BY <1>7, <3>1, <3>2
      <4>2. k \in 0 .. RWSIZE - 1 <=> k < RWSIZE
        BY <3>1, Numbers
      <4>3. ~(k < u.shift) /\ ~(j < rshift)
        BY <1>7, <2>5, <3>1, Numbers
      <4> QED
        BY <2>1, <2>2, <3>2, <4>1, <4>2, <4>3
    <3>3. CASE k - u.shift \notin 0 .. RWSIZE - 1
      <4>1. k \notin 0 .. RWSIZE - 1 /\ ~(k < u.shift) /\ ~(j < rshift)
        BY <1>7, <2>5, <3>1, <3>3, Numbers
      <4> QED
        BY <2>1, <2>2, <3>3, <4>1
    <3> QED
      BY <3>2, <3>3
  <2> QED
    BY <1>7, <2>3, <2>4, <2>5, Numbers
<1>12. rwbase' = rshift' /\ rshift' \in SeqNums
  <2>1. rshift + u.shift \in Nat /\ rshift + u.shift < SEQMOD
    BY <1>6, <1>9, Numbers
  <2> QED
    BY <1>6, <1>7, <2>1, Numbers, AddPlain DEF SeqNums
<1>13. rsqn' \in SeqNums /\ i \in SeqNums
  BY <1>1, <1>4, <1>6, Numbers DEF ReceiverTypeOK, SeqNums
<1> QED
  BY <1>1, <1>6, <1>7, <1>9, <1>10, <1>11, <1>12, <1>13, StoreFrame DEF i

-----------------------------------------------------------------------------
\* IInv holds at the start.
LEMMA InitIInv == Init => IInv
<1> SUFFICES ASSUME Init PROVE IInv
  OBVIOUS
<1>1. DOMAIN toS = {} /\ DOMAIN toR = {} /\ faults = 0
  BY DEF Init, NetInit, EmptyBag, SetToBag
<1>2. NPACKET \in Nat /\ SEQMOD \in Nat \ {0} /\ SEND_TR \in Nat
      /\ SWSIZE \in Nat \ {0} /\ RWSIZE \in Nat \ {0}
      /\ NPACKET * PAYLOAD_MAX \in Nat
  BY FileFacts, ConfigAssumption, SeqModAssumption
<1>3. /\ \A k \in 0 .. SWSIZE - 1 : ~swindow[k]
      /\ \A k \in 0 .. RWSIZE - 1 : ~rwindow[k]
  BY EmptyWindowFacts DEF Init, SenderInit, ReceiverInit
<1>4. \A i \in Nat : ~Has(i)
  BY <1>3 DEF Init, ReceiverInit, Has
<1>5. TypeOK
  <2>1. SenderTypeOK
    BY <1>2, EmptyWindowFacts, FirstNumbers DEF Init, SenderInit, SenderTypeOK
  <2>2. ReceiverTypeOK
    <3>1. 0 \in 0 .. NPACKET * PAYLOAD_MAX
      BY <1>2
    <3>2. [i \in Chunks |-> NoChunk] \in [Chunks -> Chunks \cup {NoChunk}]
      OBVIOUS
    <3>3. ReceiverInit /\ 0 \in 0 .. SEND_TR + 1 /\ 0 \in 0 .. NPACKET
      BY <1>2 DEF Init
    <3>4. rbuf \in [Chunks -> Chunks \cup {NoChunk}]
      BY <3>2, <3>3 DEF ReceiverInit
    <3>5. rwindow \in Windows(RWSIZE)
      BY <3>3, EmptyWindowFacts DEF ReceiverInit
    <3>6. rfsize \in 0 .. NPACKET * PAYLOAD_MAX
      BY <3>1, <3>3 DEF ReceiverInit
    <3> QED
      BY <3>3, <3>4, <3>5, <3>6, FirstNumbers DEF ReceiverInit, ReceiverTypeOK
  <2> QED
    BY <1>1, <2>1, <2>2 DEF TypeOK
<1>6. NetworkInv
  BY <1>1 DEF NetworkInv
<1>7. SenderInv
  BY <1>2, <1>3 DEF Init, SenderInit, SenderInv
<1>8. \A i \in Chunks : i \in Nat
  BY <1>2 DEF Chunks
<1>9. ReceiverInv
  BY <1>2, <1>3, <1>4, <1>8 DEF Init, ReceiverInit, ReceiverInv
<1>10. SizeInv
  BY <1>4, <1>8 DEF Init, ReceiverInit, SizeInv
<1>11. ClosingInv
  BY DEF Init, SenderInit, ReceiverInit, ClosingInv
<1> QED
  BY <1>5, <1>6, <1>7, <1>9, <1>10, <1>11 DEF IInv

\* The sender's first step.
LEMMA SenderStartsStep ==
    ASSUME IInv, UNCHANGED rvars, SenderStarts
    PROVE  IInv'
<1> DEFINE a == [scode |-> -2, rtp |-> 0, left |-> toS, cost |-> 0]
           p == ControlPacket(SEQMOD - 1, SYN)
<1>1. /\ spc = "start" /\ spc' = "syn" /\ ssqn' = SEQMOD - 1 /\ stries' = Attempt(0)
      /\ UNCHANGED <<swbase, shift, swindow>>
      /\ SenderTypeOK /\ SenderInv
  BY FirstNumbers DEF SenderStarts, IInv, TypeOK
<1>2. SenderIO(a, {p}) /\ Arrived(a, toS)
  BY FirstNumbers DEF SenderStarts, SenderIO, Arrived, IInv, TypeOK
<1>3. p \in Packet /\ TrueToReceiver(p)'
  BY PacketTypes, FirstNumbers, FlagsDiffer DEF TrueToReceiver, ControlPacket
<1>4. stries' \in 0 .. SEND_TR + 1 /\ stries' <= SEND_TR
  BY <1>1, ConfigAssumption DEF Attempt
<1>5. SenderTypeOK' /\ \A i : Has(i)' <=> Has(i)
  BY <1>1, <1>4, FirstNumbers DEF SenderTypeOK, Has, rvars
<1>6. \A k \in 0 .. SWSIZE - 1 : ~swindow[k]
  BY <1>1, HasIsSent, Numbers DEF SenderInv, SentUpTo
<1>7. SenderInv'
  BY <1>1, <1>4, <1>5, <1>6 DEF SenderInv
<1> HIDE DEF a, p
<1> QED
  BY <1>1, <1>2, <1>3, <1>5, <1>7, SenderFrame DEF SentUpTo

\* The network only loses packets.
LEMMA LoseStep ==
    ASSUME IInv, UNCHANGED <<svars, rvars>>, Lose
    PROVE  IInv'
<1>1. DOMAIN toS' \subseteq DOMAIN toS /\ DOMAIN toR' \subseteq DOMAIN toR /\ faults' = faults + 1
  <2>1. \A net, p : DOMAIN (net (-) SetToBag({p})) \subseteq DOMAIN net
    BY DEF SetToBag, (-)
  <2> QED
    BY <2>1 DEF Lose
<1>2. UNCHANGED <<spc, ssqn, stries, swbase, shift, swindow>>
      /\ UNCHANGED <<rpc, rsqn, rtries, rwbase, rshift, rwindow, rbuf, rfsize, written>>
  BY DEF svars, rvars
<1>3. TypeOK'
  BY <1>1, <1>2 DEF IInv, TypeOK, SenderTypeOK, ReceiverTypeOK
<1>4. /\ \A i : Has(i)' <=> Has(i)
      /\ \A i : SentUpTo(i)' <=> SentUpTo(i)
  BY <1>2 DEF Has, SentUpTo
<1>5. NetworkInv'
  BY <1>1, <1>2, <1>4 DEF IInv, NetworkInv, TrueToReceiver, TrueToSender
<1>6. SenderInv' /\ ReceiverInv'
  BY <1>2, <1>4 DEF IInv, SenderInv, ReceiverInv
<1>7. SizeInv' /\ ClosingInv'
  BY <1>2, <1>4 DEF IInv, SizeInv, ClosingInv
<1> QED
  BY <1>3, <1>5, <1>6, <1>7 DEF IInv

\* A process is killed: it leaves the other one and the network as they are.
LEMMA KillStep ==
    ASSUME IInv,
           \/ SenderKilled /\ UNCHANGED rvars
           \/ ReceiverKilled /\ UNCHANGED svars
    PROVE  IInv'
<1>1. /\ UNCHANGED <<toS, toR, ssqn, stries, swbase, shift, swindow>>
      /\ UNCHANGED <<rsqn, rtries, rwbase, rshift, rwindow, rbuf, rfsize, written>>
      /\ faults' = faults + 1
  BY DEF SenderKilled, ReceiverKilled, svars, rvars, transfervars
<1>2. \/ spc' = "fatal" /\ rpc' = rpc
      \/ spc' = spc /\ rpc \notin {"last", "exit"} /\ rpc' = "fatal"
      \/ spc' = spc /\ rpc = "last" /\ rpc' = "exit"
  BY DEF SenderKilled, ReceiverKilled, ReceiverDead, svars, rvars
<1>3. /\ TypeOK /\ NetworkInv /\ SenderInv /\ ReceiverInv /\ SizeInv /\ ClosingInv
  BY DEF IInv
<1>4. TypeOK'
  BY <1>1, <1>2, <1>3 DEF TypeOK, SenderTypeOK, ReceiverTypeOK
<1>5. \A i : Has(i)' <=> Has(i)
  BY <1>1 DEF Has
<1>6. \A i : SentUpTo(i) => SentUpTo(i)'
  BY <1>1, <1>2 DEF SentUpTo
<1>7. NetworkInv'
  <2>1. \A p \in DOMAIN toR : TrueToReceiver(p)'
    BY <1>1, <1>3, <1>6 DEF NetworkInv, TrueToReceiver
  <2>2. \A p \in DOMAIN toS : TrueToSender(p)'
    BY <1>1, <1>2, <1>3, <1>5 DEF NetworkInv, TrueToSender
  <2> QED
    BY <1>1, <2>1, <2>2 DEF NetworkInv
<1>8. SenderInv'
  BY <1>1, <1>2, <1>3, <1>5 DEF SenderInv
<1>9. ReceiverInv'
  BY <1>1, <1>2, <1>3, <1>5, <1>6 DEF ReceiverInv
<1>10. SizeInv' /\ ClosingInv'
  BY <1>1, <1>2, <1>3, <1>5 DEF SizeInv, ClosingInv
<1> QED
  BY <1>4, <1>7, <1>8, <1>9, <1>10 DEF IInv

\* A step that changes nothing keeps IInv.
LEMMA StutterStep ==
    ASSUME IInv, UNCHANGED vars
    PROVE  IInv'
BY DEF IInv, TypeOK, SenderTypeOK, ReceiverTypeOK, NetworkInv, TrueToReceiver, TrueToSender,
       SenderInv, ReceiverInv, SizeInv, ClosingInv, Has, SentUpTo, vars, netvars, svars, rvars

\* IInv is inductive: one case for each way a process or the network can act.
LEMMA NextIInv == IInv /\ [Next]_vars => IInv'
<1> SUFFICES ASSUME IInv, [Next]_vars PROVE IInv'
  OBVIOUS
<1>1. DOMAIN toS \subseteq Packet /\ DOMAIN toR \subseteq Packet
  BY DEF IInv, TypeOK
<1>2. ASSUME NEW a, Arrived(a, toS), SenderHandles(a), UNCHANGED rvars PROVE IInv'
  BY <1>2, SenderControlStep, SenderBeginStep, SenderDataStep DEF SenderHandles
<1>3. ASSUME NEW a, Arrived(a, toR), ReceiverHandles(a), UNCHANGED svars PROVE IInv'
  BY <1>3, ReceiverEstablishStep, ReceiverIdleStep, DataSRStep, DataGBNStep, ReceiverBreakStep
     DEF ReceiverHandles
<1>4. CASE Sender /\ UNCHANGED rvars
  <2>1. CASE SenderStarts
    BY <1>4, <2>1, SenderStartsStep
  <2>2. CASE SenderReceives
    BY <1>1, <1>2, <1>4, <2>2, ArrivalsArrive DEF SenderReceives
  <2>3. CASE SenderTimesOut
    BY <1>1, <1>2, <1>4, <2>3, ArrivalsArrive DEF SenderTimesOut
  <2> QED
    BY <1>4, <2>1, <2>2, <2>3 DEF Sender
<1>5. CASE Receiver /\ UNCHANGED svars
  <2>1. CASE ReceiverReceives
    BY <1>1, <1>3, <1>5, <2>1, ArrivalsArrive DEF ReceiverReceives
  <2>2. CASE ReceiverTimesOut
    BY <1>1, <1>3, <1>5, <2>2, ArrivalsArrive DEF ReceiverTimesOut
  <2> QED
    BY <1>5, <2>1, <2>2 DEF Receiver
<1>6. CASE Lose /\ UNCHANGED <<svars, rvars>>
  BY <1>6, LoseStep
<1>7. CASE (SenderKilled /\ UNCHANGED rvars) \/ (ReceiverKilled /\ UNCHANGED svars)
  BY <1>7, KillStep
<1>8. CASE UNCHANGED vars
  BY <1>8, StutterStep
<1> QED
  BY <1>4, <1>5, <1>6, <1>7, <1>8 DEF Next, Terminated

\* The invariant holds in every state of every behaviour.
THEOREM Invariance == Spec => []IInv
BY InitIInv, NextIInv, PTL DEF Spec

-----------------------------------------------------------------------------
\* No variable of the two programs leaves its range: no sequence number, no
\* count beyond the file's packets, no size beyond the receiver's buffer.
THEOREM TypeCorrect == Spec => []TypeOK
<1>1. IInv => TypeOK
  BY DEF IInv
<1> QED
  BY <1>1, Invariance, PTL

\* Whenever the sender has ended without an error, or the receiver has met the
\* sender's FIN in break_connection, the file written is the file sent: for
\* every file without an empty last packet, every window, both modes, and any
\* loss, doubling, overtaking and corruption, early timeouts included.
THEOREM Delivery == Spec => []EndMeansDelivered
<1>1. IInv => EndMeansDelivered
  <2> SUFFICES ASSUME IInv, spc = "exit" \/ rpc \in {"last", "exit"}, FSIZE = 0 \/ tsize # 0
               PROVE  written /\ Intact
    BY DEF EndMeansDelivered
  <2>1. written /\ shift = NPACKET
    BY DEF IInv, ClosingInv, SenderInv
  <2>2. \A i \in Chunks : Has(i)
    BY <2>1 DEF IInv, SenderInv, Chunks
  <2>3. \A i \in Chunks : dsize(i) # 0
    <3>1. Chunks # {} => tsize # 0
      BY FileFacts DEF Chunks
    <3> QED
      BY <3>1, ConfigAssumption DEF dsize
  <2>4. \A i \in Chunks : rbuf[i] = i
    BY <2>2, <2>3 DEF IInv, ReceiverInv
  <2>5. rfsize = FSIZE
    <3>1. CASE FSIZE = 0
      <4>1. Chunks = {}
        BY <3>1, FileFacts DEF Chunks
      <4> QED
        BY <3>1, <4>1 DEF IInv, SizeInv
    <3>2. CASE FSIZE # 0
      <4>1. /\ NPACKET - 1 \in Chunks /\ tsize # 0
            /\ End(NPACKET - 1) = FSIZE
        BY <3>2, FileFacts, ConfigAssumption DEF Chunks, End, dsize
      <4>2. \A i \in Chunks : End(i) \in Nat /\ End(i) <= FSIZE
        <5>1. \A i \in Chunks : i = NPACKET - 1 \/ i < NPACKET - 1
          BY FileFacts DEF Chunks
        <5>2. \A i \in Chunks : End(i) \in Nat
          BY EndFacts, FileFacts, ConfigAssumption
        <5> QED
          BY <4>1, <5>1, <5>2, EndFacts
      <4>3. FSIZE <= rfsize /\ (rfsize = 0 \/ rfsize <= FSIZE)
        BY <2>2, <4>1, <4>2 DEF IInv, SizeInv
      <4>4. rfsize \in Int
        BY FileFacts, ConfigAssumption DEF IInv, TypeOK, ReceiverTypeOK
      <4> QED
        BY <3>2, <4>3, <4>4, ConfigAssumption
    <3> QED
      BY <3>1, <3>2
  <2> QED
    BY <2>1, <2>4, <2>5 DEF Intact
<1> QED
  BY <1>1, Invariance, PTL

\* What the sender counts as confirmed, below its window and in it, the
\* receiver holds, at every moment of every transfer.
THEOREM Confirmation == Spec => []ConfirmedIsStored
<1>1. IInv => ConfirmedIsStored
  <2> SUFFICES ASSUME IInv, tsize # 0 PROVE ConfirmedIsStored
    BY DEF ConfirmedIsStored
  <2>1. \A i \in Nat : Has(i) => rbuf[i] = i
    <3> SUFFICES ASSUME NEW i \in Nat, Has(i) PROVE rbuf[i] = i
      OBVIOUS
    <3>1. i \in Chunks
      BY HasIsSent
    <3>2. dsize(i) # 0
      BY ConfigAssumption DEF dsize
    <3> QED
      BY <3>1, <3>2 DEF IInv, ReceiverInv
  <2>2. \A i \in 0 .. shift - 1 : i \in Nat /\ Has(i)
    BY DEF IInv, SenderInv
  <2>3. \A k \in 0 .. SWSIZE - 1 : swindow[k] => shift + k \in Nat /\ Has(shift + k)
    BY Numbers DEF IInv, SenderInv
  <2> QED
    BY <2>1, <2>2, <2>3 DEF ConfirmedIsStored
<1> QED
  BY <1>1, Invariance, PTL

\* The receiver's count, window and buffer always agree.
THEOREM Storage == Spec => []StoredInPlace
<1>1. IInv => StoredInPlace
  BY DEF IInv, ReceiverInv, StoredInPlace, Has
<1> QED
  BY <1>1, Invariance, PTL

\* The two windows never drift so far apart that a packet the sender still
\* waits for is dropped without an ACK, if the receiver's is the larger one.
THEOREM Acknowledgement == Spec => []DataIsAcknowledged
<1>1. IInv => DataIsAcknowledged
  <2> SUFFICES ASSUME IInv, SR, SWSIZE <= RWSIZE, rpc = "data",
                      NEW p \in DOMAIN toR, p.flags = {}, p.payload >= shift
               PROVE  LET a == [scode |-> 0, rtp |-> p]
                      IN  IsBelowWindow(a) \/ IsInWindow(a)
    BY DEF DataIsAcknowledged, BagToSet
  <2> DEFINE i == p.payload
  <2>1. /\ i \in Chunks /\ p.seq_num = i /\ i < ssqn /\ ssqn <= shift + SWSIZE
        /\ rwbase = rshift
    BY DEF IInv, NetworkInv, TrueToReceiver, SentUpTo, ReceiverInv
  <2>2. i \in Nat /\ i < NPACKET
    BY <2>1, Numbers DEF Chunks
  <2>3. rshift >= shift
    <3> SUFFICES ASSUME rshift < shift PROVE FALSE
      BY Numbers
    <3>1. Has(rshift)
      BY Numbers DEF IInv, SenderInv
    <3>2. rwindow[0]
      BY <3>1, Numbers DEF Has
    <3> QED
      BY <3>2 DEF IInv, ReceiverInv
  <2>4. rshift <= ssqn
    <3> SUFFICES ASSUME rshift > 0 PROVE rshift <= ssqn
      BY <2>1, <2>2, Numbers
    <3>1. rshift - 1 \in Nat /\ Has(rshift - 1)
      BY Numbers DEF Has
    <3>2. rshift - 1 < ssqn
      BY <3>1, HasIsSent DEF SentUpTo
    <3> QED
      BY <3>2, Numbers
  <2>5. CASE i < rshift
    <3>1. CASE rshift < RWSIZE
      <4>1. seqnum_add(rshift, -RWSIZE) = rshift - RWSIZE + SEQMOD
        BY <3>1, Numbers, AddBelow
      <4> QED
        BY <2>1, <2>2, <2>5, <3>1, <4>1, Numbers DEF IsBelowWindow, seqnum_is_in
    <3>2. CASE rshift >= RWSIZE
      <4>1. seqnum_add(rshift, -RWSIZE) = rshift - RWSIZE
        BY <3>2, Numbers, SeqModAssumption DEF seqnum_add
      <4>2. i >= rshift - RWSIZE
        BY <2>1, <2>2, <2>4, Numbers
      <4> QED
        BY <2>1, <2>2, <2>5, <4>1, <4>2, Numbers DEF IsBelowWindow, seqnum_is_in
    <3> QED
      BY <3>1, <3>2, Numbers
  <2>6. CASE i >= rshift
    <3>1. seqnum_add(rshift, RWSIZE) = rshift + RWSIZE
      BY Numbers, AddPlain
    <3>2. i < rshift + RWSIZE
      BY <2>1, <2>2, <2>3, Numbers
    <3> QED
      BY <2>1, <2>2, <2>6, <3>1, <3>2, Numbers DEF IsInWindow, seqnum_is_in
  <2> QED
    BY <2>2, <2>5, <2>6, Numbers
<1> QED
  BY <1>1, Invariance, PTL
=============================================================================
