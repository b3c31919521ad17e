---------------------------- MODULE RtpInvariant ----------------------------
(***************************************************************************)
(* The inductive invariant behind the safety properties of Rtp.  The first *)
(* data packet carries sequence number 0 (get_random_seqnum answers the    *)
(* largest number), so chunk i always travels under number i, and the      *)
(* sender's shift and wbase are the same number.                           *)
(***************************************************************************)
EXTENDS Rtp

\* The receiver has taken data packet i.
Has(i) == i < rshift \/ (SR /\ i - rshift \in 0 .. RWSIZE - 1 /\ rwindow[i - rshift])

\* The sender has sent data packet i, and is at most a window ahead.
SentUpTo(i) ==
    /\ spc \notin {"start", "syn", "ack"}
    /\ i < ssqn /\ ssqn <= shift + SWSIZE /\ ssqn <= NPACKET

\* Where chunk i ends in the file.
End(i) == i * PAYLOAD_MAX + dsize(i)

\* What a packet on its way to the receiver says is true.
TrueToReceiver(p) ==
    /\ p.flags = {} => /\ p.payload \in Chunks
                       /\ p.seq_num = p.payload
                       /\ p.length = dsize(p.payload)
                       /\ SentUpTo(p.payload)
    /\ p.flags = SYN => p.seq_num = SEQMOD - 1
    /\ p.flags = FIN => shift = NPACKET

\* An ACK on its way to the sender speaks of packets the receiver has, and an
\* ACK|FIN of a receiver that has met the sender's FIN.
TrueToSender(p) ==
    /\ p.flags = ACK => IF SR THEN p.seq_num < NPACKET /\ Has(p.seq_num)
                              ELSE p.seq_num <= rshift
    /\ p.flags = ACK \cup FIN => rpc \in {"last", "exit"}

NetworkInv ==
    /\ \A p \in DOMAIN toR : TrueToReceiver(p)
    /\ \A p \in DOMAIN toS : TrueToSender(p)

SenderInv ==
    /\ spc = "syn" => ssqn = SEQMOD - 1
    /\ spc = "ack" => ssqn = 0
    /\ spc \in {"syn", "fin"} => stries <= SEND_TR
    /\ spc \in {"start", "syn", "ack"} => shift = 0
    /\ spc = "data" => /\ swbase = shift
                       /\ shift < ssqn
                       /\ ssqn <= shift + SWSIZE /\ ssqn <= NPACKET
    /\ spc \in {"fin", "exit"} => shift = NPACKET
    /\ \A k \in 0 .. SWSIZE - 1 : swindow[k] => SR /\ shift + k < ssqn /\ Has(shift + k)
    /\ \A i \in 0 .. shift - 1 : Has(i)

ReceiverInv ==
    /\ rpc = "synack" => rsqn = 0 /\ rtries <= SEND_TR
    /\ rpc \in {"listen", "synack"} => rshift = 0 /\ rfsize = 0
    /\ rpc = "data" => IF SR THEN rwbase = rshift ELSE rsqn = rshift
    /\ ~rwindow[0]
    /\ \A k \in 0 .. RWSIZE - 1 : rwindow[k] => /\ SR
                                               /\ rpc \notin {"listen", "synack"}
                                               /\ rshift + k < NPACKET
    /\ \A i \in Chunks : Has(i) => SentUpTo(i)
    /\ \A i \in Chunks : rbuf[i] = IF Has(i) /\ dsize(i) # 0 THEN i ELSE NoChunk

\* fsize is the end of the last chunk the receiver has.
SizeInv ==
    /\ ~SR => rfsize = IF rshift = 0 THEN 0 ELSE End(rshift - 1)
    /\ \A i \in Chunks : Has(i) => End(i) <= rfsize
    /\ rfsize = 0 \/ \E i \in Chunks : Has(i) /\ rfsize = End(i)

\* The file is written on the way from transfer_data to break_connection, and
\* the sender leaves that after the receiver has met its FIN there.
ClosingInv ==
    /\ rpc \in {"listen", "synack", "data"} => ~written
    /\ rpc \in {"brk", "last", "exit"} => written
    /\ rpc \in {"last", "exit"} => shift = NPACKET
    /\ spc = "exit" => rpc \in {"last", "exit"}

IInv ==
    /\ TypeOK
    /\ NetworkInv
    /\ SenderInv
    /\ ReceiverInv
    /\ SizeInv
    /\ ClosingInv
=============================================================================
