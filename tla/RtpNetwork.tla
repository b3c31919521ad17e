----------------------------- MODULE RtpNetwork -----------------------------
(***************************************************************************)
(* RTP packets (lab2/src/rtp.h, rtp.c) and the UDP path between the        *)
(* sender's and the receiver's socket.  A direction of the path is a bag   *)
(* of packets in flight: whichever packet is taken next is delivered next, *)
(* so packets overtake each other freely.  The other faults are those the  *)
(* tests inject (loss, corruption, duplication), each drawing on a budget. *)
(***************************************************************************)
EXTENDS SeqNum, Bags

CONSTANTS
    FSIZE,          \* bytes in the file the sender reads
    PAYLOAD_MAX,    \* bytes in a full packet (1461)
    SWSIZE, RWSIZE, \* window sizes, an argument of each program
    SR,             \* mode argument: TRUE selective repeat, FALSE go-back-N
    LDEBUG,         \* is the build configured with debug logging?
    SEND_TR,        \* attempts allowed in a handshake (50)
    FaultKinds,     \* the faults that may happen
    MaxFaults,      \* bound on the number of faults in a behaviour
    MaxCopies       \* bound on the copies of one packet in flight

AllFaults == {"loss", "dup", "corrupt", "flip", "file", "kill"}

ASSUME ConfigAssumption ==
    /\ FSIZE \in Nat
    /\ PAYLOAD_MAX \in Nat \ {0}
    /\ SWSIZE \in Nat \ {0} /\ RWSIZE \in Nat \ {0}
    /\ SR \in BOOLEAN
    /\ LDEBUG \in BOOLEAN
    /\ SEND_TR \in Nat \ {0}
    /\ FaultKinds \subseteq AllFaults
    /\ MaxFaults \in Nat
    /\ MaxCopies \in Nat \ {0}

VARIABLES
    toS,        \* packets in flight to the sender
    toR,        \* packets in flight to the receiver
    faults      \* faults so far

netvars == <<toS, toR, faults>>

-----------------------------------------------------------------------------
\* The file as transfer_data cuts it up: chunk i is PAYLOAD_MAX bytes from
\* i * PAYLOAD_MAX on, and the last packet takes fsize % PAYLOAD_MAX bytes.
\* Mutant: the last, short packet is not counted.
WHOLE_PACKETS == FSIZE \div PAYLOAD_MAX

NPACKET == (FSIZE + PAYLOAD_MAX - 1) \div PAYLOAD_MAX
tsize == FSIZE % PAYLOAD_MAX
Chunks == 0 .. NPACKET - 1
NoChunk == -1
dsize(i) == IF i = NPACKET - 1 THEN tsize ELSE PAYLOAD_MAX

\* The bits of the flags byte.
SYN == {"SYN"}
ACK == {"ACK"}
FIN == {"FIN"}
Flags == SUBSET (SYN \cup ACK \cup FIN)

\* The checksum is left out: recv_packet's answer says whether it matched.
Packet == [seq_num : SeqNums, flags : Flags, length : 0 .. PAYLOAD_MAX,
           payload : Chunks \cup {NoChunk}]

ControlPacket(sqn, flags) ==
    [seq_num |-> sqn, flags |-> flags, length |-> 0, payload |-> NoChunk]

DataPacket(sqn, i) ==
    [seq_num |-> sqn, flags |-> {}, length |-> dsize(i), payload |-> i]

-----------------------------------------------------------------------------
\* The bag after sending the packets of S.  A copy beyond MaxCopies is lost.
send_packets(net, S) ==
    net (+) SetToBag({p \in S : p \in BagToSet(net) => net[p] < MaxCopies})

MayFault(kind) == kind \in FaultKinds /\ faults < MaxFaults

\* Bit errors: they touch the flags byte only if "flip" is among the faults.
Corruptions(p) ==
    {[p EXCEPT !.flags = f] : f \in IF MayFault("flip") THEN Flags
                                    ELSE {g \in {p.flags} : MayFault("corrupt")}}

\* What one return of recv_packet can be, and what it leaves in flight:
\* scode 0 for a sound packet and -1 for one whose checksum fails.
Arrivals(net) ==
    {[scode |-> 0, rtp |-> p, left |-> net (-) SetToBag({p}), cost |-> 0] :
        p \in BagToSet(net)}
    \cup
    {[scode |-> 0, rtp |-> p, left |-> net, cost |-> 1] :
        p \in {q \in BagToSet(net) : MayFault("dup")}}
    \cup
    UNION {{[scode |-> -1, rtp |-> c, left |-> net (-) SetToBag({p}), cost |-> 1] :
                c \in Corruptions(p)} : p \in BagToSet(net)}

\* recv_packet returns -2 when SO_RCVTIMEO expires.  The caller's packet
\* buffer then keeps its old contents, which no caller looks at.
TimeOut(net) ==
    [scode |-> -2, rtp |-> ControlPacket(0, {}), left |-> net, cost |-> 0]

\* The arrival a, in a step that meets a fault of its own.
WithFault(a) == [scode |-> a.scode, rtp |-> a.rtp, left |-> a.left, cost |-> a.cost + 1]

\* Mutant: recv_packet's verdict on the checksum is not looked at.
IsUnchecked(a, flags) == a.scode # -2 /\ a.rtp.flags = flags

\* Did recv_packet return 0 with a packet of exactly these flags?
Is(a, flags) == a.scode = 0 /\ a.rtp.flags = flags

\* A packet vanishes from one of the two directions.
Lose ==
    /\ MayFault("loss")
    /\ faults' = faults + 1
    /\ \/ /\ \E p \in BagToSet(toS) : toS' = toS (-) SetToBag({p})
          /\ UNCHANGED toR
       \/ /\ \E p \in BagToSet(toR) : toR' = toR (-) SetToBag({p})
          /\ UNCHANGED toS

NetInit == toS = EmptyBag /\ toR = EmptyBag /\ faults = 0
=============================================================================
