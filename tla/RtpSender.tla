------------------------------ MODULE RtpSender ------------------------------
(***************************************************************************)
(* The sender of lab2/src/sender.c.  It is one thread that only waits in   *)
(* recv_packet, so an action runs from one return of recv_packet to the    *)
(* next call of it: it takes the arrival a, does all that follows, and     *)
(* stops where the code waits again.  spc names the waiting point:         *)
(*   "start"  before establish_connection                                  *)
(*   "syn"    establish_connection, waiting for SYN|ACK                    *)
(*   "ack"    establish_connection, the one wait after the third handshake *)
(*   "data"   transfer_data                                                *)
(*   "fin"    break_connection, waiting for ACK|FIN                        *)
(*   "exit", "fatal"   the process is gone                                 *)
(***************************************************************************)
EXTENDS RtpNetwork

VARIABLES
    spc,        \* where the sender waits
    ssqn,       \* the global sqn: next sequence number to use
    stries,     \* the local tries of both handshakes
    swbase,     \* wbase: sequence number of the window's first packet
    shift,      \* packets confirmed, all below the window
    swindow     \* window: the flags of the packets confirmed in the window

svars == <<spc, ssqn, stries, swbase, shift, swindow>>

SenderTypeOK ==
    /\ spc \in {"start", "syn", "ack", "data", "fin", "exit", "fatal"}
    /\ ssqn \in SeqNums
    /\ stries \in 0 .. SEND_TR + 1
    /\ swbase \in SeqNums
    /\ shift \in 0 .. NPACKET
    /\ swindow \in Windows(SWSIZE)

SenderInit ==
    /\ spc = "start"
    /\ ssqn = 0
    /\ stries = 0
    /\ swbase = 0
    /\ shift = 0
    /\ swindow = EmptyWindow(SWSIZE)

SenderDead == spc \in {"exit", "fatal"}

-----------------------------------------------------------------------------
\* Mutant: no attempt is counted.
NoAttempt(tries) == tries

\* "++tries" is an argument of LOG_DEBUG, a macro that drops its arguments
\* unless LDEBUG is defined.
Attempt(tries) == IF LDEBUG THEN tries + 1 ELSE tries

\* The sender has taken a from the network and sent the packets of out.
SenderIO(a, out) ==
    /\ toS' = a.left
    /\ faults' = faults + a.cost
    /\ toR' = send_packets(toR, out)

\* The loop of transfer_data from its top, with the packets of out sent
\* before: on to its next recv_packet, or out of it into break_connection.
\* An empty window (wbase = sqn) is filled with the next n packets.
Continue(a, sh, wbase, sqn, window, out) ==
    LET done  == sh >= NPACKET
        n     == IF done \/ wbase # sqn THEN 0
                 ELSE IF SWSIZE < NPACKET - sh THEN SWSIZE ELSE NPACKET - sh
        batch == {DataPacket(seqnum_add(sqn, i), sh + i) : i \in 0 .. n - 1}
        fin   == IF done THEN {ControlPacket(sqn, FIN)} ELSE {}
    IN  /\ spc' = IF done THEN "fin" ELSE "data"
        /\ stries' = IF done THEN Attempt(0) ELSE stries
        /\ ssqn' = seqnum_add(sqn, n)
        /\ shift' = sh
        /\ swbase' = wbase
        /\ swindow' = window
        /\ SenderIO(a, out \cup batch \cup fin)

-----------------------------------------------------------------------------
\* establish_connection

SenderStarts ==
    /\ spc = "start"
    /\ spc' = "syn"
    /\ ssqn' = get_random_seqnum
    /\ stries' = Attempt(0)
    /\ toR' = send_packets(toR, {ControlPacket(get_random_seqnum, SYN)})
    /\ UNCHANGED <<toS, faults, swbase, shift, swindow>>

IsSynAck(a, sqn) == Is(a, SYN \cup ACK) /\ a.rtp.seq_num = sqn

SynAckArrives(a) ==
    /\ spc = "syn"
    /\ IsSynAck(a, seqnum_add(ssqn, 1))
    /\ spc' = "ack"
    /\ ssqn' = seqnum_add(ssqn, 1)
    /\ SenderIO(a, {ControlPacket(seqnum_add(ssqn, 1), ACK)})
    /\ UNCHANGED <<stries, swbase, shift, swindow>>

\* A timeout, a bad packet and a packet of another kind all count as a try.
SynRetry(a) ==
    /\ spc = "syn"
    /\ ~IsSynAck(a, seqnum_add(ssqn, 1))
    /\ stries' = Attempt(stries)
    /\ spc' = IF stries' > SEND_TR THEN "fatal" ELSE "syn"
    /\ SenderIO(a, {ControlPacket(ssqn, SYN)})
    /\ UNCHANGED <<ssqn, swbase, shift, swindow>>

\* Mutant: a repeated SYN|ACK is not answered.
NoLateAck(a) == {}

\* The wait after the third handshake: a repeated SYN|ACK is answered once.
LateAck(a) == IF IsSynAck(a, ssqn) THEN {ControlPacket(ssqn, ACK)} ELSE {}

TransferBegins(a) ==
    /\ spc = "ack"
    /\ Continue(a, 0, ssqn, ssqn, EmptyWindow(SWSIZE), LateAck(a))

\* read_file cannot open the file and ends the process.
ReadFails(a) ==
    /\ spc = "ack"
    /\ MayFault("file") /\ a.cost = 0
    /\ spc' = "fatal"
    /\ SenderIO(WithFault(a), LateAck(a))
    /\ UNCHANGED <<ssqn, stries, swbase, shift, swindow>>

-----------------------------------------------------------------------------
\* transfer_data

\* Mutant: the loop runs one packet too far.
OneTooMany ==
    {i \in 0 .. SEQMOD - 1 : \A j \in 0 .. i : seqnum_add(swbase, j) <= ssqn}

\* Mutant: the loop starts behind the packet at the base.
AllButFirst ==
    {i \in 1 .. SEQMOD - 1 : \A j \in 0 .. i : seqnum_add(swbase, j) < ssqn}

\* Offsets from wbase that the timeout's loop visits: it ends at the first
\* sequence number that is not below sqn.
Outstanding ==
    {i \in 0 .. SEQMOD - 1 : \A j \in 0 .. i : seqnum_add(swbase, j) < ssqn}

Resend(a) ==
    /\ spc = "data"
    /\ a.scode = -2
    /\ Continue(a, shift, swbase, ssqn, swindow,
                {DataPacket(seqnum_add(swbase, i), shift + i) :
                    i \in {j \in Outstanding : ~(SR /\ swindow[j])}})

\* Mutant: in GBN, too, the number is taken for the packet received.
AckedAsNumbered(a) == a.rtp.seq_num

\* Mutant: in SR, too, the number is taken for that of the next packet.
AckedAsNext(a) == seqnum_add(a.rtp.seq_num, -1)

\* The packet an ACK speaks of: in GBN it names the next one expected.
Acked(a) == seqnum_add(a.rtp.seq_num, IF SR THEN 0 ELSE -1)

IsUsefulAck(a) == Is(a, ACK) /\ seqnum_is_in(Acked(a), swbase, ssqn)

SenderIgnores(a) ==
    /\ spc = "data"
    /\ a.scode # -2
    /\ ~IsUsefulAck(a)
    /\ Continue(a, shift, swbase, ssqn, swindow, {})

SelectiveAck(a) ==
    /\ spc = "data" /\ SR
    /\ IsUsefulAck(a)
    /\ LET u == update_window(swindow, SWSIZE, sqn_dis(swbase, Acked(a)))
       IN  Continue(a, shift + u.shift, seqnum_add(swbase, u.shift), ssqn,
                    u.window, {})

CumulativeAck(a) ==
    /\ spc = "data" /\ ~SR
    /\ IsUsefulAck(a)
    /\ LET mov == sqn_dis(swbase, Acked(a)) + 1
       IN  Continue(a, shift + mov, seqnum_add(swbase, mov), ssqn, swindow, {})

-----------------------------------------------------------------------------
\* break_connection

\* Mutant: any acknowledgement is taken for the last one.
IsAnyAck(a) == a.scode = 0 /\ ACK \subseteq a.rtp.flags

IsFinAck(a) == Is(a, ACK \cup FIN) /\ a.rtp.seq_num = ssqn

FinAckArrives(a) ==
    /\ spc = "fin"
    /\ IsFinAck(a)
    /\ spc' = "exit"
    /\ SenderIO(a, {})
    /\ UNCHANGED <<ssqn, stries, swbase, shift, swindow>>

FinRetry(a) ==
    /\ spc = "fin"
    /\ ~IsFinAck(a)
    /\ stries' = Attempt(stries)
    /\ spc' = IF stries' > SEND_TR THEN "fatal" ELSE "fin"
    /\ SenderIO(a, {ControlPacket(ssqn, FIN)})
    /\ UNCHANGED <<ssqn, swbase, shift, swindow>>

\* The process is killed from outside, in whatever wait it is.
SenderKilled ==
    /\ ~SenderDead
    /\ MayFault("kill")
    /\ faults' = faults + 1
    /\ spc' = "fatal"
    /\ UNCHANGED <<toS, toR, ssqn, stries, swbase, shift, swindow>>

\* All that may follow a return of recv_packet.
SenderHandles(a) ==
    \/ SynAckArrives(a)
    \/ SynRetry(a)
    \/ TransferBegins(a)
    \/ ReadFails(a)
    \/ Resend(a)
    \/ SenderIgnores(a)
    \/ SelectiveAck(a)
    \/ CumulativeAck(a)
    \/ FinAckArrives(a)
    \/ FinRetry(a)
=============================================================================
