----------------------------- MODULE RtpReceiver -----------------------------
(***************************************************************************)
(* The receiver of lab2/src/receiver.c.  As in RtpSender, an action runs   *)
(* from one return of recv_packet to the next call of it.  rpc names the   *)
(* waiting point:                                                          *)
(*   "listen"  establish_connection, waiting for SYN                       *)
(*   "synack"  establish_connection, waiting for the third handshake       *)
(*   "data"    transfer_data                                               *)
(*   "brk"     break_connection, waiting for FIN, the file written         *)
(*   "last"    break_connection, the one wait after ACK|FIN                *)
(*   "exit", "fatal"   the process is gone                                 *)
(***************************************************************************)
EXTENDS RtpNetwork

VARIABLES
    rpc,        \* where the receiver waits
    rsqn,       \* the global sqn
    rtries,     \* the local tries of establish_connection
    rwbase,     \* wbase: sequence number of the window's first packet (SR)
    rshift,     \* packets received in order
    rwindow,    \* window: the flags of the packets received in the window (SR)
    rbuf,       \* buf, chunk by chunk: the chunk copied there
    rfsize,     \* fsize, bytes that will be written
    written     \* has write_file succeeded?

rvars == <<rpc, rsqn, rtries, rwbase, rshift, rwindow, rbuf, rfsize, written>>
transfervars == <<rwbase, rshift, rwindow, rbuf, rfsize>>

ReceiverTypeOK ==
    /\ rpc \in {"listen", "synack", "data", "brk", "last", "exit", "fatal"}
    /\ rsqn \in SeqNums
    /\ rtries \in 0 .. SEND_TR + 1
    /\ rwbase \in SeqNums
    /\ rshift \in 0 .. NPACKET
    /\ rwindow \in Windows(RWSIZE)
    /\ rbuf \in [Chunks -> Chunks \cup {NoChunk}]
    /\ rfsize \in 0 .. NPACKET * PAYLOAD_MAX
    /\ written \in BOOLEAN

ReceiverInit ==
    /\ rpc = "listen"
    /\ rsqn = 0
    /\ rtries = 0
    /\ rwbase = 0
    /\ rshift = 0
    /\ rwindow = EmptyWindow(RWSIZE)
    /\ rbuf = [i \in Chunks |-> NoChunk]
    /\ rfsize = 0
    /\ written = FALSE

ReceiverDead == rpc \in {"exit", "fatal"}

-----------------------------------------------------------------------------
\* "++tries" is an argument of LOG_DEBUG, see Attempt in RtpSender.
ReplyAttempt(tries) == IF LDEBUG THEN tries + 1 ELSE tries

\* The receiver has taken a from the network and sent the packets of out.
ReceiverIO(a, out) ==
    /\ toR' = a.left
    /\ faults' = faults + a.cost
    /\ toS' = send_packets(toS, out)

-----------------------------------------------------------------------------
\* establish_connection

SynArrives(a) ==
    /\ rpc = "listen"
    /\ Is(a, SYN)
    /\ rpc' = "synack"
    /\ rsqn' = seqnum_add(a.rtp.seq_num, 1)
    /\ rtries' = ReplyAttempt(0)
    /\ ReceiverIO(a, {ControlPacket(rsqn', SYN \cup ACK)})
    /\ UNCHANGED <<transfervars, written>>

ListenTimesOut(a) ==
    /\ rpc = "listen"
    /\ a.scode = -2
    /\ rpc' = "fatal"
    /\ ReceiverIO(a, {})
    /\ UNCHANGED <<rsqn, rtries, transfervars, written>>

ListenIgnores(a) ==
    /\ rpc = "listen"
    /\ a.scode # -2 /\ ~Is(a, SYN)
    /\ ReceiverIO(a, {})
    /\ UNCHANGED rvars

IsThirdHandshake(a) == Is(a, ACK) /\ a.rtp.seq_num = rsqn

\* The handshake is complete and transfer_data sets its locals.
HandshakeEnds(a) ==
    /\ rpc = "synack"
    /\ IsThirdHandshake(a)
    /\ rpc' = "data"
    /\ rwbase' = rsqn
    /\ rshift' = 0
    /\ rwindow' = EmptyWindow(RWSIZE)
    /\ rfsize' = 0
    /\ ReceiverIO(a, {})
    /\ UNCHANGED <<rsqn, rtries, rbuf, written>>

SynAckRetry(a) ==
    /\ rpc = "synack"
    /\ ~IsThirdHandshake(a)
    /\ rtries' = ReplyAttempt(rtries)
    /\ rpc' = IF rtries' > SEND_TR THEN "fatal" ELSE "synack"
    /\ ReceiverIO(a, {ControlPacket(rsqn, SYN \cup ACK)})
    /\ UNCHANGED <<rsqn, transfervars, written>>

-----------------------------------------------------------------------------
\* transfer_data

\* The FIN bit is looked at before the checksum's verdict.
EndsTransfer(a) == a.scode = -2 \/ FIN \subseteq a.rtp.flags

FileWritten(a) ==
    /\ rpc = "data"
    /\ EndsTransfer(a)
    /\ rpc' = "brk"
    /\ written' = TRUE
    /\ ReceiverIO(a, {})
    /\ UNCHANGED <<rsqn, rtries, transfervars>>

\* write_file cannot open the file and ends the process.
WriteFails(a) ==
    /\ rpc = "data"
    /\ EndsTransfer(a)
    /\ MayFault("file") /\ a.cost = 0
    /\ rpc' = "fatal"
    /\ ReceiverIO(WithFault(a), {})
    /\ UNCHANGED <<rsqn, rtries, transfervars, written>>

IsData(a) == ~EndsTransfer(a) /\ Is(a, {})

\* Mutant: buf is used as a ring of RWSIZE slots.
memcpy_ring(i, rtp) ==
    IF rtp.length = 0 THEN rbuf ELSE [rbuf EXCEPT ![i % RWSIZE] = rtp.payload]

\* memcpy of the payload to slot i of buf; it may be of no bytes at all.
memcpy(i, rtp) == IF rtp.length = 0 THEN rbuf ELSE [rbuf EXCEPT ![i] = rtp.payload]

\* Mutant: the packet RWSIZE below the base is not acknowledged again.
IsJustBelowWindow(a) ==
    seqnum_is_in(a.rtp.seq_num, seqnum_add(rwbase, 1 - RWSIZE), rwbase)

\* Mutant: no packet below the window is acknowledged again.
NoneBelowWindow(a) == FALSE

IsBelowWindow(a) ==
    seqnum_is_in(a.rtp.seq_num, seqnum_add(rwbase, -RWSIZE), rwbase)

IsInWindow(a) ==
    ~IsBelowWindow(a) /\ seqnum_is_in(a.rtp.seq_num, rwbase, seqnum_add(rwbase, RWSIZE))

\* SR, a packet below the window: the ACK must have been lost, repeat it.
OldDataSR(a) ==
    /\ rpc = "data" /\ SR /\ IsData(a)
    /\ IsBelowWindow(a)
    /\ ReceiverIO(a, {ControlPacket(a.rtp.seq_num, ACK)})
    /\ UNCHANGED rvars

DataSR(a) ==
    /\ rpc = "data" /\ SR /\ IsData(a)
    /\ IsInWindow(a)
    /\ LET ind == sqn_dis(rwbase, a.rtp.seq_num)
           end == (rshift + ind) * PAYLOAD_MAX + a.rtp.length
           u   == update_window(rwindow, RWSIZE, ind)
       IN  /\ rbuf' = memcpy(rshift + ind, a.rtp)
           /\ rfsize' = IF rfsize < end THEN end ELSE rfsize
           /\ rwindow' = u.window
           /\ rshift' = rshift + u.shift
           /\ rwbase' = seqnum_add(rwbase, u.shift)
    /\ ReceiverIO(a, {ControlPacket(a.rtp.seq_num, ACK)})
    /\ UNCHANGED <<rpc, rsqn, rtries, written>>

\* Bad packets and other kinds; in SR also data that is beyond the window.
IsUseless(a) ==
    /\ ~EndsTransfer(a)
    /\ IsData(a) => SR /\ ~IsBelowWindow(a) /\ ~IsInWindow(a)

ReceiverIgnores(a) ==
    /\ rpc = "data"
    /\ IsUseless(a)
    /\ ReceiverIO(a, {})
    /\ UNCHANGED rvars

\* GBN, the packet expected next.
DataGBN(a) ==
    /\ rpc = "data" /\ ~SR /\ IsData(a)
    /\ a.rtp.seq_num = rsqn
    /\ rbuf' = memcpy(rshift, a.rtp)
    /\ rshift' = rshift + 1
    /\ rfsize' = rfsize + a.rtp.length
    /\ rsqn' = seqnum_add(rsqn, 1)
    /\ ReceiverIO(a, {ControlPacket(rsqn', ACK)})
    /\ UNCHANGED <<rpc, rtries, rwbase, rwindow, written>>

\* GBN, any other packet: the ACK names the one still expected.
OtherDataGBN(a) ==
    /\ rpc = "data" /\ ~SR /\ IsData(a)
    /\ a.rtp.seq_num # rsqn
    /\ ReceiverIO(a, {ControlPacket(rsqn, ACK)})
    /\ UNCHANGED rvars

-----------------------------------------------------------------------------
\* break_connection

FinArrives(a) ==
    /\ rpc = "brk"
    /\ Is(a, FIN)
    /\ rpc' = "last"
    /\ rsqn' = a.rtp.seq_num
    /\ ReceiverIO(a, {ControlPacket(a.rtp.seq_num, ACK \cup FIN)})
    /\ UNCHANGED <<rtries, transfervars, written>>

\* scode holds "recv_packet(...) < 0" and is never -2: a timeout goes round
\* the loop like any packet that is not a FIN.
BreakIgnores(a) ==
    /\ rpc = "brk"
    /\ ~Is(a, FIN)
    /\ ReceiverIO(a, {})
    /\ UNCHANGED rvars

\* The last wait: sqn is overwritten before the test compares against it, so
\* any FIN is answered.  The packet buffer still holds the first FIN when
\* nothing arrives.
ReceiverExits(a) ==
    /\ rpc = "last"
    /\ rpc' = "exit"
    /\ rsqn' = IF a.scode = -2 THEN rsqn ELSE a.rtp.seq_num
    /\ ReceiverIO(a, IF Is(a, FIN) THEN {ControlPacket(a.rtp.seq_num, ACK \cup FIN)}
                                   ELSE {})
    /\ UNCHANGED <<rtries, transfervars, written>>

\* The process is killed from outside, in whatever wait it is.  In the last
\* one nothing was left to do but to answer one more FIN.
ReceiverKilled ==
    /\ ~ReceiverDead
    /\ MayFault("kill")
    /\ faults' = faults + 1
    /\ rpc' = IF rpc = "last" THEN "exit" ELSE "fatal"
    /\ UNCHANGED <<toS, toR, rsqn, rtries, transfervars, written>>

\* All that may follow a return of recv_packet.
ReceiverHandles(a) ==
    \/ SynArrives(a)
    \/ ListenTimesOut(a)
    \/ ListenIgnores(a)
    \/ HandshakeEnds(a)
    \/ SynAckRetry(a)
    \/ FileWritten(a)
    \/ WriteFails(a)
    \/ ReceiverIgnores(a)
    \/ OldDataSR(a)
    \/ DataSR(a)
    \/ DataGBN(a)
    \/ OtherDataGBN(a)
    \/ FinArrives(a)
    \/ BreakIgnores(a)
    \/ ReceiverExits(a)
=============================================================================
