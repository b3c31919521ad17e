--------------------------------- MODULE Rtp ---------------------------------
(***************************************************************************)
(* One transfer: the sender and the receiver of lab2 over the network of   *)
(* RtpNetwork.  The two processes share nothing else, and each of them     *)
(* sleeps in recv_packet until a packet or its socket's timeout comes.     *)
(*                                                                         *)
(* With Timely = FALSE a timeout may come at any moment.  With Timely =    *)
(* TRUE packets and processes are fast against SEND_MS (100 ms), and a     *)
(* wait of RECV_S or WAIT_S seconds outlasts the 100 ms rounds of a peer   *)
(* that is still answering.                                                *)
(***************************************************************************)
EXTENDS RtpSender, RtpReceiver

CONSTANT Timely     \* do timeouts only come when nothing else can?

\* The numbers of one transfer do not come round again.
ASSUME NoWrapAssumption ==
    /\ Timely \in BOOLEAN
    /\ NPACKET + SWSIZE < SEQMOD
    /\ NPACKET + RWSIZE < SEQMOD

vars == <<netvars, svars, rvars>>

TypeOK ==
    /\ DOMAIN toS \subseteq Packet
    /\ DOMAIN toR \subseteq Packet
    /\ faults \in Nat
    /\ SenderTypeOK
    /\ ReceiverTypeOK

-----------------------------------------------------------------------------
\* A packet to a process that is gone, or not yet there, is as good as lost.
Quiet ==
    /\ toS = EmptyBag \/ spc = "start" \/ SenderDead
    /\ toR = EmptyBag \/ ReceiverDead

SenderMayTimeOut ==
    Timely => Quiet /\ (spc = "ack" => rpc # "synack")

ReceiverMayTimeOut ==
    Timely => /\ Quiet
              /\ rpc \in {"listen", "data", "brk"} => SenderDead
              /\ rpc = "last" => spc # "fin"

SenderReceives == \E a \in Arrivals(toS) : SenderHandles(a)
SenderTimesOut == SenderMayTimeOut /\ SenderHandles(TimeOut(toS))
ReceiverReceives == \E a \in Arrivals(toR) : ReceiverHandles(a)
ReceiverTimesOut == ReceiverMayTimeOut /\ ReceiverHandles(TimeOut(toR))

\* Both processes are gone, and the transfer is over.
Terminated ==
    /\ SenderDead /\ ReceiverDead
    /\ UNCHANGED vars

Sender == SenderStarts \/ SenderReceives \/ SenderTimesOut
Receiver == ReceiverReceives \/ ReceiverTimesOut

Init == NetInit /\ SenderInit /\ ReceiverInit

Next ==
    \/ Sender /\ UNCHANGED rvars
    \/ Receiver /\ UNCHANGED svars
    \/ Lose /\ UNCHANGED <<svars, rvars>>
    \/ SenderKilled /\ UNCHANGED rvars
    \/ ReceiverKilled /\ UNCHANGED svars
    \/ Terminated

Spec == Init /\ [][Next]_vars

\* The kernel runs both processes, delivers what it has to a process that
\* waits for it, and ends a wait that lasts too long.
Fairness ==
    /\ WF_vars(SenderStarts /\ UNCHANGED rvars)
    /\ WF_vars(SenderReceives /\ UNCHANGED rvars)
    /\ WF_vars(SenderTimesOut /\ UNCHANGED rvars)
    /\ WF_vars(ReceiverReceives /\ UNCHANGED svars)
    /\ WF_vars(ReceiverTimesOut /\ UNCHANGED svars)

FairSpec == Spec /\ Fairness

-----------------------------------------------------------------------------
\* The file written is the file read.
Intact == rfsize = FSIZE /\ \A i \in Chunks : rbuf[i] = i

\* Whenever the sender ends without an error, or the receiver has met the
\* sender's FIN in break_connection, the receiver has written the sender's
\* file, byte for byte.  It holds of the files whose size is no multiple of
\* PAYLOAD_MAX, see FilesAgree in MCRtp for the others.  Early FIN bits, timeouts of the
\* receiver, stale and doubled packets must never lead here.
EndMeansDelivered ==
    (spc = "exit" \/ rpc \in {"last", "exit"}) /\ (FSIZE = 0 \/ tsize # 0)
        => written /\ Intact

\* What the sender has counted as confirmed lies in the receiver's buffer, at
\* its place: each packet below the base, and each flagged in the window.
ConfirmedIsStored ==
    tsize # 0 /\ spc \in {"data", "fin", "exit"} =>
        /\ \A i \in 0 .. shift - 1 : rbuf[i] = i
        /\ \A k \in 0 .. SWSIZE - 1 : swindow[k] => rbuf[shift + k] = shift + k

\* The in-order count and the window say exactly which chunks the receiver
\* has, and each lies in its own place.  An empty last packet leaves no trace.
StoredInPlace ==
    \A i \in Chunks :
        LET taken == \/ i < rshift
                     \/ SR /\ i - rshift \in 0 .. RWSIZE - 1 /\ rwindow[i - rshift]
        IN  rbuf[i] = IF taken /\ dsize(i) # 0 THEN i ELSE NoChunk

\* In SR mode the receiver acknowledges every data packet that the sender
\* still waits for, whenever it may arrive in transfer_data: neither window
\* runs so far ahead of the other that the packet falls outside both of the
\* receiver's intervals, to be dropped in silence and resent for ever.  It
\* takes a receiver whose window is no smaller than the sender's, which
\* neither program can check of the other's command line.
DataIsAcknowledged ==
    SR /\ SWSIZE <= RWSIZE /\ rpc = "data" =>
        \A p \in BagToSet(toR) : p.flags = {} /\ p.payload >= shift =>
            LET a == [scode |-> 0, rtp |-> p]
            IN  IsBelowWindow(a) \/ IsInWindow(a)

\* A chunk once in the receiver's buffer is never replaced, and neither side's
\* count of finished packets runs back.
OnlyForward ==
    /\ shift' >= shift /\ rshift' >= rshift /\ rfsize' >= rfsize
    /\ \A i \in Chunks : rbuf[i] # NoChunk => rbuf'[i] = rbuf[i]
NeverUndone == [][OnlyForward]_vars
-----------------------------------------------------------------------------
\* The receiver has taken a packet with a bad checksum, whose FIN bit happens
\* to be set, for the end of the data, and waits for a FIN that comes only
\* after the data it no longer takes.  With Timely nothing else leads here.
CutOff == spc = "data" /\ rpc = "brk"

\* A transfer that meets one fault at most, a lost, doubled or corrupted
\* packet, runs to its end at both ends, unless that fault is a bit error that
\* cuts it off.  Two lost packets can leave one end behind: the third
\* handshake and its repetition, or the last ACK|FIN and its repetition.
BothExit == <>(faults > 1 \/ CutOff \/ (spc = "exit" /\ rpc = "exit"))

\* Once both ends are in transfer_data the sender gets all of its file
\* confirmed and goes on to break_connection: no pattern of lost, repeated and
\* corrupted packets leaves the two windows waiting for each other.  Only the
\* end of one of the two processes excuses it, and a bit error that cuts the
\* transfer off.  In SR mode it takes a receiver whose window is no smaller
\* than the sender's, as DataIsAcknowledged does.
DataGetsThrough ==
    (spc = "data" /\ rpc = "data")
        ~> (spc \in {"fin", "fatal"} \/ rpc = "fatal" \/ CutOff)
=============================================================================
