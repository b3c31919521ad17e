----------------------------- MODULE RtpTransfer -----------------------------
(***************************************************************************)
(* Rtp implements AckedTransfer.  The mapping: a chunk is collected when   *)
(* it lies in its place of the receiver's buffer, the sender's shift is    *)
(* what it knows to be confirmed, the file is saved when write_file is     *)
(* done, and a side closes on its way out of break_connection.             *)
(***************************************************************************)
EXTENDS Rtp

Transfer == INSTANCE AckedTransfer WITH
    N         <- NPACKET,
    got       <- {i \in Chunks : rbuf[i] = i},
    confirmed <- shift,
    saved     <- written,
    receiver  <- CASE rpc = "fatal" -> "failed"
                   [] rpc \in {"last", "exit"} -> "closed"
                   [] OTHER -> "open",
    sender    <- CASE spc = "fatal" -> "failed"
                   [] spc = "exit" -> "closed"
                   [] OTHER -> "open"

\* Every step of the two processes and of the network is a step of the
\* promised transfer, or changes nothing that it speaks of.  It holds of the
\* files whose last packet is not empty (FSIZE % PAYLOAD_MAX # 0).
ImplementsTransfer == Transfer!TransferSpec
=============================================================================
