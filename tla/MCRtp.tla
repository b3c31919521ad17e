-------------------------------- MODULE MCRtp --------------------------------
(***************************************************************************)
(* Rtp for TLC: the invariant, the refinement, and the claims that the     *)
(* code's own messages and tests make about a transfer.                    *)
(***************************************************************************)
EXTENDS RtpTransfer, RtpInvariant

\* A handshake ends, one way or the other: "tries used up" (sender.c:24 and
\* sender.c:65, receiver.c:38) says that SEND_TR attempts are the limit.
HandshakesEnd ==
    /\ spc = "syn" ~> spc # "syn"
    /\ spc = "fin" ~> spc # "fin"
    /\ rpc = "synack" ~> rpc # "synack"

\* "recv break packet error" (receiver.c:68): a receiver whose sender is gone
\* gives up in break_connection.
BreakEnds == rpc = "brk" ~> rpc # "brk"

\* diff_file(origin, result) after a transfer without failures (test.cpp:151):
\* the receiver's file is the sender's.
FilesAgree == spc = "exit" /\ rpc = "exit" => Intact

\* The tests of lost or corrupted data (test.cpp:198) ask the same of a
\* transfer with bit errors: a corrupted packet never ends up as a file cut
\* short.
NeverCutShort == written => Intact

\* "connection established" (sender.c:49) is true of both ends: a sender that
\* has gone on to send data is not left with a receiver in the handshake.
EstablishedTogether == spc = "data" ~> rpc # "synack"
=============================================================================
