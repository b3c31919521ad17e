----------------------------- MODULE FtpChannel -----------------------------
(***************************************************************************)
(* What FtpNet takes for granted of one direction of a connection: whole   *)
(* messages, received in the order in which they are sent, each one once.  *)
(***************************************************************************)
EXTENDS Integers, Sequences

VARIABLES
    outbox,     \* messages still to be sent
    queue,      \* messages sent and not yet received
    inbox       \* messages received

channelvars == <<outbox, queue, inbox>>

ChannelInit == queue = <<>> /\ inbox = <<>>

Send ==
    /\ outbox # <<>>
    /\ outbox' = Tail(outbox)
    /\ queue' = Append(queue, Head(outbox))
    /\ UNCHANGED inbox

Receive ==
    /\ queue # <<>>
    /\ queue' = Tail(queue)
    /\ inbox' = Append(inbox, Head(queue))
    /\ UNCHANGED outbox

ChannelSpec == ChannelInit /\ [][Send \/ Receive]_channelvars
=============================================================================
