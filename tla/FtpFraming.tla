----------------------------- MODULE FtpFraming -----------------------------
(***************************************************************************)
(* send_post and recv_post of lab1/ftp_utils.hpp over the byte stream of   *)
(* one direction of a connection.  A message is a header of HEADER_SIZE    *)
(* bytes that holds the message's length, and a body.  send() and recv()   *)
(* move as many bytes as the kernel likes, at least one, and the loops of  *)
(* ssend and srecv make up for it.  An action is one return of send() or   *)
(* recv().  The sending program may be killed anywhere; the bytes that     *)
(* send() took from it still arrive.                                       *)
(***************************************************************************)
EXTENDS Integers, Sequences

CONSTANTS
    HEADER_SIZE,    \* bytes of a header (12)
    MaxBody,        \* bound on the bytes of a body
    MaxPosts,       \* bound on the number of messages
    Room            \* bytes that the connection's buffers hold

ASSUME FramingAssumption ==
    /\ HEADER_SIZE \in Nat \ {0} /\ Room \in Nat \ {0}
    /\ MaxBody \in Nat /\ MaxPosts \in Nat

VARIABLES
    posts,      \* the sizes of the bodies to send
    nth,        \* the message that is being sent
    sent,       \* bytes of it that send() has taken
    alive,      \* is the sending program there?
    stream,     \* bytes on their way
    head,       \* bytes of the header that recv_post is reading
    body,       \* bytes of the body behind it
    received,   \* messages that recv_post has returned
    failed      \* has recv_post returned an error?

fvars == <<posts, nth, sent, alive, stream, head, body, received, failed>>

\* Byte b of the i-th message.  Any byte of a header tells the length, for
\* recv_post looks at it when it has all of them.
Byte(i, b) == [post |-> i, byte |-> b, length |-> HEADER_SIZE + posts[i]]
Post(i) == [b \in 1 .. HEADER_SIZE + posts[i] |-> Byte(i, b)]

FramingTypeOK ==
    /\ nth \in 1 .. Len(posts) + 1
    /\ sent \in 0 .. HEADER_SIZE + MaxBody - 1
    /\ alive \in BOOLEAN /\ failed \in BOOLEAN
    /\ Len(stream) <= Room
    /\ Len(head) <= HEADER_SIZE /\ Len(body) < HEADER_SIZE + MaxBody

FramingInit ==
    /\ posts \in UNION {[1 .. n -> 0 .. MaxBody] : n \in 0 .. MaxPosts}
    /\ nth = 1 /\ sent = 0
    /\ alive = TRUE
    /\ stream = <<>>
    /\ head = <<>> /\ body = <<>>
    /\ received = <<>>
    /\ failed = FALSE

-----------------------------------------------------------------------------
\* send_post: one ssend for the header and one for the body.  Sending is the
\* bytes that its ssend has yet to hand over.
Sending ==
    IF sent < HEADER_SIZE THEN HEADER_SIZE - sent
                          ELSE HEADER_SIZE + posts[nth] - sent

\* Mutant: one byte too many is counted.
CountsOneMore(n) == sent + n + 1

\* send() takes n of them, and the loop goes on until all are gone.
Counts(n) == sent + n

Sends ==
    /\ alive /\ nth <= Len(posts)
    /\ \E n \in 1 .. Sending :
        /\ Len(stream) + n <= Room
        /\ stream' = stream \o SubSeq(Post(nth), sent + 1, sent + n)
        /\ LET all == Counts(n) = Len(Post(nth))
           IN  /\ sent' = IF all THEN 0 ELSE Counts(n)
               /\ nth' = IF all THEN nth + 1 ELSE nth
    /\ UNCHANGED <<posts, alive, head, body, received, failed>>

Dies ==
    /\ alive
    /\ alive' = FALSE
    /\ UNCHANGED <<posts, nth, sent, stream, head, body, received, failed>>

-----------------------------------------------------------------------------
\* recv_post: one srecv for the header and one for as many bytes as it says.

\* Mutant: srecv is done after one recv(), with whatever that brought.
AfterOneRecv(bytes, size) == bytes # <<>>

\* The loop of srecv ends when all the bytes are there.
IsComplete(bytes, size) == Len(bytes) >= size

BodySize == head[1].length - HEADER_SIZE

\* recv() returns the first n bytes, of the header or of the body.
Receives ==
    /\ ~failed
    /\ \E n \in 1 .. Len(stream) :
        LET got   == SubSeq(stream, 1, n)
            inHead == ~IsComplete(head, HEADER_SIZE)
            h     == IF inHead THEN head \o got ELSE head
            b     == IF inHead THEN body ELSE body \o got
            size  == h[1].length - HEADER_SIZE
            all   == IsComplete(h, HEADER_SIZE) /\ (size = 0 \/ IsComplete(b, size))
        IN  /\ n <= IF inHead THEN HEADER_SIZE - Len(head) ELSE BodySize - Len(body)
            /\ stream' = SubSeq(stream, n + 1, Len(stream))
            /\ head' = IF all THEN <<>> ELSE h
            /\ body' = IF all THEN <<>> ELSE b
            /\ received' = IF all THEN Append(received, h \o b) ELSE received
    /\ UNCHANGED <<posts, nth, sent, alive, failed>>

\* Mutant: the end of the stream is an error between two messages only.
FailsBetween ==
    /\ ~failed /\ ~alive /\ stream = <<>>
    /\ head = <<>>
    /\ failed' = TRUE
    /\ UNCHANGED <<posts, nth, sent, alive, stream, head, body, received>>

\* recv() returns 0: the stream has ended, be it between two messages or in
\* the middle of one.
Fails ==
    /\ ~failed /\ ~alive /\ stream = <<>>
    /\ failed' = TRUE
    /\ UNCHANGED <<posts, nth, sent, alive, stream, head, body, received>>

FramingNext == Sends \/ Dies \/ Receives \/ Fails

FramingSpec == FramingInit /\ [][FramingNext]_fvars

\* The kernel moves bytes as long as there are some and there is room.
FramingFairness == WF_fvars(Sends) /\ WF_fvars(Receives) /\ WF_fvars(Fails)

-----------------------------------------------------------------------------
\* The whole messages from the i-th to the j-th.
Posts(i, j) == [k \in 1 .. j - i + 1 |-> Post(i + k - 1)]

Channel == INSTANCE FtpChannel WITH
    outbox <- Posts(nth, Len(posts)),
    queue  <- Posts(Len(received) + 1, nth - 1),
    inbox  <- received

\* However the kernel cuts the stream, recv_post returns the messages of
\* send_post, whole and in order; one that was cut short by a kill never.
ImplementsChannel == Channel!ChannelSpec

\* Why: the i-th byte on its way is byte b of the m-th message, and taken.
IsAt(i, m, b) ==
    /\ m \in 1 .. Len(posts) /\ b \in 1 .. Len(Post(m))
    /\ stream[i] = Byte(m, b)
    /\ m < nth \/ (m = nth /\ b <= sent)

\* The byte behind it is the next one of its message, or the first of the next.
NoGap(i) ==
    \E m \in 1 .. Len(posts) : \E b \in 1 .. Len(Post(m)) :
        /\ IsAt(i, m, b)
        /\ IF b < Len(Post(m)) THEN IsAt(i + 1, m, b + 1) ELSE IsAt(i + 1, m + 1, 1)

\* The stream starts with the byte that recv_post is to get next, goes on without a
\* gap, and ends with the byte that send() took last.
Reading == Len(received) + 1
Got == Len(head) + Len(body)
StreamInv ==
    IF stream = <<>> THEN Reading = nth /\ Got = sent
    ELSE /\ IsAt(1, Reading, Got + 1)
         /\ IF sent > 0 THEN IsAt(Len(stream), nth, sent)
            ELSE IsAt(Len(stream), nth - 1, Len(Post(nth - 1)))
         /\ \A i \in 1 .. Len(stream) - 1 : NoGap(i)

\* What recv_post has so far is the beginning of one message.
ReadInv ==
    /\ Reading <= nth /\ (Reading > Len(posts) => Got = 0)
    /\ head = [b \in 1 .. Len(head) |-> Byte(Reading, b)]
    /\ body = [b \in 1 .. Len(body) |-> Byte(Reading, HEADER_SIZE + b)]
    /\ Len(head) < HEADER_SIZE => body = <<>>
    /\ Reading <= Len(posts) => Got < Len(Post(Reading))

Bytes == [post : Nat, byte : Nat, length : Nat]
FramingInv ==
    /\ posts \in Seq(0 .. MaxBody) /\ received \in Seq(Seq(Bytes))
    /\ stream \in Seq(Bytes) /\ head \in Seq(Bytes) /\ body \in Seq(Bytes)
    /\ nth <= Len(posts) => sent < Len(Post(nth))
    /\ nth > Len(posts) => sent = 0
    /\ FramingTypeOK /\ StreamInv /\ ReadInv

\* All that is sent arrives, unless the sender was killed; then recv_post ends
\* in an error instead of a wait for the rest.
EverythingArrives == <>(Len(received) = Len(posts) \/ (~alive /\ failed))
=============================================================================
