# A verification of ComputerSystem24Fall

The repository holds the programs of four course labs.  Two of them have logic
of their own: the **RTP** programs of lab2, which carry a file over UDP with a
sliding window, and the **FTP** programs of lab1.  This project models RTP in
full and FTP from the bytes of its stream to the service its users see.  TLC
checks both on small instances, their liveness included.  TLAPS proves their
safety for all: for RTP, every file, packet and pair of window sizes and any
number of faults; for FTP, any number of clients, connections, directories and
files, and any messages however their bytes are cut.  It proves as well that the
programs implement the three abstract specifications stated here.

## Inventory

| part | source | state | operations | hard behaviour |
|---|---|---|---|---|
| sequence numbers, window update | `lab2/src/util.c` | none (pure); `window[]` changed in place | `seqnum_add`, `sqn_dis`, `seqnum_is_in`, `update_window` | wrap of the numbers, half-open intervals, copying an array over itself |
| packets and the UDP path | `lab2/src/rtp.c`, `rtp.h` | packets in flight, the socket's timeout | `send_packet`, `recv_packet`, `set_sock_recv_time` | loss, reordering, duplication, corruption; the order of the checks in `recv_packet` |
| sender | `lab2/src/sender.c` | `sqn`, `tries`, `wbase`, `shift`, `window` | `establish_connection`, `transfer_data`, `break_connection` | resending, late answers, two modes in one loop, a window size that the receiver need not share |
| receiver | `lab2/src/receiver.c` | `sqn`, `tries`, `wbase`, `shift`, `window`, `buf`, `fsize` | the same three | packets out of order, early end of the data, the last handshake |
| transfer | the two programs together | | | the two windows against each other; one end gone while the other waits |
| file and checksum helpers | `lab2/src/util.c` | the file | `read_file`, `write_file`, `compute_checksum` | a file that cannot be opened ends the program in mid-protocol |
| RTP tests | `lab2/src/test.cpp` | | fork both programs, compare the files | source of the claims that are checked |
| FTP framing | `lab1/ftp_utils.hpp`, `defs.h` | bytes on a TCP stream | `send_post`, `recv_post`, `ssend`, `srecv` | `send()` and `recv()` that move fewer bytes than asked; a stream that ends in the middle of a message; a reply of two messages of which the second never comes |
| FTP server | `lab1/ftp_server.cpp` | epoll set, `cwds[]`, the process's directory | `do_open`, `do_ls`, `do_cd`, `do_get`, `do_put`, `do_sha`, `do_quit` | one thread for all clients that blocks in `do_put`; a directory per process, switched per request; descriptors reused; SIGPIPE when it answers a client that is gone |
| FTP client | `lab1/ftp_client.cpp` | `connected`, `running`, `sock` | the same seven commands | errors that leave the stream out of step; killed at any moment; a server that is gone |
| ns-3 experiment | `lab4/*.cc` | ns-3's | a script | none of the repository's own |
| hello program, googletest | `lab0`, `lab2/third_party` | | | |

The sender and the receiver share nothing but packets.  The sender opens with
SYN, the receiver answers SYN|ACK, the sender ACK; data packets and ACKs follow;
the sender ends with FIN, the receiver answers ACK|FIN.  Each program is one
thread and sleeps only in `recv_packet`, with a timeout of 100 ms (`SEND_MS`),
2 s (`RECV_S`) or 5 s (`WAIT_S`).

What makes each part correct:

- *sequence numbers*: the interval test answers correctly on the whole circle,
  and a window moved by `update_window` never rests on a finished packet;
- *sender*: counts a packet as confirmed only when the receiver has it; ends
  without an error only when the file is written;
- *receiver*: stores each chunk in its own place once, whatever the order and
  number of arrivals; acknowledges what the sender still waits for; writes a
  file that is whole, or lets nobody believe that it is;
- *transfer*: the data phase gets through; both ends finish, or say why not;
  the one that is left when the other is killed believes nothing false;
- *framing*: a message is received whole and in its turn or not at all;
- *FTP*: one client's behaviour does not stop another's; requests and replies
  stay in step; a request is served in its own client's directory; all of them
  together look as if each took effect at once.

`PROJECT.json` lists every hazard at its line, with the properties aimed at it.

## Modules

| module | what it holds |
|---|---|
| `SeqNum` | the arithmetic of `util.c` modulo `SEQMOD` (2^31 in the code), and `update_window` as an operator |
| `WindowLoop` | `update_window` as the code runs it, one action per turn of a loop |
| `RtpNetwork` | packets, the two directions of the UDP path as bags, the answers of `recv_packet`, the faults |
| `RtpSender`, `RtpReceiver` | the two programs |
| `Rtp` | both over the network; time; fairness; the properties |
| `AckedTransfer` | the abstract specification: what a transfer promises, without packets or windows, and the proof that it keeps its promise |
| `RtpTransfer` | `Rtp` implements `AckedTransfer`: the mapping |
| `RtpInvariant` | the inductive invariant `IInv` |
| `SeqNumProofs`, `WindowLoopProofs`, `RtpProofs` | the theorems about each |
| `RtpTransferProofs` | that `Rtp` implements `AckedTransfer`, and `NeverUndone` |
| `MCRtp` | `Rtp` for TLC, and the claims of messages and tests that some run refutes |
| `FtpFraming` | `send_post` and `recv_post`, one return of `send()` or `recv()` per action |
| `FtpChannel` | the abstract specification of one direction of a connection: whole messages, in order |
| `FtpNames` | what users and files are named |
| `FtpNet` | the messages of lab1, the connections, and the server's descriptors |
| `FtpServer`, `FtpClient` | the two programs of lab1 |
| `Ftp` | the server and its clients together; fairness; the properties |
| `FtpService` | the abstract specification: calls that each take effect at once, without connections, messages or a server that is busy |
| `FtpRefinement` | `Ftp` implements `FtpService`: the mapping |
| `FtpInvariant` | the inductive invariant `IInv` of `Ftp` |
| `FtpProofs` | the theorems about `Ftp` |
| `FtpRefinementProofs` | that `Ftp` implements `FtpService` |
| `FtpFramingProofs` | that `FtpFraming` implements `FtpChannel` |
| `MCFtp` | `Ftp` for TLC |
| `MCLoops` | `WindowLoop` and `FtpFraming` for TLC |

`FtpFraming` implements `FtpChannel`; `FtpNet` uses connections as `FtpChannel`
describes them; `Ftp`, built on `FtpNet`, implements `FtpService`.

### How the RTP model follows the code

An action runs **from one return of `recv_packet` to the next call of it**: it
takes what arrived, does everything the code does with it and sends everything
the code sends before it waits again.  `spc` and `rpc` name the call at which a
program waits.  So `Continue(...)` in `RtpSender` is the whole of one turn of
the loop in `transfer_data`, with the refill of an empty window and, once all is
confirmed, the way into `break_connection` with its first FIN.  `HandshakeEnds`
of the receiver includes the initialisation of `transfer_data`'s locals;
`FileWritten` the call of `write_file`.

*Arrivals.*  `recv_packet` answers 0, -1 (checksum or length wrong, the packet
nevertheless in the caller's buffer) or -2 (timeout).  `Arrivals(net)` is the
set of answers that are possible for a bag of packets in flight, each with what
it leaves in flight.  The checksum itself is not computed: an arrival with
`scode = -1` carries the packet with its bit errors.  Reordering is free; loss,
duplication and corruption draw on a budget.

*The file.*  Chunk `i` is the `PAYLOAD_MAX` bytes from `i * PAYLOAD_MAX`;
`rbuf[i]` says which chunk was copied there.  Sizes are kept in bytes, because
the size of the last packet is where the code is wrong (see below).

*Two windows.*  Each program takes its window size from its own command line,
and no packet carries it: `SWSIZE` is the sender's, `RWSIZE` the receiver's, and
nothing is assumed of one against the other.  In go-back-N any two sizes work.
In selective repeat a sender whose window is the larger stalls for ever after
one lost acknowledgement: the receiver's window moves on, and a packet that lies
further below it than `RWSIZE` is dropped without an answer.  So the two
properties about getting through, `DataIsAcknowledged` and `DataGetsThrough`, are
stated and checked for `SWSIZE <= RWSIZE` in that mode; everything else holds for
any two sizes.

*Kills.*  `SenderKilled` and `ReceiverKilled` are the SIGTERM with which
test.cpp ends a program that takes too long (`wait_or_timeout`).  It may come
while a program waits, which is where both spend their time; the file that was
written stays.

*`++tries`.*  The attempts of the handshakes are counted inside the arguments of
`LOG_DEBUG`, which is empty unless the build has debug logging.  `LDEBUG` is
that choice.

*Time.*  With `Timely = FALSE` a timeout may come at any moment: this covers
every speed of the network and of the programs, and the safety runs and all
theorems use it or leave it open.  With `Timely = TRUE` a timeout comes only
when nothing else can, and the long waits outlast the short rounds of a peer
that is still answering.  Liveness is stated under it: otherwise premature
timeouts could end the receiver's data phase for no reason.

*Start.*  The receiver is up when the sender starts, as in the tests; the
sender may be arbitrarily late (the receiver may give up first).

### How the FTP model follows the code

*The server* is one thread.  It waits at `epoll_wait` (`spc = "loop"`) and an
action of `FtpServer` is the service of one descriptor there: `Serves` is the
turn of the main loop around a handler, with `recv_post`, the `chdir` to the
client's directory and the one back.  The handlers have the code's names.
`do_put` is cut in two, because its `recv_post` is the one place where the
thread waits for one client: `do_put` up to it (`spc = "put"`, `serving`), and
`PutReceives` or `PutFails`.  `ChdirFails` is the `continue` of ftp_server.cpp:272,
which leaves a request without an answer.  A descriptor whose client has left stays in the epoll set,
ready for ever, and `recv_post` fails on it in every round; that changes nothing
and is no step.

*A client* is at its prompt or waits for an answer (`cpc`).  Its handlers are
cut at each `recv_post`.  What comes is looked at as the code does it: an answer
of the wrong type is an error and the client is back at its prompt.

*Paths and files.*  `cd` takes what the path stands for: a directory, a regular
file, or nothing.  A name stands for a directory, for nothing, or for a file
with somebody's contents, in each directory separately.  `ls` and `sha256`
answer something that depends on the directory and the file.

*Framing.*  A message is a header that holds its length, and a body.
`FtpFraming` follows `ssend` and `srecv` through every way in which `send()` and
`recv()` can cut the stream, with a sender that may be killed between any two
bytes.  It implements `FtpChannel`: the receiver gets the sender's messages
whole and in order, and never one that was cut short.  That is why the other
modules have queues of messages, and why a program killed in the middle of a
message is there the same as one killed before it.

*Connections* keep the order of messages and lose none.  A new connection may be
used by its client before the server has accepted it, and `accept` takes the
lowest free descriptor, so descriptors come back after `quit`.

*Users* type anything at any prompt: names that exist on neither or on one side,
names of directories, `open` while connected, an `open` that fails, and the end
of the input.  `home` records, for the properties only, the directory the user
was told.

*Ends.*  A client leaves at its prompt (`Exits`) or is killed while it waits
(`Killed`); its requests are still there to be served.  Neither program handles
SIGPIPE.  The first `send()` to a client that is gone succeeds and brings back a
reset; a second one raises the signal and ends the server.  So an answer of one
`send()` (a reply without a body) is lost without harm, while one of several (a
listing, or a reply with data behind it) may end the server (`BrokenPipe`) or, if
the reset is slow, be lost as well.  When the server is gone (`up = FALSE`), all
its connections end after what was sent on them, and a client that waits gets an
error (`ConnectionLost`).

*The service.*  `FtpService` is what one user may believe of the server while
others use it.  A call is `asked`, then `done` or `lost`, and ends; its effect
comes at one moment in between, in the caller's own directory.  In the mapping a
call is asked while its request is on the way, done from the moment it is
served, and lost if nothing can come any more.  A file that a client has sent
for a `put` counts as stored at once: the server is then in `do_put` and serves
nobody before it is written.

## Runs

The RTP runs and `loops` take seconds (`rtp_sr` half a minute), `ftp` a minute.
`SEQMOD = 8` (10 in `rtp_live_gbn`) keeps the numbers of a whole transfer apart,
as 2^31 does in the code: a file is at most `MAXBUF` bytes, 1436 packets, and the
numbers start at 0 because `get_random_seqnum` answers `INT32_MAX`.

| run | instance | shows |
|---|---|---|
| `rtp_sr` | selective repeat, 4 chunks (the last short), windows of 3 at the sender and 2 at the receiver, any two faults of all kinds, timeouts at any moment | `TypeOK`, `IInv`, `EndMeansDelivered`, `ConfirmedIsStored`, `StoredInPlace`, `NeverUndone`, `ImplementsTransfer` |
| `rtp_gbn` | go-back-N, 3 chunks, windows of 2 and 1, any two faults, timeouts at any moment | `IInv`, `EndMeansDelivered`, `ConfirmedIsStored`, `NeverUndone`, `ImplementsTransfer` |
| `rtp_live_sr` | selective repeat, 4 chunks, windows of 2, three faults of all kinds, debug logging | `DataIsAcknowledged`, `DataGetsThrough`, `HandshakesEnd` |
| `rtp_live_gbn` | go-back-N, 4 chunks, windows of 3 and 1, three faults of the network, of all kinds | `DataGetsThrough`, `BothExit` |
| `loops` | every window of up to 5 flags, every index; every sequence of up to 3 messages, headers of 2 bytes, bodies of up to 2, 5 bytes in flight | `LoopTypeOK`, `LoopsComputeUpdate`, `BaseIsUnfinished`; `FramingTypeOK`, `FramingInv`, `ImplementsChannel`, `EverythingArrives` |
| `ftp` | two clients, two directories and one name, `cd` to a directory, to a file and to nothing, up to two connections, kills | `IInv`, `TypeOK`, `RepliesMatch`, `DataIsAwaited`, `HomeIsKept`, `PutLandsAtHome`, `ImplementsService`, `Answered` |
| `ftp_offline` | the same, from any set of files | `ConnectedHasSocket` **violated** |
| `rtp_no_log` | default build, two losses | `HandshakesEnd` **violated** |
| `rtp_break` | the sender cannot read its file | `BreakEnds` **violated** |
| `rtp_full_last` | two full packets, no fault | `FilesAgree` **violated** |
| `rtp_flip` | one packet with bit errors | `NeverCutShort` **violated** |
| `rtp_lost_ack` | two losses in the handshake | `EstablishedTogether` **violated** |

Why the bounds are enough to be interesting: with 4 chunks a window of 2 moves
twice past its own length, packets fall below it, inside it and beyond it, and
the last one is short.  The sender's window is the larger one in three runs, so
that packets run ahead of everything the receiver will take.  Two faults let an
early FIN, a forged ACK or a lost acknowledgement meet a second loss, and a kill
meet either.  `MaxCopies` bounds the copies of one packet in flight; with 1 a
resent packet that is still in flight merges with the first copy (a copy beyond
the bound counts as lost, which the protocol must survive anyway).  The liveness
runs use 2.

Bit errors in the flags byte are among the faults of the liveness runs, and one
of them defeats liveness: an arrival that has a bad checksum and a FIN bit ends
the receiver's data phase (finding 4), and the sender resends for ever to a
receiver that waits in `break_connection`.  `CutOff` is that state (`spc =
"data"`, `rpc = "brk"`), and `BothExit` and `DataGetsThrough` except it and
nothing else: every other bit error, in whatever packet of whatever phase, is
got over.  Without the fault `flip` the same instances never reach `CutOff`.
Beyond that `BothExit` is claimed of one fault only: two lost packets can defeat
it (`rtp_no_log`, `rtp_lost_ack`).

In `loops`, headers and bodies of 2 bytes are the least that can be cut inside,
and 5 bytes in flight let one `recv()` find parts of two messages, or of three
when bodies are empty.  The two halves have nothing to do with each other; one
has its smallest input while the other has any.

In `ftp`, one client starts with the file and the other without, and the name
is missing in one directory of the server and a directory in the other; `put`
and `get` reach the other distributions.  Two connections are enough for both
clients to be served at once, for one client to open twice, and for a descriptor
to be used again by another client.  The run starts from this one state because
`Answered` is costly.  Everything but `Answered` was also run once with three
connections, where a reused descriptor meets two others (1.8 million states).

`Answered` says what the one thread can promise.  A `put` of a file that the
client does not have leaves the server in `do_put` until that client sends
something else or leaves: nobody is served meanwhile.  So the property assumes
that no such wait lasts for ever (`[]<>~Stalled`), and then every request is
answered, or ends in an error if the server is gone, except one that asked for a
directory as a file, one after `cd` to a regular file, or the one that was eaten
as the missing file.

## Findings

1. **The limit on attempts does not exist in the default build**
   (`rtp_no_log`).  `++tries` is an argument of `LOG_DEBUG` (sender.c:18, 35, 59,
   76; receiver.c:32, 49).  Both ACK|FIN lost leave a sender that sends FIN for
   ever; with logging on it gives up (`rtp_live_sr`).
2. **The receiver's timeout in `break_connection` is dead code** (`rtp_break`).
   receiver.c:65 stores `recv_packet(...) < 0`, which is never -2.
3. **A file of whole packets loses its last one** (`rtp_full_last`).
   `fsize % PAYLOAD_MAX` is 0 for it and is taken for the last packet's size
   (sender.c:103, 120).
4. **A corrupted packet can end the data phase** (`rtp_flip`).  The FIN bit is
   looked at before the verdict on the checksum (receiver.c:105).
5. **Two losses in the handshake separate the two ends for ever**
   (`rtp_lost_ack`).  The sender repeats the third handshake once and then only
   sends data; the receiver takes no data for it.

6. **A failed `open` leaves a client connected without a socket**
   (`ftp_offline`).  ftp_client.cpp:33 replaces `sock` whether or not there is a
   connection; when `connect` fails, `sock` is closed and `connected` stays
   true.  Every command then fails at `send_post`, and `quit` can neither close
   the old connection nor end the program.

`EndMeansDelivered` holds in spite of findings 2 to 5 for every file that
finding 3 does not concern: a file may be cut short, but then neither end gets
through `break_connection`.

## Fairness

`FairSpec` asks weak fairness of the sender's start, and of each program's
receiving and timing out.  The kernel justifies it: a process that is ready runs,
a packet for a waiting socket is delivered, and `SO_RCVTIMEO` ends a wait.  A
weak condition is enough, since an arrival or an expired timer stays until it is
taken.  No fairness is asked of faults, kills among them, and their number is
bounded by the budget: with unbounded loss nothing could be promised.

The bytes of a connection move while there are some and there is room for them,
and the end of a stream is told (`FramingFairness`, weak).

`Ftp!FairSpec` asks strong fairness of accepting and of the service of each
connection: they are not enabled while `do_put` waits, but whenever the server
is back at `epoll_wait` it is told of every descriptor that is ready (the kernel
takes them in turn when there are more than `MAXEPOLL`) and serves each before
it asks again.  The end of a `put` whose message is there, and a client whose
answer is there or whose server is gone, need weak fairness only.  Users need
not type anything, and nobody need be killed.

## Proofs

Every safety invariant and every action property that a passing run checks is
proved by TLAPS for all values of the constants, and so are the three
refinements.  The assumptions on the constants are the `ASSUME`s of the modules:

| assumption | says |
|---|---|
| `SeqModAssumption` | the modulus is a positive number |
| `ConfigAssumption` | sizes are natural, packets and both windows not empty |
| `NoWrapAssumption` | the numbers of one transfer, and a window beyond them, stay below the modulus |
| `FtpAssumption` | `dft_path` is a directory, and no directory is named like what stands for a file, for nothing or for `NULL` |
| `WordsAssumption` | no client is named "yes" or "no", the words that answers are told by (refinement only) |
| `FramingAssumption` | headers are not empty, and the connection has room for a byte |

### RTP

- `SeqNumProofs`: `IntervalTest` and `DistanceOfAdd` (the circle arithmetic),
  `UpdateWindow` (what the window update returns);
- `WindowLoopProofs`: the loops of `update_window` stay inside the array
  (`LoopTypeCorrect`) and compute that operator (`LoopsAgree`,
  `BaseUnfinished`), for a window of any size;
- `RtpProofs!Invariance`: `Spec => []IInv`, and from it `TypeCorrect`,
  `Delivery` (`EndMeansDelivered`), `Confirmation` (`ConfirmedIsStored`),
  `Storage` (`StoredInPlace`) and `Acknowledgement` (`DataIsAcknowledged`, where
  the sender's window is not the larger);
- `RtpTransferProofs`: `NothingUndone` (`NeverUndone`) and `Implementation`
  (`ImplementsTransfer`);
- `AckedTransfer!PromiseKept`: the abstract transfer never closes early, and
  `RtpTransferProofs!PromiseInherited`: so neither do the programs.

*The invariant.*  None of the properties is inductive: whether an ACK may be
believed depends on what was true when it was sent.  `IInv` therefore says what
each packet in flight asserts and that it is still true: a data packet carries
its own chunk under its own number and has been sent; an ACK speaks of a packet
that the receiver has (or, in go-back-N, of nothing beyond the count); an
ACK|FIN says that the file is written and all of it confirmed.  These facts only
grow, so delay, reordering, duplication and loss cannot make them false
(`StoreFrame`, `Has`).  Bit errors are harmless because an arrival with a bad
checksum is believed by nobody except in `EndsTransfer`, which can only end the
data phase early, and then `shift = NPACKET` fails and no FIN is ever sent.  The
rest of `IInv` ties the windows to the set of chunks received (`Has`), the
buffer to that set, and `fsize` to the end of its last chunk.  The proof has one
lemma per action, and one step per conjunct that the action can disturb.

*The refinement.*  Two parts of `IInv` are there for it.  `TrueToSender` says
that an ACK|FIN in flight comes from a receiver that has met the sender's FIN;
`ClosingInv` says that the file is written exactly from the end of
`transfer_data` on, that the receiver goes on from FIN only when all is
confirmed, and that the sender ends well only after it.  Then each
action of `Rtp` is a step of `AckedTransfer` or a stutter: data that arrive
collect one chunk or none, an ACK that moves the sender's window confirms some,
the end of the data phase saves, and the rest is invisible.  `Implementation` has one hypothesis, `FSIZE = 0 \/ tsize
# 0`: in a file of whole packets the last one is sent empty (finding 3), what is
saved is then not the file, and the refinement is false.  `rtp_full_last` shows
it.

### FTP framing

`FtpFramingProofs`: `StreamHasNoGap` (`FramingSpec => []FramingInv`), from it
`FramingTypeCorrect`, `ChannelImplemented` (`ImplementsChannel`) and
`MessagesArriveWhole` (what `recv_post` has returned is the beginning of what
`send_post` was given, message by message and byte by byte), for any number of messages of any sizes, any room in the buffers, any cut at every
`send()` and `recv()`, and a sender killed between any two bytes.

*The invariant.*  That `recv_post` returns whole messages needs to be known of
the bytes before they arrive.  `StreamInv` says that the stream starts with the
byte that `recv_post` is to get next, that each byte is followed by the next of
its message or by the first of the next message (`NoGap`), and that it ends with
the byte that `send()` took last; an empty stream means that both ends stand at
the same byte.  `ReadInv` says that what `recv_post` has is the beginning of one
message.  The main lemma (`SameMessage`) is that the n bytes of one `recv()`
follow each other in one message: the least byte that did not would be preceded
by one that did, and `NoGap` leaves it no other place.  It needs that no
`recv()` asks beyond the message, which is what the two calls of `srecv` in
`recv_post`, one for the header and one for the rest, make sure of.

### FTP

- `FtpProofs!Exchanges`: `Spec => []IInv`, and from it `FtpTypeCorrect`
  (`TypeOK`), `RepliesFit` (`RepliesMatch`), `FilesAreAwaited`
  (`DataIsAwaited`), `HomesAreKept` (`HomeIsKept`) and `PutsLandAtHome`
  (`PutLandsAtHome`);
- `FtpRefinementProofs!ServiceImplemented`: `ImplementsService`.

*The invariant.*  A client may leave connections behind it, send a request while
`do_put` waits for its file, and be killed with both on their way; descriptors
come back to other clients.  So none of the properties is inductive.  `IInv`
says of every connection: what is on its way to the server is one request, or
the file that `do_put` waits for, or that file and a request behind it
(`QueueInv`); a request still to be served is the one its client waits on
(`RequestInv`); an answer on its way comes alone and has the form that its
command asks for (`AnswerInv`); the slot of the descriptor holds the directory
its user was told, or the one an answer to `cd` on its way speaks of
(`HomeInv`); and what is gone is out of use (`GoneInv`).  `FdInv` says that no
two connections share a descriptor and that a free one has no directory, which
is why a descriptor that is used again starts afresh.

*The refinement.*  For each client the proof shows where its call is before and
after a step (`Kept`, or the change that the step makes), that its directory is
kept unless it is the one served, and that the files on disk, with the file on
its way to `do_put` among them, change at one step only.  A step that serves one
client is invisible to all others because of `AnswerInv` and `FdInv`; the step
in which a client sends the file of a `put` is the one that stores it.

### Only model-checked

Liveness: `DataGetsThrough`, `BothExit`, `HandshakesEnd`, `EverythingArrives`
and `Answered`.  TLAPS does not reason about fairness and `ENABLED`.  The
properties of the violation runs are refuted by TLC, and nothing is proved of
them.

## Not modelled

*RTP.*  Argument parsing, socket creation and `bind`; CRC-32, of which the model
has the verdict; files longer than `MAXBUF`, which are cut, and short reads and
writes of files; a `mode` other than 0 and 1; a second sender.

*FTP.*  Messages longer than the buffers, and files longer than `MAXBUF`; the
magic bytes, which nobody compares; more descriptors than `MAXCONN`;
directories that are removed while a client is in them; a file named `NULL` in
the default directory (`cwds` of a free slot is that path, and the model takes
it for one where nothing is: with such a file `chdir` fails and every later
`open` is dropped); `popen` and `accept`
failing; a server killed from outside (its clients see what they see after
`BrokenPipe`).

*The rest.*  `test.cpp` drives the two programs: its timeouts are the kills of the
model, its comparisons the properties, its faulty partners binaries without
their source.  `lab4` is a script that wires ns-3's TCP into a topology and
records traces: its state machine is ns-3's, whose code is not here.  `lab0`
prints a line; googletest is vendored.

## Plan

1. (done) RTP: modules, runs, findings, the inductive invariant and its proofs.
2. (done) FTP: the programs, clients killed at any moment, the framing, the two
   abstract specifications and the refinements.
3. (done) Proofs: every invariant and action property that a passing run
   checks, and the three refinements.
4. (done) Two window sizes, one per program, as the two command lines allow;
   programs killed in the middle of a transfer.
5. Next: what a user may conclude from `FtpService` alone (the answer to a
   `get` or an `ls` is that of one moment between its request and its reply),
   stated as an invariant there, proved once and inherited by `Ftp` through
   `ServiceImplemented`, as `PromiseInherited` is from `AckedTransfer`.
