------------------------------- MODULE FtpNet -------------------------------
(***************************************************************************)
(* The messages of lab1 (ftp_utils.hpp, defs.h), the TCP connections they  *)
(* travel on, and the descriptors the server's kernel gives them.          *)
(*                                                                         *)
(* Messages are whole and in order: FtpFraming shows that send_post and    *)
(* recv_post make them so of TCP's stream of bytes.  Connections are       *)
(* numbered in the order of their connect().                               *)
(***************************************************************************)
EXTENDS FtpNames, Sequences

VARIABLES
    nconn,      \* connections made so far
    owner,      \* owner[k]: the client that made connection k
    toServer,   \* toServer[k]: messages on their way to the server
    toClient,   \* toClient[k]: messages on their way to the client
    gone,       \* gone[k]: has the client closed its end?
    fd,         \* fd[k]: the server's descriptor of k, or Waiting, or Closed
    up          \* does the server run?  If not, its ends are all closed.

connvars == <<nconn, owner, toServer, toClient, gone, fd, up>>

Conns == 1 .. MaxConns
Made == 1 .. nconn

\* Descriptors 0 to 4 are standard streams, listenfd and epfd.
FirstFd == 5
Fds == FirstFd .. FirstFd + MaxConns - 1

Waiting == 0        \* not yet accepted
Closed == -1        \* closed by the server

Request(cmd, arg) == [type |-> "request", cmd |-> cmd, arg |-> arg]
Reply(cmd, status) == [type |-> "reply", cmd |-> cmd, arg |-> status]
FileData(data) == [type |-> "FILE_DATA", cmd |-> Blank, arg |-> data]

\* The lowest descriptor that is free: the kernel's choice.
NewFd == CHOOSE f \in Fds : /\ \A k \in Made : fd[k] # f
                            /\ \A g \in FirstFd .. f - 1 : \E k \in Made : fd[k] = g

ConnTypeOK ==
    /\ nconn \in 0 .. MaxConns
    /\ owner \in [Made -> Clients]
    /\ DOMAIN toServer = Made /\ DOMAIN toClient = Made
    /\ gone \in [Made -> BOOLEAN]
    /\ fd \in [Made -> Fds \cup {Waiting, Closed}]
    /\ up \in BOOLEAN

\* A message leaves queue[k], or messages are added to it.
Taken(queue, k) == [queue EXCEPT ![k] = Tail(@)]
Sent(queue, k, msgs) == [queue EXCEPT ![k] = @ \o msgs]

ConnInit ==
    /\ nconn = 0
    /\ owner = <<>> /\ toServer = <<>> /\ toClient = <<>>
    /\ gone = <<>> /\ fd = <<>>
    /\ up = TRUE
=============================================================================
