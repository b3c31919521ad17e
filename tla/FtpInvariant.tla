---------------------------- MODULE FtpInvariant ----------------------------
(***************************************************************************)
(* The inductive invariant behind the safety properties of Ftp.  A client  *)
(* uses one connection at a time, though it may have left others open, and *)
(* on it one exchange at a time: a request goes one way or its answer the  *)
(* other, and only the file of a put may have been sent before a request.  *)
(***************************************************************************)
EXTENDS Ftp

\* The requests that Asks and Opens send.
RequestsOf(cmds, as) == [type : {"request"}, cmd : cmds, arg : as]
Requests ==
    RequestsOf({"open", "ls", "quit"}, {Blank})
        \cup RequestsOf({"cd"}, CdArgs)
        \cup RequestsOf({"get", "put", "sha"}, Names)

\* The client of connection k still uses it.
Current(k) == sock[owner[k]] = k /\ cpc[owner[k]] # "exit"

\* The server's do_put is there for the client's file, in the directory the
\* client is in, and the client has that file.
File(k) == local[owner[k]][args]
PutIsTrue(k) ==
    /\ spc = "put" /\ serving = k
    /\ pwd = home[owner[k]]
    /\ File(k) \in Data

\* The request m of connection k is still to be served.
Pending(k, m) ==
    \/ toServer[k] = <<m>>
    \/ PutIsTrue(k) /\ toServer[k] = <<FileData(File(k)), m>>

\* What is on its way to the server: a request, behind a file perhaps, or the
\* file alone while its client is at the prompt.
QueueInv(k) ==
    \/ toServer[k] = <<>>
    \/ /\ PutIsTrue(k) /\ toServer[k] = <<FileData(File(k))>>
       /\ Current(k) => cpc[owner[k]] = "prompt"
    \/ \E m \in Requests : Pending(k, m)

\* A request that may still be served is the one its client waits on.
RequestInv(k) ==
    \A m \in Requests : up /\ ~gone[k] /\ Pending(k, m) =>
        /\ Current(k)
        /\ cpc[owner[k]] = m.cmd
        /\ m.cmd # "open" => carg[owner[k]] = m.arg

\* What each command is answered.
AnswerForm(k, c, out) ==
    \/ /\ cpc[c] = "open" /\ out = <<Reply("open", 1)>>
       /\ fd[k] \in Fds /\ cwds[fd[k]] = dft_path
    \/ cpc[c] = "ls" /\ \E d \in Dirs : out = <<Reply("ls", d)>>
    \/ cpc[c] = "cd" /\ out \in {<<Reply("cd", 0)>>, <<Reply("cd", 1)>>}
    \/ cpc[c] = "get" /\ out \in {<<Reply("get", 0)>>, <<Reply("get", 1)>>}
    \/ cpc[c] = "get" /\ \E d \in Data : out = <<Reply("get", 1), FileData(d)>>
    \/ cpc[c] = "sha" /\ out = <<Reply("sha", 0)>>
    \/ /\ cpc[c] = "sha"
       /\ \E d \in Data \cup {Nothing} : out = <<Reply("sha", 1), FileData(d)>>
    \/ cpc[c] = "get data" /\ \E d \in Data : out = <<FileData(d)>>
    \/ cpc[c] = "sha data" /\ \E d \in Data \cup {Nothing} : out = <<FileData(d)>>
    \/ /\ cpc[c] = "put" /\ out = <<Reply("put", 0)>>
       /\ spc = "put" /\ serving = k /\ args = carg[c] /\ pwd = home[c]
    \/ cpc[c] = "quit" /\ out = <<Reply("quit", 0)>> /\ fd[k] = Closed

\* An answer on its way comes alone, fits the command, and if the server waits
\* for a file of that client, the answer is the one that asks for it.
AnswerInv(k) ==
    Current(k) /\ toClient[k] # <<>> =>
        /\ toServer[k] = <<>>
        /\ AnswerForm(k, owner[k], toClient[k])
        /\ serving # 0 /\ owner[serving] = owner[k] => cpc[owner[k]] = "put"

\* The slot of a connection in use holds its client's directory, or the one
\* that an answer to cd on its way speaks of; before open it holds none.
HomeInv(k) ==
    LET c == owner[k]
    IN  /\ /\ Current(k) /\ cpc[c] # "open"
           /\ ~(cpc[c] = "quit" /\ toClient[k] # <<>>)
           => /\ fd[k] \in Fds
              /\ cwds[fd[k]] = IF cpc[c] = "cd" /\ toClient[k] = <<Reply("cd", 1)>>
                               THEN carg[c] ELSE home[c]
        /\ Current(k) /\ cpc[c] = "open" /\ fd[k] \in Fds
           => cwds[fd[k]] \in {NULL, dft_path}

\* What is closed is out of use, but for the requests of clients that ended.
GoneInv(k) ==
    gone[k] => /\ ~Current(k)
               /\ ~up \/ toServer[k] = <<>> \/ cpc[owner[k]] = "exit"

ConnInv(k) ==
    QueueInv(k) /\ RequestInv(k) /\ AnswerInv(k) /\ HomeInv(k) /\ GoneInv(k)

\* A client's socket is its own, and its arguments fit its command.
ClientInv(c) ==
    /\ sock[c] # 0 => owner[sock[c]] = c
    /\ Busy(c) => sock[c] # 0
    /\ cpc[c] = "prompt" => carg[c] = Blank
    /\ cpc[c] = "cd" => carg[c] \in CdArgs
    /\ cpc[c] \in {"get", "get data", "put", "sha"} => carg[c] \in Names

\* No two connections share a descriptor, and a free one has no directory.
FdInv ==
    /\ \A j, k \in Made : fd[j] = fd[k] /\ fd[j] \in Fds => j = k
    /\ \A f \in Fds : (\A k \in Made : fd[k] # f) => cwds[f] = NULL

ModeInv ==
    /\ spc = "put" <=> serving # 0
    /\ spc = "put" => up /\ args \in Names

IInv ==
    /\ TypeOK /\ ModeInv /\ FdInv
    /\ \A k \in Made : ConnInv(k)
    /\ \A c \in Clients : ClientInv(c)
=============================================================================
