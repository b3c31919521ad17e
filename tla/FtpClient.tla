------------------------------ MODULE FtpClient ------------------------------
(***************************************************************************)
(* The clients of lab1/ftp_client.cpp.  A client reads a command at its    *)
(* prompt, sends a request, and waits for the answer before it reads on.   *)
(* cpc names the answer it waits for; "get data" and "sha data" are the    *)
(* second messages of those answers.                                       *)
(***************************************************************************)
EXTENDS FtpNet

VARIABLES
    cpc,        \* cpc[c]: "prompt", the command waited on, or "exit"
    carg,       \* carg[c]: the argument of that command
    connected,  \* connected[c]
    sock,       \* sock[c]: the connection of its socket, 0 if that is closed
    local,      \* local[c][n]: the client's own file n
    home        \* home[c]: the directory its user was last told to be in

cvars == <<cpc, carg, connected, sock, local, home>>

ClientTypeOK ==
    /\ cpc \in [Clients -> Commands \cup {"prompt", "get data", "sha data", "exit"}]
    /\ carg \in [Clients -> CdArgs \cup Names \cup {Blank}]
    /\ connected \in [Clients -> BOOLEAN]
    /\ sock \in [Clients -> Made \cup {0}]
    /\ local \in [Clients -> [Names -> Data \cup {Nothing}]]
    /\ home \in [Clients -> Dirs \cup {AFile}]

ClientInit ==
    /\ cpc = [c \in Clients |-> "prompt"]
    /\ carg = [c \in Clients |-> Blank]
    /\ connected = [c \in Clients |-> FALSE]
    /\ sock = [c \in Clients |-> 0]
    /\ local \in {l \in [Clients -> [Names -> Data \cup {Nothing}]] :
                    \A c \in Clients, n \in Names : l[c][n] \in {c, Nothing}}
    /\ home = [c \in Clients |-> dft_path]

-----------------------------------------------------------------------------
\* At the prompt

\* open makes a new socket, whether or not there is one, and sends the request.
Opens(c) ==
    /\ cpc[c] = "prompt"
    /\ up /\ nconn < MaxConns
    /\ nconn' = nconn + 1
    /\ owner' = Append(owner, c)
    /\ toServer' = Append(toServer, <<Request("open", Blank)>>)
    /\ toClient' = Append(toClient, <<>>)
    /\ gone' = Append(gone, FALSE)
    /\ fd' = Append(fd, Waiting)
    /\ cpc' = [cpc EXCEPT ![c] = "open"]
    /\ sock' = [sock EXCEPT ![c] = nconn']
    /\ UNCHANGED <<up, carg, connected, local, home>>

\* connect fails: the new socket is closed, and the old one forgotten.
OpenFails(c) ==
    /\ cpc[c] = "prompt"
    /\ sock' = [sock EXCEPT ![c] = 0]
    /\ UNCHANGED <<connvars, cpc, carg, connected, local, home>>

\* The other commands are errors without a connection, on a closed socket, and
\* on a connection that the server's end has closed (where SIGPIPE may also end
\* the program, as Killed does).
Asks(c, cmd, arg) ==
    /\ cpc[c] = "prompt"
    /\ up /\ connected[c] /\ sock[c] # 0
    /\ toServer' = Sent(toServer, sock[c], <<Request(cmd, arg)>>)
    /\ cpc' = [cpc EXCEPT ![c] = cmd]
    /\ carg' = [carg EXCEPT ![c] = arg]
    /\ UNCHANGED <<nconn, owner, toClient, gone, fd, up, connected, sock, local, home>>

\* The program ends, and with it all its connections.
Leaves(c) ==
    /\ cpc' = [cpc EXCEPT ![c] = "exit"]
    /\ carg' = [carg EXCEPT ![c] = Blank]
    /\ gone' = [k \in Made |-> gone[k] \/ owner[k] = c]
    /\ UNCHANGED <<nconn, owner, toServer, toClient, fd, up, connected, sock,
                   local, home>>

\* quit while not connected, or the end of the input, ends the program.
Exits(c) == cpc[c] = "prompt" /\ Leaves(c)

UserTypes(c) ==
    \/ Opens(c)
    \/ OpenFails(c)
    \/ \E cmd \in {"ls", "quit"} : Asks(c, cmd, Blank)
    \/ \E path \in CdArgs : Asks(c, "cd", path)
    \/ \E cmd \in {"get", "put", "sha"}, n \in Names : Asks(c, cmd, n)
    \/ Exits(c)

-----------------------------------------------------------------------------
\* Waiting for an answer

Answer(c) == Head(toClient[sock[c]])

IsReply(c, cmd) == Answer(c).type = "reply" /\ Answer(c).cmd = cmd

\* recv_post returns an answer to c, who waits for the one of step; c goes on
\* to step next.
Takes(c, step, next) ==
    /\ cpc[c] = step
    /\ toClient[sock[c]] # <<>>
    /\ toClient' = Taken(toClient, sock[c])
    /\ cpc' = [cpc EXCEPT ![c] = next]
    /\ carg' = IF next = "prompt" THEN [carg EXCEPT ![c] = Blank] ELSE carg
    /\ UNCHANGED <<nconn, owner, fd, up>>

OpenAnswered(c) ==
    LET ok == IsReply(c, "open") /\ Answer(c).arg = 1
    IN  /\ Takes(c, "open", "prompt")
        /\ connected' = [connected EXCEPT ![c] = ok \/ @]
        /\ home' = [home EXCEPT ![c] = IF ok THEN dft_path ELSE @]
        /\ sock' = [sock EXCEPT ![c] = IF ok THEN @ ELSE 0]
        /\ gone' = [gone EXCEPT ![sock[c]] = ~ok]
        /\ UNCHANGED <<toServer, local>>

LsAnswered(c) ==
    /\ Takes(c, "ls", "prompt")
    /\ UNCHANGED <<toServer, gone, connected, sock, local, home>>

CdAnswered(c) ==
    /\ Takes(c, "cd", "prompt")
    /\ home' = IF IsReply(c, "cd") /\ Answer(c).arg = 1
               THEN [home EXCEPT ![c] = carg[c]] ELSE home
    /\ UNCHANGED <<toServer, gone, connected, sock, local>>

GetAnswered(c) ==
    /\ Takes(c, "get", IF IsReply(c, "get") /\ Answer(c).arg = 1 THEN "get data"
                                                                 ELSE "prompt")
    /\ UNCHANGED <<toServer, gone, connected, sock, local, home>>

GetReceives(c) ==
    /\ Takes(c, "get data", "prompt")
    /\ local' = IF Answer(c).type = "FILE_DATA"
                THEN [local EXCEPT ![c][carg[c]] = Answer(c).arg] ELSE local
    /\ UNCHANGED <<toServer, gone, connected, sock, home>>

\* The client looks whether it has the file only when the server waits for it.
PutAnswered(c) ==
    /\ Takes(c, "put", "prompt")
    /\ toServer' = IF IsReply(c, "put") /\ local[c][carg[c]] # Nothing
                   THEN Sent(toServer, sock[c], <<FileData(local[c][carg[c]])>>)
                   ELSE toServer
    /\ UNCHANGED <<gone, connected, sock, local, home>>

ShaAnswered(c) ==
    /\ Takes(c, "sha", IF IsReply(c, "sha") /\ Answer(c).arg = 1 THEN "sha data"
                                                                 ELSE "prompt")
    /\ UNCHANGED <<toServer, gone, connected, sock, local, home>>

ShaReceives(c) ==
    /\ Takes(c, "sha data", "prompt")
    /\ UNCHANGED <<toServer, gone, connected, sock, local, home>>

QuitAnswered(c) ==
    LET ok == IsReply(c, "quit")
    IN  /\ Takes(c, "quit", "prompt")
        /\ connected' = [connected EXCEPT ![c] = @ /\ ~ok]
        /\ sock' = [sock EXCEPT ![c] = IF ok THEN 0 ELSE @]
        /\ gone' = [gone EXCEPT ![sock[c]] = ok]
        /\ UNCHANGED <<toServer, local, home>>

\* recv_post finds the connection closed by the server's end, after all that
\* had been sent on it.  Every command is then an error, and open closes sock.
ConnectionLost(c) ==
    /\ cpc[c] \notin {"prompt", "exit"}
    /\ ~up /\ toClient[sock[c]] = <<>>
    /\ cpc' = [cpc EXCEPT ![c] = "prompt"]
    /\ carg' = [carg EXCEPT ![c] = Blank]
    /\ sock' = [sock EXCEPT ![c] = IF cpc[c] = "open" THEN 0 ELSE @]
    /\ gone' = [gone EXCEPT ![sock[c]] = @ \/ cpc[c] = "open"]
    /\ UNCHANGED <<nconn, owner, toServer, toClient, fd, up, connected, local, home>>

\* The program is killed while it waits for an answer.  Killed in the middle of
\* a message it has as good as not sent it: recv_post fails on the rest.
Killed(c) == cpc[c] \notin {"prompt", "exit"} /\ Leaves(c)

Proceeds(c) ==
    \/ OpenAnswered(c)
    \/ LsAnswered(c)
    \/ CdAnswered(c)
    \/ GetAnswered(c)
    \/ GetReceives(c)
    \/ PutAnswered(c)
    \/ ShaAnswered(c)
    \/ ShaReceives(c)
    \/ QuitAnswered(c)
    \/ ConnectionLost(c)
=============================================================================
