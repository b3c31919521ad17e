--------------------------------- MODULE Ftp ---------------------------------
(***************************************************************************)
(* The server and its clients together.  Users type whatever they like:    *)
(* names that are missing here or there, or that are directories, open     *)
(* while connected, and the end of the input at any prompt.  Clients are   *)
(* killed at any moment, and one of them may take the server with it.      *)
(***************************************************************************)
EXTENDS FtpServer, FtpClient

vars == <<connvars, svars, cvars>>

\* Every part has its type: a descriptor's saved directory, in particular, is
\* one that exists or a file that does.
TypeOK == ConnTypeOK /\ ServerTypeOK /\ ClientTypeOK

Init == ConnInit /\ ServerInit /\ ClientInit

Next ==
    \/ (Accept \/ (\E k \in Made : Serve(k)) \/ Put) /\ UNCHANGED cvars
    \/ (\E c \in Clients : UserTypes(c) \/ Proceeds(c) \/ Killed(c)) /\ UNCHANGED svars

Spec == Init /\ [][Next]_vars

\* epoll_wait answers all that is ready (MAXEPOLL descriptors at a time), and
\* the loop serves each of them before it asks again: nobody is passed over
\* for ever while the server is in the loop.  Users need not type.
Fairness ==
    /\ SF_vars(Accept /\ UNCHANGED cvars)
    /\ \A k \in Conns : SF_vars(k \in Made /\ Serve(k) /\ UNCHANGED cvars)
    /\ WF_vars(Put /\ UNCHANGED cvars)
    /\ \A c \in Clients : WF_vars(Proceeds(c) /\ UNCHANGED svars)

FairSpec == Spec /\ Fairness

-----------------------------------------------------------------------------
\* c waits for an answer.
Busy(c) == cpc[c] \notin {"prompt", "exit"}

\* Replies and commands stay in step: what is on its way to a client belongs
\* to the command it waits on, the data behind their reply, and nothing is
\* left over for the next command, whatever the earlier ones met.
RepliesMatch ==
    \A c \in Clients : sock[c] # 0 /\ cpc[c] # "exit" =>
        LET out == toClient[sock[c]]
        IN  out # <<>> =>
              CASE cpc[c] = "get data" -> Len(out) = 1 /\ Head(out).type = "FILE_DATA"
                [] cpc[c] = "sha data" -> Len(out) = 1 /\ Head(out).type = "FILE_DATA"
                [] OTHER -> /\ Busy(c) /\ IsReply(c, cpc[c])
                            /\ Len(out) = 2 =>
                                  /\ cpc[c] \in {"get", "sha"} /\ Head(out).arg = 1
                                  /\ out[2].type = "FILE_DATA"

\* A file on its way to the server is the next thing its do_put will read.  So
\* no file ever reaches the main loop, where its type would index funcs far
\* beyond its end, and who is served after a put is done sees its file.
DataIsAwaited ==
    \A k \in Made : \A i \in 1 .. Len(toServer[k]) :
        toServer[k][i].type = "FILE_DATA" => i = 1 /\ spc = "put" /\ serving = k

\* Between commands the server has each client in the directory that its user
\* was told, whoever had the descriptor before.
HomeIsKept ==
    \A c \in Clients :
        /\ connected[c] /\ sock[c] # 0 /\ cpc[c] = "prompt"
        /\ toServer[sock[c]] = <<>> /\ serving # sock[c]
        => fd[sock[c]] \in Fds /\ cwds[fd[sock[c]]] = home[c]

\* A file changes only in the directory of the client whose file it becomes,
\* though that client may have typed on and all share one working directory.
LandsAtHome ==
    \A d \in Dirs, n \in Names : files'[d][n] # files[d][n] =>
        /\ serving # 0 /\ home[owner[serving]] = d /\ args = n
        /\ files'[d][n] = local[owner[serving]][n]

PutLandsAtHome == [][LandsAtHome]_vars

\* A client that passes "check if connected" has a socket that is open.
ConnectedHasSocket == \A c \in Clients : connected[c] => sock[c] # 0

-----------------------------------------------------------------------------
\* A request of c is on its way.
Asked(c) == Busy(c) /\ toServer[sock[c]] # <<>>

\* There is no answer to come: c got a directory, or did a cd to a file.
Mistaken(c) ==
    \/ cpc[c] = "get data" /\ toClient[sock[c]] = <<>>
    \/ cpc[c] # "open" /\ home[c] = AFile

\* do_put waits, and its client has gone on without sending the file.
Stalled ==
    /\ spc = "put"
    /\ cpc[owner[serving]] # "put" \/ toServer[serving] # <<>>
    /\ \A i \in 1 .. Len(toServer[serving]) : toServer[serving][i].type # "FILE_DATA"

\* Every request is answered, whatever the others do and whoever is killed, or
\* ends in an error if the server is gone; unless somebody's put of a file that
\* is not there stops the server for good.  The one who typed it may lose the
\* next answer even if that wait ends.
Answered ==
    []<>~Stalled =>
        \A c \in Clients :
            Asked(c) ~> \/ ~Busy(c)
                        \/ Mistaken(c)
                        \/ Stalled /\ owner[serving] = c
=============================================================================
