------------------------------ MODULE FtpServer ------------------------------
(***************************************************************************)
(* The server of lab1/ftp_server.cpp: one thread that waits in epoll_wait  *)
(* (spc = "loop") and serves the descriptors that are ready one after the  *)
(* other.  Only do_put waits elsewhere, in recv_post for the file          *)
(* (spc = "put"), and nobody else is served meanwhile.  An action is the   *)
(* service of one request with both its chdir calls, or one of the two     *)
(* halves of do_put.                                                       *)
(*                                                                         *)
(* A connection whose client is gone stays in the epoll set: recv_post     *)
(* fails on it in every round, which changes nothing.  An answer to it is  *)
(* lost, and may cost the server its life (BrokenPipe).                    *)
(***************************************************************************)
EXTENDS FtpNet

VARIABLES
    spc,        \* "loop" or "put"
    serving,    \* the connection whose file do_put waits for, else 0
    args,       \* the name that file will have
    pwd,        \* the process's working directory
    cwds,       \* cwds[f]: the directory saved for descriptor f
    files       \* files[d][n]: what the name n stands for in directory d

svars == <<spc, serving, args, pwd, cwds, files>>

ServerTypeOK ==
    /\ spc \in {"loop", "put"}
    /\ serving \in Made \cup {0}
    /\ args \in Names \cup {Blank}
    /\ pwd \in Dirs
    /\ cwds \in [Fds -> Dirs \cup {AFile, NULL}]
    /\ files \in [Dirs -> [Names -> Data \cup {Folder, Nothing}]]

ServerInit ==
    /\ spc = "loop"
    /\ serving = 0
    /\ args = Blank
    /\ pwd = dft_path
    /\ cwds = [f \in Fds |-> NULL]
    /\ files \in [Dirs -> [Names -> {"old", Folder, Nothing}]]

-----------------------------------------------------------------------------
\* accept() takes the connection that has waited longest.
Accept ==
    /\ up /\ spc = "loop"
    /\ \E k \in Made :
        /\ fd[k] = Waiting /\ \A j \in 1 .. k - 1 : fd[j] # Waiting
        /\ fd' = [fd EXCEPT ![k] = NewFd]
    /\ UNCHANGED <<nconn, owner, toServer, toClient, gone, up, svars>>

\* A message waits on connection k for the server to read it.
Ready(k) == up /\ fd[k] \in Fds /\ toServer[k] # <<>>
Message(k) == Head(toServer[k])

\* Mutant: the main loop does not change to the client's directory.
StaysInDefault(k) == dft_path

\* The directory of a request: where chdir leads, or the default directory if
\* the saved one does not exist.
Directory(k) == IF cwds[fd[k]] = NULL THEN dft_path ELSE cwds[fd[k]]

\* chdir to a regular file fails, and the request is dropped without an answer.
ChdirFails(k) ==
    /\ spc = "loop" /\ Ready(k)
    /\ Directory(k) = AFile
    /\ toServer' = Taken(toServer, k)
    /\ UNCHANGED <<nconn, owner, toClient, gone, fd, up, svars>>

\* The main loop has read the request cmd and changed to the directory of k.
\* With msgs the answer, it changes back at the end.
Serves(k, cmd, msgs) ==
    /\ spc = "loop" /\ Ready(k)
    /\ Directory(k) # AFile
    /\ Message(k).type = "request" /\ Message(k).cmd = cmd
    /\ toServer' = Taken(toServer, k)
    /\ toClient' = Sent(toClient, k, msgs)
    /\ UNCHANGED <<nconn, owner, gone, up>>

\* Mutant: the directory of the descriptor is not set by open.
OpenKeepsCwd(k) ==
    /\ Serves(k, "open", <<Reply("open", 1)>>)
    /\ UNCHANGED <<fd, svars>>

do_open(k) ==
    /\ Serves(k, "open", <<Reply("open", 1)>>)
    /\ cwds' = [cwds EXCEPT ![fd[k]] = dft_path]
    /\ UNCHANGED <<fd, spc, serving, args, pwd, files>>

\* Mutant: the directory of the descriptor outlives the connection.
QuitKeepsCwd(k) ==
    /\ Serves(k, "quit", <<Reply("quit", 0)>>)
    /\ fd' = [fd EXCEPT ![k] = Closed]
    /\ UNCHANGED svars

do_quit(k) ==
    /\ Serves(k, "quit", <<Reply("quit", 0)>>)
    /\ cwds' = [cwds EXCEPT ![fd[k]] = NULL]
    /\ fd' = [fd EXCEPT ![k] = Closed]
    /\ UNCHANGED <<spc, serving, args, pwd, files>>

\* The answer to ls stands for the listing of the directory named in it.
do_ls(k) ==
    /\ Serves(k, "ls", <<Reply("ls", Directory(k))>>)
    /\ UNCHANGED <<fd, svars>>

\* Mutant: the path is stored whether or not it exists.
CdUnchecked(k) ==
    /\ Serves(k, "cd", <<Reply("cd", IF Message(k).arg = Nothing THEN 0 ELSE 1)>>)
    /\ cwds' = [cwds EXCEPT ![fd[k]] = Message(k).arg]
    /\ UNCHANGED <<fd, spc, serving, args, pwd, files>>

\* fs::exists says yes to a regular file as well.
do_cd(k) ==
    LET path == Message(k).arg
        s    == IF path = Nothing THEN 0 ELSE 1
    IN  /\ Serves(k, "cd", <<Reply("cd", s)>>)
        /\ cwds' = IF s = 1 THEN [cwds EXCEPT ![fd[k]] = path] ELSE cwds
        /\ UNCHANGED <<fd, spc, serving, args, pwd, files>>

\* What the name in k's request stands for, where k is.
Entry(k) == files[Directory(k)][Message(k).arg]

\* The answers that take more than one send(): a listing, which is header and
\* body, and the replies that data follow.
IsLongAnswer(k) ==
    \/ Message(k).cmd = "ls"
    \/ Message(k).cmd = "get" /\ Entry(k) \notin {Nothing, Folder}
    \/ Message(k).cmd = "sha" /\ Entry(k) # Nothing

\* The client is gone.  The first send() of the answer brings back a reset, and
\* a later one, if it comes after that, raises SIGPIPE, which nobody handles:
\* the server ends, and with it all its connections.
BrokenPipe(k) ==
    /\ spc = "loop" /\ Ready(k) /\ Directory(k) # AFile
    /\ gone[k] /\ IsLongAnswer(k)
    /\ up' = FALSE
    /\ toServer' = Taken(toServer, k)
    /\ UNCHANGED <<nconn, owner, toClient, gone, fd, svars>>

\* Mutant: the early return is missing, so an empty file follows status 0.
GetSendsAnyway(k) ==
    /\ Serves(k, "get",
              CASE Entry(k) = Nothing -> <<Reply("get", 0), FileData(Nothing)>>
                [] Entry(k) = Folder  -> <<Reply("get", 1)>>
                [] OTHER              -> <<Reply("get", 1), FileData(Entry(k))>>)
    /\ UNCHANGED <<fd, svars>>

\* Mutant: the early return comes before the reply.
GetReturnsFirst(k) ==
    /\ Serves(k, "get",
              CASE Entry(k) = Nothing -> <<>>
                [] Entry(k) = Folder  -> <<Reply("get", 1)>>
                [] OTHER              -> <<Reply("get", 1), FileData(Entry(k))>>)
    /\ UNCHANGED <<fd, svars>>

\* read_file on a directory fails after the reply has promised the data.
do_get(k) ==
    /\ Serves(k, "get",
              CASE Entry(k) = Nothing -> <<Reply("get", 0)>>
                [] Entry(k) = Folder  -> <<Reply("get", 1)>>
                [] OTHER              -> <<Reply("get", 1), FileData(Entry(k))>>)
    /\ UNCHANGED <<fd, svars>>

\* sha256sum says nothing on its standard output about a directory.
do_sha(k) ==
    /\ Serves(k, "sha",
              CASE Entry(k) = Nothing -> <<Reply("sha", 0)>>
                [] Entry(k) = Folder  -> <<Reply("sha", 1), FileData(Nothing)>>
                [] OTHER              -> <<Reply("sha", 1), FileData(Entry(k))>>)
    /\ UNCHANGED <<fd, svars>>

\* Mutant: do_put waits for the file after the change to the default directory.
PutInDefault(k) ==
    /\ Serves(k, "put", <<Reply("put", 0)>>)
    /\ spc' = "put"
    /\ serving' = k
    /\ args' = Message(k).arg
    /\ pwd' = dft_path
    /\ UNCHANGED <<fd, cwds, files>>

\* Mutant: do_put leaves the file to the main loop.
PutReturns(k) ==
    /\ Serves(k, "put", <<Reply("put", 0)>>)
    /\ UNCHANGED <<fd, svars>>

\* do_put up to its recv_post, in the directory of k ...
do_put(k) ==
    /\ Serves(k, "put", <<Reply("put", 0)>>)
    /\ spc' = "put"
    /\ serving' = k
    /\ args' = Message(k).arg
    /\ pwd' = Directory(k)
    /\ UNCHANGED <<fd, cwds, files>>

\* ... and back to the main loop, in the default directory.
PutEnds ==
    /\ spc' = "loop"
    /\ serving' = 0
    /\ args' = Blank
    /\ pwd' = dft_path
    /\ UNCHANGED <<nconn, owner, toClient, gone, fd, up, cwds>>

\* Whatever comes next on the connection is taken for the file.  Only a
\* FILE_DATA is written, and only if the name is not a directory's.
PutReceives ==
    /\ spc = "put" /\ Ready(serving)
    /\ toServer' = Taken(toServer, serving)
    /\ files' = IF Message(serving).type = "FILE_DATA" /\ files[pwd][args] # Folder
                THEN [files EXCEPT ![pwd][args] = Message(serving).arg]
                ELSE files
    /\ PutEnds

\* The client has gone without sending the file, or with half of it sent.
PutFails ==
    /\ spc = "put" /\ gone[serving] /\ toServer[serving] = <<>>
    /\ PutEnds
    /\ UNCHANGED <<toServer, files>>

Serve(k) ==
    \/ ChdirFails(k)
    \/ do_open(k)
    \/ do_quit(k)
    \/ do_ls(k)
    \/ do_cd(k)
    \/ do_get(k)
    \/ do_sha(k)
    \/ do_put(k)
    \/ BrokenPipe(k)

Put == PutReceives \/ PutFails
=============================================================================
