---------------------------- MODULE FtpRefinement ----------------------------
(***************************************************************************)
(* Ftp implements FtpService.  The mapping: a file that has been sent to a *)
(* do_put counts as stored, for nobody is served until it is; a client is  *)
(* where the slot of its connection's descriptor says; and its call is     *)
(* where its request and the answer to it are.                             *)
(***************************************************************************)
EXTENDS Ftp

\* No client's file is one of the words that answers are told by.
ASSUME WordsAssumption == {"yes", "no"} \cap Clients = {}

\* The server's files, the one on its way to do_put among them.
Stored ==
    IF /\ spc = "put" /\ toServer[serving] # <<>>
       /\ Message(serving).type = "FILE_DATA" /\ files[pwd][args] # Folder
    THEN [files EXCEPT ![pwd][args] = Message(serving).arg]
    ELSE files

Where(c) ==
    IF cpc[c] # "exit" /\ sock[c] # 0 /\ fd[sock[c]] \in Fds
    THEN Directory(sock[c]) ELSE dft_path

Command(c) ==
    IF cpc[c] = "get data" THEN "get" ELSE IF cpc[c] = "sha data" THEN "sha" ELSE cpc[c]

\* What the messages out that answer cmd, whose reply may already be taken,
\* amount to.
Meaning(cmd, out) ==
    LET last == out[Len(out)]
    IN  IF cmd \in {"put", "quit"} THEN "done"
        ELSE IF out = <<>> THEN "yes"
        ELSE IF cmd = "ls" \/ last.type = "FILE_DATA" THEN last.arg
        ELSE IF last.arg = 1 THEN "yes" ELSE "no"

\* c waits for an answer that does not come.
Missing(c) == ~Asked(c) /\ toClient[sock[c]] = <<>> /\ cpc[c] # "get data"

CallIs(stage, cmd, arg, answer) ==
    [stage |-> stage, cmd |-> cmd, arg |-> arg, answer |-> answer]

CallOf(c) ==
    IF cpc[c] = "prompt" THEN CallIs("idle", Blank, Blank, Blank)
    ELSE IF cpc[c] = "exit" THEN CallIs("gone", Blank, Blank, Blank)
    ELSE IF Asked(c) THEN CallIs("asked", Command(c), carg[c], Blank)
    ELSE IF Missing(c) THEN CallIs("lost", Command(c), carg[c], Blank)
    ELSE CallIs("done", Command(c), carg[c], Meaning(Command(c), toClient[sock[c]]))

Places == [c \in Clients |-> Where(c)]
Calls == [c \in Clients |-> CallOf(c)]

Service == INSTANCE FtpService WITH
    store <- Stored, own <- local, where <- Places, call <- Calls

\* The interleaved requests of the clients, their answers, mistakes and ends
\* add up to calls that each take effect at once: no client ever sees a file
\* half put, another client's directory, or an answer to a call of another
\* moment, though all share one process and its working directory.
ImplementsService == Service!ServiceSpec
=============================================================================
