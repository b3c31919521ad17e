----------------------------- MODULE FtpService -----------------------------
(***************************************************************************)
(* What the file server of lab1 promises, without connections, messages    *)
(* and a server that attends to one of them at a time.  A client calls one *)
(* command after the other.  Each call takes effect at one moment between  *)
(* its start and its end, in the client's own directory, or not at all; a  *)
(* put takes effect when it ends, with the file the client then has.  Only *)
(* the calls of c ever move where[c].                                      *)
(***************************************************************************)
EXTENDS FtpNames

VARIABLES
    store,      \* store[d][n]: what the name n stands for in directory d
    own,        \* own[c][n]: the client's own file n
    where,      \* where[c]: the directory c is in
    call        \* call[c]: the call of c, from its start to its end

servicevars == <<store, own, where, call>>

NoCall == [stage |-> "idle", cmd |-> Blank, arg |-> Blank, answer |-> Blank]
Gone == [stage |-> "gone", cmd |-> Blank, arg |-> Blank, answer |-> Blank]
Call(stage, cmd, arg, answer) ==
    [stage |-> stage, cmd |-> cmd, arg |-> arg, answer |-> answer]

ServiceInit ==
    /\ store \in [Dirs -> [Names -> {"old", Folder, Nothing}]]
    /\ own \in [Clients -> [Names -> Data \cup {Nothing}]]
    /\ where = [c \in Clients |-> dft_path]
    /\ call = [c \in Clients |-> NoCall]

\* A call starts; open starts over in the default directory.
Starts(c, cmd, arg) ==
    /\ call[c] = NoCall
    /\ call' = [call EXCEPT ![c] = Call("asked", cmd, arg, Blank)]
    /\ where' = IF cmd = "open" THEN [where EXCEPT ![c] = dft_path] ELSE where
    /\ UNCHANGED <<store, own>>

\* An open of no effect, but that c is without a connection.
StartsInVain(c) ==
    /\ call[c] = NoCall
    /\ where' = [where EXCEPT ![c] = dft_path]
    /\ UNCHANGED <<store, own, call>>

\* What cmd answers to c, here and now.
AnswerTo(c, cmd, arg) ==
    CASE cmd = "open" -> "yes"
      [] cmd = "ls"   -> where[c]
      [] cmd = "cd"   -> IF arg = Nothing THEN "no" ELSE "yes"
      [] cmd \in {"put", "quit"} -> "done"
      [] cmd = "get"  -> LET e == store[where[c]][arg]
                         IN  CASE e = Nothing -> "no" [] e = Folder -> "yes" [] OTHER -> e
      [] cmd = "sha"  -> LET e == store[where[c]][arg]
                         IN  CASE e = Nothing -> "no" [] e = Folder -> Nothing [] OTHER -> e

\* The moment of the call's effect.
Performs(c) ==
    LET cmd == call[c].cmd
        arg == call[c].arg
    IN  /\ call[c].stage = "asked"
        /\ where[c] # AFile
        /\ call' = [call EXCEPT ![c] = Call("done", cmd, arg, AnswerTo(c, cmd, arg))]
        /\ where' = [where EXCEPT ![c] =
                        CASE cmd = "cd" /\ arg # Nothing -> arg
                          [] cmd = "quit" -> dft_path
                          [] OTHER -> @]
        /\ UNCHANGED <<store, own>>

\* The call has no effect, and never ends unless in an error.
IsLost(c) ==
    /\ call[c].stage = "asked"
    /\ call' = [call EXCEPT ![c].stage = "lost"]
    /\ UNCHANGED <<store, own, where>>

EndsInError(c) ==
    /\ call[c].stage \in {"asked", "lost"}
    /\ call' = [call EXCEPT ![c] = NoCall]
    /\ UNCHANGED <<store, own, where>>

\* The call ends: a get that had data has stored it, and a put stores its file
\* unless c has none or the name is a directory's.
Ends(c) ==
    LET cmd == call[c].cmd
        arg == call[c].arg
    IN  /\ call[c].stage = "done"
        /\ call' = [call EXCEPT ![c] = NoCall]
        /\ own' = IF cmd = "get" /\ call[c].answer \in Data
                  THEN [own EXCEPT ![c][arg] = call[c].answer] ELSE own
        /\ store' = IF /\ cmd = "put" /\ own[c][arg] # Nothing
                       /\ store[where[c]][arg] # Folder
                    THEN [store EXCEPT ![where[c]][arg] = own[c][arg]] ELSE store
        /\ UNCHANGED where

Departs(c) ==
    /\ call[c] # Gone
    /\ call' = [call EXCEPT ![c] = Gone]
    /\ where' = [where EXCEPT ![c] = dft_path]
    /\ UNCHANGED <<store, own>>

ServiceNext == \E c \in Clients :
    \/ \E cmd \in Commands, arg \in CdArgs \cup Names \cup {Blank} : Starts(c, cmd, arg)
    \/ StartsInVain(c)
    \/ Performs(c)
    \/ IsLost(c)
    \/ EndsInError(c)
    \/ Ends(c)
    \/ Departs(c)

ServiceSpec == ServiceInit /\ [][ServiceNext]_servicevars
=============================================================================
