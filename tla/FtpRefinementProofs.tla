------------------------- MODULE FtpRefinementProofs -------------------------
(***************************************************************************)
(* Ftp implements FtpService, for any number of clients, connections,      *)
(* directories and file names: each step of Ftp is a step of the service,  *)
(* or one that the service does not show.                                  *)
(***************************************************************************)
EXTENDS FtpProofs, FtpRefinement

-----------------------------------------------------------------------------
\* The service's names are the ones of Ftp.
LEMMA SameNames ==
    /\ Service!Blank = Blank /\ Service!AFile = AFile /\ Service!Nothing = Nothing
    /\ Service!Folder = Folder /\ Service!Data = Data /\ Service!Commands = Commands
    /\ Service!NoCall = CallIs("idle", Blank, Blank, Blank)
    /\ Service!Gone = CallIs("gone", Blank, Blank, Blank)
    /\ \A stage, cmd, arg, answer :
          Service!Call(stage, cmd, arg, answer) = CallIs(stage, cmd, arg, answer)
<1>1. Service!Blank = Blank
  BY Zenon DEF Service!Blank, Blank
<1>2. /\ Service!AFile = AFile /\ Service!Nothing = Nothing
      /\ Service!Folder = Folder /\ Service!Data = Data /\ Service!Commands = Commands
  BY DEF Service!AFile, AFile, Service!Nothing, Nothing, Service!Folder, Folder,
         Service!Data, Data, Service!Commands, Commands
<1> QED
  BY <1>1, <1>2, Zenon DEF Service!NoCall, Service!Gone, Service!Call, CallIs

\* What the service sees of c, and the steps that show it of no one but c.
Kept(b) == CallOf(b)' = CallOf(b) /\ Where(b)' = Where(b)
KeptBut(c) == \A b \in Clients : b # c => Kept(b)

LEMMA CallParts ==
    \A stage, cmd, arg, answer :
        /\ CallIs(stage, cmd, arg, answer).stage = stage
        /\ CallIs(stage, cmd, arg, answer).cmd = cmd
        /\ CallIs(stage, cmd, arg, answer).arg = arg
        /\ CallIs(stage, cmd, arg, answer).answer = answer
BY DEF CallIs

LEMMA CallLost ==
    ASSUME NEW call, NEW cmd, NEW arg, call = CallIs("asked", cmd, arg, Blank)
    PROVE  [call EXCEPT !.stage = "lost"] = CallIs("lost", cmd, arg, Blank)
BY DEF CallIs

LEMMA Shown ==
    ASSUME NEW c \in Clients, KeptBut(c)
    PROVE  /\ Calls[c] = CallOf(c) /\ Calls' = [Calls EXCEPT ![c] = CallOf(c)']
           /\ Places[c] = Where(c) /\ Places' = [Places EXCEPT ![c] = Where(c)']
           /\ Where(c)' = Where(c) => Places' = Places
           /\ CallOf(c)' = CallOf(c) => Calls' = Calls
<1>1. \A b \in Clients : b # c => CallOf(b)' = CallOf(b) /\ Where(b)' = Where(b)
  BY DEF KeptBut, Kept
<1>2. Calls' = [b \in Clients |-> CallOf(b)'] /\ Places' = [b \in Clients |-> Where(b)']
  BY DEF Calls, Places
<1> QED
  BY <1>1, <1>2 DEF Calls, Places

LEMMA NothingShown ==
    ASSUME \A b \in Clients : Kept(b), Stored' = Stored, local' = local
    PROVE  UNCHANGED Service!servicevars
<1>1. Calls' = [b \in Clients |-> CallOf(b)'] /\ Places' = [b \in Clients |-> Where(b)']
  BY DEF Calls, Places
<1>2. \A b \in Clients : CallOf(b)' = CallOf(b) /\ Where(b)' = Where(b)
  BY DEF Kept
<1>3. Calls' = Calls /\ Places' = Places
  BY <1>1, <1>2 DEF Calls, Places
<1> QED
  BY <1>3 DEF Service!servicevars

LEMMA Started ==
    ASSUME NEW c \in Clients, KeptBut(c), Stored' = Stored, local' = local,
           NEW cmd \in Commands, NEW arg \in CdArgs \cup Names \cup {Blank},
           CallOf(c) = CallIs("idle", Blank, Blank, Blank),
           CallOf(c)' = CallIs("asked", cmd, arg, Blank),
           Where(c)' = IF cmd = "open" THEN dft_path ELSE Where(c)
    PROVE  Service!ServiceNext
<1>1. Service!Starts(c, cmd, arg)
  BY Shown, SameNames DEF Service!Starts
<1> QED
  BY <1>1, SameNames DEF Service!ServiceNext

LEMMA StartedInVain ==
    ASSUME NEW c \in Clients, KeptBut(c), Stored' = Stored, local' = local,
           CallOf(c) = CallIs("idle", Blank, Blank, Blank), CallOf(c)' = CallOf(c),
           Where(c)' = dft_path
    PROVE  Service!ServiceNext
<1>1. Service!StartsInVain(c)
  BY Shown, SameNames DEF Service!StartsInVain
<1> QED
  BY <1>1 DEF Service!ServiceNext

LEMMA WasLost ==
    ASSUME NEW c \in Clients, KeptBut(c), Stored' = Stored, local' = local,
           NEW cmd, NEW arg,
           CallOf(c) = CallIs("asked", cmd, arg, Blank),
           CallOf(c)' = CallIs("lost", cmd, arg, Blank),
           Where(c)' = Where(c)
    PROVE  Service!ServiceNext
<1>1. Service!IsLost(c)
  <2>1. /\ Calls[c] = CallIs("asked", cmd, arg, Blank) /\ Places' = Places
        /\ Calls' = [Calls EXCEPT ![c] = CallIs("lost", cmd, arg, Blank)]
    BY Shown
  <2>2. /\ Calls[c].stage = "asked"
        /\ [Calls[c] EXCEPT !.stage = "lost"] = CallIs("lost", cmd, arg, Blank)
    BY <2>1, CallParts, CallLost
  <2>3. Calls' = [Calls EXCEPT ![c].stage = "lost"]
    BY <2>1, <2>2
  <2> QED
    BY <2>1, <2>2, <2>3 DEF Service!IsLost
<1> QED
  BY <1>1 DEF Service!ServiceNext

LEMMA EndedInError ==
    ASSUME NEW c \in Clients, KeptBut(c), Stored' = Stored, local' = local,
           CallOf(c).stage \in {"asked", "lost"},
           CallOf(c)' = CallIs("idle", Blank, Blank, Blank),
           Where(c)' = Where(c)
    PROVE  Service!ServiceNext
<1>1. Service!EndsInError(c)
  BY Shown, SameNames DEF Service!EndsInError
<1> QED
  BY <1>1 DEF Service!ServiceNext

LEMMA Departed ==
    ASSUME NEW c \in Clients, KeptBut(c), Stored' = Stored, local' = local,
           CallOf(c).stage # "gone",
           CallOf(c)' = CallIs("gone", Blank, Blank, Blank),
           Where(c)' = dft_path
    PROVE  Service!ServiceNext
<1>1. Service!Departs(c)
  <2>1. Calls[c] # CallIs("gone", Blank, Blank, Blank)
    BY Shown, CallParts
  <2> QED
    BY <2>1, Shown, SameNames DEF Service!Departs
<1> QED
  BY <1>1 DEF Service!ServiceNext

LEMMA Performed ==
    ASSUME NEW c \in Clients, KeptBut(c), Stored' = Stored, local' = local,
           NEW cmd, NEW arg, Where(c) # AFile,
           CallOf(c) = CallIs("asked", cmd, arg, Blank),
           CallOf(c)' = CallIs("done", cmd, arg, Service!AnswerTo(c, cmd, arg)),
           Where(c)' = CASE cmd = "cd" /\ arg # Nothing -> arg
                         [] cmd = "quit" -> dft_path
                         [] OTHER -> Where(c)
    PROVE  Service!ServiceNext
<1>1. Service!Performs(c)
  <2> DEFINE answer == Service!AnswerTo(c, cmd, arg)
  <2>1. /\ Calls[c] = CallIs("asked", cmd, arg, Blank)
        /\ Calls' = [Calls EXCEPT ![c] = CallIs("done", cmd, arg, answer)]
    BY Shown
  <2>2. Places[c] # AFile
        /\ Places' = [Places EXCEPT ![c] = CASE cmd = "cd" /\ arg # Nothing -> arg
                                             [] cmd = "quit" -> dft_path
                                             [] OTHER -> Where(c)]
    BY Shown
  <2>3. Places[c] = Where(c)
    BY Shown
  <2> HIDE DEF answer
  <2>4. /\ Calls[c].stage = "asked" /\ Calls[c].cmd = cmd /\ Calls[c].arg = arg
    BY <2>1, CallParts
  <2> QED
    BY <2>1, <2>2, <2>3, <2>4, SameNames DEF Service!Performs, answer
<1> QED
  BY <1>1 DEF Service!ServiceNext

LEMMA Ended ==
    ASSUME NEW c \in Clients, KeptBut(c),
           NEW cmd, NEW arg, NEW answer,
           CallOf(c) = CallIs("done", cmd, arg, answer),
           CallOf(c)' = CallIs("idle", Blank, Blank, Blank),
           Where(c)' = Where(c),
           local' = IF cmd = "get" /\ answer \in Data
                    THEN [local EXCEPT ![c][arg] = answer] ELSE local,
           Stored' = IF /\ cmd = "put" /\ local[c][arg] # Nothing
                        /\ Stored[Where(c)][arg] # Folder
                     THEN [Stored EXCEPT ![Where(c)][arg] = local[c][arg]] ELSE Stored
    PROVE  Service!ServiceNext
<1>1. Service!Ends(c)
  <2>1. /\ Calls[c] = CallIs("done", cmd, arg, answer)
        /\ Calls' = [Calls EXCEPT ![c] = CallIs("idle", Blank, Blank, Blank)]
        /\ Places[c] = Where(c) /\ Places' = Places
    BY Shown
  <2>2. /\ Calls[c].stage = "done" /\ Calls[c].cmd = cmd /\ Calls[c].arg = arg
        /\ Calls[c].answer = answer
    BY <2>1, CallParts
  <2> QED
    BY <2>1, <2>2, SameNames DEF Service!Ends
<1> QED
  BY <1>1 DEF Service!ServiceNext

-----------------------------------------------------------------------------
\* What each part of that depends on.
LEMMA CallKept ==
    ASSUME NEW b, NEW j, j = sock[b], sock'[b] = j, cpc'[b] = cpc[b], carg'[b] = carg[b],
           Busy(b) => toServer'[j] = toServer[j] /\ toClient'[j] = toClient[j]
    PROVE  CallOf(b)' = CallOf(b)
<1>1. Busy(b)' = Busy(b) /\ Command(b)' = Command(b)
  BY DEF Busy, Command
<1>2. CASE Busy(b)
  <2>1. toServer'[j] = toServer[j] /\ toClient'[j] = toClient[j]
    BY <1>2
  <2>2. Asked(b)' = Asked(b)
    BY <1>1, <2>1 DEF Asked
  <2>3. Missing(b)' = Missing(b)
    BY <2>1, <2>2 DEF Missing
  <2> QED
    BY <1>1, <1>2, <2>1, <2>2, <2>3 DEF CallOf
<1>3. CASE ~Busy(b)
  BY <1>3 DEF CallOf, Busy
<1> QED
  BY <1>2, <1>3

LEMMA WhereKept ==
    ASSUME NEW b, NEW j, j = sock[b], sock'[b] = j, cpc'[b] = cpc[b],
           j # 0 /\ cpc[b] # "exit" =>
               fd'[j] = fd[j] /\ (fd[j] \in Fds => cwds'[fd[j]] = cwds[fd[j]])
    PROVE  Where(b)' = Where(b)
BY DEF Where, Directory, Fds

\* A step of client c shows nothing of the others, nor does the service of a
\* connection, but of the client that uses it.
LEMMA OthersKept ==
    ASSUME IInv, NEW c \in Clients, UNCHANGED svars,
           \A b \in Clients : b # c => /\ cpc'[b] = cpc[b] /\ carg'[b] = carg[b]
                                       /\ sock'[b] = sock[b],
           \A j \in Made : owner[j] # c =>
               /\ toServer'[j] = toServer[j] /\ toClient'[j] = toClient[j]
               /\ fd'[j] = fd[j]
    PROVE  KeptBut(c)
<1> SUFFICES ASSUME NEW b \in Clients, b # c PROVE Kept(b)
  BY DEF KeptBut
<1>1. SUFFICES ASSUME NEW j, j = sock[b] PROVE Kept(b)
  OBVIOUS
<1>2. /\ cpc'[b] = cpc[b] /\ carg'[b] = carg[b] /\ sock'[b] = j /\ cwds' = cwds
  BY <1>1 DEF svars
<1>3. j # 0 => j \in Made /\ owner[j] = b
  BY <1>1 DEF IInv, TypeOK, ClientTypeOK, ClientInv
<1>4. Busy(b) => j # 0
  BY <1>1 DEF IInv, ClientInv
<1>5. j # 0 => toServer'[j] = toServer[j] /\ toClient'[j] = toClient[j] /\ fd'[j] = fd[j]
  BY <1>3
<1> QED
  BY <1>1, <1>2, <1>4, <1>5, CallKept, WhereKept DEF Kept

LEMMA OthersServed ==
    ASSUME IInv, NEW k \in Made, UNCHANGED cvars,
           \A j \in Made : j # k => /\ toServer'[j] = toServer[j]
                                    /\ toClient'[j] = toClient[j]
                                    /\ fd'[j] = fd[j],
           \A f \in Fds : f # fd[k] => cwds'[f] = cwds[f], fd[k] \in Fds,
           NEW b \in Clients, ~Current(k) \/ b # owner[k]
    PROVE  Kept(b)
<1>1. SUFFICES ASSUME NEW j, j = sock[b] PROVE Kept(b)
  OBVIOUS
<1>2. cpc'[b] = cpc[b] /\ carg'[b] = carg[b] /\ sock'[b] = j
  BY <1>1 DEF cvars
<1>3. j # 0 => j \in Made /\ owner[j] = b
  BY <1>1 DEF IInv, TypeOK, ClientTypeOK, ClientInv
<1>4. Busy(b) => j # 0 /\ cpc[b] # "exit"
  BY <1>1 DEF IInv, ClientInv, Busy
<1>5. ASSUME j # 0, cpc[b] # "exit"
      PROVE  /\ toServer'[j] = toServer[j] /\ toClient'[j] = toClient[j]
             /\ fd'[j] = fd[j] /\ (fd[j] \in Fds => cwds'[fd[j]] = cwds[fd[j]])
  <2>1. j # k
    BY <1>1, <1>3, <1>5 DEF Current
  <2>2. fd[j] \in Fds => fd[j] # fd[k]
    BY <1>3, <1>5, <2>1 DEF IInv, FdInv
  <2> QED
    BY <1>3, <1>5, <2>1, <2>2
<1> QED
  BY <1>1, <1>2, <1>4, <1>5, CallKept, WhereKept DEF Kept

-----------------------------------------------------------------------------
\* What the answers mean.
LEMMA LastMeans ==
    ASSUME NEW cmd, cmd \notin {"put", "quit"}, NEW out, NEW a, NEW b,
           out = <<a>> \/ out = <<b, a>>
    PROVE  Meaning(cmd, out) = IF cmd = "ls" \/ a.type = "FILE_DATA" THEN a.arg
                               ELSE IF a.arg = 1 THEN "yes" ELSE "no"
<1>1. out # <<>> /\ out[Len(out)] = a
  BY SMTT(40), Queues
<1> QED
  BY <1>1 DEF Meaning

LEMMA ReplyMeans ==
    ASSUME NEW cmd \in {"open", "ls", "cd", "get", "sha"}, NEW arg, NEW out,
           out = <<Reply(cmd, arg)>>
    PROVE  Meaning(cmd, out) = IF cmd = "ls" THEN arg
                               ELSE IF arg = 1 THEN "yes" ELSE "no"
<1>1. PICK m : m = Reply(cmd, arg)
  OBVIOUS
<1>2. m.arg = arg /\ m.type # "FILE_DATA" /\ out = <<m>>
  BY <1>1, Messages
<1>3. Meaning(cmd, out) = IF cmd = "ls" \/ m.type = "FILE_DATA" THEN m.arg
                          ELSE IF m.arg = 1 THEN "yes" ELSE "no"
  BY <1>2, LastMeans
<1> QED
  BY <1>2, <1>3

LEMMA DataMeans ==
    ASSUME NEW cmd \in {"get", "sha"}, NEW d, NEW out, NEW m,
           out = <<FileData(d)>> \/ out = <<m, FileData(d)>>
    PROVE  Meaning(cmd, out) = d
<1>1. PICK a : a = FileData(d)
  OBVIOUS
<1>2. a.arg = d /\ a.type = "FILE_DATA" /\ (out = <<a>> \/ out = <<m, a>>)
  BY <1>1, Messages
<1>3. Meaning(cmd, out) = IF cmd = "ls" \/ a.type = "FILE_DATA" THEN a.arg
                          ELSE IF a.arg = 1 THEN "yes" ELSE "no"
  BY <1>2, LastMeans
<1> QED
  BY <1>2, <1>3

LEMMA NothingMeans ==
    \A cmd : Meaning(cmd, <<>>) = IF cmd \in {"put", "quit"} THEN "done" ELSE "yes"
BY DEF Meaning

-----------------------------------------------------------------------------
\* The steps of the server.
Mapped == Service!ServiceNext \/ UNCHANGED Service!servicevars

LEMMA Working == spc = "loop" => Stored = files
BY DEF Stored

\* The call of the client whose request the main loop reads.
LEMMA ServedCall ==
    ASSUME IInv, NEW k \in Made, spc = "loop", Ready(k), Current(k)
    PROVE  LET c == owner[k]
               m == Message(k)
           IN  /\ c \in Clients /\ sock[c] = k /\ cpc[c] = m.cmd /\ m.cmd \in Commands
               /\ Busy(c) /\ Command(c) = m.cmd
               /\ CallOf(c) = CallIs("asked", m.cmd, carg[c], Blank)
               /\ m.cmd # "open" => carg[c] = m.arg
               /\ Where(c) = Directory(k)
<1>1. SUFFICES ASSUME NEW c, c = owner[k], NEW m, m = Message(k)
               PROVE  /\ c \in Clients /\ sock[c] = k /\ cpc[c] = m.cmd
                      /\ m.cmd \in Commands
                      /\ Busy(c) /\ Command(c) = m.cmd
                      /\ CallOf(c) = CallIs("asked", m.cmd, carg[c], Blank)
                      /\ m.cmd # "open" => carg[c] = m.arg
                      /\ Where(c) = Directory(k)
  OBVIOUS
<1>2. /\ c \in Clients /\ sock[c] = k /\ cpc[c] = m.cmd /\ m \in Requests
      /\ m.cmd # "open" => carg[c] = m.arg
      /\ toServer[k] # <<>> /\ fd[k] \in Fds /\ k # 0 /\ cpc[c] # "exit"
  BY <1>1, Served DEF IInv, TypeOK, ConnTypeOK, Current, Ready, Made
<1>3. m.cmd \in Commands
  BY <1>2, Messages
<1>4. Busy(c) /\ Command(c) = m.cmd
  BY <1>2, <1>3 DEF Busy, Command, Commands
<1>5. CallOf(c) = CallIs("asked", m.cmd, carg[c], Blank)
  BY <1>2, <1>4 DEF CallOf, Asked, Busy
<1>6. Where(c) = Directory(k)
  BY <1>2 DEF Where
<1> QED
  BY <1>2, <1>3, <1>4, <1>5, <1>6

\* The service of a request takes effect for its client, if that is still there.
LEMMA AnswerShown ==
    ASSUME IInv, NEW k \in Made, NEW cmd, NEW out, <<>> \o out = out, out # <<>>,
           Serves(k, cmd, out), UNCHANGED <<cvars, files>>,
           fd' = fd \/ Frees(k), \A f \in Fds : f # fd[k] => cwds'[f] = cwds[f],
           spc' = "loop" \/ serving' = k,
           NEW c, c = owner[k], NEW arg, arg = carg[c],
           Current(k) =>
               /\ Meaning(cmd, out) = Service!AnswerTo(c, cmd, arg)
               /\ Where(c)' = CASE cmd = "cd" /\ arg # Nothing -> arg
                                [] cmd = "quit" -> dft_path
                                [] OTHER -> Where(c)
    PROVE  Mapped
<1>1. /\ spc = "loop" /\ Ready(k) /\ fd[k] \in Fds
      /\ toServer' = Taken(toServer, k) /\ toClient' = Sent(toClient, k, out)
      /\ Message(k).cmd = cmd /\ Directory(k) \in Dirs
      /\ Current(k) => toClient'[k] = out
  BY ServesFacts
<1>2. UNCHANGED cvars /\ files' = files
  OBVIOUS
<1>3. /\ toServer'[k] = <<>>
      /\ \A j \in Made : j # k => /\ toServer'[j] = toServer[j]
                                  /\ toClient'[j] = toClient[j]
                                  /\ fd'[j] = fd[j]
  <2>1. DOMAIN toServer = Made /\ DOMAIN toClient = Made /\ DOMAIN fd = Made
    BY DEF IInv, TypeOK, ConnTypeOK
  <2>2. toServer' = [toServer EXCEPT ![k] = <<>>]
    BY <1>1, Served
  <2> QED
    BY <1>1, <2>1, <2>2 DEF Sent, Frees
<1>4. Stored' = Stored
  BY <1>1, <1>2, <1>3 DEF Stored
<1>5. ASSUME NEW b \in Clients, ~Current(k) \/ b # c PROVE Kept(b)
  BY <1>1, <1>2, <1>3, <1>5, OthersServed
<1>6. CASE ~Current(k)
  <2>1. local' = local
    BY <1>2 DEF cvars
  <2> QED
    BY <1>4, <1>5, <1>6, <2>1, NothingShown DEF Mapped
<1>7. CASE Current(k)
  <2>1. /\ c \in Clients /\ sock[c] = k /\ Busy(c) /\ Command(c) = cmd
        /\ cpc[c] = cmd /\ cmd \in Commands
        /\ CallOf(c) = CallIs("asked", cmd, arg, Blank) /\ Where(c) = Directory(k)
    <3>1. /\ owner[k] \in Clients /\ sock[owner[k]] = k /\ Busy(owner[k])
          /\ Command(owner[k]) = cmd /\ cpc[owner[k]] = cmd /\ cmd \in Commands
          /\ CallOf(owner[k]) = CallIs("asked", cmd, carg[owner[k]], Blank)
          /\ Where(owner[k]) = Directory(k)
      BY <1>1, <1>7, ServedCall
    <3> QED
      BY <3>1
  <2>2. /\ cpc'[c] = cmd /\ carg'[c] = arg /\ sock'[c] = k /\ local' = local
        /\ toClient'[k] = out /\ toServer'[k] = <<>>
    BY <1>1, <1>2, <1>3, <1>7, <2>1 DEF cvars
  <2>3. Busy(c)' /\ Command(c)' = cmd /\ ~Asked(c)' /\ ~Missing(c)'
    BY <2>1, <2>2 DEF Busy, Command, Commands, Asked, Missing
  <2>4. CallOf(c)' = CallIs("done", cmd, arg, Meaning(cmd, out))
    BY <2>2, <2>3 DEF CallOf, Busy
  <2>5. KeptBut(c)
    BY <1>5 DEF KeptBut
  <2>6. Where(c) # AFile
    BY <1>1, <2>1, FtpAssumption
  <2> QED
    BY <1>4, <1>7, <2>1, <2>2, <2>4, <2>5, <2>6, Performed DEF Mapped
<1> QED
  BY <1>6, <1>7

LEMMA WhereNext ==
    ASSUME NEW k, NEW c, c = owner[k], Current(k), k # 0, UNCHANGED cvars,
           fd'[k] = fd[k], fd[k] \in Fds
    PROVE  Where(c)' = IF cwds'[fd[k]] = NULL THEN dft_path ELSE cwds'[fd[k]]
<1>1. cpc'[c] # "exit" /\ sock'[c] = k
  BY DEF Current, cvars
<1> QED
  BY <1>1 DEF Where, Directory, Fds

\* The client that is served is where it was, if its slot is not touched.
LEMMA WhereStays ==
    ASSUME NEW k \in Made, NEW c, c = owner[k], Current(k), UNCHANGED <<cvars, fd, cwds>>
    PROVE  Where(c)' = Where(c)
BY DEF Where, Directory, Fds, cvars

LEMMA LookupShown ==
    ASSUME IInv, NEW k \in Made, do_ls(k) \/ do_get(k) \/ do_sha(k), UNCHANGED cvars
    PROVE  Mapped
<1>1. PICK c, arg : c = owner[k] /\ arg = carg[c]
  OBVIOUS
<1>2. PICK cmd, out :
          /\ Serves(k, cmd, out) /\ UNCHANGED <<fd, svars>>
          /\ \/ cmd = "ls" /\ out = <<Reply("ls", Directory(k))>>
             \/ /\ cmd \in {"get", "sha"}
                /\ \/ Entry(k) = Nothing /\ out = <<Reply(cmd, 0)>>
                   \/ cmd = "get" /\ Entry(k) = Folder /\ out = <<Reply("get", 1)>>
                   \/ /\ cmd = "sha" /\ Entry(k) = Folder
                      /\ out = <<Reply("sha", 1), FileData(Nothing)>>
                   \/ /\ Entry(k) \notin {Nothing, Folder}
                      /\ out = <<Reply(cmd, 1), FileData(Entry(k))>>
  BY DEF do_ls, do_get, do_sha
<1>3. <<>> \o out = out /\ out # <<>>
  BY <1>2, Joins, Queues
<1>4. spc = "loop" /\ Ready(k) /\ Message(k).cmd = cmd /\ Stored = files
  BY <1>2, Working DEF Serves
<1>5. /\ UNCHANGED <<cvars, files>> /\ fd' = fd /\ cwds' = cwds /\ spc' = "loop"
      /\ UNCHANGED <<cvars, fd, cwds>>
  BY <1>2, <1>4 DEF svars
<1>6. ASSUME Current(k)
      PROVE  /\ Meaning(cmd, out) = Service!AnswerTo(c, cmd, arg)
             /\ Where(c)' = CASE cmd = "cd" /\ arg # Nothing -> arg
                              [] cmd = "quit" -> dft_path
                              [] OTHER -> Where(c)
  <2>1. c \in Clients /\ arg = Message(k).arg /\ Where(c) = Directory(k)
    BY <1>1, <1>2, <1>4, <1>6, ServedCall
  <2>2. Where(c)' = Where(c)
    BY <1>1, <1>5, <1>6, WhereStays
  <2>3. Places[c] = Directory(k) /\ Stored[Places[c]][arg] = Entry(k)
    BY <1>4, <2>1 DEF Places, Entry
  <2>4. CASE cmd = "ls"
    <3>1. Meaning(cmd, out) = Directory(k)
      BY <1>2, <2>4, ReplyMeans
    <3>2. Service!AnswerTo(c, cmd, arg) = Places[c]
      BY <2>4 DEF Service!AnswerTo
    <3> QED
      BY <2>2, <2>3, <2>4, <3>1, <3>2
  <2>5. CASE cmd \in {"get", "sha"}
    <3>1. Service!AnswerTo(c, cmd, arg)
            = IF Entry(k) = Nothing THEN "no"
              ELSE IF Entry(k) = Folder THEN IF cmd = "get" THEN "yes" ELSE Nothing
              ELSE Entry(k)
      <4>1. Service!Nothing = Nothing /\ Service!Folder = Folder /\ Folder # Nothing
        BY SameNames DEF Folder, Nothing
      <4>2. ASSUME NEW e, e = Entry(k)
            PROVE  /\ cmd = "get" => Service!AnswerTo(c, cmd, arg)
                         = CASE e = Nothing -> "no" [] e = Folder -> "yes" [] OTHER -> e
                   /\ cmd = "sha" => Service!AnswerTo(c, cmd, arg)
                         = CASE e = Nothing -> "no" [] e = Folder -> Nothing [] OTHER -> e
        BY <2>3, <4>1, <4>2 DEF Service!AnswerTo
      <4> QED
        BY <2>5, <4>1, <4>2
    <3>2. Entry(k) = Nothing => Meaning(cmd, out) = "no"
      BY <1>2, <2>5, ReplyMeans DEF Folder, Nothing
    <3>3. cmd = "get" /\ Entry(k) = Folder => Meaning(cmd, out) = "yes"
      BY <1>2, <2>5, ReplyMeans DEF Folder, Nothing
    <3>4. cmd = "sha" /\ Entry(k) = Folder => Meaning(cmd, out) = Nothing
      BY <1>2, <2>5, DataMeans DEF Folder, Nothing
    <3>5. Entry(k) \notin {Nothing, Folder} => Meaning(cmd, out) = Entry(k)
      BY <1>2, <2>5, DataMeans
    <3>6. Folder # Nothing
      BY DEF Folder, Nothing
    <3> QED
      BY <2>2, <2>5, <3>1, <3>2, <3>3, <3>4, <3>5, <3>6
  <2> QED
    BY <1>2, <2>4, <2>5
<1> QED
  BY <1>1, <1>2, <1>3, <1>5, <1>6, AnswerShown

LEMMA OpenShown ==
    ASSUME IInv, NEW k \in Made, do_open(k), UNCHANGED cvars
    PROVE  Mapped
<1>1. PICK c, arg, cmd, out : /\ c = owner[k] /\ arg = carg[c]
                              /\ cmd = "open" /\ out = <<Reply(cmd, 1)>>
  OBVIOUS
<1>2. /\ Serves(k, cmd, out) /\ cwds' = [cwds EXCEPT ![fd[k]] = dft_path]
      /\ UNCHANGED <<fd, spc, files>>
  BY <1>1 DEF do_open
<1>3. /\ spc = "loop" /\ Ready(k) /\ Message(k).cmd = cmd /\ fd[k] \in Fds
      /\ cwds \in [Fds -> Dirs \cup {AFile, NULL}] /\ ConnInv(k) /\ k # 0
  BY <1>2 DEF Serves, Ready, IInv, TypeOK, ServerTypeOK, Made
<1>4. <<>> \o out = out /\ out # <<>>
  BY <1>1, Joins, Queues
<1>5. /\ UNCHANGED <<cvars, files>> /\ fd' = fd /\ spc' = "loop"
      /\ cwds'[fd[k]] = dft_path /\ \A f \in Fds : f # fd[k] => cwds'[f] = cwds[f]
  BY <1>2, <1>3
<1>6. ASSUME Current(k)
      PROVE  /\ Meaning(cmd, out) = Service!AnswerTo(c, cmd, arg)
             /\ Where(c)' = CASE cmd = "cd" /\ arg # Nothing -> arg
                              [] cmd = "quit" -> dft_path
                              [] OTHER -> Where(c)
  <2>1. cpc[c] = "open" /\ Where(c) = Directory(k)
    BY <1>1, <1>3, <1>6, ServedCall
  <2>2. Where(c) = dft_path
    BY <1>1, <1>3, <1>6, <2>1 DEF ConnInv, HomeInv, Directory
  <2>3. Where(c)' = dft_path
    BY <1>1, <1>3, <1>5, <1>6, WhereNext
  <2>4. Meaning(cmd, out) = "yes" /\ Service!AnswerTo(c, cmd, arg) = "yes"
    BY <1>1, ReplyMeans DEF Service!AnswerTo
  <2> QED
    BY <1>1, <2>2, <2>3, <2>4
<1> QED
  BY <1>1, <1>2, <1>4, <1>5, <1>6, AnswerShown

LEMMA QuitShown ==
    ASSUME IInv, NEW k \in Made, do_quit(k), UNCHANGED cvars
    PROVE  Mapped
<1>1. PICK c, arg, cmd, out : /\ c = owner[k] /\ arg = carg[c]
                              /\ cmd = "quit" /\ out = <<Reply(cmd, 0)>>
  OBVIOUS
<1>2. /\ Serves(k, cmd, out) /\ cwds' = [cwds EXCEPT ![fd[k]] = NULL]
      /\ fd' = [fd EXCEPT ![k] = Closed] /\ UNCHANGED <<spc, files>>
  BY <1>1 DEF do_quit
<1>3. /\ spc = "loop" /\ Ready(k) /\ Message(k).cmd = cmd /\ fd[k] \in Fds
      /\ cwds \in [Fds -> Dirs \cup {AFile, NULL}] /\ DOMAIN fd = Made
  BY <1>2 DEF Serves, Ready, IInv, TypeOK, ServerTypeOK, ConnTypeOK
<1>4. <<>> \o out = out /\ out # <<>>
  BY <1>1, Joins, Queues
<1>5. /\ UNCHANGED <<cvars, files>> /\ Frees(k) /\ spc' = "loop" /\ fd'[k] = Closed
      /\ \A f \in Fds : f # fd[k] => cwds'[f] = cwds[f]
  BY <1>2, <1>3 DEF Frees
<1>6. ASSUME Current(k)
      PROVE  /\ Meaning(cmd, out) = Service!AnswerTo(c, cmd, arg)
             /\ Where(c)' = CASE cmd = "cd" /\ arg # Nothing -> arg
                              [] cmd = "quit" -> dft_path
                              [] OTHER -> Where(c)
  <2>1. sock'[c] = k /\ fd'[k] \notin Fds'
    BY <1>1, <1>5, <1>6 DEF Current, cvars, Closed, Fds, FirstFd
  <2>2. Where(c)' = dft_path
    BY <2>1 DEF Where
  <2>3. Meaning(cmd, out) = "done" /\ Service!AnswerTo(c, cmd, arg) = "done"
    BY <1>1 DEF Meaning, Service!AnswerTo
  <2> QED
    BY <1>1, <2>2, <2>3
<1> QED
  BY <1>1, <1>2, <1>4, <1>5, <1>6, AnswerShown

LEMMA CdShown ==
    ASSUME IInv, NEW k \in Made, do_cd(k), UNCHANGED cvars
    PROVE  Mapped
<1>1. PICK c, arg, cmd, path, st, out :
          /\ c = owner[k] /\ arg = carg[c] /\ cmd = "cd" /\ path = Message(k).arg
          /\ st = (IF path = Nothing THEN 0 ELSE 1) /\ out = <<Reply(cmd, st)>>
  OBVIOUS
<1>2. /\ Serves(k, cmd, out) /\ UNCHANGED <<fd, spc, files>>
      /\ cwds' = IF st = 1 THEN [cwds EXCEPT ![fd[k]] = path] ELSE cwds
  BY <1>1 DEF do_cd
<1>3. /\ spc = "loop" /\ Ready(k) /\ Message(k).cmd = cmd /\ fd[k] \in Fds
      /\ cwds \in [Fds -> Dirs \cup {AFile, NULL}] /\ k # 0
  BY <1>2 DEF Serves, Ready, IInv, TypeOK, ServerTypeOK, Made
<1>4. <<>> \o out = out /\ out # <<>>
  BY <1>1, Joins, Queues
<1>5. /\ UNCHANGED <<cvars, files>> /\ fd' = fd /\ spc' = "loop"
      /\ cwds'[fd[k]] = IF path = Nothing THEN cwds[fd[k]] ELSE path
      /\ \A f \in Fds : f # fd[k] => cwds'[f] = cwds[f]
  BY <1>1, <1>2, <1>3
<1>6. path \in CdArgs
  BY <1>1, <1>3, Served, Messages
<1>7. ASSUME Current(k)
      PROVE  /\ Meaning(cmd, out) = Service!AnswerTo(c, cmd, arg)
             /\ Where(c)' = CASE cmd = "cd" /\ arg # Nothing -> arg
                              [] cmd = "quit" -> dft_path
                              [] OTHER -> Where(c)
  <2>1. arg = path /\ Where(c) = Directory(k)
    BY <1>1, <1>3, <1>7, ServedCall
  <2>2. Where(c)' = IF path = Nothing THEN Where(c) ELSE path
    <3>1. Where(c)' = IF cwds'[fd[k]] = NULL THEN dft_path ELSE cwds'[fd[k]]
      BY <1>1, <1>3, <1>5, <1>7, WhereNext
    <3>2. path # NULL
      BY <1>6, FtpAssumption DEF AFile, Nothing, NULL
    <3> QED
      BY <1>5, <2>1, <3>1, <3>2 DEF Directory
  <2>3. Meaning(cmd, out) = IF path = Nothing THEN "no" ELSE "yes"
    BY <1>1, ReplyMeans
  <2>4. Service!AnswerTo(c, cmd, arg) = IF arg = Nothing THEN "no" ELSE "yes"
    BY <1>1, SameNames DEF Service!AnswerTo
  <2> QED
    BY <1>1, <2>1, <2>2, <2>3, <2>4
<1> QED
  BY <1>1, <1>2, <1>4, <1>5, <1>7, AnswerShown

LEMMA PutShown ==
    ASSUME IInv, NEW k \in Made, do_put(k), UNCHANGED cvars
    PROVE  Mapped
<1>1. PICK c, arg, cmd, out : /\ c = owner[k] /\ arg = carg[c]
                              /\ cmd = "put" /\ out = <<Reply(cmd, 0)>>
  OBVIOUS
<1>2. /\ Serves(k, cmd, out) /\ serving' = k /\ UNCHANGED <<fd, cwds, files>>
  BY <1>1 DEF do_put
<1>3. <<>> \o out = out /\ out # <<>>
  BY <1>1, Joins, Queues
<1>4. /\ UNCHANGED <<cvars, files>> /\ fd' = fd /\ cwds' = cwds
      /\ UNCHANGED <<cvars, fd, cwds>>
  BY <1>2
<1>5. ASSUME Current(k)
      PROVE  /\ Meaning(cmd, out) = Service!AnswerTo(c, cmd, arg)
             /\ Where(c)' = CASE cmd = "cd" /\ arg # Nothing -> arg
                              [] cmd = "quit" -> dft_path
                              [] OTHER -> Where(c)
  <2>1. Where(c)' = Where(c)
    BY <1>1, <1>4, <1>5, WhereStays
  <2>2. Meaning(cmd, out) = "done" /\ Service!AnswerTo(c, cmd, arg) = "done"
    BY <1>1 DEF Meaning, Service!AnswerTo
  <2> QED
    BY <1>1, <2>1, <2>2
<1> QED
  BY <1>1, <1>2, <1>3, <1>4, <1>5, AnswerShown

\* A request that chdir to a file drops is lost; one that is dropped with the
\* whole server was nobody's.
LEMMA DroppedShown ==
    ASSUME IInv, NEW k \in Made, spc = "loop", Ready(k),
           toServer' = Taken(toServer, k), UNCHANGED <<toClient, fd, svars, cvars>>
    PROVE  Mapped
<1>1. /\ UNCHANGED <<toClient, fd, spc, serving, args, pwd, cwds, files>>
      /\ UNCHANGED <<cpc, carg, connected, sock, local, home>>
  BY DEF svars, cvars
<1>2. /\ toServer'[k] = <<>>
      /\ \A j \in Made : j # k => toServer'[j] = toServer[j]
  <2>1. DOMAIN toServer = Made /\ toServer' = [toServer EXCEPT ![k] = <<>>]
    BY Served DEF IInv, TypeOK, ConnTypeOK
  <2> QED
    BY <2>1
<1>3. Stored' = Stored
  BY <1>1 DEF Stored
<1>4. fd[k] \in Fds
  BY DEF Ready
<1>5. ASSUME NEW b \in Clients, ~Current(k) \/ b # owner[k] PROVE Kept(b)
  BY <1>1, <1>2, <1>4, <1>5, OthersServed
<1>6. CASE ~Current(k)
  BY <1>1, <1>3, <1>5, <1>6, NothingShown DEF Mapped
<1>7. CASE Current(k)
  <2>1. PICK c, cmd, arg : c = owner[k] /\ cmd = Message(k).cmd /\ arg = carg[c]
    OBVIOUS
  <2>2. /\ c \in Clients /\ sock[c] = k /\ cpc[c] = cmd /\ cmd \in Commands
        /\ Busy(c) /\ Command(c) = cmd
        /\ CallOf(c) = CallIs("asked", cmd, arg, Blank)
    BY <1>7, <2>1, ServedCall
  <2>3. /\ cpc'[c] = cmd /\ carg'[c] = arg /\ sock'[c] = k
        /\ toClient'[k] = <<>> /\ toServer'[k] = <<>>
    BY <1>1, <1>2, <1>7, <2>1, <2>2, Served
  <2>4. Busy(c)' /\ Command(c)' = cmd /\ ~Asked(c)' /\ Missing(c)'
    BY <2>2, <2>3 DEF Busy, Command, Commands, Asked, Missing
  <2>5. CallOf(c)' = CallIs("lost", cmd, arg, Blank)
    BY <2>3, <2>4 DEF CallOf, Busy
  <2>6. KeptBut(c)
    BY <1>5, <2>1 DEF KeptBut
  <2>7. Where(c)' = Where(c)
    BY <1>1, <1>7, <2>1, WhereStays DEF cvars
  <2> QED
    BY <1>1, <1>3, <2>2, <2>5, <2>6, <2>7, WasLost DEF Mapped
<1> QED
  BY <1>6, <1>7

\* A connection that is accepted has the default directory as before.
LEMMA AcceptShown ==
    ASSUME IInv, Accept, UNCHANGED cvars
    PROVE  Mapped
<1>1. PICK k \in Made : fd[k] = Waiting /\ fd' = [fd EXCEPT ![k] = NewFd]
  BY DEF Accept
<1>2. /\ UNCHANGED <<toServer, toClient, spc, serving, args, pwd, cwds, files>>
      /\ UNCHANGED <<cpc, carg, connected, sock, local, home>>
      /\ spc = "loop"
  BY DEF Accept, svars, cvars
<1>3. NewFd \in Fds /\ \A j \in Made : fd[j] # NewFd
  BY <1>1, NewFdIsFree, FtpAssumption DEF IInv, TypeOK, ConnTypeOK
<1>4. cwds[NewFd] = NULL
  BY <1>3 DEF IInv, FdInv
<1>5. fd'[k] = NewFd /\ \A j \in Made : j # k => fd'[j] = fd[j]
  BY <1>1 DEF IInv, TypeOK, ConnTypeOK
<1>6. ASSUME NEW b \in Clients PROVE Kept(b)
  <2>1. PICK j : j = sock[b]
    OBVIOUS
  <2>2. j # 0 => j \in Made
    BY <2>1 DEF IInv, TypeOK, ClientTypeOK
  <2>3. CallOf(b)' = CallOf(b)
    BY <1>2, <2>1, CallKept
  <2>4. CASE j # k
    <3>1. j # 0 => fd'[j] = fd[j]
      BY <1>5, <2>2, <2>4
    <3>2. Where(b)' = Where(b)
      BY <1>2, <2>1, <3>1, WhereKept
    <3> QED
      BY <2>3, <3>2 DEF Kept
  <2>5. CASE j = k
    <3>1. fd[sock[b]] \notin Fds
      BY <1>1, <2>1, <2>5, NoFds
    <3>2. fd'[sock'[b]] = NewFd /\ cwds'[NewFd] = NULL
      BY <1>2, <1>4, <1>5, <2>1, <2>5
    <3>3. Where(b) = dft_path /\ Where(b)' = dft_path
      BY <3>1, <3>2 DEF Where, Directory
    <3> QED
      BY <2>3, <3>3 DEF Kept
  <2> QED
    BY <2>4, <2>5
<1>7. Stored' = Stored
  BY <1>2 DEF Stored
<1> QED
  BY <1>2, <1>6, <1>7, NothingShown DEF Mapped

\* The file that do_put reads was stored already; a request that it takes for
\* the file is lost.
LEMMA PutReceivesShown ==
    ASSUME IInv, PutReceives, UNCHANGED cvars
    PROVE  Mapped
<1>1. PICK k : k = serving
  OBVIOUS
<1>2. /\ k \in Made /\ ConnInv(k) /\ spc = "put" /\ Ready(k) /\ fd[k] \in Fds
      /\ toServer[k] # <<>> /\ spc' = "loop"
      /\ UNCHANGED <<toClient, fd, cwds, cpc, carg, connected, sock, local, home>>
  BY <1>1, PutReads DEF PutReceives, PutEnds, Ready, cvars
<1>3. /\ toServer'[k] = Tail(toServer[k])
      /\ \A j \in Made : j # k => toServer'[j] = toServer[j]
  BY <1>1, <1>2 DEF PutReceives, Taken, IInv, TypeOK, ConnTypeOK
<1>4. Stored' = Stored
  <2>1. Stored' = files'
    BY <1>2 DEF Stored
  <2>2. Stored = IF Message(k).type = "FILE_DATA" /\ files[pwd][args] # Folder
                 THEN [files EXCEPT ![pwd][args] = Message(k).arg] ELSE files
    BY <1>1, <1>2 DEF Stored
  <2>3. files' = IF Message(k).type = "FILE_DATA" /\ files[pwd][args] # Folder
                 THEN [files EXCEPT ![pwd][args] = Message(k).arg] ELSE files
    BY <1>1 DEF PutReceives
  <2> QED
    BY <2>1, <2>2, <2>3
<1>5. ASSUME NEW b \in Clients, ~Current(k) \/ b # owner[k] PROVE Kept(b)
  BY <1>2, <1>3, <1>5, OthersServed
<1>6. CASE ~Current(k)
  BY <1>2, <1>4, <1>5, <1>6, NothingShown DEF Mapped
<1>7. CASE Current(k)
  <2>1. PICK c : c = owner[k] /\ c \in Clients
    BY <1>2 DEF IInv, TypeOK, ConnTypeOK
  <2>2. sock[c] = k /\ cpc[c] # "exit" /\ Where(c)' = Where(c)
    <3>1. sock[c] = k /\ cpc[c] # "exit"
      BY <1>7, <2>1 DEF Current
    <3> QED
      BY <1>2, <3>1, WhereKept
  <2>3. KeptBut(c)
    BY <1>5, <2>1 DEF KeptBut
  <2>4. ASSUME CallOf(c)' = CallOf(c) PROVE Mapped
    <3>1. \A b \in Clients : Kept(b)
      BY <2>2, <2>3, <2>4 DEF KeptBut, Kept
    <3> QED
      BY <1>2, <1>4, <3>1, NothingShown DEF Mapped
  <2>5. CASE cpc[c] = "prompt"
    <3>1. CallOf(c)' = CallOf(c)
      BY <1>2, <2>5 DEF CallOf
    <3> QED
      BY <2>4, <3>1
  <2>6. CASE toServer'[k] # <<>> /\ Busy(c)
    <3>1. Busy(c)' /\ Command(c)' = Command(c) /\ Asked(c) /\ Asked(c)'
      BY <1>2, <2>2, <2>6 DEF Busy, Command, Asked
    <3>2. CallOf(c)' = CallOf(c)
      BY <1>2, <3>1 DEF CallOf, Busy
    <3> QED
      BY <2>4, <3>2
  <2>7. ASSUME NEW m \in Requests, toServer[k] = <<m>> PROVE Mapped
    <3>1. toServer'[k] = <<>> /\ toClient[k] = <<>>
      BY <1>2, <1>3, <1>7, <2>7, Queues DEF ConnInv, AnswerInv
    <3>2. cpc[c] = m.cmd /\ m.cmd \in Commands
      BY <1>2, <1>7, <2>1, <2>7, Messages DEF ConnInv, RequestInv, Pending, GoneInv, Ready
    <3>3. /\ Busy(c) /\ Busy(c)' /\ Command(c)' = Command(c)
          /\ Asked(c) /\ ~Asked(c)' /\ Missing(c)'
      BY <1>2, <2>2, <3>1, <3>2 DEF Busy, Command, Commands, Asked, Missing
    <3>4. /\ CallOf(c) = CallIs("asked", Command(c), carg[c], Blank)
          /\ CallOf(c)' = CallIs("lost", Command(c), carg[c], Blank)
      BY <1>2, <3>3 DEF CallOf, Busy
    <3> QED
      BY <1>2, <1>4, <2>1, <2>2, <2>3, <3>4, WasLost DEF Mapped
  <2>8. cpc[c] = "prompt" \/ Busy(c)
    BY <2>2 DEF Busy
  <2>9. CASE toServer[k] = <<FileData(File(k))>> /\ cpc[c] = "prompt"
    BY <2>5, <2>9
  <2>10. ASSUME NEW m \in Requests, toServer[k] = <<FileData(File(k)), m>> PROVE Mapped
    <3>1. toServer'[k] # <<>>
      BY <1>3, <2>10, Queues
    <3> QED
      BY <2>5, <2>6, <2>8, <3>1
  <2> QED
    BY <1>2, <1>7, <2>1, <2>7, <2>9, <2>10 DEF ConnInv, QueueInv, Pending
<1> QED
  BY <1>6, <1>7

\* A put that is given up changes nothing.
LEMMA PutFailsShown ==
    ASSUME IInv, PutFails, UNCHANGED cvars
    PROVE  Mapped
<1>1. /\ spc = "put" /\ spc' = "loop" /\ toServer[serving] = <<>>
      /\ UNCHANGED <<toServer, toClient, fd, cwds, files>>
      /\ UNCHANGED <<cpc, carg, connected, sock, local, home>>
  BY DEF PutFails, PutEnds, cvars
<1>2. Stored' = Stored
  BY <1>1 DEF Stored
<1>3. ASSUME NEW b \in Clients PROVE Kept(b)
  BY <1>1, CallKept, WhereKept DEF Kept
<1> QED
  BY <1>1, <1>2, <1>3, NothingShown DEF Mapped

\* So every step of the server is a step of the service or shows nothing.
LEMMA ServerShown ==
    ASSUME IInv, Accept \/ (\E k \in Made : Serve(k)) \/ Put, UNCHANGED cvars
    PROVE  Mapped
<1>1. ASSUME NEW k \in Made, ChdirFails(k) \/ BrokenPipe(k) PROVE Mapped
  <2>1. /\ spc = "loop" /\ Ready(k) /\ toServer' = Taken(toServer, k)
        /\ UNCHANGED <<toClient, fd, svars, cvars>>
    BY <1>1 DEF ChdirFails, BrokenPipe
  <2> QED
    BY <2>1, DroppedShown
<1>2. ASSUME NEW k \in Made, Serve(k) PROVE Mapped
  BY <1>1, <1>2, OpenShown, QuitShown, LookupShown, CdShown, PutShown DEF Serve
<1> QED
  BY <1>2, AcceptShown, PutReceivesShown, PutFailsShown DEF Put

-----------------------------------------------------------------------------
\* The steps of a client.

\* A file counts as stored from when it is the first thing on its way.
LEMMA StoredKept ==
    ASSUME UNCHANGED svars,
           spc = "put" =>
               \/ toServer'[serving] = toServer[serving]
               \/ /\ toServer[serving] # <<>> /\ toServer'[serving] # <<>>
                  /\ Head(toServer'[serving]) = Head(toServer[serving])
               \/ /\ toServer[serving] = <<>>
                  /\ Head(toServer'[serving]).type # "FILE_DATA"
    PROVE  Stored' = Stored
BY DEF Stored, Message, svars

LEMMA AtPrompt ==
    ASSUME NEW c, cpc[c] = "prompt"
    PROVE  CallOf(c) = CallIs("idle", Blank, Blank, Blank)
BY DEF CallOf

LEMMA BackAtPrompt ==
    ASSUME NEW c, cpc'[c] = "prompt"
    PROVE  CallOf(c)' = CallIs("idle", Blank, Blank, Blank)
BY DEF CallOf

LEMMA OpensShown ==
    ASSUME IInv, NEW c \in Clients, Opens(c), UNCHANGED svars
    PROVE  Mapped
<1>1. nconn \in Nat /\ Made = 1 .. nconn
  BY DEF IInv, TypeOK, ConnTypeOK, Made
<1>2. PICK k : k = nconn + 1 /\ k # 0
  BY <1>1
<1>3. /\ cpc[c] = "prompt" /\ carg[c] = Blank /\ local' = local /\ carg' = carg
      /\ ConnTypeOK /\ ClientTypeOK /\ serving \in Made \cup {0}
      /\ spc = "put" => serving # 0
  BY DEF IInv, TypeOK, ServerTypeOK, ModeInv, ClientInv, Opens
<1>4. /\ cpc'[c] = "open" /\ sock'[c] = k
      /\ \A b \in Clients : b # c => cpc'[b] = cpc[b] /\ sock'[b] = sock[b]
  BY <1>2, <1>3 DEF ClientTypeOK, Opens
<1>5. toServer'[k] = <<Request("open", Blank)>> /\ fd'[k] = Waiting
      /\ \A j \in Made : /\ toServer'[j] = toServer[j] /\ toClient'[j] = toClient[j]
                         /\ fd'[j] = fd[j]
  <2>1. /\ toServer' = Append(toServer, <<Request("open", Blank)>>)
        /\ toClient' = Append(toClient, <<>>) /\ fd' = Append(fd, Waiting)
    BY DEF Opens
  <2>2. DOMAIN toServer = 1 .. nconn /\ DOMAIN toClient = 1 .. nconn
        /\ DOMAIN fd = 1 .. nconn
    BY <1>1, <1>3 DEF ConnTypeOK
  <2>3. /\ toServer'[k] = <<Request("open", Blank)>>
        /\ \A j \in Made : toServer'[j] = toServer[j]
    BY <1>1, <1>2, <2>1, <2>2, AppendedTo
  <2>4. \A j \in Made : toClient'[j] = toClient[j]
    BY <1>1, <1>2, <2>1, <2>2, AppendedTo
  <2>5. fd'[k] = Waiting /\ \A j \in Made : fd'[j] = fd[j]
    BY <1>1, <1>2, <2>1, <2>2, AppendedTo
  <2> QED
    BY <2>3, <2>4, <2>5
<1>6. KeptBut(c)
  BY <1>3, <1>4, <1>5, OthersKept
<1>7. Stored' = Stored
  BY <1>3, <1>5, StoredKept
<1>8. CallOf(c)' = CallIs("asked", "open", Blank, Blank)
  <2>1. Busy(c)' /\ Command(c)' = "open" /\ Asked(c)'
    BY <1>4, <1>5, Queues DEF Busy, Command, Asked
  <2> QED
    BY <1>3, <2>1 DEF CallOf, Busy
<1>9. Where(c)' = dft_path
  BY <1>4, <1>5 DEF Where, Waiting, Fds, FirstFd
<1>10. "open" \in Commands /\ Blank \in CdArgs \cup Names \cup {Blank}
  BY DEF Commands
<1> QED
  BY <1>3, <1>6, <1>7, <1>8, <1>9, <1>10, AtPrompt, Started DEF Mapped

LEMMA OpenFailsShown ==
    ASSUME IInv, NEW c \in Clients, OpenFails(c), UNCHANGED svars
    PROVE  Mapped
<1>1. /\ cpc[c] = "prompt" /\ UNCHANGED <<cpc, carg, local, toServer, toClient, fd>>
      /\ sock'[c] = 0 /\ \A b \in Clients : b # c => sock'[b] = sock[b]
  BY DEF IInv, TypeOK, ClientTypeOK, OpenFails, connvars
<1>2. KeptBut(c)
  BY <1>1, OthersKept
<1>3. Stored' = Stored
  BY <1>1, StoredKept
<1>4. Where(c)' = dft_path
  BY <1>1 DEF Where
<1> QED
  BY <1>1, <1>2, <1>3, <1>4, AtPrompt, BackAtPrompt, StartedInVain DEF Mapped

LEMMA AsksShown ==
    ASSUME IInv, NEW c \in Clients, NEW cmd \in Commands \ {"open"},
           NEW arg \in CdArgs \cup Names \cup {Blank}, Asks(c, cmd, arg), UNCHANGED svars
    PROVE  Mapped
<1>1. PICK k, m : k = sock[c] /\ m = Request(cmd, arg)
  OBVIOUS
<1>2. /\ cpc[c] = "prompt" /\ k # 0 /\ up /\ ConnTypeOK /\ ClientTypeOK
      /\ UNCHANGED <<toClient, fd, sock, local>>
      /\ toServer' = Sent(toServer, k, <<m>>)
  BY <1>1 DEF IInv, TypeOK, Asks
<1>3. k \in Made /\ owner[k] = c /\ sock'[c] = k
  BY <1>1, <1>2 DEF ClientTypeOK, IInv, ClientInv
<1>4. /\ cpc'[c] = cmd /\ carg'[c] = arg
      /\ \A b \in Clients : b # c => cpc'[b] = cpc[b] /\ carg'[b] = carg[b]
  BY <1>2 DEF ClientTypeOK, Asks
<1>5. /\ toServer'[k] = toServer[k] \o <<m>>
      /\ \A j \in Made : j # k => toServer'[j] = toServer[j]
  BY <1>2, <1>3 DEF ConnTypeOK, Sent
<1>6. \/ toServer[k] = <<>> /\ toServer'[k] = <<m>>
      \/ \E d : toServer[k] = <<d>> /\ toServer'[k] = <<d, m>>
  <2>1. toServer[k] = <<>> \/ \E d : toServer[k] = <<d>>
    BY <1>1, <1>2, QueueAtPrompt
  <2>2. CASE toServer[k] = <<>>
    <3>1. toServer'[k] = <<>> \o <<m>>
      BY <1>5, <2>2
    <3> QED
      BY <2>2, <3>1, Joins
  <2>3. ASSUME NEW d, toServer[k] = <<d>> PROVE toServer'[k] = <<d, m>>
    <3>1. toServer'[k] = <<d>> \o <<m>>
      BY <1>5, <2>3
    <3> QED
      BY <3>1, Joins
  <2> QED
    BY <2>1, <2>2, <2>3
<1>7. toServer'[k] # <<>> /\ m.type # "FILE_DATA"
  BY <1>1, <1>6, Queues DEF Request
<1>8. Stored' = Stored
  <2>1. serving \in Made \cup {0} /\ (spc = "put" => serving # 0)
    BY DEF IInv, TypeOK, ServerTypeOK, ModeInv
  <2>2. CASE serving # k
    BY <1>5, <2>1, <2>2, StoredKept
  <2>3. CASE serving = k
    BY <1>6, <1>7, <2>3, Queues, StoredKept
  <2> QED
    BY <2>2, <2>3
<1>9. KeptBut(c)
  <2>1. \A b \in Clients : b # c => sock'[b] = sock[b]
    BY <1>2
  <2>2. \A j \in Made : owner[j] # c => j # k
    BY <1>3
  <2>3. \A j \in Made : owner[j] # c =>
            /\ toServer'[j] = toServer[j] /\ toClient'[j] = toClient[j] /\ fd'[j] = fd[j]
    BY <1>2, <1>5, <2>2
  <2> QED
    BY <1>4, <2>1, <2>3, OthersKept
<1>10. CallOf(c)' = CallIs("asked", cmd, arg, Blank)
  <2>1. Busy(c)' /\ Command(c)' = cmd /\ Asked(c)'
    BY <1>3, <1>4, <1>7 DEF Busy, Command, Asked, Commands
  <2> QED
    BY <1>4, <2>1 DEF CallOf, Busy
<1>11. Where(c)' = Where(c)
  BY <1>2, <1>4 DEF Where, Directory, Fds, Commands, svars
<1> QED
  BY <1>2, <1>8, <1>9, <1>10, <1>11, AtPrompt, Started DEF Mapped

LEMMA LeavesShown ==
    ASSUME IInv, NEW c \in Clients, cpc[c] # "exit", Leaves(c), UNCHANGED svars
    PROVE  Mapped
<1>1. /\ cpc'[c] = "exit" /\ UNCHANGED <<toServer, toClient, fd, sock, local>>
      /\ \A b \in Clients : b # c => cpc'[b] = cpc[b] /\ carg'[b] = carg[b]
  BY DEF IInv, TypeOK, ClientTypeOK, Leaves
<1>2. KeptBut(c)
  BY <1>1, OthersKept
<1>3. Stored' = Stored
  BY <1>1, StoredKept
<1>4. Where(c)' = dft_path /\ CallOf(c)' = CallIs("gone", Blank, Blank, Blank)
  BY <1>1 DEF Where, CallOf
<1>5. CallOf(c).stage # "gone"
  BY CallParts DEF CallOf
<1> QED
  BY <1>1, <1>2, <1>3, <1>4, <1>5, Departed DEF Mapped

-----------------------------------------------------------------------------
\* A client takes an answer: it was the last sign of a call that is done.
LEMMA TakesShown ==
    ASSUME IInv, NEW c \in Clients, NEW step, NEW next, Takes(c, step, next),
           Follows(step, next), UNCHANGED svars, NEW k, k = sock[c],
           \A b \in Clients : b # c => sock'[b] = sock[b],
           \A j \in Made : j # k => toServer'[j] = toServer[j]
    PROVE  /\ Took(c, step, next, k) /\ KeptBut(c) /\ toClient[k] # <<>>
           /\ CallOf(c) = CallIs("done", Command(c), carg[c],
                                 Meaning(Command(c), toClient[k]))
           /\ sock'[c] = k => Where(c)' = Where(c)
<1>1. Took(c, step, next, k) /\ toClient[k] # <<>>
  BY TakesFacts DEF Takes
<1>2. /\ k \in Made /\ owner[k] = c /\ toServer[k] = <<>> /\ cpc[c] = step
      /\ cpc'[c] = next /\ fd' = fd /\ cwds' = cwds
      /\ \A b \in Clients : b # c => cpc'[b] = cpc[b] /\ carg'[b] = carg[b]
      /\ \A j \in Made : j # k => toClient'[j] = toClient[j]
  BY <1>1 DEF Took
<1>3. KeptBut(c)
  <2>1. \A j \in Made : owner[j] # c =>
            /\ toServer'[j] = toServer[j] /\ toClient'[j] = toClient[j] /\ fd'[j] = fd[j]
    BY <1>2
  <2> QED
    BY <1>2, <2>1, OthersKept
<1>4. step \notin {"prompt", "exit"} /\ next # "exit"
  BY DEF Follows, Commands
<1>5. Busy(c) /\ ~Asked(c) /\ ~Missing(c)
  BY <1>1, <1>2, <1>4 DEF Busy, Asked, Missing
<1>6. CallOf(c) = CallIs("done", Command(c), carg[c], Meaning(Command(c), toClient[k]))
  BY <1>5 DEF CallOf, Busy
<1>7. sock'[c] = k => Where(c)' = Where(c)
  BY <1>2, <1>4 DEF Where, Directory, Fds
<1> QED
  BY <1>1, <1>3, <1>6, <1>7

\* The answers that end a call and leave no file anywhere.
LEMMA TalkEnds ==
    ASSUME IInv, NEW c \in Clients, NEW step \in Commands \cup {"sha data"},
           Takes(c, step, "prompt"), step # "put",
           UNCHANGED <<svars, toServer, local>>, NEW k, k = sock[c],
           \A b \in Clients : b # c => sock'[b] = sock[b],
           sock'[c] = k \/ Where(c)' = Where(c),
           step = "get" => toClient[k] = <<Reply("get", 0)>>
    PROVE  Mapped
<1>1. Follows(step, "prompt")
  BY DEF Follows
<1>2. /\ Took(c, step, "prompt", k) /\ KeptBut(c)
      /\ CallOf(c) = CallIs("done", Command(c), carg[c],
                            Meaning(Command(c), toClient[k]))
      /\ Where(c)' = Where(c)
  BY <1>1, TakesShown
<1>3. cpc[c] = step /\ cpc'[c] = "prompt"
  BY <1>2 DEF Took
<1>4. PICK cmd, answer : cmd = Command(c) /\ answer = Meaning(cmd, toClient[k])
  OBVIOUS
<1>5. cmd # "put" /\ (cmd = "get" => step = "get")
  BY <1>3, <1>4 DEF Command, Commands
<1>6. cmd = "get" => answer = "no"
  BY <1>4, <1>5, ReplyMeans
<1>7. "no" \notin Data
  BY WordsAssumption DEF Data
<1>8. Stored' = Stored
  BY StoredKept
<1> QED
  BY ZenonT(40), <1>2, <1>3, <1>4, <1>5, <1>6, <1>7, <1>8, BackAtPrompt, Ended DEF Mapped

LEMMA LsShown ==
    ASSUME IInv, NEW c \in Clients, LsAnswered(c) \/ CdAnswered(c) \/ ShaReceives(c),
           UNCHANGED svars
    PROVE  Mapped
<1>1. PICK step \in {"ls", "cd", "sha data"} : Takes(c, step, "prompt")
  BY DEF LsAnswered, CdAnswered, ShaReceives
<1>2. UNCHANGED <<svars, toServer, local>> /\ sock' = sock
  BY DEF LsAnswered, CdAnswered, ShaReceives
<1>3. PICK k : k = sock[c]
  OBVIOUS
<1>4. /\ step \in Commands \cup {"sha data"} /\ step # "put" /\ step # "get"
      /\ sock'[c] = k /\ \A b \in Clients : b # c => sock'[b] = sock[b]
  BY <1>2, <1>3 DEF Commands
<1> QED
  BY <1>1, <1>2, <1>3, <1>4, TalkEnds

LEMMA OpenAnsweredShown ==
    ASSUME IInv, NEW c \in Clients, OpenAnswered(c), UNCHANGED svars
    PROVE  Mapped
<1>1. PICK k, step : k = sock[c] /\ step = "open"
  OBVIOUS
<1>2. Takes(c, step, "prompt") /\ Follows(step, "prompt")
  BY <1>1 DEF OpenAnswered, Follows, Commands
<1>3. Took(c, step, "prompt", k)
  BY <1>1, <1>2, TakesFacts
<1>4. toClient[k] = <<Reply("open", 1)>> /\ ClientTypeOK
  BY <1>1, <1>3 DEF Took, AnswerForm
<1>5. Answer(c) = Reply("open", 1)
  BY <1>1, <1>4, Answers
<1>6. IsReply(c, "open") /\ Answer(c).arg = 1
  BY <1>5, ReplyIs, Zenon
<1>7. sock' = [sock EXCEPT ![c] = k] /\ UNCHANGED <<svars, toServer, local>>
  BY <1>1, <1>6 DEF OpenAnswered
<1>8. /\ step \in Commands \cup {"sha data"} /\ step # "put" /\ step # "get"
      /\ sock'[c] = k /\ \A b \in Clients : b # c => sock'[b] = sock[b]
  BY <1>1, <1>4, <1>7 DEF ClientTypeOK, Commands
<1> QED
  BY <1>1, <1>2, <1>7, <1>8, TalkEnds

LEMMA QuitAnsweredShown ==
    ASSUME IInv, NEW c \in Clients, QuitAnswered(c), UNCHANGED svars
    PROVE  Mapped
<1>1. PICK k, step : k = sock[c] /\ step = "quit"
  OBVIOUS
<1>2. Takes(c, step, "prompt") /\ Follows(step, "prompt")
  BY <1>1 DEF QuitAnswered, Follows, Commands
<1>3. Took(c, step, "prompt", k)
  BY <1>1, <1>2, TakesFacts
<1>4. toClient[k] = <<Reply("quit", 0)>> /\ ClientTypeOK /\ fd[k] = Closed
  BY <1>1, <1>3 DEF Took, AnswerForm
<1>5. Answer(c) = Reply("quit", 0)
  BY <1>1, <1>4, Answers
<1>6. IsReply(c, "quit")
  BY <1>5, ReplyIs, Zenon
<1>7. sock' = [sock EXCEPT ![c] = 0] /\ UNCHANGED <<svars, toServer, local>>
  BY <1>1, <1>6 DEF QuitAnswered
<1>8. /\ step \in Commands \cup {"sha data"} /\ step # "put" /\ step # "get"
      /\ sock'[c] = 0 /\ \A b \in Clients : b # c => sock'[b] = sock[b]
  BY <1>1, <1>4, <1>7 DEF ClientTypeOK, Commands
<1>9. Where(c)' = Where(c)
  BY <1>1, <1>4, <1>8, NoFds DEF Where
<1> QED
  BY <1>1, <1>2, <1>7, <1>8, <1>9, TalkEnds

\* The first part of an answer that has a second, and the data themselves.
LEMMA LookupAnsweredShown ==
    ASSUME IInv, NEW c \in Clients, GetAnswered(c) \/ ShaAnswered(c), UNCHANGED svars
    PROVE  Mapped
<1>1. PICK cmd, k, data, next :
          /\ cmd \in {"get", "sha"} /\ k = sock[c] /\ data = IF cmd = "get" THEN "get data" ELSE "sha data"
          /\ Takes(c, cmd, next)
          /\ next = IF IsReply(c, cmd) /\ Answer(c).arg = 1 THEN data ELSE "prompt"
  <2>1. CASE GetAnswered(c)
    BY <2>1 DEF GetAnswered
  <2>2. CASE ShaAnswered(c)
    BY <2>2 DEF ShaAnswered
  <2> QED
    BY <2>1, <2>2
<1>a. cmd \in {"get", "sha"}
  BY <1>1
<1> USE <1>a
<1>2. /\ UNCHANGED <<toServer, sock, local, svars>>
      /\ Follows(cmd, next)
  BY <1>1 DEF GetAnswered, ShaAnswered, Follows, Commands
<1>3. /\ Took(c, cmd, next, k) /\ KeptBut(c)
      /\ CallOf(c) = CallIs("done", Command(c), carg[c],
                            Meaning(Command(c), toClient[k]))
      /\ Where(c)' = Where(c)
  BY <1>1, <1>2, TakesShown
<1>4. /\ cpc[c] = cmd /\ cpc'[c] = next /\ toServer'[k] = <<>>
      /\ toClient'[k] = Tail(toClient[k])
      /\ carg'[c] = IF next = "prompt" THEN Blank ELSE carg[c]
      /\ AnswerForm(k, c, toClient[k]) /\ sock'[c] = k
  BY <1>1, <1>2, <1>3 DEF Took
<1>5. \/ toClient[k] = <<Reply(cmd, 0)>>
      \/ cmd = "get" /\ toClient[k] = <<Reply("get", 1)>>
      \/ \E d : toClient[k] = <<Reply(cmd, 1), FileData(d)>>
  BY <1>4 DEF AnswerForm
<1>6. CASE toClient[k] = <<Reply(cmd, 0)>>
  <2>0. Answer(c) = Reply(cmd, 0)
    BY <1>1, <1>6, Answers
  <2>1. Answer(c).arg = 0
    BY <2>0, ReplyIs, Zenon
  <2>2. next = "prompt"
    <3>1. Answer(c).arg # 1
      BY <2>1
    <3> QED
      BY <1>1, <3>1, Zenon
  <2>3. cmd \in Commands \cup {"sha data"} /\ cmd # "put" /\ sock'[c] = k
        /\ \A b \in Clients : b # c => sock'[b] = sock[b]
    BY <1>1, <1>2 DEF Commands
  <2> QED
    BY <1>1, <1>2, <1>6, <2>2, <2>3, TalkEnds
<1>7. ASSUME toClient[k] # <<Reply(cmd, 0)>> PROVE Mapped
  <2>1. next = data
    <3>1. Answer(c) = Reply(cmd, 1)
      BY <1>1, <1>5, <1>7, Answers
    <3> QED
      BY <1>1, <3>1, ReplyIs
  <2>2. Command(c) = cmd /\ Command(c)' = cmd /\ carg'[c] = carg[c]
        /\ Busy(c)' /\ ~Asked(c)'
    BY <1>1, <1>4, <2>1 DEF Command, Busy, Asked
  <2>3. /\ Meaning(cmd, toClient[k]) = Meaning(cmd, Tail(toClient[k]))
        /\ toClient'[k] # <<>> \/ cmd = "get"
    <3>1. CASE cmd = "get" /\ toClient[k] = <<Reply("get", 1)>>
      <4>1. Meaning("get", toClient[k]) = "yes" /\ Tail(toClient[k]) = <<>>
        BY <3>1, ReplyMeans, Queues
      <4> QED
        BY <3>1, <4>1, NothingMeans
    <3>2. ASSUME NEW d, toClient[k] = <<Reply(cmd, 1), FileData(d)>>
          PROVE  /\ Meaning(cmd, toClient[k]) = Meaning(cmd, Tail(toClient[k]))
                 /\ toClient'[k] # <<>>
      <4>0. Tail(toClient[k]) = <<FileData(d)>>
        <5>1. k = sock[c]
          BY <1>1
        <5> QED
          BY <3>2, <5>1, Answers
      <4>1. Tail(toClient[k]) = <<FileData(d)>> /\ toClient'[k] # <<>>
        BY <1>4, <4>0, Queues
      <4>2. Meaning(cmd, toClient[k]) = d
        BY <3>2, DataMeans
      <4>3. Meaning(cmd, Tail(toClient[k])) = d
        BY <4>1, DataMeans
      <4> QED
        BY <4>1, <4>2, <4>3
    <3> QED
      BY <1>5, <1>7, <3>1, <3>2
  <2>4. ~Missing(c)'
    BY <1>1, <1>4, <2>1, <2>3 DEF Missing
  <2>5. CallOf(c)' = CallIs("done", cmd, carg[c], Meaning(cmd, toClient'[k]))
    BY <1>4, <2>2, <2>4 DEF CallOf, Busy
  <2>6. CallOf(c)' = CallOf(c)
    BY <1>3, <1>4, <2>2, <2>3, <2>5
  <2>7. \A b \in Clients : Kept(b)
    BY <1>3, <2>6 DEF KeptBut, Kept
  <2>8. Stored' = Stored
    BY <1>2, StoredKept
  <2> QED
    BY <1>2, <2>7, <2>8, NothingShown DEF Mapped
<1> QED
  BY <1>6, <1>7

\* The call ends with the data that the server had when it answered.
LEMMA GetReceivesShown ==
    ASSUME IInv, NEW c \in Clients, GetReceives(c), UNCHANGED svars
    PROVE  Mapped
<1>1. PICK k : k = sock[c]
  OBVIOUS
<1>2. /\ Takes(c, "get data", "prompt") /\ Follows("get data", "prompt")
      /\ UNCHANGED <<toServer, sock, svars>>
  BY DEF GetReceives, Follows
<1>3. /\ Took(c, "get data", "prompt", k) /\ KeptBut(c)
      /\ CallOf(c) = CallIs("done", Command(c), carg[c],
                            Meaning(Command(c), toClient[k]))
      /\ Where(c)' = Where(c)
  BY <1>1, <1>2, TakesShown
<1>4. /\ cpc[c] = "get data" /\ cpc'[c] = "prompt" /\ Command(c) = "get"
      /\ AnswerForm(k, c, toClient[k])
  BY <1>3 DEF Took, Command
<1>5. PICK d \in Data : toClient[k] = <<FileData(d)>>
  BY <1>4 DEF AnswerForm
<1>6. Answer(c) = FileData(d)
  BY <1>1, <1>5, Answers
<1>7. local' = [local EXCEPT ![c][carg[c]] = d]
  <2>1. Answer(c).type = "FILE_DATA" /\ Answer(c).arg = d
    BY <1>6, Messages
  <2> QED
    BY <2>1 DEF GetReceives
<1>8. Meaning("get", toClient[k]) = d
  BY <1>5, DataMeans
<1>9. CallOf(c) = CallIs("done", "get", carg[c], d)
  BY <1>3, <1>4, <1>8
<1>10. Stored' = Stored
  BY <1>2, StoredKept
<1> QED
  BY <1>3, <1>4, <1>7, <1>9, <1>10, BackAtPrompt, Ended DEF Mapped

\* The call ends with the file on its way to the do_put that waits for it, in
\* the directory where the client is.
LEMMA PutAnsweredShown ==
    ASSUME IInv, NEW c \in Clients, PutAnswered(c), UNCHANGED svars
    PROVE  Mapped
<1>1. PICK k : k = sock[c]
  OBVIOUS
<1>2. /\ Takes(c, "put", "prompt") /\ Follows("put", "prompt")
      /\ UNCHANGED <<sock, local, svars>>
  BY DEF PutAnswered, Follows, Commands
<1>3. Took(c, "put", "prompt", k)
  BY <1>1, <1>2, TakesFacts
<1>4. /\ k \in Made /\ owner[k] = c /\ cpc[c] = "put" /\ cpc'[c] = "prompt"
      /\ toServer[k] = <<>> /\ AnswerForm(k, c, toClient[k]) /\ ConnInv(k) /\ Current(k)
      /\ ClientTypeOK /\ ServerTypeOK /\ ConnTypeOK
      /\ UNCHANGED <<spc, serving, args, pwd, cwds, files>>
  BY <1>3 DEF Took
<1>5. /\ toClient[k] = <<Reply("put", 0)>>
      /\ spc = "put" /\ serving = k /\ args = carg[c] /\ pwd = home[c]
  BY <1>4 DEF AnswerForm
<1>6. IsReply(c, "put")
  <2>1. Answer(c) = Reply("put", 0)
    BY <1>1, <1>5, Answers
  <2> QED
    BY <2>1, ReplyIs, Zenon
<1>7. PICK f : f = local[c][carg[c]]
  OBVIOUS
<1>8. toServer' = IF f # Nothing THEN Sent(toServer, k, <<FileData(f)>>) ELSE toServer
  BY <1>1, <1>6, <1>7 DEF PutAnswered
<1>9. /\ \A j \in Made : j # k => toServer'[j] = toServer[j]
      /\ toServer'[k] = IF f # Nothing THEN <<FileData(f)>> ELSE <<>>
  <2>1. <<>> \o <<FileData(f)>> = <<FileData(f)>>
    BY Joins
  <2> QED
    BY <1>4, <1>8, <2>1 DEF ConnTypeOK, Sent
<1>10. /\ KeptBut(c)
       /\ CallOf(c) = CallIs("done", Command(c), carg[c],
                             Meaning(Command(c), toClient[k]))
       /\ Where(c)' = Where(c)
  <2>1. \A j \in Made : j # k => toServer'[j] = toServer[j]
    BY <1>9
  <2> QED
    BY <1>1, <1>2, <2>1, TakesShown
<1>11. Where(c) = home[c]
  <2>1. fd[k] \in Fds /\ cwds[fd[k]] = home[c]
    BY <1>4 DEF ConnInv, HomeInv
  <2>2. home[c] # NULL
    BY <1>4, FtpAssumption DEF ClientTypeOK, AFile, NULL
  <2> QED
    BY <1>1, <1>4, <2>1, <2>2 DEF Where, Directory, Made
<1>12. Stored = files
  BY <1>4, <1>5 DEF Stored
<1>13. Stored' = IF f # Nothing /\ Stored[Where(c)][carg[c]] # Folder
                 THEN [Stored EXCEPT ![Where(c)][carg[c]] = f] ELSE Stored
  <2>1. CASE f = Nothing
    <3>1. toServer'[k] = <<>>
      BY <1>9, <2>1
    <3> QED
      BY <1>4, <1>5, <1>12, <2>1, <3>1 DEF Stored
  <2>2. CASE f # Nothing
    <3>1. toServer'[k] # <<>> /\ Head(toServer'[k]) = FileData(f)
      BY <1>9, <2>2, Queues
    <3>2. Message(k)'.type = "FILE_DATA" /\ Message(k)'.arg = f
      BY <3>1, Messages DEF Message
    <3>3. Stored' = IF files[pwd][args] # Folder
                    THEN [files EXCEPT ![pwd][args] = f] ELSE files
      BY <1>4, <1>5, <3>1, <3>2 DEF Stored
    <3> QED
      BY <1>5, <1>11, <1>12, <2>2, <3>3
  <2> QED
    BY <2>1, <2>2
<1>14. Command(c) = "put"
  BY <1>4 DEF Command
<1>15. PICK answer : CallOf(c) = CallIs("done", "put", carg[c], answer)
  BY <1>10, <1>14
<1> QED
  BY <1>2, <1>4, <1>7, <1>10, <1>13, <1>15, BackAtPrompt, Ended DEF Mapped

\* The server is gone.  Data that were never sent leave a get as it was.
LEMMA ConnectionLostShown ==
    ASSUME IInv, NEW c \in Clients, ConnectionLost(c), UNCHANGED svars
    PROVE  Mapped
<1>1. PICK k : k = sock[c]
  OBVIOUS
<1>2. /\ ClientTypeOK /\ ClientInv(c) /\ Busy(c) /\ spc # "put" /\ toClient[k] = <<>>
      /\ UNCHANGED <<toServer, toClient, fd, local, cwds>>
  BY <1>1 DEF IInv, TypeOK, ModeInv, ConnectionLost, Busy, svars
<1>3. /\ k \in Made /\ k # 0 /\ owner[k] = c /\ ConnInv(k) /\ Current(k)
  BY <1>1, <1>2 DEF IInv, ClientInv, ClientTypeOK, Busy, Current
<1>4. /\ cpc'[c] = "prompt" /\ sock'[c] = IF cpc[c] = "open" THEN 0 ELSE k
      /\ \A b \in Clients : b # c => cpc'[b] = cpc[b] /\ carg'[b] = carg[b]
                                     /\ sock'[b] = sock[b]
  BY <1>1, <1>2 DEF ClientTypeOK, ConnectionLost
<1>5. KeptBut(c)
  BY <1>2, <1>4, OthersKept
<1>6. Stored' = Stored
  BY <1>2, StoredKept
<1>7. Where(c)' = Where(c)
  <2>1. CASE cpc[c] = "open"
    <3>1. fd[k] \in Fds => cwds[fd[k]] \in {NULL, dft_path}
      BY <1>3, <2>1 DEF ConnInv, HomeInv
    <3>2. Where(c) = dft_path /\ Where(c)' = dft_path
      BY <1>1, <1>4, <2>1, <3>1 DEF Where, Directory
    <3> QED
      BY <3>2
  <2>2. CASE cpc[c] # "open"
    BY <1>1, <1>2, <1>4, <2>2 DEF Where, Directory, Fds, Busy
  <2> QED
    BY <2>1, <2>2
<1>8. CASE Asked(c) \/ cpc[c] # "get data"
  <2>1. CallOf(c).stage \in {"asked", "lost"}
    <3>1. Asked(c) \/ Missing(c)
      BY <1>1, <1>2, <1>8 DEF Missing
    <3>2. PICK stage \in {"asked", "lost"} :
              CallOf(c) = CallIs(stage, Command(c), carg[c], Blank)
      BY <1>2, <3>1 DEF CallOf, Busy
    <3> QED
      BY <3>2, CallParts
  <2> QED
    BY <1>2, <1>4, <1>5, <1>6, <1>7, <2>1, BackAtPrompt, EndedInError DEF Mapped
<1>9. CASE ~Asked(c) /\ cpc[c] = "get data"
  <2>1. Command(c) = "get" /\ ~Missing(c)
    BY <1>9 DEF Command, Missing
  <2>2. Meaning("get", toClient[k]) = "yes"
    BY <1>2, NothingMeans
  <2>3. CallOf(c) = CallIs("done", "get", carg[c], "yes")
    BY <1>1, <1>2, <1>9, <2>1, <2>2 DEF CallOf, Busy
  <2>4. "yes" \notin Data
    BY WordsAssumption DEF Data
  <2> QED
    BY <1>2, <1>4, <1>5, <1>6, <1>7, <2>3, <2>4, BackAtPrompt, Ended DEF Mapped
<1> QED
  BY <1>8, <1>9

-----------------------------------------------------------------------------
LEMMA ClientShown ==
    ASSUME IInv, NEW c \in Clients, UserTypes(c) \/ Proceeds(c) \/ Killed(c),
           UNCHANGED svars
    PROVE  Mapped
<1>1. ASSUME NEW cmd, NEW arg, Asks(c, cmd, arg), cmd \in Commands \ {"open"},
             arg \in CdArgs \cup Names \cup {Blank}
      PROVE  Mapped
  BY <1>1, AsksShown
<1>2. ASSUME NEW cmd \in {"ls", "quit"}, Asks(c, cmd, Blank) PROVE Mapped
  BY <1>1, <1>2 DEF Commands
<1>3. ASSUME NEW path \in CdArgs, Asks(c, "cd", path) PROVE Mapped
  BY <1>1, <1>3 DEF Commands
<1>4. ASSUME NEW cmd \in {"get", "put", "sha"}, NEW n \in Names, Asks(c, cmd, n)
      PROVE  Mapped
  BY <1>1, <1>4 DEF Commands
<1>5. CASE Exits(c) \/ Killed(c)
  <2>1. cpc[c] # "exit" /\ Leaves(c)
    BY <1>5 DEF Exits, Killed
  <2> QED
    BY <2>1, LeavesShown
<1>6. CASE UserTypes(c)
  BY <1>2, <1>3, <1>4, <1>5, <1>6, OpensShown, OpenFailsShown DEF UserTypes
<1>7. CASE Proceeds(c)
  BY <1>7, OpenAnsweredShown, LsShown, LookupAnsweredShown, GetReceivesShown,
     PutAnsweredShown, QuitAnsweredShown, ConnectionLostShown DEF Proceeds
<1> QED
  BY <1>5, <1>6, <1>7

LEMMA StepMapped == IInv /\ [Next]_vars => [Service!ServiceNext]_Service!servicevars
<1> SUFFICES ASSUME IInv, [Next]_vars PROVE Mapped
  BY DEF Mapped
<1>1. CASE (Accept \/ (\E k \in Made : Serve(k)) \/ Put) /\ UNCHANGED cvars
  BY <1>1, ServerShown
<1>2. CASE (\E c \in Clients : UserTypes(c) \/ Proceeds(c) \/ Killed(c))
               /\ UNCHANGED svars
  BY <1>2, ClientShown
<1>3. CASE UNCHANGED vars
  <2>1. /\ UNCHANGED <<nconn, owner, toServer, toClient, gone, fd, up>>
        /\ UNCHANGED <<spc, serving, args, pwd, cwds, files>>
        /\ UNCHANGED <<cpc, carg, connected, sock, local, home>>
    BY <1>3 DEF vars, connvars, svars, cvars
  <2>2. \A b \in Clients : Kept(b)
    BY <2>1, CallKept, WhereKept DEF Kept
  <2>3. Stored' = Stored
    BY <2>1, StoredKept DEF svars
  <2> QED
    BY <2>1, <2>2, <2>3, NothingShown DEF Mapped
<1> QED
  BY <1>1, <1>2, <1>3 DEF Next

LEMMA InitMapped == Init => Service!ServiceInit
<1> SUFFICES ASSUME Init PROVE Service!ServiceInit
  OBVIOUS
<1>1. Stored = files /\ files \in [Dirs -> [Names -> {"old", Folder, Nothing}]]
  BY DEF Init, ServerInit, Stored
<1>2. local \in [Clients -> [Names -> Data \cup {Nothing}]]
  BY DEF Init, ClientInit
<1>3. Places = [c \in Clients |-> dft_path]
  BY DEF Init, ClientInit, Places, Where
<1>4. Calls = [c \in Clients |-> CallIs("idle", Blank, Blank, Blank)]
  BY DEF Init, ClientInit, Calls, CallOf
<1> QED
  BY <1>1, <1>2, <1>3, <1>4, SameNames DEF Service!ServiceInit

\* The server and its clients, with all their messages, losses and mistakes,
\* do what FtpService promises.
THEOREM ServiceImplemented == Spec => ImplementsService
<1>1. Init => Service!ServiceInit
  BY InitMapped
<1>2. IInv /\ [Next]_vars => [Service!ServiceNext]_Service!servicevars
  BY StepMapped
<1> QED
  BY <1>1, <1>2, Exchanges, PTL DEF Spec, ImplementsService, Service!ServiceSpec
=============================================================================
