------------------------------ MODULE FtpProofs ------------------------------
(***************************************************************************)
(* What every behaviour of Ftp has in common, for any number of clients,   *)
(* connections, directories and file names.                                *)
(***************************************************************************)
EXTENDS FtpInvariant, FiniteSetTheorems, SequenceTheorems,
        WellFoundedInduction, TLAPS

-----------------------------------------------------------------------------
\* Queues of at most two messages, and what Head and Tail make of them.
LEMMA Queues ==
    /\ \A a : Head(<<a>>) = a /\ Tail(<<a>>) = <<>> /\ Len(<<a>>) = 1
    /\ \A a, b : Head(<<a, b>>) = a /\ Tail(<<a, b>>) = <<b>> /\ Len(<<a, b>>) = 2
    /\ \A a : <<a>> # <<>>
    /\ \A a, b : <<a, b>> # <<>>
    /\ \A a, b : <<a>> = <<b>> => a = b
    /\ \A a, b, c : <<a>> # <<b, c>>
    /\ \A a, b, c, d : <<a, b>> = <<c, d>> => a = c /\ b = d
OBVIOUS

LEMMA Joins ==
    /\ \A a : <<>> \o <<a>> = <<a>>
    /\ \A a, b : <<a>> \o <<b>> = <<a, b>>
    /\ \A a, b : <<>> \o <<a, b>> = <<a, b>>
<1>1. ASSUME NEW a, NEW b PROVE <<a>> \o <<b>> = <<a, b>>
  <2> DEFINE s == <<a>> \o <<b>>
  <2>1. <<a>> \in Seq({a, b}) /\ <<b>> \in Seq({a, b})
    OBVIOUS
  <2>2. /\ s \in Seq({a, b}) /\ Len(s) = 2
        /\ \A i \in 1 .. 2 : s[i] = IF i <= 1 THEN <<a>>[i] ELSE <<b>>[i - 1]
    BY <2>1, ConcatProperties
  <2>3. s[1] = a /\ s[2] = b
    BY <2>2
  <2> HIDE DEF s
  <2>4. s = <<a, b>>
    BY <2>2, <2>3
  <2> QED
    BY <2>4 DEF s
<1> QED
  BY <1>1

LEMMA SameLast ==
    ASSUME NEW q, NEW d, NEW a, NEW b,
           q = <<a>> \/ q = <<d, a>>, q = <<b>> \/ q = <<d, b>>
    PROVE  a = b
BY Queues

LEMMA AppendIs ==
    ASSUME NEW n \in Nat, NEW s, s = [i \in 1 .. n |-> s[i]], NEW e
    PROVE  Append(s, e) = [i \in 1 .. n + 1 |-> IF i = n + 1 THEN e ELSE s[i]]
OBVIOUS

LEMMA Appended ==
    ASSUME NEW n \in Nat, NEW S, NEW s \in [1 .. n -> S], NEW e \in S
    PROVE  /\ Append(s, e) \in [1 .. n + 1 -> S]
           /\ \A i \in 1 .. n : Append(s, e)[i] = s[i]
           /\ Append(s, e)[n + 1] = e
<1>1. Append(s, e) = [i \in 1 .. n + 1 |-> IF i = n + 1 THEN e ELSE s[i]]
  BY AppendIs
<1>2. n + 1 \in 1 .. n + 1 /\ \A i \in 1 .. n : i \in 1 .. n + 1 /\ i # n + 1
  OBVIOUS
<1>3. \A i \in 1 .. n + 1 : i # n + 1 => i \in 1 .. n
  OBVIOUS
<1> QED
  BY <1>1, <1>2, <1>3, Zenon

\* The same for fd, whose values are a union of sets: a new connection waits.
LEMMA AppendedFd ==
    ASSUME NEW n \in Nat, NEW s \in [1 .. n -> Fds \cup {Waiting, Closed}]
    PROVE  /\ Append(s, Waiting) \in [1 .. n + 1 -> Fds \cup {Waiting, Closed}]
           /\ \A i \in 1 .. n : Append(s, Waiting)[i] = s[i]
           /\ Append(s, Waiting)[n + 1] = Waiting
<1>1. Append(s, Waiting) = [i \in 1 .. n + 1 |-> IF i = n + 1 THEN Waiting ELSE s[i]]
  BY AppendIs
<1>2. n + 1 \in 1 .. n + 1 /\ \A i \in 1 .. n : i \in 1 .. n + 1 /\ i # n + 1
  OBVIOUS
<1>3. \A i \in 1 .. n + 1 : i # n + 1 => i \in 1 .. n
  OBVIOUS
<1> QED
  BY <1>1, <1>2, <1>3, Zenon

LEMMA AppendedTo ==
    ASSUME NEW n \in Nat, NEW s, DOMAIN s = 1 .. n, NEW e
    PROVE  /\ DOMAIN Append(s, e) = 1 .. n + 1
           /\ \A i \in 1 .. n : Append(s, e)[i] = s[i]
           /\ Append(s, e)[n + 1] = e
OBVIOUS

\* The least descriptor that is free exists: fewer connections than the
\* descriptors there are have one.
LEMMA LeastExists ==
    ASSUME NEW S, S \subseteq Nat, S # {}
    PROVE  \E x \in S : \A y \in S : x <= y
<1> DEFINE R == OpToRel(<, Nat)
<1>1. PICK x \in S : \A y \in S : <<y, x>> \notin R
  <2>1. IsWellFoundedOn(R, Nat)
    BY NatLessThanWellFounded
  <2> HIDE DEF R
  <2> QED
    BY <2>1, WFMin
<1>2. \A y \in S : ~(y < x)
  BY <1>1 DEF OpToRel
<1> QED
  BY <1>2

LEMMA Interval ==
    ASSUME NEW a \in Int, NEW b \in Int, a <= b + 1
    PROVE  IsFiniteSet(a .. b) /\ Cardinality(a .. b) = b - a + 1
BY FS_Interval

\* Accept finds a descriptor that nobody has: there are at least as many as
\* connections, and one of those has none yet.
LEMMA NewFdIsFree ==
    ASSUME MaxConns \in Nat, nconn \in 0 .. MaxConns, NEW k \in Made, fd[k] = Waiting
    PROVE  NewFd \in Fds /\ \A j \in Made : fd[j] # NewFd
<1> DEFINE Free == {f \in Fds : \A j \in Made : fd[j] # f}
<1>1. Free # {}
  <2> SUFFICES ASSUME \A f \in Fds : \E j \in Made : fd[j] = f PROVE FALSE
    OBVIOUS
  <2> DEFINE c == [f \in Fds |-> CHOOSE j \in Made : fd[j] = f]
  <2>1. \A f \in Fds : c[f] \in Made /\ fd[c[f]] = f
    OBVIOUS
  <2>2. c \in [Fds -> Made \ {k}]
    BY <2>1 DEF Fds, FirstFd, Waiting
  <2>3. IsFiniteSet(Fds) /\ Cardinality(Fds) = MaxConns
    <3> DEFINE last == FirstFd + MaxConns - 1
    <3>1. FirstFd \in Int /\ last \in Int /\ FirstFd <= last + 1
          /\ last - FirstFd + 1 = MaxConns
      BY DEF FirstFd
    <3> HIDE DEF last
    <3>2. IsFiniteSet(FirstFd .. last) /\ Cardinality(FirstFd .. last) = MaxConns
      BY <3>1, Interval
    <3> QED
      BY <3>2 DEF last, Fds
  <2>4. IsFiniteSet(Made \ {k}) /\ Cardinality(Made \ {k}) = nconn - 1
    <3>1. nconn \in Int /\ 1 <= nconn + 1 /\ nconn - 1 + 1 = nconn
      OBVIOUS
    <3>2. IsFiniteSet(Made) /\ Cardinality(Made) = nconn
      BY <3>1, Interval DEF Made
    <3> QED
      BY <3>2, FS_RemoveElement
  <2> HIDE DEF c
  <2>5. PICK x, y \in Fds : x # y /\ c[x] = c[y]
    <3>1. Cardinality(Made \ {k}) < Cardinality(Fds)
      BY <2>3, <2>4
    <3> QED
      BY <2>2, <2>3, <2>4, <3>1, FS_PigeonHole
  <2> QED
    BY <2>1, <2>5
<1>2. PICK f \in Free : \A g \in Free : f <= g
  <2>1. Free \subseteq Nat
    BY DEF Fds, FirstFd
  <2> HIDE DEF Free
  <2> QED
    BY <1>1, <2>1, LeastExists
<1>3. \A g \in FirstFd .. f - 1 : \E j \in Made : fd[j] = g
  <2> SUFFICES ASSUME NEW g \in FirstFd .. f - 1 PROVE g \in Fds /\ g \notin Free
    OBVIOUS
  <2>1. g \in Fds
    BY DEF Fds, FirstFd
  <2> QED
    BY <1>2, <2>1 DEF Fds, FirstFd
<1> QED
  BY <1>2, <1>3 DEF NewFd

-----------------------------------------------------------------------------
\* Requests are no files, and have the arguments of their commands.
LEMMA Messages ==
    /\ \A m \in Requests :
          /\ m.type = "request" /\ m.cmd \in Commands
          /\ m.cmd = "cd" => m.arg \in CdArgs
          /\ m.cmd \in {"get", "put", "sha"} => m.arg \in Names
    /\ \A d : FileData(d).type = "FILE_DATA" /\ FileData(d).arg = d
    /\ \A d : FileData(d) \notin Requests
    /\ \A cmd, arg : Reply(cmd, arg).type = "reply" /\ Reply(cmd, arg).cmd = cmd
                     /\ Reply(cmd, arg).arg = arg
<1>1. \A m \in Requests :
          /\ m.type = "request" /\ m.cmd \in Commands
          /\ m.cmd = "cd" => m.arg \in CdArgs
          /\ m.cmd \in {"get", "put", "sha"} => m.arg \in Names
  BY DEF Requests, RequestsOf, Commands
<1>2. \A d : FileData(d).type = "FILE_DATA" /\ FileData(d).arg = d
  BY DEF FileData
<1>3. \A d : FileData(d) \notin Requests
  BY <1>1, <1>2
<1> QED
  BY <1>1, <1>2, <1>3 DEF Reply

\* The request that the main loop reads, and whose it is: its client still
\* waits on it, or has ended.
LEMMA Served ==
    ASSUME IInv, NEW k \in Made, spc = "loop", Ready(k)
    PROVE  /\ Message(k) \in Requests
           /\ toServer[k] = <<Message(k)>>
           /\ Taken(toServer, k) = [toServer EXCEPT ![k] = <<>>]
           /\ Current(k) => /\ toClient[k] = <<>>
                            /\ cpc[owner[k]] = Message(k).cmd
                            /\ Message(k).cmd # "open" =>
                                  /\ carg[owner[k]] = Message(k).arg
                                  /\ cwds[fd[k]] = home[owner[k]]
           /\ ~Current(k) => cpc[owner[k]] = "exit"
<1>1. ConnInv(k) /\ up /\ fd[k] \in Fds /\ toServer[k] # <<>>
  BY DEF IInv, Ready
<1>2. PICK m \in Requests : toServer[k] = <<m>>
  BY <1>1 DEF ConnInv, QueueInv, PutIsTrue, Pending
<1>3. Message(k) = m /\ Tail(toServer[k]) = <<>>
  BY <1>2, Queues DEF Message
<1>4. Taken(toServer, k) = [toServer EXCEPT ![k] = <<>>]
  BY <1>3 DEF Taken
<1>5. ASSUME Current(k)
      PROVE  /\ toClient[k] = <<>>
             /\ cpc[owner[k]] = m.cmd
             /\ m.cmd # "open" => /\ carg[owner[k]] = m.arg
                                  /\ cwds[fd[k]] = home[owner[k]]
  <2>1. toClient[k] = <<>> /\ ~gone[k]
    BY <1>1, <1>5 DEF ConnInv, AnswerInv, GoneInv
  <2>2. cpc[owner[k]] = m.cmd /\ (m.cmd # "open" => carg[owner[k]] = m.arg)
    BY <1>1, <1>2, <2>1 DEF ConnInv, RequestInv, Pending
  <2> QED
    BY <1>1, <1>5, <2>1, <2>2, Queues DEF ConnInv, HomeInv
<1>6. ~Current(k) => cpc[owner[k]] = "exit"
  BY <1>1, <1>2 DEF ConnInv, RequestInv, Pending, GoneInv
<1> QED
  BY <1>2, <1>3, <1>4, <1>5, <1>6

LEMMA NoFds == Waiting \notin Fds /\ Closed \notin Fds /\ Waiting # Closed
BY DEF Waiting, Closed, Fds, FirstFd

\* A step of the server keeps the invariant of a connection it does not serve.
LEMMA OtherConns ==
    ASSUME IInv, NEW j \in Made, j # serving, j # serving',
           UNCHANGED <<cvars, owner, gone>>, up' => up, up' \in BOOLEAN,
           toServer'[j] = toServer[j], toClient'[j] = toClient[j],
           fd[j] \in Fds => cwds'[fd[j]] = cwds[fd[j]],
           \/ fd'[j] = fd[j]
           \/ fd[j] = Waiting /\ cwds'[fd'[j]] = NULL,
           serving' # 0 /\ Current(j) => owner[serving'] # owner[j]
                                         \/ serving' = serving
    PROVE  ConnInv(j)'
<1>1. ConnInv(j)
  BY DEF IInv
<1>2. /\ UNCHANGED <<cpc, carg, sock, local, home, owner, gone>>
      /\ Current(j)' = Current(j)
      /\ ~PutIsTrue(j) /\ ~PutIsTrue(j)'
  BY DEF cvars, Current, PutIsTrue
<1>3. \A m : Pending(j, m)' <=> Pending(j, m)
  BY <1>2 DEF Pending
<1>4. QueueInv(j)'
  BY <1>1, <1>2, <1>3 DEF ConnInv, QueueInv
<1>5. RequestInv(j)'
  BY <1>1, <1>2, <1>3 DEF ConnInv, RequestInv
<1>6. HomeInv(j)'
  <2>1. UNCHANGED Fds
    BY DEF Fds
  <2>2. CASE fd'[j] = fd[j]
    <3>1. fd'[j] \in Fds => cwds'[fd'[j]] = cwds[fd[j]]
      BY <2>2
    <3> QED
      BY <1>1, <1>2, <2>1, <2>2, <3>1 DEF ConnInv, HomeInv
  <2>3. CASE fd[j] = Waiting /\ cwds'[fd'[j]] = NULL
    <3>1. fd[j] \notin Fds
      BY <2>3, NoFds
    <3> QED
      BY <1>1, <1>2, <2>3, <3>1 DEF ConnInv, HomeInv
  <2> QED
    BY <2>2, <2>3
<1>7. GoneInv(j)'
  BY <1>1, <1>2 DEF ConnInv, GoneInv
<1>8. ASSUME Current(j), toClient[j] # <<>> PROVE AnswerInv(j)'
  <2>1. /\ toServer[j] = <<>> /\ AnswerForm(j, owner[j], toClient[j])
        /\ serving # 0 /\ owner[serving] = owner[j] => cpc[owner[j]] = "put"
    BY <1>1, <1>8 DEF ConnInv, AnswerInv
  <2>2. /\ fd[j] \in Fds => fd'[j] = fd[j]
        /\ fd[j] = Closed => fd'[j] = Closed
    BY NoFds
  <2>3. AnswerForm(j, owner[j], toClient[j])'
    BY <1>2, <2>1, <2>2 DEF AnswerForm, Fds, Closed
  <2> QED
    BY <1>2, <1>8, <2>1, <2>3 DEF AnswerInv
<1>9. AnswerInv(j)'
  BY <1>2, <1>8 DEF AnswerInv
<1> QED
  BY <1>4, <1>5, <1>6, <1>7, <1>9 DEF ConnInv

\* The server closes its end of k.
Frees(k) == fd' = [fd EXCEPT ![k] = Closed] /\ cwds'[fd[k]] = NULL

\* The service of a request keeps the invariant, if the server's variables
\* keep their types, the answer fits and the client's directory is kept.
LEMMA ServiceStep ==
    ASSUME IInv, NEW k \in Made, spc = "loop", Ready(k),
           UNCHANGED <<cvars, nconn, owner, gone>>, up' => up, up' \in BOOLEAN,
           toServer' = Taken(toServer, k),
           toClient' = toClient \/ \E out : toClient' = Sent(toClient, k, out),
           fd' = fd \/ Frees(k),
           \A f \in Fds : f # fd[k] => cwds'[f] = cwds[f],
           \/ spc' = "loop" /\ serving' = 0
           \/ /\ spc' = "put" /\ serving' = k /\ up' /\ args' \in Names
              /\ Current(k) => cpc[owner[k]] = "put",
           ServerTypeOK',
           Current(k) /\ toClient'[k] # <<>> => AnswerForm(k, owner[k], toClient[k])',
           HomeInv(k)'
    PROVE  IInv'
<1>1. /\ ConnInv(k) /\ FdInv /\ ConnTypeOK /\ ClientTypeOK /\ ModeInv
      /\ toServer'[k] = <<>>
      /\ \A j \in Made : j # k => /\ toServer'[j] = toServer[j]
                                  /\ toClient'[j] = toClient[j]
                                  /\ fd'[j] = fd[j]
  <2>1. DOMAIN toServer = Made /\ DOMAIN toClient = Made /\ DOMAIN fd = Made
    BY DEF IInv, TypeOK, ConnTypeOK
  <2>2. toServer' = [toServer EXCEPT ![k] = <<>>]
    BY Served
  <2> QED
    BY <2>1, <2>2 DEF IInv, TypeOK, Sent, Frees
<1>2. UNCHANGED <<cpc, carg, connected, sock, local, home, owner, gone, nconn>>
      /\ Made' = Made /\ serving = 0
  BY <1>1 DEF cvars, Made, ModeInv
<1>3. ASSUME NEW j \in Made, j # k PROVE ConnInv(j)'
  <2>1. j # serving /\ j # serving'
    BY <1>2, <1>3 DEF Made
  <2>2. fd[j] \in Fds => fd'[j] = fd[j] /\ cwds'[fd[j]] = cwds[fd[j]]
    BY <1>1, <1>3 DEF FdInv
  <2>3. serving' # 0 /\ Current(j) => owner[serving'] # owner[j]
    <3> SUFFICES ASSUME serving' = k, Current(j), owner[k] = owner[j] PROVE FALSE
      OBVIOUS
    <3>1. ~Current(k) /\ cpc[owner[k]] # "exit"
      BY <1>3 DEF Current
    <3> QED
      BY <3>1, Served
  <2> QED
    BY <1>1, <1>3, <2>1, <2>2, <2>3, OtherConns
<1>4. ConnInv(k)'
  <2>1. Current(k)' = Current(k) /\ gone'[k] = gone[k]
    BY <1>2 DEF Current
  <2>2. QueueInv(k)' /\ GoneInv(k)'
    BY <1>1, <2>1 DEF ConnInv, QueueInv, GoneInv
  <2>3. RequestInv(k)'
    BY <1>1, Queues DEF RequestInv, Pending
  <2>4. AnswerInv(k)'
    BY <1>1, <1>2, <2>1 DEF AnswerInv
  <2> QED
    BY <2>2, <2>3, <2>4 DEF ConnInv
<1>5. ConnTypeOK'
  <2>1. DOMAIN toServer' = Made /\ DOMAIN toClient' = Made
    BY <1>1, Served DEF ConnTypeOK, Sent
  <2>2. fd' \in [Made -> Fds \cup {Waiting, Closed}]
    BY <1>1 DEF ConnTypeOK, Frees
  <2> QED
    BY <1>1, <1>2, <2>1, <2>2 DEF ConnTypeOK, Fds
<1>6. TypeOK'
  BY <1>1, <1>2, <1>5 DEF TypeOK, ClientTypeOK
<1>7. FdInv'
  <2>1. ASSUME NEW i \in Made, NEW j \in Made, fd'[i] = fd'[j], fd'[i] \in Fds
        PROVE  i = j
    <3>1. fd'[i] = fd[i] /\ fd'[j] = fd[j]
      BY <1>1, <2>1 DEF ConnTypeOK, Fds, FirstFd, Closed, Frees
    <3> QED
      BY <1>1, <2>1, <3>1 DEF FdInv
  <2>2. ASSUME NEW f \in Fds, \A i \in Made : fd'[i] # f PROVE cwds'[f] = NULL
    <3>1. CASE f = fd[k]
      BY <1>1, <2>2, <3>1 DEF ConnTypeOK, Frees
    <3>2. CASE f # fd[k]
      <4>1. \A i \in Made : fd[i] # f
        BY <1>1, <2>2, <3>2
      <4> QED
        BY <1>1, <2>2, <3>2, <4>1 DEF FdInv
    <3> QED
      BY <3>1, <3>2
  <2> QED
    BY <1>2, <2>1, <2>2 DEF FdInv, Fds
<1>8. ModeInv'
  BY DEF ModeInv, Made
<1>9. \A c \in Clients : ClientInv(c)'
  BY <1>2 DEF IInv, ClientInv, Busy
<1> QED
  BY <1>2, <1>3, <1>4, <1>6, <1>7, <1>8, <1>9 DEF IInv

\* What the service of a request finds and leaves: an answer that has the way
\* to its client to itself.
LEMMA ServesFacts ==
    ASSUME IInv, NEW k \in Made, NEW cmd, NEW out, <<>> \o out = out,
           Serves(k, cmd, out), UNCHANGED cvars
    PROVE  /\ spc = "loop" /\ serving = 0 /\ Ready(k)
           /\ UNCHANGED <<nconn, owner, gone, up>> /\ up \in BOOLEAN
           /\ toServer' = Taken(toServer, k) /\ toClient' = Sent(toClient, k, out)
           /\ Message(k) \in Requests /\ Message(k).cmd = cmd
           /\ fd[k] \in Fds /\ Directory(k) \in Dirs /\ ServerTypeOK
           /\ UNCHANGED <<cpc, carg, home>>
           /\ Current(k)' = Current(k) /\ owner[k]' = owner[k]
           /\ Current(k) => /\ toClient'[k] = out
                            /\ cpc[owner[k]] = cmd
                            /\ cmd # "open" => /\ carg[owner[k]] = Message(k).arg
                                               /\ cwds[fd[k]] = home[owner[k]]
                                               /\ home[owner[k]] \in Dirs \cup {AFile}
<1>1. spc = "loop" /\ Ready(k) /\ Directory(k) # AFile /\ Message(k).cmd = cmd
      /\ UNCHANGED <<nconn, owner, gone, up>>
      /\ toServer' = Taken(toServer, k) /\ toClient' = Sent(toClient, k, out)
  BY DEF Serves
<1>2. up \in BOOLEAN /\ ServerTypeOK /\ fd[k] \in Fds /\ serving = 0
      /\ DOMAIN toClient = Made /\ owner[k] \in Clients
      /\ home \in [Clients -> Dirs \cup {AFile}]
  BY <1>1 DEF IInv, TypeOK, ConnTypeOK, ClientTypeOK, ModeInv, Ready
<1>3. Directory(k) \in Dirs
  <2>1. cwds[fd[k]] \in Dirs \cup {AFile, NULL}
    BY <1>2 DEF ServerTypeOK
  <2> QED
    BY <1>1, <2>1, FtpAssumption DEF Directory
<1>4. UNCHANGED <<cpc, carg, home>> /\ Current(k)' = Current(k)
  BY <1>1 DEF cvars, Current
<1>5. Current(k) => toClient'[k] = out
  BY <1>1, <1>2, Served DEF Sent
<1> QED
  BY <1>1, <1>2, <1>3, <1>4, <1>5, Served

\* So it keeps the invariant.
LEMMA AnswerStep ==
    ASSUME IInv, NEW k \in Made, NEW cmd, NEW out, <<>> \o out = out,
           Serves(k, cmd, out), UNCHANGED cvars,
           fd' = fd \/ Frees(k),
           \A f \in Fds : f # fd[k] => cwds'[f] = cwds[f],
           \/ spc' = spc /\ serving' = serving
           \/ spc' = "put" /\ serving' = k /\ args' \in Names /\ cmd = "put",
           ServerTypeOK',
           Current(k) /\ toClient'[k] = out => AnswerForm(k, owner[k], toClient[k])',
           HomeInv(k)'
    PROVE  IInv'
<1>1. /\ spc = "loop" /\ serving = 0 /\ Ready(k)
      /\ UNCHANGED <<cvars, nconn, owner, gone>> /\ up' = up /\ up \in BOOLEAN
      /\ toServer' = Taken(toServer, k) /\ toClient' = Sent(toClient, k, out)
      /\ Current(k) => toClient'[k] = out /\ cpc[owner[k]] = cmd
  BY ServesFacts
<1>2. \/ spc' = "loop" /\ serving' = 0
      \/ /\ spc' = "put" /\ serving' = k /\ up' /\ args' \in Names
         /\ Current(k) => cpc[owner[k]] = "put"
  BY <1>1 DEF Ready
<1> QED
  BY <1>1, <1>2, ServiceStep

\* An answer that leaves all but the queues alone.
LEMMA PlainAnswerStep ==
    ASSUME IInv, NEW k \in Made, NEW cmd, cmd \notin {"open", "cd", "quit"},
           NEW out, <<>> \o out = out,
           Serves(k, cmd, out), UNCHANGED <<cvars, fd, svars>>,
           cpc[owner[k]] = cmd => AnswerForm(k, owner[k], out)
    PROVE  IInv'
<1>1. /\ UNCHANGED <<cvars, fd, spc, serving, args, pwd, cwds, files>>
      /\ UNCHANGED <<cpc, carg, home, owner>>
      /\ ServerTypeOK /\ Current(k)' = Current(k) /\ nconn' = nconn
      /\ fd[k] \in Fds
      /\ Current(k) => /\ toClient'[k] = out /\ cpc[owner[k]] = cmd
                       /\ cwds[fd[k]] = home[owner[k]]
  BY ServesFacts DEF svars
<1>2. Current(k) => AnswerForm(k, owner[k], toClient[k])'
  BY <1>1 DEF AnswerForm, Fds
<1>3. HomeInv(k)'
  BY <1>1 DEF HomeInv, Fds
<1>4. ServerTypeOK'
  BY <1>1 DEF ServerTypeOK, Made, Fds
<1> QED
  BY <1>1, <1>2, <1>3, <1>4, AnswerStep

LEMMA OpenServed ==
    ASSUME IInv, NEW k \in Made, do_open(k), UNCHANGED cvars
    PROVE  IInv'
<1> DEFINE out == <<Reply("open", 1)>>
<1>1. /\ Serves(k, "open", out) /\ <<>> \o out = out
      /\ cwds' = [cwds EXCEPT ![fd[k]] = dft_path]
      /\ UNCHANGED <<fd, spc, serving, args, pwd, files>>
  BY Joins DEF do_open
<1> HIDE DEF out
<1>2. /\ ServerTypeOK /\ fd[k] \in Fds /\ Current(k)' = Current(k)
      /\ UNCHANGED <<cpc, nconn>> /\ owner[k]' = owner[k]
      /\ Current(k) => toClient'[k] = out /\ cpc[owner[k]] = "open"
  BY <1>1, ServesFacts
<1>3. fd'[k] = fd[k] /\ cwds'[fd[k]] = dft_path
  BY <1>1, <1>2 DEF ServerTypeOK
<1>4. Current(k) => AnswerForm(k, owner[k], toClient[k])'
  BY <1>2, <1>3 DEF AnswerForm, Fds, out
<1>5. HomeInv(k)'
  BY <1>2, <1>3 DEF HomeInv
<1>6. ServerTypeOK'
  BY <1>1, <1>2, FtpAssumption DEF ServerTypeOK, Made, Fds
<1>7. \A f \in Fds : f # fd[k] => cwds'[f] = cwds[f]
  BY <1>1, <1>2 DEF ServerTypeOK
<1> QED
  BY <1>1, <1>4, <1>5, <1>6, <1>7, AnswerStep

LEMMA QuitServed ==
    ASSUME IInv, NEW k \in Made, do_quit(k), UNCHANGED cvars
    PROVE  IInv'
<1> DEFINE out == <<Reply("quit", 0)>>
<1>1. /\ Serves(k, "quit", out) /\ <<>> \o out = out /\ out # <<>>
      /\ cwds' = [cwds EXCEPT ![fd[k]] = NULL]
      /\ fd' = [fd EXCEPT ![k] = Closed]
      /\ UNCHANGED <<spc, serving, args, pwd, files>>
  BY Joins, Queues DEF do_quit
<1> HIDE DEF out
<1>2. /\ ServerTypeOK /\ fd[k] \in Fds /\ Current(k)' = Current(k)
      /\ UNCHANGED <<cpc, nconn>> /\ owner[k]' = owner[k]
      /\ Current(k) => toClient'[k] = out /\ cpc[owner[k]] = "quit"
  BY <1>1, ServesFacts
<1>3. Current(k) => AnswerForm(k, owner[k], toClient[k])'
  <2>1. fd'[k] = Closed
    BY <1>1 DEF IInv, TypeOK, ConnTypeOK
  <2> QED
    BY <1>2, <2>1 DEF AnswerForm, Closed, out
<1>4. HomeInv(k)'
  BY <1>1, <1>2 DEF HomeInv
<1>5. ServerTypeOK'
  BY <1>1, <1>2 DEF ServerTypeOK, Made, Fds
<1>6. \A f \in Fds : f # fd[k] => cwds'[f] = cwds[f]
  BY <1>1, <1>2 DEF ServerTypeOK
<1>7. Frees(k)
  BY <1>1, <1>2 DEF Frees, ServerTypeOK
<1> QED
  BY <1>1, <1>3, <1>4, <1>5, <1>6, <1>7, AnswerStep

LEMMA CdServed ==
    ASSUME IInv, NEW k \in Made, do_cd(k), UNCHANGED cvars
    PROVE  IInv'
<1> DEFINE path == Message(k).arg
           st   == IF path = Nothing THEN 0 ELSE 1
           out  == <<Reply("cd", st)>>
<1>1. /\ Serves(k, "cd", out) /\ <<>> \o out = out
      /\ cwds' = IF st = 1 THEN [cwds EXCEPT ![fd[k]] = path] ELSE cwds
      /\ UNCHANGED <<fd, spc, serving, args, pwd, files>>
  BY Joins DEF do_cd
<1>2. /\ out \in {<<Reply("cd", 0)>>, <<Reply("cd", 1)>>}
      /\ out = <<Reply("cd", 1)>> <=> st = 1
      /\ st = 1 => path # Nothing
  BY Queues DEF Reply
<1> HIDE DEF out, st
<1>3. /\ ServerTypeOK /\ fd[k] \in Fds /\ Current(k)' = Current(k)
      /\ UNCHANGED <<cpc, carg, home, nconn>> /\ owner[k]' = owner[k]
      /\ Message(k) \in Requests /\ Message(k).cmd = "cd"
      /\ Current(k) => /\ toClient'[k] = out /\ cpc[owner[k]] = "cd"
                       /\ carg[owner[k]] = path /\ cwds[fd[k]] = home[owner[k]]
  BY <1>1, ServesFacts
<1>4. path \in CdArgs
  BY <1>3, Messages
<1> HIDE DEF path
<1>5. /\ cwds' \in [Fds -> Dirs \cup {AFile, NULL}]
      /\ cwds'[fd[k]] = IF st = 1 THEN path ELSE cwds[fd[k]]
      /\ \A f \in Fds : f # fd[k] => cwds'[f] = cwds[f]
  BY <1>1, <1>2, <1>3, <1>4, FtpAssumption DEF ServerTypeOK
<1>6. Current(k) => AnswerForm(k, owner[k], toClient[k])'
  BY <1>2, <1>3 DEF AnswerForm
<1>7. HomeInv(k)'
  BY <1>1, <1>2, <1>3, <1>5 DEF HomeInv, Fds
<1>8. ServerTypeOK'
  BY <1>1, <1>3, <1>5 DEF ServerTypeOK, Made, Fds
<1> QED
  BY <1>1, <1>5, <1>6, <1>7, <1>8, AnswerStep

LEMMA LookupServed ==
    ASSUME IInv, NEW k \in Made, do_ls(k) \/ do_get(k) \/ do_sha(k), UNCHANGED cvars
    PROVE  IInv'
<1>1. ASSUME NEW cmd \in {"get", "sha"}, NEW out, Serves(k, cmd, out)
      PROVE  Entry(k) \in Data \cup {Folder, Nothing}
  <2>1. spc = "loop" /\ Ready(k) /\ Message(k).cmd = cmd /\ Directory(k) # AFile
    BY <1>1 DEF Serves
  <2>2. Message(k).arg \in Names
    BY <1>1, <2>1, Served, Messages
  <2>3. Directory(k) \in Dirs /\ ServerTypeOK
    BY <2>1, FtpAssumption DEF Directory, IInv, TypeOK, ServerTypeOK, Ready
  <2> QED
    BY <2>2, <2>3 DEF Entry, ServerTypeOK
<1>2. CASE do_ls(k)
  <2> DEFINE out == <<Reply("ls", Directory(k))>>
  <2>1. Serves(k, "ls", out) /\ UNCHANGED <<fd, svars>> /\ <<>> \o out = out
    BY <1>2, Joins DEF do_ls
  <2>2. Directory(k) \in Dirs
    BY <2>1, ServesFacts
  <2>3. cpc[owner[k]] = "ls" => AnswerForm(k, owner[k], out)
    BY <2>2 DEF AnswerForm
  <2> HIDE DEF out
  <2> QED
    BY <2>1, <2>3, PlainAnswerStep
<1>3. CASE do_get(k)
  <2>1. PICK out : /\ Serves(k, "get", out) /\ UNCHANGED <<fd, svars>>
                   /\ out = CASE Entry(k) = Nothing -> <<Reply("get", 0)>>
                              [] Entry(k) = Folder  -> <<Reply("get", 1)>>
                              [] OTHER -> <<Reply("get", 1), FileData(Entry(k))>>
    BY <1>3 DEF do_get
  <2>2. Entry(k) \in Data \cup {Folder, Nothing}
    BY <1>1, <2>1
  <2>3. \/ out = <<Reply("get", 0)>>
        \/ out = <<Reply("get", 1)>>
        \/ \E d \in Data : out = <<Reply("get", 1), FileData(d)>>
    BY <2>1, <2>2
  <2>4. <<>> \o out = out
    BY <2>3, Joins
  <2>5. cpc[owner[k]] = "get" => AnswerForm(k, owner[k], out)
    BY <2>3 DEF AnswerForm
  <2> QED
    BY <2>1, <2>4, <2>5, PlainAnswerStep
<1>4. CASE do_sha(k)
  <2>1. PICK out : /\ Serves(k, "sha", out) /\ UNCHANGED <<fd, svars>>
                   /\ out = CASE Entry(k) = Nothing -> <<Reply("sha", 0)>>
                              [] Entry(k) = Folder  -> <<Reply("sha", 1), FileData(Nothing)>>
                              [] OTHER -> <<Reply("sha", 1), FileData(Entry(k))>>
    BY <1>4 DEF do_sha
  <2>2. Entry(k) \in Data \cup {Folder, Nothing}
    BY <1>1, <2>1
  <2>3. \/ out = <<Reply("sha", 0)>>
        \/ \E d \in Data \cup {Nothing} : out = <<Reply("sha", 1), FileData(d)>>
    BY <2>1, <2>2
  <2>4. <<>> \o out = out
    BY <2>3, Joins
  <2>5. cpc[owner[k]] = "sha" => AnswerForm(k, owner[k], out)
    BY <2>3 DEF AnswerForm
  <2> QED
    BY <2>1, <2>4, <2>5, PlainAnswerStep
<1> QED
  BY <1>2, <1>3, <1>4

LEMMA PutServed ==
    ASSUME IInv, NEW k \in Made, do_put(k), UNCHANGED cvars
    PROVE  IInv'
<1> DEFINE out == <<Reply("put", 0)>>
<1>1. /\ Serves(k, "put", out) /\ <<>> \o out = out
      /\ spc' = "put" /\ serving' = k /\ args' = Message(k).arg /\ pwd' = Directory(k)
      /\ UNCHANGED <<fd, cwds, files>>
  BY Joins DEF do_put
<1>2. out = <<Reply("put", 0)>>
  OBVIOUS
<1> HIDE DEF out
<1>3. /\ ServerTypeOK /\ fd[k] \in Fds /\ Current(k)' = Current(k)
      /\ Directory(k) \in Dirs
      /\ UNCHANGED <<cpc, carg, home, nconn>> /\ owner[k]' = owner[k]
      /\ Message(k) \in Requests /\ Message(k).cmd = "put"
      /\ Current(k) => /\ toClient'[k] = out /\ cpc[owner[k]] = "put"
                       /\ carg[owner[k]] = Message(k).arg
                       /\ cwds[fd[k]] = home[owner[k]]
                       /\ home[owner[k]] \in Dirs \cup {AFile}
  BY <1>1, ServesFacts
<1>4. args' \in Names /\ pwd' \in Dirs
  BY <1>1, <1>3, Messages
<1>5. Current(k) => pwd' = home[owner[k]] /\ args' = carg[owner[k]]
  BY <1>1, <1>3, FtpAssumption DEF Directory, AFile, NULL
<1>6. Current(k) => AnswerForm(k, owner[k], toClient[k])'
  BY <1>1, <1>2, <1>3, <1>5 DEF AnswerForm
<1>7. HomeInv(k)'
  BY <1>1, <1>3 DEF HomeInv, Fds
<1>8. ServerTypeOK'
  BY <1>1, <1>3, <1>4 DEF ServerTypeOK, Made, Fds
<1> QED
  BY <1>1, <1>4, <1>6, <1>7, <1>8, AnswerStep

LEMMA RequestServed ==
    ASSUME IInv, NEW k \in Made, Serve(k), UNCHANGED cvars
    PROVE  IInv'
<1>1. CASE ChdirFails(k) \/ BrokenPipe(k)
  <2>1. UNCHANGED <<nconn, owner, gone, toClient, fd, spc, serving, args, pwd, cwds, files>>
    BY <1>1 DEF ChdirFails, BrokenPipe, svars
  <2>2. /\ spc = "loop" /\ Ready(k) /\ (up' => up) /\ up' \in BOOLEAN
        /\ toServer' = Taken(toServer, k)
    BY <1>1 DEF ChdirFails, BrokenPipe, Ready, IInv, TypeOK, ConnTypeOK
  <2>3. /\ ConnInv(k) /\ ServerTypeOK /\ serving = 0
        /\ UNCHANGED <<cpc, carg, sock, home>>
    BY <2>2 DEF IInv, TypeOK, ModeInv, cvars
  <2>4. HomeInv(k)'
    BY <2>1, <2>3 DEF ConnInv, HomeInv, Current, Fds
  <2>5. ServerTypeOK'
    BY <2>1, <2>3 DEF ServerTypeOK, Made, Fds
  <2>6. Current(k) => toClient'[k] = <<>>
    BY <2>1, <2>2, Served
  <2> QED
    BY <2>1, <2>2, <2>3, <2>4, <2>5, <2>6, ServiceStep
<1> QED
  BY <1>1, OpenServed, QuitServed, CdServed, LookupServed, PutServed DEF Serve

\* Accept gives a connection a descriptor that no other has.
LEMMA AcceptStep ==
    ASSUME IInv, Accept, UNCHANGED cvars
    PROVE  IInv'
<1>1. PICK k \in Made : fd[k] = Waiting /\ fd' = [fd EXCEPT ![k] = NewFd]
  BY DEF Accept
<1>2. /\ ConnTypeOK /\ ServerTypeOK /\ ClientTypeOK /\ ModeInv /\ FdInv
      /\ UNCHANGED <<nconn, owner, toServer, toClient, gone, up>>
      /\ UNCHANGED <<spc, serving, args, pwd, cwds, files>>
      /\ UNCHANGED <<cpc, carg, connected, sock, local, home>>
      /\ serving = 0 /\ Made' = Made
  BY DEF IInv, TypeOK, ModeInv, Accept, svars, cvars, Made
<1>3. NewFd \in Fds /\ \A j \in Made : fd[j] # NewFd
  BY <1>1, <1>2, NewFdIsFree, FtpAssumption DEF ConnTypeOK
<1>4. /\ fd' \in [Made -> Fds \cup {Waiting, Closed}]
      /\ fd'[k] = NewFd /\ fd[k] \notin Fds
      /\ \A j \in Made : j # k => fd'[j] = fd[j]
  BY <1>1, <1>2, <1>3 DEF ConnTypeOK, Fds, FirstFd, Waiting
<1>5. ASSUME NEW j \in Made PROVE ConnInv(j)'
  <2>1. j # serving /\ j # serving' /\ up' = up /\ up' \in BOOLEAN
    BY <1>2 DEF Made, ConnTypeOK
  <2>2. fd[j] \in Fds => cwds'[fd[j]] = cwds[fd[j]]
    BY <1>2, Zenon
  <2>3. cwds'[NewFd] = NULL
    BY <1>2, <1>3 DEF FdInv
  <2>4. \/ fd'[j] = fd[j]
        \/ fd[j] = Waiting /\ cwds'[fd'[j]] = NULL
    BY <1>1, <1>4, <2>3
  <2> QED
    BY <1>2, <2>1, <2>2, <2>4, OtherConns
<1>6. TypeOK'
  BY <1>2, <1>4 DEF TypeOK, ConnTypeOK, ServerTypeOK, ClientTypeOK, Fds
<1>7. FdInv'
  BY <1>2, <1>3, <1>4 DEF FdInv, Fds
<1>8. ModeInv'
  BY <1>2 DEF ModeInv
<1>9. \A c \in Clients : ClientInv(c)'
  BY <1>2 DEF IInv, ClientInv, Busy
<1> QED
  BY <1>2, <1>5, <1>6, <1>7, <1>8, <1>9 DEF IInv

\* What do_put reads is the file its client has, or a request that the client
\* sent instead.
LEMMA PutReads ==
    ASSUME IInv, PutReceives
    PROVE  /\ serving \in Made /\ ConnInv(serving)
           /\ Message(serving).type = "FILE_DATA" =>
                /\ PutIsTrue(serving)
                /\ Message(serving).arg = File(serving)
           /\ Taken(toServer, serving)[serving] = <<>>
              \/ \E m \in Requests : /\ Taken(toServer, serving)[serving] = <<m>>
                                     /\ Pending(serving, m)
<1>1. serving \in Made /\ toServer[serving] # <<>> /\ DOMAIN toServer = Made
  BY DEF IInv, TypeOK, ConnTypeOK, ServerTypeOK, ModeInv, PutReceives, Ready
<1>2. ConnInv(serving)
  BY <1>1 DEF IInv
<1>3. Taken(toServer, serving)[serving] = Tail(toServer[serving])
  BY <1>1 DEF Taken
<1>4. CASE PutIsTrue(serving) /\ toServer[serving] = <<FileData(File(serving))>>
  BY <1>1, <1>2, <1>3, <1>4, Queues, Messages DEF Message
<1>5. ASSUME NEW m \in Requests, toServer[serving] = <<m>>
      PROVE  Message(serving) = m /\ m.type # "FILE_DATA" /\ Tail(toServer[serving]) = <<>>
  BY <1>5, Queues, Messages DEF Message
<1>6. ASSUME NEW m \in Requests, PutIsTrue(serving),
             toServer[serving] = <<FileData(File(serving)), m>>
      PROVE  /\ Message(serving) = FileData(File(serving))
             /\ Tail(toServer[serving]) = <<m>> /\ Pending(serving, m)
  BY <1>6, Queues DEF Message, Pending
<1> QED
  BY <1>1, <1>2, <1>3, <1>4, <1>5, <1>6, Messages DEF ConnInv, QueueInv, Pending

LEMMA PutStep ==
    ASSUME IInv, Put, UNCHANGED cvars
    PROVE  IInv'
<1>0. serving \in Made
  BY DEF IInv, TypeOK, ServerTypeOK, ModeInv, Put, PutReceives, PutFails
<1> SUFFICES ASSUME NEW k \in Made, serving = k PROVE IInv'
  BY <1>0
<1>1. /\ ConnTypeOK /\ ServerTypeOK /\ ClientTypeOK /\ FdInv /\ up \in BOOLEAN
      /\ UNCHANGED <<nconn, owner, toClient, gone, fd, up, cwds>>
      /\ UNCHANGED <<cpc, carg, connected, sock, local, home>>
      /\ spc' = "loop" /\ serving' = 0 /\ args' = Blank /\ pwd' = dft_path
      /\ ConnInv(k) /\ Made' = Made /\ up
  BY DEF IInv, TypeOK, ConnTypeOK, ServerTypeOK, ModeInv, Put, PutReceives,
         PutFails, PutEnds, cvars, Made
<1>2. \A j \in Made : j # k => toServer'[j] = toServer[j]
  BY <1>1 DEF Put, PutReceives, PutFails, Taken, ConnTypeOK
<1>3. DOMAIN toServer' = Made
  BY <1>1 DEF Put, PutReceives, PutFails, Taken, ConnTypeOK
<1>4. files' \in [Dirs -> [Names -> Data \cup {Folder, Nothing}]]
  <2>1. CASE PutFails
    BY <1>1, <2>1 DEF PutFails, ServerTypeOK
  <2>2. CASE PutReceives
    <3>1. args \in Names /\ pwd \in Dirs
      BY <1>1, <2>2 DEF IInv, ModeInv, PutReceives, ServerTypeOK
    <3>2. Message(k).type = "FILE_DATA" => Message(k).arg \in Data
      BY <2>2, PutReads DEF PutIsTrue
    <3> QED
      BY <1>1, <2>2, <3>1, <3>2 DEF PutReceives, ServerTypeOK
  <2> QED
    BY <2>1, <2>2 DEF Put
<1>5. ASSUME NEW j \in Made, j # k PROVE ConnInv(j)'
  <2>1. j # serving'
    <3>1. j # 0
      BY DEF Made
    <3> QED
      BY <1>1, <3>1
  <2>2. up' = up /\ up' \in BOOLEAN
    BY <1>1, Zenon
  <2> QED
    BY <1>1, <1>2, <1>5, <2>1, <2>2, OtherConns DEF cvars
<1>6. ConnInv(k)'
  <2> DEFINE q == toServer'[k]
  <2>1. Current(k)' = Current(k) /\ ~PutIsTrue(k)'
    BY <1>1 DEF Current, PutIsTrue
  <2>2. /\ q = <<>> \/ \E m \in Requests : q = <<m>> /\ Pending(k, m)
        /\ Current(k) => toClient[k] = <<>>
        /\ gone[k] => q = <<>> \/ cpc[owner[k]] = "exit"
    <3>1. CASE PutFails
      BY <1>1, <3>1 DEF PutFails, ConnInv, GoneInv
    <3>2. CASE PutReceives
      BY <1>1, <3>2, PutReads DEF PutReceives, ConnInv, AnswerInv, GoneInv, Ready
    <3> QED
      BY <3>1, <3>2 DEF Put
  <2>3. \A m \in Requests : Pending(k, m)' => q = <<m>> /\ Pending(k, m)
    BY <2>1, <2>2, Queues DEF Pending
  <2>4. QueueInv(k)'
    BY <1>1, <2>2 DEF QueueInv, Pending
  <2>5. RequestInv(k)'
    BY <1>1, <2>1, <2>3 DEF ConnInv, RequestInv
  <2>6. AnswerInv(k)'
    BY <1>1, <2>1, <2>2 DEF AnswerInv
  <2>7. HomeInv(k)'
    BY <1>1, <2>1 DEF ConnInv, HomeInv, Fds
  <2>8. GoneInv(k)'
    BY <1>1, <2>1, <2>2 DEF ConnInv, GoneInv
  <2> QED
    BY <2>4, <2>5, <2>6, <2>7, <2>8 DEF ConnInv
<1>7. TypeOK'
  BY <1>1, <1>3, <1>4, FtpAssumption
     DEF TypeOK, ConnTypeOK, ServerTypeOK, ClientTypeOK, Fds
<1>8. FdInv' /\ ModeInv'
  BY <1>1 DEF FdInv, ModeInv, Fds
<1>9. \A c \in Clients : ClientInv(c)'
  BY <1>1 DEF IInv, ClientInv, Busy
<1> QED
  BY <1>1, <1>5, <1>6, <1>7, <1>8, <1>9 DEF IInv

-----------------------------------------------------------------------------
LEMMA FormKept ==
    ASSUME NEW j, NEW b, NEW out,
           cpc'[b] = cpc[b], carg'[b] = carg[b], home'[b] = home[b], fd'[j] = fd[j],
           UNCHANGED <<spc, serving, args, pwd, cwds>>,
           owner'[j] = b, toClient'[j] = out,
           AnswerForm(j, b, out)
    PROVE  AnswerForm(j, owner[j], toClient[j])'
<1>1. AnswerForm(j, b, out)'
  <2>1. CASE /\ cpc[b] = "open" /\ out = <<Reply("open", 1)>>
             /\ fd[j] \in Fds /\ cwds[fd[j]] = dft_path
    BY <2>1 DEF AnswerForm, Fds
  <2>2. CASE cpc[b] = "ls" /\ \E d \in Dirs : out = <<Reply("ls", d)>>
    BY <2>2 DEF AnswerForm
  <2>3. CASE \/ cpc[b] = "cd" /\ out \in {<<Reply("cd", 0)>>, <<Reply("cd", 1)>>}
             \/ cpc[b] = "get" /\ out \in {<<Reply("get", 0)>>, <<Reply("get", 1)>>}
             \/ cpc[b] = "sha" /\ out = <<Reply("sha", 0)>>
    BY <2>3 DEF AnswerForm
  <2>4. CASE cpc[b] = "get" /\ \E d \in Data : out = <<Reply("get", 1), FileData(d)>>
    BY <2>4 DEF AnswerForm
  <2>5. CASE /\ cpc[b] = "sha"
             /\ \E d \in Data \cup {Nothing} : out = <<Reply("sha", 1), FileData(d)>>
    BY <2>5 DEF AnswerForm
  <2>6. CASE cpc[b] = "get data" /\ \E d \in Data : out = <<FileData(d)>>
    BY <2>6 DEF AnswerForm
  <2>7. CASE cpc[b] = "sha data" /\ \E d \in Data \cup {Nothing} : out = <<FileData(d)>>
    BY <2>7 DEF AnswerForm
  <2>8. CASE /\ cpc[b] = "put" /\ out = <<Reply("put", 0)>>
             /\ spc = "put" /\ serving = j /\ args = carg[b] /\ pwd = home[b]
    BY <2>8 DEF AnswerForm
  <2>9. CASE cpc[b] = "quit" /\ out = <<Reply("quit", 0)>> /\ fd[j] = Closed
    BY <2>9 DEF AnswerForm, Closed
  <2> QED
    BY <2>1, <2>2, <2>3, <2>4, <2>5, <2>6, <2>7, <2>8, <2>9 DEF AnswerForm
<1> QED
  BY <1>1

\* A step of client c keeps the invariant of the others' connections.
LEMMA OthersConns ==
    ASSUME IInv, NEW c \in Clients, NEW j \in Made, owner[j] # c,
           UNCHANGED <<svars, up>>,
           \A i \in Made : owner'[i] = owner[i],
           \A b \in Clients : b # c => /\ cpc'[b] = cpc[b] /\ carg'[b] = carg[b]
                                       /\ sock'[b] = sock[b] /\ home'[b] = home[b]
                                       /\ local'[b] = local[b],
           toServer'[j] = toServer[j], toClient'[j] = toClient[j],
           gone'[j] = gone[j], fd'[j] = fd[j]
    PROVE  ConnInv(j)'
<1> DEFINE b == owner[j]
<1>1. /\ ConnInv(j) /\ b \in Clients /\ serving \in Made \cup {0}
      /\ UNCHANGED <<spc, serving, args, pwd, cwds>>
      /\ owner'[j] = b
      /\ cpc'[b] = cpc[b] /\ carg'[b] = carg[b] /\ sock'[b] = sock[b]
      /\ home'[b] = home[b] /\ local'[b] = local[b]
      /\ serving # 0 => owner'[serving] = owner[serving]
  BY DEF IInv, TypeOK, ConnTypeOK, ServerTypeOK, svars
<1>2. /\ Current(j)' = Current(j) /\ PutIsTrue(j)' = PutIsTrue(j)
      /\ File(j)' = File(j)
  BY <1>1 DEF Current, PutIsTrue, File
<1>3. \A m : Pending(j, m)' <=> Pending(j, m)
  BY <1>2 DEF Pending
<1>4. QueueInv(j)'
  BY <1>1, <1>2, <1>3 DEF ConnInv, QueueInv
<1>5. RequestInv(j)'
  BY <1>1, <1>2, <1>3 DEF ConnInv, RequestInv
<1>6. AnswerInv(j)'
  <2> SUFFICES ASSUME Current(j), toClient[j] # <<>> PROVE AnswerInv(j)'
    BY <1>2 DEF AnswerInv
  <2>0. AnswerForm(j, b, toClient[j])
    BY <1>1 DEF ConnInv, AnswerInv
  <2>1. AnswerForm(j, owner[j], toClient[j])'
    BY <1>1, <2>0, FormKept
  <2> QED
    BY <1>1, <2>1 DEF ConnInv, AnswerInv
<1>7. HomeInv(j)'
  BY <1>1, <1>2 DEF ConnInv, HomeInv, Fds
<1>8. GoneInv(j)'
  BY <1>1, <1>2 DEF ConnInv, GoneInv
<1> QED
  BY <1>4, <1>5, <1>6, <1>7, <1>8 DEF ConnInv

\* Nor does it break that of a connection c has left behind, or now leaves or
\* closes.
LEMMA UnusedConns ==
    ASSUME IInv, NEW j \in Made, ~Current(j)', UNCHANGED <<svars, up>>,
           owner'[j] = owner[j], toServer'[j] = toServer[j],
           PutIsTrue(j) => /\ home'[owner[j]] = home[owner[j]]
                           /\ local'[owner[j]] = local[owner[j]],
           \/ /\ gone'[j]
              /\ ~up \/ toServer[j] = <<>> \/ cpc'[owner[j]] = "exit"
           \/ /\ gone'[j] = gone[j]
              /\ cpc[owner[j]] = "exit" => cpc'[owner[j]] = "exit"
              /\ ~Current(j) \/ cpc[owner[j]] = "prompt" \/ ~up
    PROVE  ConnInv(j)'
<1>1. ConnInv(j) /\ UNCHANGED <<spc, serving, args, pwd, up>>
  BY DEF IInv, svars
<1>2. PutIsTrue(j) => PutIsTrue(j)' /\ File(j)' = File(j)
  BY <1>1 DEF PutIsTrue, File
<1>3. QueueInv(j)'
  BY <1>1, <1>2 DEF ConnInv, QueueInv, Pending
<1>4. RequestInv(j)'
  <2> SUFFICES ASSUME NEW m \in Requests, up, ~gone'[j], Pending(j, m)' PROVE FALSE
    BY <1>1 DEF RequestInv
  <2>1. Pending(j, m)
    <3>1. toServer[j] = <<m>> \/ \E d : toServer[j] = <<d, m>>
      BY DEF Pending
    <3>2. ASSUME NEW d, toServer[j] = <<d, m>> PROVE Pending(j, m)
      <4>1. PICK r \in Requests : Pending(j, r)
        BY <1>1, <3>2, Queues DEF ConnInv, QueueInv
      <4>2. r = m
        BY <3>2, <4>1, Queues DEF Pending
      <4> QED
        BY <4>1, <4>2
    <3> QED
      BY <3>1, <3>2 DEF Pending
  <2>2. ~gone[j] /\ (~Current(j) \/ cpc[owner[j]] = "prompt")
    OBVIOUS
  <2>3. Current(j) /\ cpc[owner[j]] = m.cmd
    BY <1>1, <2>1, <2>2 DEF ConnInv, RequestInv
  <2> QED
    BY <2>2, <2>3, Messages DEF Commands
<1>5. AnswerInv(j)' /\ HomeInv(j)'
  BY DEF AnswerInv, HomeInv
<1>6. GoneInv(j)'
  <2> SUFFICES ASSUME gone'[j]
               PROVE  ~up \/ toServer[j] = <<>> \/ cpc'[owner[j]] = "exit"
    BY DEF GoneInv
  <2>1. CASE gone'[j] = gone[j] /\ (cpc[owner[j]] = "exit" => cpc'[owner[j]] = "exit")
    <3>1. gone[j]
      BY <2>1, Zenon
    <3> QED
      BY <1>1, <2>1, <3>1 DEF ConnInv, GoneInv
  <2> QED
    BY <2>1
<1> QED
  BY <1>3, <1>4, <1>5, <1>6 DEF ConnInv

\* The parts of a client's step together.
LEMMA ClientStep ==
    ASSUME IInv, NEW c \in Clients, UNCHANGED <<svars, up>>,
           \A i \in Made : owner'[i] = owner[i],
           \A b \in Clients : b # c => /\ cpc'[b] = cpc[b] /\ carg'[b] = carg[b]
                                       /\ sock'[b] = sock[b] /\ home'[b] = home[b]
                                       /\ local'[b] = local[b],
           \A j \in Made : owner[j] # c =>
               /\ toServer'[j] = toServer[j] /\ toClient'[j] = toClient[j]
               /\ gone'[j] = gone[j] /\ fd'[j] = fd[j],
           TypeOK', FdInv', ClientInv(c)',
           \A j \in Made' : (j \in Made /\ owner[j] # c) \/ ConnInv(j)'
    PROVE  IInv'
<1>1. \A j \in Made' : ConnInv(j)'
  BY OthersConns
<1>2. ModeInv'
  BY DEF IInv, ModeInv, svars
<1>3. ASSUME NEW b \in Clients, b # c PROVE ClientInv(b)'
  <2>1. ClientInv(b) /\ sock[b] \in Made \cup {0}
    BY DEF IInv, TypeOK, ClientTypeOK
  <2> QED
    BY ZenonT(40), <1>3, <2>1 DEF ClientInv, Busy
<1> QED
  BY <1>1, <1>2, <1>3 DEF IInv

-----------------------------------------------------------------------------
\* The steps of a client.

\* A client ends, at its prompt or killed while it waits.
LEMMA LeavesStep ==
    ASSUME IInv, NEW c \in Clients, Leaves(c), UNCHANGED svars
    PROVE  IInv'
<1>1. /\ ConnTypeOK /\ ServerTypeOK /\ ClientTypeOK /\ FdInv /\ ClientInv(c)
      /\ UNCHANGED <<nconn, owner, toServer, toClient, fd, up, connected, sock,
                     local, home>>
      /\ UNCHANGED <<spc, serving, args, pwd, cwds, files>>
      /\ Made' = Made
  BY DEF IInv, TypeOK, Leaves, svars, Made
<1>2. /\ cpc' = [cpc EXCEPT ![c] = "exit"] /\ carg' = [carg EXCEPT ![c] = Blank]
      /\ gone' = [k \in Made |-> gone[k] \/ owner[k] = c]
  BY DEF Leaves
<1>3. \A b \in Clients : b # c => cpc'[b] = cpc[b] /\ carg'[b] = carg[b]
  BY <1>1, <1>2 DEF ClientTypeOK
<1>4. cpc'[c] = "exit"
  BY <1>1, <1>2 DEF ClientTypeOK
<1>5. /\ \A k \in Made : owner[k] = c => gone'[k]
      /\ \A k \in Made : owner[k] # c => gone'[k] = gone[k]
      /\ gone' \in [Made -> BOOLEAN]
  <2>1. gone \in [Made -> BOOLEAN]
    BY <1>1 DEF ConnTypeOK
  <2> QED
    BY <1>2, <2>1, Zenon
<1>6. ASSUME NEW k \in Made, owner[k] = c PROVE ConnInv(k)'
  BY <1>1, <1>4, <1>5, <1>6, UnusedConns DEF Current, svars
<1>7. TypeOK'
  <2>1. ConnTypeOK'
    BY <1>1, <1>5 DEF ConnTypeOK, Fds
  <2>2. ServerTypeOK'
    BY <1>1 DEF ServerTypeOK, Fds
  <2>3. ClientTypeOK'
    BY <1>1, <1>2 DEF ClientTypeOK
  <2> QED
    BY <2>1, <2>2, <2>3 DEF TypeOK
<1>8. FdInv' /\ ClientInv(c)'
  BY <1>1, <1>4 DEF FdInv, ClientInv, Busy, Fds
<1> QED
  BY <1>1, <1>3, <1>5, <1>6, <1>7, <1>8, ClientStep

LEMMA OpenFailsStep ==
    ASSUME IInv, NEW c \in Clients, OpenFails(c), UNCHANGED svars
    PROVE  IInv'
<1>1. /\ ConnTypeOK /\ ServerTypeOK /\ ClientTypeOK /\ FdInv /\ ClientInv(c)
      /\ UNCHANGED <<nconn, owner, toServer, toClient, gone, fd, up>>
      /\ UNCHANGED <<cpc, carg, connected, local, home>>
      /\ UNCHANGED <<spc, serving, args, pwd, cwds, files>>
      /\ Made' = Made
  BY DEF IInv, TypeOK, OpenFails, svars, connvars, Made
<1>2. cpc[c] = "prompt" /\ sock' = [sock EXCEPT ![c] = 0]
  BY DEF OpenFails
<1>3. sock'[c] = 0 /\ \A b \in Clients : b # c => sock'[b] = sock[b]
  BY <1>1, <1>2 DEF ClientTypeOK
<1>4. ASSUME NEW k \in Made, owner[k] = c PROVE ConnInv(k)'
  <2>1. ~Current(k)'
    BY <1>1, <1>3, <1>4 DEF Current, Made
  <2> QED
    BY <1>1, <1>2, <1>4, <2>1, UnusedConns DEF svars
<1>5. TypeOK'
  BY <1>1, <1>2 DEF TypeOK, ConnTypeOK, ServerTypeOK, ClientTypeOK, Fds
<1>6. FdInv' /\ ClientInv(c)'
  BY <1>1, <1>2, <1>3 DEF FdInv, ClientInv, Busy, Fds
<1> QED
  BY <1>1, <1>3, <1>4, <1>5, <1>6, ClientStep DEF svars

\* At the prompt nothing is on its way to the server, but for the file of the
\* put before.
LEMMA QueueAtPrompt ==
    ASSUME IInv, NEW c \in Clients, cpc[c] = "prompt", up, NEW k, k = sock[c], k # 0
    PROVE  \/ toServer[k] = <<>>
           \/ PutIsTrue(k) /\ toServer[k] = <<FileData(File(k))>>
<1>1. k \in Made /\ owner[k] = c /\ ConnInv(k) /\ Current(k)
  BY DEF IInv, TypeOK, ClientTypeOK, ClientInv, Current
<1>2. ~gone[k]
  BY <1>1 DEF ConnInv, GoneInv
<1>3. ASSUME NEW r \in Requests, Pending(k, r) PROVE FALSE
  <2>1. cpc[c] = r.cmd
    BY <1>1, <1>2, <1>3 DEF ConnInv, RequestInv
  <2> QED
    BY <2>1, Messages DEF Commands
<1> QED
  BY <1>1, <1>3 DEF ConnInv, QueueInv

\* A request goes out on such a connection.
LEMMA AsksStep ==
    ASSUME IInv, NEW c \in Clients, NEW cmd, NEW arg, Asks(c, cmd, arg),
           Request(cmd, arg) \in Requests, cmd # "open",
           arg \in CdArgs \cup Names \cup {Blank}, UNCHANGED svars
    PROVE  IInv'
<1>1. SUFFICES ASSUME NEW k, k = sock[c], NEW m, m = Request(cmd, arg) PROVE IInv'
  OBVIOUS
<1>2. /\ ConnTypeOK /\ ServerTypeOK /\ ClientTypeOK /\ FdInv /\ ClientInv(c)
      /\ UNCHANGED <<nconn, owner, toClient, gone, fd, up, connected, sock, local, home>>
      /\ UNCHANGED <<spc, serving, args, pwd, cwds, files>>
      /\ Made' = Made /\ cpc[c] = "prompt" /\ up /\ k # 0
  BY <1>1 DEF IInv, TypeOK, Asks, svars, Made
<1>3. /\ k \in Made /\ owner[k] = c /\ ConnInv(k) /\ Current(k)
      /\ cpc'[c] = cmd /\ carg'[c] = arg /\ sock'[c] = k
      /\ \A b \in Clients : b # c => cpc'[b] = cpc[b] /\ carg'[b] = carg[b]
      /\ toServer'[k] = toServer[k] \o <<m>>
      /\ \A j \in Made : j # k => toServer'[j] = toServer[j]
      /\ DOMAIN toServer' = Made
  BY <1>1, <1>2 DEF IInv, ClientTypeOK, ConnTypeOK, ClientInv, Asks, Sent, Current
<1>4. /\ m.type = "request" /\ m.cmd = cmd /\ m.arg = arg /\ cmd \in Commands
      /\ m \in Requests
  BY <1>1, Messages DEF Request
<1>5. toClient[k] = <<>> /\ ~gone[k]
  BY <1>2, <1>3 DEF ConnInv, AnswerInv, AnswerForm, GoneInv
<1>6. \/ toServer'[k] = <<m>>
      \/ PutIsTrue(k) /\ toServer'[k] = <<FileData(File(k)), m>>
  <2>2. \/ toServer[k] = <<>>
        \/ PutIsTrue(k) /\ toServer[k] = <<FileData(File(k))>>
    BY <1>1, <1>2, QueueAtPrompt
  <2>3. CASE toServer[k] = <<>>
    <3>1. toServer'[k] = <<>> \o <<m>>
      BY <1>3, <2>3
    <3> QED
      BY <3>1, Joins
  <2>4. CASE PutIsTrue(k) /\ toServer[k] = <<FileData(File(k))>>
    <3> DEFINE d == FileData(File(k))
    <3>1. toServer'[k] = <<d>> \o <<m>>
      BY <1>3, <2>4
    <3> HIDE DEF d
    <3>2. toServer'[k] = <<d, m>>
      BY <3>1, Joins
    <3> QED
      BY <2>4, <3>2 DEF d
  <2> QED
    BY <2>2, <2>3, <2>4
<1>7. PutIsTrue(k)' = PutIsTrue(k) /\ File(k)' = File(k)
  BY <1>2 DEF PutIsTrue, File
<1>8. Current(k)' /\ Pending(k, m)'
  <2>1. Current(k)'
    BY <1>2, <1>3, <1>4 DEF Current, Commands
  <2>2. Pending(k, m)'
    BY <1>6, <1>7 DEF Pending
  <2> QED
    BY <2>1, <2>2
<1>9. \A r : r \in Requests /\ Pending(k, r)' => r = m
  <2> SUFFICES ASSUME NEW r, Pending(k, r)' PROVE r = m
    OBVIOUS
  <2>1. toServer'[k] = <<r>> \/ toServer'[k] = <<FileData(File(k)), r>>
    BY <1>7, Zenon DEF Pending
  <2>2. toServer'[k] = <<m>> \/ toServer'[k] = <<FileData(File(k)), m>>
    BY <1>6, Zenon
  <2> QED
    BY <2>1, <2>2, SameLast
<1>10. ConnInv(k)'
  <2>1. QueueInv(k)'
    BY <1>4, <1>8 DEF QueueInv
  <2>2. RequestInv(k)'
    BY <1>2, <1>3, <1>4, <1>8, <1>9 DEF RequestInv
  <2>3. AnswerInv(k)' /\ GoneInv(k)'
    BY <1>2, <1>5 DEF AnswerInv, GoneInv
  <2>4. HomeInv(k)'
    BY <1>2, <1>3, <1>5, Queues DEF ConnInv, HomeInv, Fds
  <2> QED
    BY <2>1, <2>2, <2>3, <2>4 DEF ConnInv
<1>11. ASSUME NEW j \in Made, owner[j] = c, j # k PROVE ConnInv(j)'
  <2>1. ~Current(j)'
    BY <1>2, <1>3, <1>11 DEF Current
  <2> QED
    BY <1>2, <1>3, <1>11, <2>1, UnusedConns DEF svars
<1>12. TypeOK'
  <2>1. ConnTypeOK' /\ ServerTypeOK'
    BY <1>2, <1>3 DEF ConnTypeOK, ServerTypeOK, Fds
  <2>2. ClientTypeOK'
    BY <1>1, <1>2, <1>4 DEF ClientTypeOK, Asks
  <2> QED
    BY <2>1, <2>2 DEF TypeOK
<1>13. FdInv'
  BY <1>2 DEF FdInv, Fds
<1>14. ClientInv(c)'
  BY ZenonT(40), <1>2, <1>3, <1>4, Messages DEF ClientInv, Busy, Commands
<1> QED
  BY <1>2, <1>3, <1>10, <1>11, <1>12, <1>13, <1>14, ClientStep

\* open makes a connection that its client alone uses from now on.
LEMMA OpensStep ==
    ASSUME IInv, NEW c \in Clients, Opens(c), UNCHANGED svars
    PROVE  IInv'
<1>1. nconn \in Nat
  BY DEF IInv, TypeOK, ConnTypeOK
<1> SUFFICES ASSUME NEW k, k = nconn + 1 PROVE IInv'
  OBVIOUS
<1>2. /\ ConnTypeOK /\ ServerTypeOK /\ ClientTypeOK /\ FdInv /\ ClientInv(c)
      /\ UNCHANGED <<up, carg, connected, local, home>>
      /\ UNCHANGED <<spc, serving, args, pwd, cwds, files>>
      /\ cpc[c] = "prompt" /\ nconn < MaxConns /\ nconn' = k
  BY DEF IInv, TypeOK, Opens, svars
<1>3. /\ Made \subseteq Made' /\ k \in Made' /\ k \notin Made /\ k # 0
      /\ Made' = Made \cup {k} /\ nconn' \in 0 .. MaxConns
  BY <1>1, <1>2, FtpAssumption DEF Made
<1>4. /\ cpc'[c] = "open" /\ sock'[c] = k
      /\ \A b \in Clients : b # c => cpc'[b] = cpc[b] /\ sock'[b] = sock[b]
  BY <1>2 DEF ClientTypeOK, Opens
<1>5. owner' \in [Made' -> Clients] /\ owner'[k] = c
      /\ \A j \in Made : owner'[j] = owner[j]
  <2>1. owner' = Append(owner, c) /\ owner \in [1 .. nconn -> Clients]
    BY <1>2 DEF Opens, ConnTypeOK, Made
  <2>2. Made = 1 .. nconn /\ Made' = 1 .. nconn + 1 /\ c \in Clients
    BY <1>2 DEF Made
  <2>3. /\ Append(owner, c) \in [1 .. nconn + 1 -> Clients]
        /\ \A i \in 1 .. nconn : Append(owner, c)[i] = owner[i]
        /\ Append(owner, c)[nconn + 1] = c
    BY <1>1, <2>1, <2>2, Appended
  <2> QED
    BY <2>1, <2>2, <2>3, Zenon
<1>6. gone' \in [Made' -> BOOLEAN] /\ gone'[k] = FALSE
      /\ \A j \in Made : gone'[j] = gone[j]
  <2>1. /\ gone' = Append(gone, FALSE) /\ FALSE \in BOOLEAN
        /\ gone \in [1 .. nconn -> BOOLEAN]
    BY <1>2 DEF Opens, ConnTypeOK, Made
  <2>2. Made = 1 .. nconn /\ Made' = 1 .. nconn + 1
    BY <1>2 DEF Made
  <2>3. ASSUME NEW S, NEW e \in S, gone \in [1 .. nconn -> S]
        PROVE  /\ Append(gone, e) \in [1 .. nconn + 1 -> S]
               /\ \A i \in 1 .. nconn : Append(gone, e)[i] = gone[i]
               /\ Append(gone, e)[nconn + 1] = e
    BY SMTT(40), <1>1, <2>3, Appended
  <2>4. /\ Append(gone, FALSE) \in [1 .. nconn + 1 -> BOOLEAN]
        /\ \A i \in 1 .. nconn : Append(gone, FALSE)[i] = gone[i]
        /\ Append(gone, FALSE)[nconn + 1] = FALSE
    BY <2>1, <2>3
  <2> QED
    BY <2>1, <2>2, <2>4, Zenon
<1>7. fd' \in [Made' -> Fds \cup {Waiting, Closed}] /\ fd'[k] = Waiting
      /\ \A j \in Made : fd'[j] = fd[j]
  <2>1. /\ fd' = Append(fd, Waiting) /\ Waiting \in Fds \cup {Waiting, Closed}
        /\ fd \in [1 .. nconn -> Fds \cup {Waiting, Closed}]
    BY <1>2 DEF Opens, ConnTypeOK, Made
  <2>2. Made = 1 .. nconn /\ Made' = 1 .. nconn + 1
    BY <1>2 DEF Made
  <2>3. /\ Append(fd, Waiting) \in [1 .. nconn + 1 -> Fds \cup {Waiting, Closed}]
        /\ \A i \in 1 .. nconn : Append(fd, Waiting)[i] = fd[i]
        /\ Append(fd, Waiting)[nconn + 1] = Waiting
    BY <1>1, <2>1, AppendedFd
  <2> QED
    BY <2>1, <2>2, <2>3, Zenon
<1>8. FdInv'
  BY <1>2, <1>3, <1>7 DEF FdInv, Fds, FirstFd, Waiting
<1>9. SUFFICES ASSUME NEW m, m = Request("open", Blank) PROVE IInv'
  OBVIOUS
<1>10. DOMAIN toServer' = Made' /\ toServer'[k] = <<m>>
      /\ \A j \in Made : toServer'[j] = toServer[j]
  <2>1. toServer' = Append(toServer, <<m>>) /\ DOMAIN toServer = 1 .. nconn
    BY <1>2, <1>9 DEF Opens, ConnTypeOK, Made
  <2>2. Made = 1 .. nconn /\ Made' = 1 .. nconn + 1
    BY <1>2 DEF Made
  <2>3. ASSUME NEW e
        PROVE  /\ DOMAIN Append(toServer, e) = 1 .. nconn + 1
               /\ \A i \in 1 .. nconn : Append(toServer, e)[i] = toServer[i]
               /\ Append(toServer, e)[nconn + 1] = e
    BY <1>1, <2>1, AppendedTo
  <2> QED
    BY <2>1, <2>2, <2>3, Zenon
<1>11. DOMAIN toClient' = Made' /\ toClient'[k] = <<>>
      /\ \A j \in Made : toClient'[j] = toClient[j]
  <2>1. toClient' = Append(toClient, <<>>) /\ DOMAIN toClient = 1 .. nconn
    BY <1>2 DEF Opens, ConnTypeOK, Made
  <2>2. Made = 1 .. nconn /\ Made' = 1 .. nconn + 1
    BY <1>2 DEF Made
  <2>3. /\ DOMAIN Append(toClient, <<>>) = 1 .. nconn + 1
        /\ \A i \in 1 .. nconn : Append(toClient, <<>>)[i] = toClient[i]
        /\ Append(toClient, <<>>)[nconn + 1] = <<>>
    BY <1>1, <2>1, <2>2, AppendedTo
  <2> QED
    BY <2>1, <2>2, <2>3, Zenon
<1>12. m \in Requests /\ m.cmd = "open"
  BY <1>9 DEF Request, Requests, RequestsOf
<1>13. ConnInv(k)'
  <2>1. serving # k
    BY <1>2, <1>3 DEF ServerTypeOK
  <2>2. ~PutIsTrue(k)' /\ Current(k)'
    BY <1>2, <1>4, <1>5, <2>1 DEF PutIsTrue, Current
  <2>3. QueueInv(k)'
    BY <1>10, <1>12 DEF QueueInv, Pending
  <2>4. \A r : r \in Requests /\ Pending(k, r)' => r = m
    <3> QED
      BY <1>10, <2>2, Queues DEF Pending
  <2>5. RequestInv(k)'
    BY <1>4, <1>5, <1>12, <2>2, <2>4 DEF RequestInv
  <2>6. AnswerInv(k)' /\ GoneInv(k)'
    BY <1>4, <1>5, <1>6, <1>11 DEF AnswerInv, GoneInv
  <2>7. fd'[k] \notin Fds'
    BY <1>7 DEF Fds, FirstFd, Waiting
  <2>8. HomeInv(k)'
    BY <1>4, <1>5, <2>7 DEF HomeInv
  <2> QED
    BY <2>3, <2>5, <2>6, <2>8 DEF ConnInv
<1>14. ASSUME NEW j \in Made, owner[j] = c PROVE ConnInv(j)'
  <2>1. ~Current(j)'
    BY <1>3, <1>4, <1>5, <1>14 DEF Current
  <2> QED
    BY <1>2, <1>4, <1>5, <1>6, <1>10, <1>14, <2>1, UnusedConns DEF svars
<1>15. TypeOK'
  <2>2. ConnTypeOK'
    BY <1>2, <1>5, <1>6, <1>7, <1>10, <1>11, <1>3 DEF ConnTypeOK, Fds
  <2>3. ServerTypeOK'
    BY <1>2, <1>3 DEF ServerTypeOK, Fds
  <2>4. cpc' \in [Clients -> Commands \cup {"prompt", "get data", "sha data", "exit"}]
        /\ sock' \in [Clients -> Made' \cup {0}]
    BY <1>2, <1>3 DEF ClientTypeOK, Opens, Commands
  <2>5. ClientTypeOK'
    BY <1>2, <2>4 DEF ClientTypeOK
  <2> QED
    BY <2>2, <2>3, <2>5 DEF TypeOK
<1>16. ClientInv(c)'
  BY <1>3, <1>4, <1>5 DEF ClientInv, Busy
<1> QED
  BY <1>2, <1>3, <1>4, <1>5, <1>6, <1>7, <1>10, <1>11, <1>13, <1>14, <1>15, <1>8, <1>16,
     ClientStep

\* After the answer of step, c waits for next, or is at its prompt.
Follows(step, next) ==
    \/ step \in Commands \cup {"get data", "sha data"} /\ next = "prompt"
    \/ step = "get" /\ next = "get data"
    \/ step = "sha" /\ next = "sha data"

\* What c finds when it takes an answer: the connection is its own again, and
\* if the server waits for a file of c, it is this put that it waits for.
Took(c, step, next, k) ==
    /\ ConnTypeOK /\ ServerTypeOK /\ ClientTypeOK /\ FdInv /\ ClientInv(c)
    /\ UNCHANGED <<nconn, owner, fd, up>>
    /\ UNCHANGED <<spc, serving, args, pwd, cwds, files>>
    /\ Made' = Made
    /\ k \in Made /\ owner[k] = c /\ ~gone[k] /\ Current(k) /\ ConnInv(k)
    /\ toServer[k] = <<>> /\ AnswerForm(k, c, toClient[k])
    /\ cpc[c] = step /\ cpc'[c] = next
    /\ carg'[c] = IF next = "prompt" THEN Blank ELSE carg[c]
    /\ \A b \in Clients : b # c => cpc'[b] = cpc[b] /\ carg'[b] = carg[b]
    /\ toClient'[k] = Tail(toClient[k]) /\ DOMAIN toClient' = Made
    /\ \A j \in Made : j # k => toClient'[j] = toClient[j]
    /\ \A j \in Made : serving = j /\ owner[j] = c => step = "put" /\ j = k
    /\ cpc' \in [Clients -> Commands \cup {"prompt", "get data", "sha data", "exit"}]
    /\ carg' \in [Clients -> CdArgs \cup Names \cup {Blank}]

LEMMA FollowsStates ==
    \A step, next : Follows(step, next) =>
        /\ step \notin {"prompt", "exit"}
        /\ next \in {"prompt", "get data", "sha data"}
BY DEF Follows, Commands

LEMMA TakesFacts ==
    ASSUME IInv, NEW c \in Clients, NEW step, NEW next, Takes(c, step, next),
           Follows(step, next), UNCHANGED svars, NEW k, k = sock[c]
    PROVE  Took(c, step, next, k)
<1>1. /\ ConnTypeOK /\ ServerTypeOK /\ ClientTypeOK /\ FdInv /\ ClientInv(c)
      /\ UNCHANGED <<nconn, owner, fd, up>>
      /\ UNCHANGED <<spc, serving, args, pwd, cwds, files>>
      /\ Made' = Made /\ cpc[c] = step /\ toClient[k] # <<>>
  BY DEF IInv, TypeOK, Takes, svars, Made
<1>2. k \in Made /\ owner[k] = c /\ Current(k) /\ ConnInv(k)
  BY <1>1 DEF IInv, ClientTypeOK, ClientInv, Busy, Current, Follows, Commands
<1>3. /\ ~gone[k] /\ toServer[k] = <<>> /\ AnswerForm(k, c, toClient[k])
      /\ serving # 0 /\ owner[serving] = c => step = "put"
  BY <1>1, <1>2 DEF ConnInv, AnswerInv, GoneInv
<1>4. ASSUME NEW j \in Made, serving = j, owner[j] = c PROVE step = "put" /\ j = k
  <2>1. step = "put"
    BY <1>3, <1>4 DEF Made
  <2> QED
    BY <1>1, <1>3, <1>4, <2>1 DEF AnswerForm
<1>5. /\ cpc' = [cpc EXCEPT ![c] = next]
      /\ carg' = IF next = "prompt" THEN [carg EXCEPT ![c] = Blank] ELSE carg
      /\ toClient' = [toClient EXCEPT ![k] = Tail(@)]
  BY DEF Takes, Taken
<1>6. next \in Commands \cup {"prompt", "get data", "sha data", "exit"}
  BY DEF Follows
<1>7. /\ cpc'[c] = next
      /\ carg'[c] = IF next = "prompt" THEN Blank ELSE carg[c]
      /\ \A b \in Clients : b # c => cpc'[b] = cpc[b] /\ carg'[b] = carg[b]
      /\ cpc' \in [Clients -> Commands \cup {"prompt", "get data", "sha data", "exit"}]
      /\ carg' \in [Clients -> CdArgs \cup Names \cup {Blank}]
  BY <1>1, <1>5, <1>6 DEF ClientTypeOK
<1>8. /\ toClient'[k] = Tail(toClient[k]) /\ DOMAIN toClient' = Made
      /\ \A j \in Made : j # k => toClient'[j] = toClient[j]
  BY <1>1, <1>2, <1>5 DEF ConnTypeOK
<1> QED
  BY <1>1, <1>2, <1>3, <1>4, <1>7, <1>8 DEF Took

\* It keeps the invariant of all connections if it keeps that of its own, or
\* closes it.
LEMMA TakesStep ==
    ASSUME IInv, NEW c \in Clients, NEW step, NEW next, NEW k, k = sock[c],
           Follows(step, next), Took(c, step, next, k), UNCHANGED svars,
           DOMAIN toServer' = Made, \A j \in Made : j # k => toServer'[j] = toServer[j],
           gone' \in [Made -> BOOLEAN], \A j \in Made : j # k => gone'[j] = gone[j],
           connected' \in [Clients -> BOOLEAN],
           sock' \in [Clients -> Made \cup {0}],
           local' \in [Clients -> [Names -> Data \cup {Nothing}]],
           home' \in [Clients -> Dirs \cup {AFile}],
           \A b \in Clients : b # c => /\ sock'[b] = sock[b] /\ home'[b] = home[b]
                                       /\ local'[b] = local[b],
           \/ sock'[c] = k /\ ConnInv(k)'
           \/ /\ sock'[c] = 0 /\ gone'[k] /\ toServer'[k] = toServer[k]
              /\ next = "prompt" /\ step # "put"
    PROVE  IInv'
<1>1. /\ ConnTypeOK /\ ServerTypeOK /\ ClientTypeOK /\ FdInv /\ ClientInv(c)
      /\ UNCHANGED <<nconn, owner, fd, up>>
      /\ UNCHANGED <<spc, serving, args, pwd, cwds, files>>
      /\ Made' = Made
      /\ k \in Made /\ owner[k] = c /\ ~gone[k] /\ Current(k) /\ ConnInv(k)
      /\ toServer[k] = <<>> /\ cpc[c] = step /\ cpc'[c] = next
      /\ carg'[c] = IF next = "prompt" THEN Blank ELSE carg[c]
      /\ \A b \in Clients : b # c => cpc'[b] = cpc[b] /\ carg'[b] = carg[b]
      /\ DOMAIN toClient' = Made
      /\ \A j \in Made : j # k => toClient'[j] = toClient[j]
      /\ \A j \in Made : serving = j /\ owner[j] = c => step = "put" /\ j = k
      /\ cpc' \in [Clients -> Commands \cup {"prompt", "get data", "sha data", "exit"}]
      /\ carg' \in [Clients -> CdArgs \cup Names \cup {Blank}]
  BY DEF Took
<1>2. sock'[c] = k \/ sock'[c] = 0
  BY Zenon
<1>3. cpc[c] # "exit"
  <2>1. step # "exit"
    BY FollowsStates
  <2> QED
    BY <1>1, <2>1
<1>4. ASSUME NEW j \in Made, owner[j] = c, j # k PROVE ConnInv(j)'
  <2>0. j # 0
    BY DEF Made
  <2>1. owner'[j] = c /\ sock[c] # j /\ sock'[c] # j
    BY <1>2, <1>1, <1>4, <2>0, Zenon
  <2>2. ~Current(j) /\ ~Current(j)'
    BY <1>4, <2>1, Zenon DEF Current
  <2>3. ~PutIsTrue(j)
    BY <1>1, <1>4 DEF PutIsTrue
  <2> QED
    BY <1>1, <1>4, <1>3, <2>2, <2>3, UnusedConns
<1>5. ConnInv(k)'
  <2> SUFFICES ASSUME sock'[c] = 0, gone'[k], toServer'[k] = toServer[k],
                      next = "prompt", step # "put"
               PROVE  ConnInv(k)'
    OBVIOUS
  <2>1. ASSUME NEW j \in Made PROVE j # 0
    BY DEF Made
  <2>2. owner'[k] = c /\ owner[k] = c /\ serving # k
    BY <1>1, Zenon
  <2>3. ~Current(k)' /\ ~PutIsTrue(k)
    BY <1>1, <2>1, <2>2, Zenon DEF Current, PutIsTrue
  <2> QED
    BY <1>1, <2>3, UnusedConns
<1>6. TypeOK'
  <2>1. ConnTypeOK' /\ ServerTypeOK'
    BY <1>1 DEF ConnTypeOK, ServerTypeOK, Fds
  <2>2. ClientTypeOK'
    BY <1>1 DEF ClientTypeOK
  <2> QED
    BY <2>1, <2>2 DEF TypeOK
<1>7. FdInv'
  BY <1>1 DEF FdInv, Fds
<1>8. ClientInv(c)'
  BY <1>2, <1>1 DEF ClientInv, Busy, Made, Follows
<1> QED
  BY <1>1, <1>4, <1>5, <1>6, <1>7, <1>8, ClientStep

\* So it does where only c's idea of the world changes.
LEMMA LearnsStep ==
    ASSUME IInv, NEW c \in Clients, NEW step, NEW next, NEW k, k = sock[c],
           Follows(step, next), Took(c, step, next, k), UNCHANGED svars,
           UNCHANGED <<toServer, sock, gone>>,
           connected' \in [Clients -> BOOLEAN],
           local' \in [Clients -> [Names -> Data \cup {Nothing}]],
           home' \in [Clients -> Dirs \cup {AFile}],
           \A b \in Clients : b # c => home'[b] = home[b] /\ local'[b] = local[b],
           \/ toClient'[k] = <<>>
           \/ step # "put" /\ AnswerForm(k, c, toClient[k])',
           fd[k] \in Fds,
           cwds[fd[k]] = home'[c]
    PROVE  IInv'
<1>1. /\ ConnTypeOK /\ ClientTypeOK /\ Made' = Made
      /\ UNCHANGED <<owner, fd, up, spc, serving, args, pwd, cwds>>
      /\ k \in Made /\ owner[k] = c /\ ~gone[k] /\ Current(k) /\ ConnInv(k)
      /\ toServer[k] = <<>> /\ cpc'[c] = next
      /\ \A j \in Made : serving = j /\ owner[j] = c => step = "put" /\ j = k
      /\ serving \in Made \cup {0}
  BY DEF Took, ServerTypeOK
<1>2. QueueInv(k)' /\ RequestInv(k)' /\ GoneInv(k)'
  BY <1>1, Queues DEF QueueInv, RequestInv, Pending, GoneInv
<1>3. AnswerInv(k)'
  <2> SUFFICES ASSUME toClient'[k] # <<>> PROVE AnswerInv(k)'
    BY DEF AnswerInv
  <2>1. step # "put" /\ AnswerForm(k, c, toClient[k])'
    BY Zenon
  <2>2. ~(serving' # 0 /\ owner'[serving'] = c)
    BY <1>1, <2>1
  <2> QED
    BY <1>1, <2>1, <2>2, Zenon DEF AnswerInv
<1>4. HomeInv(k)'
  <2>1. next # "cd" /\ next # "quit" /\ next # "open"
    BY DEF Follows
  <2> QED
    BY <1>1, <2>1 DEF HomeInv, Fds
<1>5. ConnInv(k)'
  BY <1>2, <1>3, <1>4 DEF ConnInv
<1>6. DOMAIN toServer' = Made /\ gone' \in [Made -> BOOLEAN] /\ sock' \in [Clients -> Made \cup {0}]
  BY <1>1 DEF ConnTypeOK, ClientTypeOK
<1> QED
  BY <1>1, <1>5, <1>6, TakesStep

LEMMA OpenStep ==
    ASSUME IInv, NEW c \in Clients, OpenAnswered(c), UNCHANGED svars
    PROVE  IInv'
<1> DEFINE k == sock[c]
<1>1. Takes(c, "open", "prompt") /\ Follows("open", "prompt")
  BY DEF OpenAnswered, Follows, Commands
<1>2. Took(c, "open", "prompt", k)
  BY <1>1, TakesFacts
<1>3. /\ toClient[k] = <<Reply("open", 1)>> /\ toClient'[k] = Tail(toClient[k])
      /\ fd[k] \in Fds /\ cwds[fd[k]] = dft_path
      /\ ConnTypeOK /\ ClientTypeOK /\ k \in Made /\ ~gone[k]
  BY <1>2 DEF Took, AnswerForm
<1>4. toClient'[k] = <<>> /\ IsReply(c, "open") /\ Answer(c).arg = 1
  BY <1>3, Queues, Messages DEF IsReply, Answer
<1>5. /\ connected' = [connected EXCEPT ![c] = TRUE]
      /\ home' = [home EXCEPT ![c] = dft_path]
      /\ sock' = [sock EXCEPT ![c] = sock[c]]
      /\ gone' = [gone EXCEPT ![k] = FALSE] /\ toServer' = toServer /\ local' = local
  BY <1>4 DEF OpenAnswered
<1>6. connected' \in [Clients -> BOOLEAN]
  BY <1>3, <1>5 DEF ClientTypeOK
<1>7. gone' = gone
  <2>1. gone \in [Made -> BOOLEAN] /\ gone[k] = FALSE
    BY <1>3 DEF ConnTypeOK
  <2> QED
    BY <1>5, <2>1
<1>8. /\ sock' = sock /\ home' \in [Clients -> Dirs \cup {AFile}]
      /\ home'[c] = dft_path /\ \A b \in Clients : b # c => home'[b] = home[b]
      /\ local' \in [Clients -> [Names -> Data \cup {Nothing}]]
  BY <1>3, <1>5, FtpAssumption DEF ClientTypeOK
<1> QED
  BY <1>1, <1>2, <1>3, <1>4, <1>5, <1>6, <1>7, <1>8, LearnsStep

LEMMA Answers ==
    ASSUME NEW c, NEW k, k = sock[c]
    PROVE  /\ \A m : toClient[k] = <<m>> => Answer(c) = m /\ Tail(toClient[k]) = <<>>
           /\ \A m, d : toClient[k] = <<m, d>> =>
                 Answer(c) = m /\ Tail(toClient[k]) = <<d>>
<1>1. Answer(c) = Head(toClient[k])
  BY DEF Answer
<1>2. ASSUME NEW m, toClient[k] = <<m>>
      PROVE  Head(toClient[k]) = m /\ Tail(toClient[k]) = <<>>
  BY <1>2, Queues
<1>3. ASSUME NEW m, NEW d, toClient[k] = <<m, d>>
      PROVE  Head(toClient[k]) = m /\ Tail(toClient[k]) = <<d>>
  <2> DEFINE q == toClient[k]
  <2>1. q = <<m, d>>
    BY <1>3
  <2> HIDE DEF q
  <2>2. Head(q) = m /\ Tail(q) = <<d>>
    BY <2>1, Queues
  <2> QED
    BY <2>2 DEF q
<1> QED
  BY <1>1, <1>2, <1>3

LEMMA ReplyIs ==
    \A c, cmd, arg : Answer(c) = Reply(cmd, arg) => IsReply(c, cmd) /\ Answer(c).arg = arg
BY DEF IsReply, Reply

\* Where the answers lead that tell the client nothing but their data.
Leads(c, step, next) ==
    next = CASE step = "get" /\ IsReply(c, "get") /\ Answer(c).arg = 1 -> "get data"
             [] step = "sha" /\ IsReply(c, "sha") /\ Answer(c).arg = 1 -> "sha data"
             [] OTHER -> "prompt"

\* They keep the invariant.
LEMMA DataStep ==
    ASSUME IInv, NEW c \in Clients, UNCHANGED svars,
           NEW step \in {"ls", "get", "get data", "sha", "sha data"}, NEW next,
           Takes(c, step, next),
           Leads(c, step, next),
           UNCHANGED <<toServer, gone, connected, sock, home>>,
           \/ local' = local
           \/ step = "get data" /\ local' = [local EXCEPT ![c][carg[c]] = Answer(c).arg]
    PROVE  IInv'
<1>1. SUFFICES ASSUME NEW k, k = sock[c] PROVE IInv'
  OBVIOUS
<1>2. Follows(step, next)
  BY DEF Leads, Follows, Commands
<1>3. Took(c, step, next, k)
  BY <1>1, <1>2, TakesFacts
<1>4. /\ ConnTypeOK /\ ClientTypeOK /\ ServerTypeOK /\ ClientInv(c)
      /\ k \in Made /\ owner[k] = c /\ ConnInv(k) /\ Current(k)
      /\ AnswerForm(k, c, toClient[k]) /\ cpc[c] = step /\ cpc'[c] = next
      /\ toClient'[k] = Tail(toClient[k])
      /\ UNCHANGED <<spc, serving, args, pwd, cwds, fd>>
  BY <1>3 DEF Took
<1>5. fd[k] \in Fds /\ cwds[fd[k]] = home[c]
  BY <1>4 DEF ConnInv, HomeInv
<1>6. /\ \/ \E a : toClient[k] = <<a>>
         \/ /\ step = "get"
            /\ \E d \in Data : toClient[k] = <<Reply("get", 1), FileData(d)>>
         \/ /\ step = "sha"
            /\ \E d \in Data \cup {Nothing} : toClient[k] = <<Reply("sha", 1), FileData(d)>>
      /\ step = "get data" => \E d \in Data : toClient[k] = <<FileData(d)>>
  BY <1>4 DEF AnswerForm
<1>7. \/ toClient'[k] = <<>>
      \/ step # "put" /\ AnswerForm(k, c, toClient[k])'
  <2>1. CASE \E a : toClient[k] = <<a>>
    BY <1>4, <2>1, Queues
  <2>2. ASSUME step = "get", NEW d \in Data, toClient[k] = <<Reply("get", 1), FileData(d)>>
        PROVE  AnswerForm(k, c, toClient[k])'
    <3>1. IsReply(c, "get") /\ Answer(c).arg = 1 /\ toClient'[k] = <<FileData(d)>>
      <4>1. Answer(c) = Reply("get", 1) /\ Tail(toClient[k]) = <<FileData(d)>>
        BY <1>1, <2>2, Answers
      <4>2. toClient'[k] = <<FileData(d)>>
        BY <1>4, <4>1
      <4>3. IsReply(c, "get") /\ Answer(c).arg = 1
        BY <4>1, ReplyIs, Zenon
      <4> QED
        BY <4>2, <4>3, Zenon
    <3> QED
      BY <1>4, <2>2, <3>1 DEF AnswerForm, Leads
  <2>3. ASSUME step = "sha", NEW d \in Data \cup {Nothing},
               toClient[k] = <<Reply("sha", 1), FileData(d)>>
        PROVE  AnswerForm(k, c, toClient[k])'
    <3>1. IsReply(c, "sha") /\ Answer(c).arg = 1 /\ toClient'[k] = <<FileData(d)>>
      <4>1. Answer(c) = Reply("sha", 1) /\ Tail(toClient[k]) = <<FileData(d)>>
        BY <1>1, <2>3, Answers
      <4>2. toClient'[k] = <<FileData(d)>>
        BY <1>4, <4>1
      <4>3. IsReply(c, "sha") /\ Answer(c).arg = 1
        BY <4>1, ReplyIs, Zenon
      <4> QED
        BY <4>2, <4>3, Zenon
    <3> QED
      BY <1>4, <2>3, <3>1 DEF AnswerForm, Leads
  <2> QED
    BY <1>6, <2>1, <2>2, <2>3
<1>8. /\ local' \in [Clients -> [Names -> Data \cup {Nothing}]]
      /\ \A b \in Clients : b # c => local'[b] = local[b]
  <2>1. CASE local' = local
    BY <1>4, <2>1 DEF ClientTypeOK
  <2>2. CASE local' = [local EXCEPT ![c][carg[c]] = Answer(c).arg] /\ step = "get data"
    <3>1. carg[c] \in Names
      BY <1>4, <2>2 DEF ClientInv
    <3>2. Answer(c).arg \in Data
      <4>1. PICK d \in Data : toClient[k] = <<FileData(d)>>
        BY <1>6, <2>2
      <4>2. Answer(c) = FileData(d)
        BY <1>1, <4>1, Answers
      <4>3. FileData(d).arg = d
        BY Messages, Zenon
      <4> QED
        BY <4>2, <4>3, Zenon
    <3> QED
      BY <1>4, <2>2, <3>1, <3>2 DEF ClientTypeOK
  <2> QED
    BY <2>1, <2>2
<1>9. /\ connected' \in [Clients -> BOOLEAN] /\ home' \in [Clients -> Dirs \cup {AFile}]
      /\ home' = home
  BY <1>4 DEF ClientTypeOK
<1> QED
  BY <1>1, <1>2, <1>3, <1>5, <1>7, <1>8, <1>9, LearnsStep

LEMMA DataSteps ==
    ASSUME IInv, NEW c \in Clients, UNCHANGED svars,
           LsAnswered(c) \/ GetAnswered(c) \/ GetReceives(c)
               \/ ShaAnswered(c) \/ ShaReceives(c)
    PROVE  IInv'
<1>1. CASE LsAnswered(c)
  <2>1. /\ Takes(c, "ls", "prompt")
        /\ UNCHANGED <<toServer, gone, connected, sock, home>> /\ local' = local
    BY <1>1 DEF LsAnswered
  <2> QED
    BY <2>1, DataStep DEF Leads
<1>2. CASE GetAnswered(c)
  <2> DEFINE next == IF IsReply(c, "get") /\ Answer(c).arg = 1 THEN "get data" ELSE "prompt"
  <2>1. /\ Takes(c, "get", next)
        /\ UNCHANGED <<toServer, gone, connected, sock, home>> /\ local' = local
    BY <1>2 DEF GetAnswered
  <2> QED
    BY <2>1, DataStep DEF Leads
<1>3. CASE GetReceives(c)
  <2>1. /\ Takes(c, "get data", "prompt")
        /\ UNCHANGED <<toServer, gone, connected, sock, home>>
        /\ \/ local' = local
           \/ local' = [local EXCEPT ![c][carg[c]] = Answer(c).arg]
    BY <1>3 DEF GetReceives
  <2> QED
    BY <2>1, DataStep DEF Leads
<1>4. CASE ShaAnswered(c)
  <2> DEFINE next == IF IsReply(c, "sha") /\ Answer(c).arg = 1 THEN "sha data" ELSE "prompt"
  <2>1. /\ Takes(c, "sha", next)
        /\ UNCHANGED <<toServer, gone, connected, sock, home>> /\ local' = local
    BY <1>4 DEF ShaAnswered
  <2> QED
    BY <2>1, DataStep DEF Leads
<1>5. CASE ShaReceives(c)
  <2>1. /\ Takes(c, "sha data", "prompt")
        /\ UNCHANGED <<toServer, gone, connected, sock, home>> /\ local' = local
    BY <1>5 DEF ShaReceives
  <2> QED
    BY <2>1, DataStep DEF Leads
<1> QED
  BY <1>1, <1>2, <1>3, <1>4, <1>5

LEMMA CdStep ==
    ASSUME IInv, NEW c \in Clients, CdAnswered(c), UNCHANGED svars
    PROVE  IInv'
<1>1. SUFFICES ASSUME NEW k, k = sock[c] PROVE IInv'
  OBVIOUS
<1>2. Takes(c, "cd", "prompt") /\ Follows("cd", "prompt")
      /\ UNCHANGED <<toServer, gone, connected, sock, local>>
  BY DEF CdAnswered, Follows, Commands
<1>3. Took(c, "cd", "prompt", k)
  BY <1>1, <1>2, TakesFacts
<1>4. /\ ConnTypeOK /\ ClientTypeOK /\ ServerTypeOK
      /\ k \in Made /\ owner[k] = c /\ ConnInv(k) /\ Current(k) /\ cpc[c] = "cd"
      /\ toClient[k] \in {<<Reply("cd", 0)>>, <<Reply("cd", 1)>>}
      /\ toClient'[k] = Tail(toClient[k])
  BY <1>3 DEF Took, AnswerForm
<1>5. fd[k] \in Fds /\ cwds[fd[k]] = IF toClient[k] = <<Reply("cd", 1)>>
                                     THEN carg[c] ELSE home[c]
  BY <1>4 DEF ConnInv, HomeInv
<1>6. /\ toClient'[k] = <<>>
      /\ IsReply(c, "cd") /\ Answer(c).arg = 1 <=> toClient[k] = <<Reply("cd", 1)>>
  <2>1. ASSUME NEW s \in {0, 1}, toClient[k] = <<Reply("cd", s)>>
        PROVE  /\ toClient'[k] = <<>> /\ Answer(c) = Reply("cd", s)
               /\ IsReply(c, "cd") /\ Answer(c).arg = s
    BY <1>1, <1>4, <2>1, Queues, Messages DEF IsReply, Answer
  <2>2. CASE toClient[k] = <<Reply("cd", 1)>>
    BY <2>1, <2>2
  <2>3. CASE toClient[k] = <<Reply("cd", 0)>>
    <3>1. toClient[k] # <<Reply("cd", 1)>>
      BY <2>3, Queues, Messages
    <3> QED
      BY <2>1, <2>3, <3>1
  <2> QED
    BY <1>4, <2>2, <2>3
<1>7. home' = IF toClient[k] = <<Reply("cd", 1)>>
              THEN [home EXCEPT ![c] = carg[c]] ELSE home
  BY <1>6 DEF CdAnswered
<1>8. /\ cwds[fd[k]] = home'[c]
      /\ \A b \in Clients : b # c => home'[b] = home[b]
  BY <1>4, <1>5, <1>7 DEF ClientTypeOK
<1>9. home' \in [Clients -> Dirs \cup {AFile}]
  <2>1. CASE toClient[k] = <<Reply("cd", 1)>>
    <3>1. carg[c] \in Dirs \cup {AFile, NULL} /\ carg[c] \in CdArgs
      BY <1>4, <1>5, <2>1 DEF ServerTypeOK, IInv, ClientInv
    <3>2. carg[c] \in Dirs \cup {AFile}
      BY <3>1, FtpAssumption DEF NULL, AFile, Nothing
    <3> QED
      BY <1>4, <1>7, <2>1, <3>2 DEF ClientTypeOK
  <2> QED
    BY <1>4, <1>7, <2>1 DEF ClientTypeOK
<1>10. /\ connected' \in [Clients -> BOOLEAN]
      /\ local' \in [Clients -> [Names -> Data \cup {Nothing}]] /\ local' = local
  BY <1>2, <1>4 DEF ClientTypeOK
<1> QED
  BY <1>1, <1>2, <1>3, <1>5, <1>6, <1>8, <1>9, <1>10, LearnsStep

\* The file follows the answer that asks for it: do_put is there for it.
LEMMA SendsStep ==
    ASSUME IInv, NEW c \in Clients, PutAnswered(c), UNCHANGED svars
    PROVE  IInv'
<1>1. SUFFICES ASSUME NEW k, k = sock[c] PROVE IInv'
  OBVIOUS
<1>2. Takes(c, "put", "prompt") /\ Follows("put", "prompt")
      /\ UNCHANGED <<gone, connected, sock, local, home>>
  BY DEF PutAnswered, Follows, Commands
<1>3. Took(c, "put", "prompt", k)
  BY <1>1, <1>2, TakesFacts
<1>4. /\ ConnTypeOK /\ ClientTypeOK /\ ServerTypeOK /\ ClientInv(c)
      /\ UNCHANGED <<owner, up, fd, spc, serving, args, pwd, cwds>>
      /\ k \in Made /\ owner[k] = c /\ ConnInv(k) /\ Current(k) /\ ~gone[k]
      /\ cpc[c] = "put" /\ cpc'[c] = "prompt" /\ toServer[k] = <<>>
      /\ toClient[k] = <<Reply("put", 0)>> /\ toClient'[k] = Tail(toClient[k])
      /\ spc = "put" /\ serving = k /\ args = carg[c] /\ pwd = home[c]
  BY <1>3 DEF Took, AnswerForm
<1>5. toClient'[k] = <<>> /\ Answer(c) = Reply("put", 0)
  BY <1>1, <1>4, Answers
<1>6. IsReply(c, "put") /\ File(k) = local[c][carg[c]]
  BY <1>4, <1>5, ReplyIs DEF File
<1>7. toServer' = IF File(k) # Nothing
                  THEN [toServer EXCEPT ![k] = <<>> \o <<FileData(File(k))>>]
                  ELSE toServer
  BY <1>1, <1>4, <1>6 DEF PutAnswered, Sent
<1>8. /\ DOMAIN toServer' = Made
      /\ \A j \in Made : j # k => toServer'[j] = toServer[j]
      /\ \/ toServer'[k] = <<>>
         \/ File(k) # Nothing /\ toServer'[k] = <<FileData(File(k))>>
  <2>1. CASE File(k) # Nothing
    <3>1. toServer' = [toServer EXCEPT ![k] = <<FileData(File(k))>>]
      BY <1>7, <2>1, Joins
    <3> QED
      BY <1>4, <2>1, <3>1 DEF ConnTypeOK
  <2>2. CASE File(k) = Nothing
    BY <1>4, <1>7, <2>2 DEF ConnTypeOK
  <2> QED
    BY <2>1, <2>2
<1>9. File(k) # Nothing => PutIsTrue(k)' /\ File(k)' = File(k)
  <2>1. carg[c] \in Names
    BY <1>4 DEF ClientInv
  <2>2. File(k) # Nothing => File(k) \in Data
    <3>1. local[c] \in [Names -> Data \cup {Nothing}]
      BY <1>4 DEF ClientTypeOK
    <3>2. local[c][carg[c]] \in Data \cup {Nothing}
      BY <2>1, <3>1
    <3> QED
      BY <1>6, <3>2
  <2> QED
    BY <1>2, <1>4, <2>2 DEF PutIsTrue, File
<1>10. ConnInv(k)'
  <2>1. QueueInv(k)'
    BY <1>4, <1>8, <1>9 DEF QueueInv
  <2>2. ASSUME NEW m \in Requests, Pending(k, m)' PROVE FALSE
    <3>1. \/ toServer'[k] = <<m>> \/ \E d : toServer'[k] = <<d, m>>
      BY <2>2 DEF Pending
    <3>2. toServer'[k] = <<>> \/ \E d : toServer'[k] = <<FileData(d)>>
      BY <1>8
    <3>3. toServer'[k] # <<>> /\ \A d : m # FileData(d)
      BY <3>1, Queues, Messages
    <3> QED
      BY <3>1, <3>2, <3>3, Queues
  <2>3. RequestInv(k)'
    BY <2>2 DEF RequestInv
  <2>4. AnswerInv(k)' /\ GoneInv(k)'
    BY <1>2, <1>4, <1>5 DEF AnswerInv, GoneInv
  <2>5. HomeInv(k)'
    BY <1>2, <1>4, <1>5 DEF ConnInv, HomeInv, Fds
  <2> QED
    BY <2>1, <2>3, <2>4, <2>5 DEF ConnInv
<1>11. /\ gone' \in [Made -> BOOLEAN] /\ gone' = gone
       /\ connected' \in [Clients -> BOOLEAN]
       /\ sock' \in [Clients -> Made \cup {0}] /\ sock' = sock
       /\ local' \in [Clients -> [Names -> Data \cup {Nothing}]] /\ local' = local
       /\ home' \in [Clients -> Dirs \cup {AFile}] /\ home' = home
  BY <1>2, <1>4 DEF ConnTypeOK, ClientTypeOK
<1> QED
  BY <1>1, <1>2, <1>3, <1>8, <1>10, <1>11, TakesStep

\* The answer to quit closes the connection.
LEMMA QuitStep ==
    ASSUME IInv, NEW c \in Clients, QuitAnswered(c), UNCHANGED svars
    PROVE  IInv'
<1>1. SUFFICES ASSUME NEW k, k = sock[c] PROVE IInv'
  OBVIOUS
<1>2. Takes(c, "quit", "prompt") /\ Follows("quit", "prompt")
  BY DEF QuitAnswered, Follows, Commands
<1>3. Took(c, "quit", "prompt", k)
  BY <1>1, <1>2, TakesFacts
<1>4. /\ ConnTypeOK /\ ClientTypeOK /\ k \in Made
      /\ toClient[k] = <<Reply("quit", 0)>>
  BY <1>3 DEF Took, AnswerForm
<1>5. IsReply(c, "quit")
  <2>1. Answer(c) = Reply("quit", 0)
    BY <1>1, <1>4, Answers
  <2> QED
    BY <2>1, ReplyIs, Zenon
<1>6. /\ connected' = [connected EXCEPT ![c] = FALSE]
      /\ sock' = [sock EXCEPT ![c] = 0]
      /\ gone' = [gone EXCEPT ![k] = TRUE]
      /\ UNCHANGED <<toServer, local, home>>
  BY <1>1, <1>5 DEF QuitAnswered
<1>7. /\ gone' \in [Made -> BOOLEAN] /\ gone'[k]
      /\ \A j \in Made : j # k => gone'[j] = gone[j]
  <2>1. gone \in [Made -> BOOLEAN]
    BY <1>4 DEF ConnTypeOK
  <2> QED
    BY <1>4, <1>6, <2>1
<1>8. /\ sock' \in [Clients -> Made \cup {0}] /\ sock'[c] = 0
      /\ \A b \in Clients : b # c => sock'[b] = sock[b]
  BY <1>4, <1>6 DEF ClientTypeOK
<1>9. connected' \in [Clients -> BOOLEAN]
  BY <1>4, <1>6 DEF ClientTypeOK
<1>10. /\ DOMAIN toServer' = Made /\ toServer' = toServer
      /\ local' \in [Clients -> [Names -> Data \cup {Nothing}]] /\ local' = local
      /\ home' \in [Clients -> Dirs \cup {AFile}] /\ home' = home
  BY <1>4, <1>6 DEF ConnTypeOK, ClientTypeOK
<1> QED
  BY <1>1, <1>3, <1>2, <1>7, <1>8, <1>9, <1>10, TakesStep

\* The server is gone: the client is at its prompt again.
LEMMA LostStep ==
    ASSUME IInv, NEW c \in Clients, ConnectionLost(c), UNCHANGED svars
    PROVE  IInv'
<1>1. SUFFICES ASSUME NEW k, k = sock[c] PROVE IInv'
  OBVIOUS
<1>2. /\ ConnTypeOK /\ ServerTypeOK /\ ClientTypeOK /\ FdInv /\ ClientInv(c)
      /\ UNCHANGED <<nconn, owner, toServer, toClient, fd, up, connected, local, home>>
      /\ UNCHANGED <<spc, serving, args, pwd, cwds, files>>
      /\ Made' = Made /\ ~up /\ spc # "put" /\ toClient[k] = <<>> /\ Busy(c)
  BY <1>1 DEF IInv, TypeOK, ModeInv, ConnectionLost, svars, Made, Busy
<1>3. /\ cpc' = [cpc EXCEPT ![c] = "prompt"] /\ carg' = [carg EXCEPT ![c] = Blank]
      /\ sock' = [sock EXCEPT ![c] = IF cpc[c] = "open" THEN 0 ELSE k]
      /\ gone' = [gone EXCEPT ![k] = gone[k] \/ cpc[c] = "open"]
  BY <1>1 DEF ConnectionLost
<1>4. k \in Made /\ owner[k] = c /\ ConnInv(k) /\ Current(k) /\ cpc[c] # "exit"
  BY <1>1, <1>2 DEF IInv, ClientInv, ClientTypeOK, Busy, Current
<1>5. gone \in [Made -> BOOLEAN] /\ gone[k] = FALSE
  BY <1>2, <1>4 DEF ConnTypeOK, ConnInv, GoneInv
<1>6. /\ gone' \in [Made -> BOOLEAN]
      /\ \A j \in Made : j # k => gone'[j] = gone[j]
      /\ cpc[c] = "open" => gone'[k]
      /\ cpc[c] # "open" => gone'[k] = FALSE
  BY <1>3, <1>4, <1>5
<1>7. /\ cpc'[c] = "prompt" /\ carg'[c] = Blank
      /\ \A b \in Clients : b # c => cpc'[b] = cpc[b] /\ carg'[b] = carg[b]
                                     /\ sock'[b] = sock[b]
      /\ sock'[c] = IF cpc[c] = "open" THEN 0 ELSE k
  BY <1>2, <1>3 DEF ClientTypeOK
<1>8. \A j \in Made : j # 0 /\ ~PutIsTrue(j)
  BY <1>2 DEF Made, PutIsTrue
<1>9. ASSUME NEW j \in Made, owner[j] = c, j # k PROVE ConnInv(j)'
  <2>1. ~Current(j) /\ ~Current(j)'
    BY <1>1, <1>2, <1>7, <1>8, <1>9 DEF Current
  <2> QED
    BY <1>2, <1>4, <1>6, <1>8, <1>9, <2>1, UnusedConns DEF svars
<1>10. ConnInv(k)'
  <2>1. CASE cpc[c] = "open"
    <3>1. ~Current(k)' /\ gone'[k]
      BY <1>2, <1>4, <1>6, <1>7, <1>8, <2>1 DEF Current
    <3> QED
      BY <1>2, <1>4, <1>8, <3>1, UnusedConns DEF svars
  <2>2. CASE cpc[c] # "open"
    <3>1. QueueInv(k)'
      <4>1. ~PutIsTrue(k)'
        BY <1>2 DEF PutIsTrue
      <4> QED
        BY <1>2, <1>4, <1>8, <4>1 DEF ConnInv, QueueInv, Pending
    <3>2. RequestInv(k)' /\ AnswerInv(k)'
      BY <1>2 DEF RequestInv, AnswerInv
    <3>3. HomeInv(k)'
      BY <1>2, <1>4, <1>7, <2>2, Queues DEF ConnInv, HomeInv, Fds
    <3>4. GoneInv(k)'
      BY <1>6, <2>2 DEF GoneInv
    <3> QED
      BY <3>1, <3>2, <3>3, <3>4 DEF ConnInv
  <2> QED
    BY <2>1, <2>2
<1>11. TypeOK'
  <2>1. ConnTypeOK' /\ ServerTypeOK'
    BY <1>2, <1>6 DEF ConnTypeOK, ServerTypeOK, Fds
  <2>2. ClientTypeOK'
    BY <1>2, <1>3, <1>4 DEF ClientTypeOK
  <2> QED
    BY <2>1, <2>2 DEF TypeOK
<1>12. FdInv' /\ ClientInv(c)'
  BY <1>2, <1>4, <1>7 DEF FdInv, ClientInv, Busy, Fds
<1> QED
  BY <1>2, <1>4, <1>6, <1>7, <1>9, <1>10, <1>11, <1>12, ClientStep

-----------------------------------------------------------------------------
LEMMA InitIInv == Init => IInv
<1> SUFFICES ASSUME Init PROVE IInv
  OBVIOUS
<1>1. ConnInit /\ ServerInit /\ ClientInit /\ Made = {} /\ FtpAssumption
  BY FtpAssumption DEF Init, ConnInit, Made
<1>2. ConnTypeOK
  <2>1. nconn = 0 /\ MaxConns \in Nat /\ up = TRUE
    BY <1>1 DEF ConnInit, FtpAssumption
  <2>2. owner = <<>> /\ toServer = <<>> /\ toClient = <<>> /\ gone = <<>> /\ fd = <<>>
    BY <1>1 DEF ConnInit
  <2>3. DOMAIN <<>> = {} /\ \A S : <<>> \in [{} -> S]
    OBVIOUS
  <2>4. /\ owner \in [Made -> Clients] /\ DOMAIN toServer = Made /\ DOMAIN toClient = Made
        /\ gone \in [Made -> BOOLEAN] /\ fd \in [Made -> Fds \cup {Waiting, Closed}]
    BY <1>1, <2>2, <2>3
  <2> QED
    BY <2>1, <2>4 DEF ConnTypeOK
<1>3. ServerTypeOK
  BY <1>1 DEF ServerInit, ServerTypeOK, FtpAssumption, Data
<1>4. ClientTypeOK
  <2>1. local \in [Clients -> [Names -> Data \cup {Nothing}]]
    BY <1>1 DEF ClientInit
  <2> QED
    BY <1>1, <2>1 DEF ClientInit, ClientTypeOK, FtpAssumption
<1>5. ModeInv /\ FdInv /\ \A k \in Made : ConnInv(k)
  BY <1>1 DEF ServerInit, ModeInv, FdInv
<1>6. \A c \in Clients : ClientInv(c)
  BY <1>1 DEF ClientInit, ClientInv, Busy
<1> QED
  BY <1>2, <1>3, <1>4, <1>5, <1>6 DEF IInv, TypeOK

LEMMA UserTypesStep ==
    ASSUME IInv, NEW c \in Clients, UserTypes(c), UNCHANGED svars
    PROVE  IInv'
<1>1. ASSUME NEW cmd, NEW arg, Asks(c, cmd, arg),
             \/ cmd \in {"ls", "quit"} /\ arg = Blank
             \/ cmd = "cd" /\ arg \in CdArgs
             \/ cmd \in {"get", "put", "sha"} /\ arg \in Names
      PROVE  IInv'
  <2>1. Request(cmd, arg) \in Requests /\ cmd # "open"
        /\ arg \in CdArgs \cup Names \cup {Blank}
    BY <1>1 DEF Request, Requests, RequestsOf
  <2> QED
    BY <1>1, <2>1, AsksStep
<1>2. CASE Exits(c)
  BY <1>2, LeavesStep DEF Exits
<1>3. ASSUME NEW cmd \in {"ls", "quit"}, Asks(c, cmd, Blank) PROVE IInv'
  BY <1>1, <1>3
<1>4. ASSUME NEW path \in CdArgs, Asks(c, "cd", path) PROVE IInv'
  BY <1>1, <1>4
<1>5. ASSUME NEW cmd \in {"get", "put", "sha"}, NEW n \in Names, Asks(c, cmd, n)
      PROVE  IInv'
  BY <1>1, <1>5
<1> QED
  BY <1>2, <1>3, <1>4, <1>5, OpensStep, OpenFailsStep DEF UserTypes

LEMMA NextIInv == IInv /\ [Next]_vars => IInv'
<1> SUFFICES ASSUME IInv, [Next]_vars PROVE IInv'
  OBVIOUS
<1>1. CASE Accept /\ UNCHANGED cvars
  BY <1>1, AcceptStep
<1>2. ASSUME NEW k \in Made, Serve(k), UNCHANGED cvars PROVE IInv'
  BY <1>2, RequestServed
<1>3. CASE Put /\ UNCHANGED cvars
  BY <1>3, PutStep
<1>4. ASSUME NEW c \in Clients, UserTypes(c), UNCHANGED svars PROVE IInv'
  BY <1>4, UserTypesStep
<1>5. ASSUME NEW c \in Clients, Proceeds(c), UNCHANGED svars PROVE IInv'
  BY <1>5, OpenStep, DataSteps, CdStep, SendsStep, QuitStep, LostStep DEF Proceeds
<1>6. ASSUME NEW c \in Clients, Killed(c), UNCHANGED svars PROVE IInv'
  BY <1>6, LeavesStep DEF Killed
<1>7. CASE UNCHANGED vars
  <2>1. /\ UNCHANGED <<nconn, owner, toServer, toClient, gone, fd, up>>
        /\ UNCHANGED <<spc, serving, args, pwd, cwds, files>>
        /\ UNCHANGED <<cpc, carg, connected, sock, local, home>>
    BY <1>7 DEF vars, connvars, svars, cvars
  <2>2. TypeOK' /\ ModeInv' /\ FdInv' /\ Made' = Made
    BY <2>1 DEF IInv, TypeOK, ConnTypeOK, ServerTypeOK, ClientTypeOK, ModeInv, FdInv,
                Made, Fds
  <2>3. ASSUME NEW k \in Made PROVE ConnInv(k)'
    <3>1. ConnInv(k)
      BY DEF IInv
    <3>2. /\ Current(k)' = Current(k) /\ PutIsTrue(k)' = PutIsTrue(k) /\ File(k)' = File(k)
          /\ \A m : Pending(k, m)' = Pending(k, m)
      BY <2>1 DEF Current, PutIsTrue, File, Pending
    <3>3. QueueInv(k)' /\ RequestInv(k)' /\ GoneInv(k)'
      BY <2>1, <3>1, <3>2 DEF ConnInv, QueueInv, RequestInv, GoneInv
    <3>4. AnswerInv(k)' /\ HomeInv(k)'
      BY <2>1, <3>1, <3>2 DEF ConnInv, AnswerInv, AnswerForm, HomeInv, Fds
    <3> QED
      BY <3>3, <3>4 DEF ConnInv
  <2>4. ASSUME NEW c \in Clients PROVE ClientInv(c)'
    BY <2>1 DEF IInv, ClientInv, Busy
  <2> QED
    BY <2>2, <2>3, <2>4 DEF IInv
<1> QED
  BY <1>1, <1>2, <1>3, <1>4, <1>5, <1>6, <1>7 DEF Next

\* In every state that Ftp reaches: each connection carries one request or its
\* answer and at most one file before it, and the slot of its descriptor holds
\* its client's directory (ftp_server.cpp's main loop and ftp_client.cpp).
THEOREM Exchanges == Spec => []IInv
<1>1. Init => IInv
  BY InitIInv
<1>2. IInv /\ [Next]_vars => IInv'
  BY NextIInv
<1> QED
  BY <1>1, <1>2, PTL DEF Spec

\* Every variable keeps its type.
THEOREM FtpTypeCorrect == Spec => []TypeOK
<1>1. IInv => TypeOK
  BY DEF IInv
<1> QED
  BY <1>1, Exchanges, PTL

\* What is on its way to a client belongs to the command it waits on.
THEOREM RepliesFit == Spec => []RepliesMatch
<1>1. ASSUME IInv, NEW c \in Clients, sock[c] # 0, cpc[c] # "exit",
             NEW k, k = sock[c], toClient[k] # <<>>
      PROVE  /\ AnswerForm(k, c, toClient[k])
             /\ cpc[c] \in Commands \cup {"prompt", "get data", "sha data", "exit"}
  <2>1. ClientTypeOK /\ ClientInv(c)
    BY <1>1 DEF IInv, TypeOK
  <2>2. k \in Made /\ owner[k] = c
    BY <1>1, <2>1 DEF ClientTypeOK, ClientInv
  <2>3. ConnInv(k) /\ Current(k)
    BY <1>1, <2>2 DEF IInv, Current
  <2> QED
    BY <1>1, <2>1, <2>2, <2>3 DEF ConnInv, AnswerInv, ClientTypeOK
<1>2. IInv => RepliesMatch
  <2> SUFFICES ASSUME IInv, NEW c \in Clients, sock[c] # 0, cpc[c] # "exit",
                      NEW k, k = sock[c], toClient[k] # <<>>
               PROVE  LET out == toClient[k]
                      IN  CASE cpc[c] = "get data" -> Len(out) = 1 /\ Head(out).type = "FILE_DATA"
                            [] cpc[c] = "sha data" -> Len(out) = 1 /\ Head(out).type = "FILE_DATA"
                            [] OTHER -> /\ Busy(c) /\ IsReply(c, cpc[c])
                                        /\ Len(out) = 2 =>
                                              /\ cpc[c] \in {"get", "sha"} /\ Head(out).arg = 1
                                              /\ out[2].type = "FILE_DATA"
    BY DEF RepliesMatch
  <2>1. AnswerForm(k, c, toClient[k])
    BY <1>1
  <2>2. CASE cpc[c] \in {"get data", "sha data"}
    <3>1. PICK d : toClient[k] = <<FileData(d)>>
      BY <2>1, <2>2 DEF AnswerForm
    <3>2. Head(toClient[k]) = FileData(d) /\ Len(toClient[k]) = 1
      BY <3>1, Queues
    <3>3. Head(toClient[k]).type = "FILE_DATA"
      BY <3>2, Messages
    <3> QED
      BY <2>2, <3>2, <3>3
  <2>3. CASE cpc[c] \notin {"get data", "sha data"}
    <3>1. /\ \/ \E s : toClient[k] = <<Reply(cpc[c], s)>>
             \/ cpc[c] \in {"get", "sha"} /\ \E d :
                    toClient[k] = <<Reply(cpc[c], 1), FileData(d)>>
          /\ Busy(c)
      BY <2>1, <2>3 DEF AnswerForm, Busy
    <3>2. ASSUME NEW s, toClient[k] = <<Reply(cpc[c], s)>>
          PROVE  IsReply(c, cpc[c]) /\ Len(toClient[k]) = 1
      BY <3>2, Answers, ReplyIs, Queues
    <3>3. ASSUME NEW d, toClient[k] = <<Reply(cpc[c], 1), FileData(d)>>
          PROVE  /\ IsReply(c, cpc[c]) /\ Head(toClient[k]).arg = 1
                 /\ toClient[k][2].type = "FILE_DATA"
      <4>1. Answer(c) = Reply(cpc[c], 1) /\ Head(toClient[k]) = Reply(cpc[c], 1)
            /\ toClient[k][2] = FileData(d)
        BY <3>3, Answers, Queues
      <4>2. IsReply(c, cpc[c])
        BY <4>1, ReplyIs, Zenon
      <4>3. Head(toClient[k]).arg = 1 /\ toClient[k][2].type = "FILE_DATA"
        BY <4>1, Messages
      <4> QED
        BY <4>2, <4>3
    <3>4. IsReply(c, cpc[c])
      BY <3>1, <3>2, <3>3
    <3>5. Len(toClient[k]) = 2 => /\ cpc[c] \in {"get", "sha"}
                                  /\ Head(toClient[k]).arg = 1
                                  /\ toClient[k][2].type = "FILE_DATA"
      BY <3>1, <3>2, <3>3
    <3> QED
      BY <2>3, <3>1, <3>4, <3>5
  <2> QED
    BY <2>2, <2>3
<1> QED
  BY <1>2, Exchanges, PTL

\* A file on its way to the server is what do_put reads next.
THEOREM FilesAreAwaited == Spec => []DataIsAwaited
<1>1. IInv => DataIsAwaited
  <2> SUFFICES ASSUME IInv, NEW k \in Made, NEW i \in 1 .. Len(toServer[k]),
                      toServer[k][i].type = "FILE_DATA"
               PROVE  i = 1 /\ spc = "put" /\ serving = k
    BY DEF DataIsAwaited
  <2>1. QueueInv(k)
    BY DEF IInv, ConnInv
  <2>2. toServer[k] # <<>>
    OBVIOUS
  <2>3. CASE PutIsTrue(k) /\ toServer[k] = <<FileData(File(k))>>
    BY <2>3, Queues DEF PutIsTrue
  <2>4. ASSUME NEW m \in Requests, toServer[k] = <<m>> PROVE FALSE
    BY <2>4, Queues, Messages
  <2>5. ASSUME NEW m \in Requests, PutIsTrue(k), NEW d, toServer[k] = <<d, m>>
        PROVE  i = 1 /\ spc = "put" /\ serving = k
    <3>1. toServer[k][2].type # "FILE_DATA" /\ Len(toServer[k]) = 2
      BY <2>5, Queues, Messages
    <3> QED
      BY <2>5, <3>1 DEF PutIsTrue
  <2> QED
    BY <2>1, <2>2, <2>3, <2>4, <2>5 DEF QueueInv, Pending
<1> QED
  BY <1>1, Exchanges, PTL

\* Between commands the server has each client where its user was told.
THEOREM HomesAreKept == Spec => []HomeIsKept
<1>1. IInv => HomeIsKept
  <2> SUFFICES ASSUME IInv, NEW c \in Clients, NEW k, k = sock[c], k # 0,
                      cpc[c] = "prompt"
               PROVE  fd[k] \in Fds /\ cwds[fd[k]] = home[c]
    BY DEF HomeIsKept
  <2>1. ClientTypeOK /\ ClientInv(c)
    BY DEF IInv, TypeOK
  <2>2. k \in Made /\ owner[k] = c
    BY <2>1 DEF ClientTypeOK, ClientInv
  <2>3. ConnInv(k) /\ Current(k)
    BY <2>2 DEF IInv, Current
  <2> QED
    BY <2>2, <2>3 DEF ConnInv, HomeInv
<1> QED
  BY <1>1, Exchanges, PTL

\* A file changes only where the client is whose file it becomes, and to that
\* client's file, whatever that client has typed since its put.
THEOREM PutsLandAtHome == Spec => PutLandsAtHome
<1>1. ASSUME IInv, PutReceives PROVE LandsAtHome
  <2> SUFFICES ASSUME NEW d \in Dirs, NEW n \in Names, files'[d][n] # files[d][n]
               PROVE  /\ serving # 0 /\ home[owner[serving]] = d /\ args = n
                      /\ files'[d][n] = local[owner[serving]][n]
    BY DEF LandsAtHome
  <2>1. /\ Message(serving).type = "FILE_DATA"
        /\ files' = [files EXCEPT ![pwd][args] = Message(serving).arg]
    BY <1>1 DEF PutReceives
  <2>2. /\ serving # 0 /\ pwd = home[owner[serving]]
        /\ Message(serving).arg = local[owner[serving]][args]
    BY <1>1, <2>1, PutReads DEF PutIsTrue, File, Made
  <2>3. files \in [Dirs -> [Names -> Data \cup {Folder, Nothing}]]
    BY <1>1 DEF IInv, TypeOK, ServerTypeOK
  <2>4. d = pwd /\ n = args
    BY <2>1, <2>3
  <2> QED
    BY <2>1, <2>2, <2>3, <2>4
<1>2. IInv /\ [Next]_vars => [LandsAtHome]_vars
  <2> SUFFICES ASSUME IInv, Next PROVE LandsAtHome
    OBVIOUS
  <2>1. PutReceives \/ files' = files
    BY DEF Next, Accept, Serve, ChdirFails, BrokenPipe, do_open, do_quit, do_ls, do_cd,
           do_get, do_sha, do_put, Put, PutFails, svars
  <2>2. files' = files => LandsAtHome
    BY DEF LandsAtHome
  <2> QED
    BY <1>1, <2>1, <2>2
<1> QED
  BY <1>2, Exchanges, PTL DEF Spec, PutLandsAtHome
=============================================================================
