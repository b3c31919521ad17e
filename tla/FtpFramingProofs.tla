-------------------------- MODULE FtpFramingProofs --------------------------
(***************************************************************************)
(* The framing of lab1 makes whole messages of TCP's bytes, for any number *)
(* of messages, of any sizes, and however the bytes are cut.               *)
(***************************************************************************)
EXTENDS FtpFraming, SequenceTheorems, WellFoundedInduction, TLAPS

-----------------------------------------------------------------------------
\* Sequences put together and cut.
LEMMA Joined ==
    ASSUME NEW S, NEW s \in Seq(S), NEW t \in Seq(S)
    PROVE  /\ s \o t \in Seq(S) /\ Len(s \o t) = Len(s) + Len(t)
           /\ \A i \in 1 .. Len(s) : (s \o t)[i] = s[i]
           /\ \A i \in 1 .. Len(t) : (s \o t)[Len(s) + i] = t[i]
<1>1. /\ s \o t \in Seq(S) /\ Len(s \o t) = Len(s) + Len(t)
      /\ \A i \in 1 .. Len(s) + Len(t) :
            (s \o t)[i] = IF i <= Len(s) THEN s[i] ELSE t[i - Len(s)]
  BY ConcatProperties
<1>2. Len(s) \in Nat /\ Len(t) \in Nat
  OBVIOUS
<1> QED
  BY <1>1, <1>2

LEMMA Cut ==
    ASSUME NEW S, NEW s \in Seq(S), NEW a \in Nat, NEW n \in Nat, a + n <= Len(s)
    PROVE  /\ SubSeq(s, a + 1, a + n) \in Seq(S)
           /\ Len(SubSeq(s, a + 1, a + n)) = n
           /\ \A i \in 1 .. n : SubSeq(s, a + 1, a + n)[i] = s[a + i]
<1>1. Len(s) \in Nat
  OBVIOUS
<1> QED
  BY <1>1, SubSeqProperties

LEMMA SameSeq ==
    ASSUME NEW S, NEW T, NEW s \in Seq(S), NEW t \in Seq(T), Len(s) = Len(t),
           \A i \in 1 .. Len(s) : s[i] = t[i]
    PROVE  s = t
OBVIOUS

LEMMA SeqOf ==
    ASSUME NEW S, NEW n \in Nat, NEW s, DOMAIN s = 1 .. n, s = [i \in 1 .. n |-> s[i]],
           \A i \in 1 .. n : s[i] \in S
    PROVE  s \in Seq(S) /\ Len(s) = n
OBVIOUS

\* The least number of a set, for arguments step by step along the stream.
LEMMA Least ==
    ASSUME NEW S, S \subseteq Nat, S # {}
    PROVE  \E x \in S : \A y \in S : x <= y
<1> DEFINE R == OpToRel(<, Nat)
<1>1. PICK x \in S : \A y \in S : <<y, x>> \notin R
  <2>1. IsWellFoundedOn(R, Nat)
    BY NatLessThanWellFounded
  <2> HIDE DEF R
  <2> QED
    BY <2>1, WFMin
<1>2. \A y \in S : ~(y < x)
  BY <1>1 DEF OpToRel
<1> QED
  BY <1>2

-----------------------------------------------------------------------------
\* Messages and their bytes.
LEMMA PostIs ==
    ASSUME FramingInv, NEW m \in 1 .. Len(posts)
    PROVE  /\ Post(m) \in Seq(Bytes) /\ Len(Post(m)) = HEADER_SIZE + posts[m]
           /\ Len(Post(m)) \in Nat \ {0} /\ posts[m] \in 0 .. MaxBody
           /\ HEADER_SIZE \in Nat \ {0} /\ Len(Post(m)) <= HEADER_SIZE + MaxBody
           /\ \A b \in 1 .. Len(Post(m)) : Post(m)[b] = Byte(m, b)
<1>1. posts[m] \in 0 .. MaxBody
  <2>1. posts \in Seq(0 .. MaxBody)
    BY DEF FramingInv
  <2> QED
    BY <2>1, ElementOfSeq
<1>2. HEADER_SIZE + posts[m] \in Nat \ {0} /\ HEADER_SIZE \in Nat \ {0} /\ MaxBody \in Nat
  BY <1>1, FramingAssumption
<1>3. \A b \in 1 .. HEADER_SIZE + posts[m] : Byte(m, b) \in Bytes
  BY <1>1, <1>2 DEF Byte, Bytes
<1>4. PICK n : n = HEADER_SIZE + posts[m]
  OBVIOUS
<1>5. /\ DOMAIN Post(m) = 1 .. n /\ Post(m) = [b \in 1 .. n |-> Post(m)[b]]
      /\ \A b \in 1 .. n : Post(m)[b] = Byte(m, b)
  BY <1>4 DEF Post
<1>6. Post(m) \in Seq(Bytes) /\ Len(Post(m)) = n
  <2>1. n \in Nat /\ \A b \in 1 .. n : Post(m)[b] \in Bytes
    BY <1>2, <1>3, <1>4, <1>5
  <2> QED
    BY <1>5, <2>1, SeqOf
<1>7. \A b \in 1 .. Len(Post(m)) : Post(m)[b] = Byte(m, b)
  BY <1>5, <1>6
<1>8. n \in Nat \ {0} /\ n <= HEADER_SIZE + MaxBody
  BY <1>1, <1>2, <1>4
<1> QED
  BY <1>1, <1>2, <1>4, <1>6, <1>7, <1>8

LEMMA BytesDiffer ==
    \A m, b, i, c : Byte(m, b) = Byte(i, c) => m = i /\ b = c
BY DEF Byte

LEMMA InitFramingInv == FramingInit => FramingInv
<1> SUFFICES ASSUME FramingInit PROVE FramingInv
  OBVIOUS
<1>1. PICK n \in 0 .. MaxPosts : posts \in [1 .. n -> 0 .. MaxBody]
  BY DEF FramingInit
<1>2. posts \in Seq(0 .. MaxBody) /\ Len(posts) = n /\ n \in Nat
  BY <1>1, FramingAssumption
<1>3. /\ nth = 1 /\ sent = 0 /\ alive = TRUE /\ failed = FALSE
      /\ stream = <<>> /\ head = <<>> /\ body = <<>> /\ received = <<>>
  BY DEF FramingInit
<1>4. /\ \A S : <<>> \in Seq(S) /\ Len(<<>>) = 0
      /\ \A f : <<>> = [b \in 1 .. 0 |-> f[b]]
  OBVIOUS
<1>5. Reading = 1 /\ Got = 0
  BY <1>3, <1>4 DEF Reading, Got
<1>6. \A m \in 1 .. Len(posts) : Len(Post(m)) > 0
  <2> SUFFICES ASSUME NEW m \in 1 .. Len(posts) PROVE Len(Post(m)) > 0
    OBVIOUS
  <2>1. posts[m] \in Nat /\ HEADER_SIZE \in Nat \ {0}
    BY <1>1, <1>2, FramingAssumption
  <2> QED
    BY <2>1 DEF Post
<1>7. FramingTypeOK
  <2>1. Len(stream) = 0 /\ Len(head) = 0 /\ Len(body) = 0
    BY <1>3, <1>4
  <2>2. /\ HEADER_SIZE \in Nat \ {0} /\ Room \in Nat \ {0} /\ MaxBody \in Nat
    BY FramingAssumption
  <2>3. alive \in BOOLEAN /\ failed \in BOOLEAN
    BY <1>3
  <2>4. nth \in 1 .. Len(posts) + 1
    BY <1>2, <1>3
  <2>5. sent \in 0 .. HEADER_SIZE + MaxBody - 1
    BY <1>3, <2>2
  <2> QED
    BY <2>1, <2>2, <2>3, <2>4, <2>5 DEF FramingTypeOK
<1>8. StreamInv
  BY <1>3, <1>5 DEF StreamInv
<1>9. ReadInv
  BY <1>2, <1>3, <1>5, <1>6 DEF ReadInv
<1> QED
  BY <1>2, <1>3, <1>4, <1>6, <1>7, <1>8, <1>9 DEF FramingInv

-----------------------------------------------------------------------------
\* The bytes that send() takes come right behind the ones it took before.
LEMMA SendsInv ==
    ASSUME FramingInv, Sends
    PROVE  FramingInv'
<1>0. PICK k, s, size, l, r, g :
          /\ k = nth /\ s = sent /\ size = Len(Post(nth)) /\ l = Len(stream)
          /\ r = Reading /\ g = Got
  OBVIOUS
<1>a. l \in Nat /\ (l = 0 => stream = <<>>) /\ (l # 0 => stream # <<>>)
  <2>1. stream \in Seq(Bytes)
    BY DEF FramingInv
  <2> QED
    BY <1>0, <2>1
<1> USE <1>a
<1>b. k \in 1 .. Len(posts) /\ s \in Nat /\ HEADER_SIZE \in Nat
      /\ s < size /\ Len(posts) \in Nat
  BY <1>0, FramingAssumption DEF FramingInv, FramingTypeOK, Sends
<1>c. size \in Nat /\ size = HEADER_SIZE + posts[nth] /\ posts[nth] \in Nat
  BY <1>0, <1>b, PostIs
<1>d. PICK n \in 1 .. Sending :
          /\ Len(stream) + n <= Room
          /\ stream' = stream \o SubSeq(Post(nth), sent + 1, sent + n)
          /\ sent' = IF sent + n = size THEN 0 ELSE sent + n
          /\ nth' = IF sent + n = size THEN nth + 1 ELSE nth
  BY <1>0, <1>c DEF Sends, Counts
<1>e. n \in Nat \ {0} /\ s + n <= size
  BY <1>0, <1>b, <1>c, <1>d DEF Sending
<1>f. PICK p, out : p = Post(nth) /\ out = SubSeq(p, s + 1, s + n)
  OBVIOUS
<1>g. p \in Seq(Bytes) /\ Len(p) = size /\ \A b \in 1 .. size : p[b] = Byte(k, b)
  BY <1>0, <1>b, <1>f, PostIs
<1>h. /\ out \in Seq(Bytes) /\ Len(out) = n
      /\ \A i \in 1 .. n : out[i] = p[s + i]
  <2>1. s \in Nat /\ n \in Nat /\ s + n <= Len(p)
    BY <1>b, <1>e, <1>g
  <2> QED
    BY <1>f, <1>g, <2>1, Cut
<1>i. ASSUME NEW i \in 1 .. n PROVE out[i] = Byte(k, s + i)
  <2>1. s + i \in 1 .. size
    BY <1>b, <1>c, <1>e
  <2> QED
    BY <1>g, <1>h, <2>1
<1>1. /\ k \in 1 .. Len(posts) /\ size \in Nat /\ s \in Nat
      /\ n \in Nat \ {0} /\ s + n <= size /\ l + n <= Room
      /\ out \in Seq(Bytes) /\ Len(out) = n /\ \A i \in 1 .. n : out[i] = Byte(k, s + i)
      /\ stream' = stream \o out
      /\ sent' = IF s + n = size THEN 0 ELSE s + n
      /\ nth' = IF s + n = size THEN k + 1 ELSE k
      /\ posts' = posts /\ alive' = alive /\ head' = head /\ body' = body
      /\ received' = received /\ failed' = failed
  <2>1. /\ posts' = posts /\ alive' = alive /\ head' = head /\ body' = body
        /\ received' = received /\ failed' = failed
    BY DEF Sends
  <2> QED
    BY <1>0, <1>b, <1>c, <1>d, <1>e, <1>f, <1>h, <1>i, <2>1
<1>2. s < size /\ Len(posts) \in Nat
  BY <1>0, <1>1 DEF FramingInv
<1>3. /\ stream' \in Seq(Bytes) /\ Len(stream') = l + n
      /\ \A i \in 1 .. l : stream'[i] = stream[i]
      /\ \A i \in 1 .. n : stream'[l + i] = Byte(k, s + i)
  <2>1. stream \in Seq(Bytes)
    BY DEF FramingInv
  <2>2. /\ stream \o out \in Seq(Bytes) /\ Len(stream \o out) = Len(stream) + Len(out)
        /\ \A i \in 1 .. Len(stream) : (stream \o out)[i] = stream[i]
        /\ \A i \in 1 .. Len(out) : (stream \o out)[Len(stream) + i] = out[i]
    <3>1. out \in Seq(Bytes)
      BY <1>1
    <3> HIDE <1>a
    <3> QED
      BY <2>1, <3>1, Joined
  <2> QED
    BY <1>0, <1>1, <2>2
<1>4. /\ posts' = posts
      /\ \A m, b : Byte(m, b)' = Byte(m, b)
      /\ \A m : Post(m)' = Post(m)
  BY <1>1 DEF Byte, Post
<1>5. ASSUME NEW i \in 1 .. l, NEW m, NEW b, IsAt(i, m, b) PROVE IsAt(i, m, b)'
  BY SMTT(40), <1>0, <1>1, <1>3, <1>4, <1>5 DEF IsAt
<1>6. ASSUME NEW i \in 1 .. n PROVE IsAt(l + i, k, s + i)'
  <2>1. k \in 1 .. Len(posts) /\ s + i \in 1 .. Len(Post(k))
        /\ stream'[l + i] = Byte(k, s + i)
    BY <1>0, <1>1, <1>3
  <2>2. k < nth' \/ (k = nth' /\ s + i <= sent')
    BY <1>1
  <2> QED
    BY <1>4, <2>1, <2>2 DEF IsAt
<1>7. Reading' = r /\ Got' = g
  BY <1>0, <1>1 DEF Reading, Got
<1>8. stream' # <<>>
  BY <1>3
<1>9. StreamInv
  BY DEF FramingInv
<1>10. IsAt(1, r, g + 1)'
  <2>1. CASE l = 0
    <3>1. r = k /\ g = s
      BY <1>0, <1>9, <2>1 DEF StreamInv
    <3>2. IsAt(l + 1, k, s + 1)' /\ l + 1 = 1
      BY <1>6, <2>1
    <3> QED
      BY <3>1, <3>2
  <2>2. CASE l # 0
    <3>1. IsAt(1, r, g + 1)
      BY <1>0, <1>9, <2>2 DEF StreamInv
    <3> QED
      BY <1>5, <2>2, <3>1
  <2> QED
    BY <2>1, <2>2
<1>11. /\ s + n = size => IsAt(l + n, k, Len(Post(k)))' /\ sent' = 0 /\ nth' - 1 = k
       /\ s + n # size => IsAt(l + n, k, s + n)' /\ sent' = s + n /\ nth' = k
  <2>1. IsAt(l + n, k, s + n)' /\ Len(Post(k))' = size
    BY <1>0, <1>4, <1>6
  <2>2. CASE s + n = size
    <3>1. IsAt(l + n, k, Len(Post(k)))'
      BY <2>1, <2>2 DEF IsAt, Byte
    <3> QED
      BY <1>1, <2>2, <3>1
  <2>3. CASE s + n # size
    BY <1>1, <2>1, <2>3
  <2> QED
    BY <2>2, <2>3
<1>12. ASSUME NEW i \in 1 .. l + n - 1 PROVE NoGap(i)'
  <2> SUFFICES \E m \in 1 .. Len(posts) : \E b \in 1 .. Len(Post(m)) :
                  /\ IsAt(i, m, b)'
                  /\ b < Len(Post(m)) => IsAt(i + 1, m, b + 1)'
                  /\ ~(b < Len(Post(m))) => IsAt(i + 1, m + 1, 1)'
    BY <1>4 DEF NoGap
  <2>1. CASE i < l
    <3>1. NoGap(i)
      BY <1>0, <1>9, <2>1 DEF StreamInv
    <3>2. i \in 1 .. l /\ i + 1 \in 1 .. l
      BY <2>1
    <3> QED
      BY <1>5, <3>1, <3>2 DEF NoGap
  <2>2. CASE i = l
    <3>1. IF s > 0 THEN IsAt(l, k, s) ELSE IsAt(l, k - 1, Len(Post(k - 1)))
      BY <1>0, <1>9, <2>2 DEF StreamInv
    <3>2. IsAt(l + 1, k, s + 1)' /\ l \in 1 .. l
      BY <1>6, <2>2
    <3>3. CASE s > 0
      <4>1. IsAt(l, k, s)' /\ s \in 1 .. Len(Post(k)) /\ s < Len(Post(k))
        <5>1. IsAt(l, k, s)'
          BY <1>5, <3>1, <3>2, <3>3
        <5> QED
          BY <1>0, <1>1, <1>2, <3>3, <5>1
      <4> QED
        BY <1>1, <2>2, <3>2, <4>1
    <3>4. CASE s = 0
      <4>0. PICK b : b = Len(Post(k - 1))
        OBVIOUS
      <4>1. IsAt(l, k - 1, b) /\ k - 1 \in 1 .. Len(posts) /\ b \in 1 .. Len(Post(k - 1))
        BY <3>1, <3>4, <4>0 DEF IsAt
      <4>2. IsAt(l, k - 1, b)' /\ ~(b < Len(Post(k - 1)))
        BY <1>5, <3>2, <4>0, <4>1
      <4>3. k - 1 + 1 = k /\ s + 1 = 1
        BY <1>1, <3>4
      <4>4. IsAt(i + 1, k - 1 + 1, 1)'
        BY <2>2, <3>2, <4>3
      <4> QED
        BY <2>2, <4>1, <4>2, <4>4
    <3> QED
      BY <1>1, <3>3, <3>4
  <2>3. CASE i > l
    <3>1. PICK j \in 1 .. n : i = l + j /\ j + 1 \in 1 .. n
      <4>1. i - l \in 1 .. n /\ i = l + (i - l) /\ i - l + 1 \in 1 .. n
        BY <2>3
      <4> QED
        BY <4>1
    <3>2. IsAt(l + j, k, s + j)' /\ IsAt(l + (j + 1), k, s + (j + 1))'
      BY <1>6, <3>1
    <3>3. /\ s + j \in 1 .. size /\ s + j < size
          /\ s + (j + 1) = s + j + 1 /\ l + (j + 1) = i + 1
      BY <1>1, <3>1
    <3>4. IsAt(i, k, s + j)' /\ IsAt(i + 1, k, s + j + 1)'
      BY <3>1, <3>2, <3>3
    <3>5. k \in 1 .. Len(posts) /\ s + j \in 1 .. Len(Post(k)) /\ s + j < Len(Post(k))
      BY <1>0, <1>1, <3>3
    <3> QED
      BY <3>4, <3>5
  <2> QED
    BY <2>1, <2>2, <2>3
<1>13. StreamInv'
  <2>1. /\ IsAt(1, Reading, Got + 1)'
        /\ sent' > 0 => IsAt(Len(stream), nth, sent)'
        /\ sent' = 0 => IsAt(Len(stream), nth - 1, Len(Post(nth - 1)))'
    <3>1. IsAt(1, Reading, Got + 1)'
      BY <1>7, <1>10
    <3>2. CASE s + n = size
      <4>1. IsAt(l + n, k, Len(Post(k)))' /\ sent' = 0 /\ nth' - 1 = k
            /\ Len(stream') = l + n
        BY <1>3, <1>11, <3>2
      <4>2. IsAt(Len(stream), nth - 1, Len(Post(nth - 1)))'
        <5>1. PICK c, z : c = nth' - 1 /\ z = Len(Post(k))'
          OBVIOUS
        <5>2. c = k /\ z = Len(Post(nth - 1))' /\ IsAt(l + n, k, z)'
          BY <4>1, <5>1 DEF Post, IsAt, Byte
        <5> QED
          BY <4>1, <5>1, <5>2 DEF IsAt, Byte
      <4> QED
        BY <3>1, <4>1, <4>2
    <3>3. CASE s + n # size
      <4>1. IsAt(l + n, k, s + n)' /\ sent' = s + n /\ nth' = k /\ Len(stream') = l + n
        BY <1>3, <1>11, <3>3
      <4>2. IsAt(Len(stream), nth, sent)'
        <5>1. PICK c, z, e : c = nth' /\ z = sent' /\ e = Len(stream')
          OBVIOUS
        <5>2. IsAt(e, c, z)'
          BY <4>1, <5>1
        <5> QED
          BY <5>1, <5>2 DEF IsAt, Byte, Post
      <4>3. sent' # 0
        BY <1>1, <4>1
      <4> QED
        BY <3>1, <4>2, <4>3
    <3> QED
      BY <3>1, <3>2, <3>3
  <2>2. sent' > 0 \/ sent' = 0
    BY <1>1
  <2> QED
    BY <1>3, <1>8, <1>12, <2>1, <2>2 DEF StreamInv
<1>14. ReadInv'
  <2>1. ReadInv /\ k <= nth'
    BY <1>1 DEF FramingInv
  <2>2. UNCHANGED <<Len(head), Len(body), Len(posts), head, body>>
        /\ Len(Post(r))' = Len(Post(r))
    BY <1>1, <1>4
  <2>3. r <= nth'
    BY <1>0, <1>1, <2>1 DEF ReadInv, Reading, FramingInv
  <2> QED
    BY <1>0, <1>4, <1>7, <2>1, <2>2, <2>3 DEF ReadInv
<1>15. FramingTypeOK' /\ (nth' <= Len(posts') => sent' < Len(Post(nth))')
       /\ (nth' > Len(posts') => sent' = 0)
  <2>1. nth' <= Len(posts') => sent' < Len(Post(nth))'
    <3>1. CASE s + n = size
      <4>1. ASSUME k + 1 \in 1 .. Len(posts) PROVE Len(Post(k + 1)) > 0
        BY <4>1, PostIs
      <4>2. sent' = 0 /\ nth' = k + 1 /\ Len(Post(k + 1))' = Len(Post(k + 1))
        BY <1>1, <1>4, <3>1
      <4> QED
        BY <1>1, <1>2, <4>1, <4>2
    <3>2. CASE s + n # size
      BY <1>0, <1>1, <1>2, <1>4, <3>2
    <3> QED
      BY <3>1, <3>2
  <2>2. nth' > Len(posts') => sent' = 0
    BY <1>1, <1>2
  <2>3. size <= HEADER_SIZE + MaxBody /\ HEADER_SIZE \in Nat /\ MaxBody \in Nat
    BY <1>0, <1>1, PostIs, FramingAssumption
  <2>4. sent' \in 0 .. HEADER_SIZE + MaxBody - 1 /\ nth' \in 1 .. Len(posts') + 1
        /\ Len(stream') <= Room
    BY <1>0, <1>1, <1>2, <1>3, <2>3
  <2>5. FramingTypeOK'
    BY <1>1, <2>4 DEF FramingInv, FramingTypeOK
  <2> QED
    BY <2>1, <2>2, <2>5
<1> QED
  BY <1>1, <1>3, <1>13, <1>14, <1>15 DEF FramingInv

\* Steps that move no byte.
LEMMA StillInv ==
    ASSUME FramingInv, Dies \/ Fails \/ UNCHANGED fvars
    PROVE  FramingInv'
<1>1. /\ posts' = posts /\ nth' = nth /\ sent' = sent /\ stream' = stream
      /\ head' = head /\ body' = body /\ received' = received
      /\ alive' = alive \/ alive' = FALSE
      /\ failed' = failed \/ failed' = TRUE
  BY DEF Dies, Fails, fvars
<1>2. /\ \A m, b : Byte(m, b)' = Byte(m, b)
      /\ \A m : Post(m)' = Post(m)
  BY <1>1 DEF Byte, Post
<1>3. Reading' = Reading /\ Got' = Got
  BY <1>1 DEF Reading, Got
<1>4. \A i, m, b : IsAt(i, m, b)' <=> IsAt(i, m, b)
  BY <1>1, <1>2 DEF IsAt
<1>5. StreamInv'
  <2>1. StreamInv
    BY DEF FramingInv
  <2>2. \A i : NoGap(i)' <=> NoGap(i)
    BY <1>1, <1>2 DEF NoGap, IsAt
  <2>3. IsAt(1, Reading, Got + 1)' <=> IsAt(1, Reading, Got + 1)
    BY <1>1 DEF IsAt, Reading, Got, Byte, Post
  <2>4. IsAt(Len(stream), nth, sent)' <=> IsAt(Len(stream), nth, sent)
    BY <1>1 DEF IsAt, Byte, Post
  <2>5. IsAt(Len(stream), nth - 1, Len(Post(nth - 1)))'
        <=> IsAt(Len(stream), nth - 1, Len(Post(nth - 1)))
    BY <1>1 DEF IsAt, Byte, Post
  <2> QED
    BY <1>1, <1>3, <2>1, <2>2, <2>3, <2>4, <2>5 DEF StreamInv
<1>6. ReadInv'
  <2>1. ReadInv
    BY DEF FramingInv
  <2> QED
    BY <1>1, <2>1 DEF ReadInv, Reading, Got, Byte, Post
<1>7. FramingTypeOK'
  BY <1>1 DEF FramingInv, FramingTypeOK
<1> QED
  BY <1>1, <1>2, <1>5, <1>6, <1>7 DEF FramingInv, Post, Byte

-----------------------------------------------------------------------------
\* What recv() brings belongs to one message: n bytes that the stream starts
\* with are the ones behind the g bytes of the m-th that recv_post has.
LEMMA SameMessage ==
    ASSUME FramingInv, stream # <<>>, NEW m, m = Reading, NEW g \in Nat, g = Got,
           NEW n \in 1 .. Len(stream), g + n <= Len(Post(m))
    PROVE  \A i \in 1 .. n : IsAt(i, m, g + i)
<1> DEFINE C == {i \in 1 .. n : ~IsAt(i, m, g + i)}
<1> SUFFICES ASSUME C # {} PROVE FALSE
  OBVIOUS
<1>1. PICK c \in C : \A y \in C : c <= y
  <2>1. C \subseteq Nat
    OBVIOUS
  <2> QED
    BY <2>1, Least
<1>2. c \in 1 .. n /\ ~IsAt(c, m, g + c)
  BY <1>1
<1>3. IsAt(1, m, g + 1)
  <2>1. StreamInv
    BY DEF FramingInv
  <2> QED
    BY <2>1 DEF StreamInv
<1>4. c # 1
  BY <1>2, <1>3
<1>5. PICK d : d = c - 1
  OBVIOUS
<1>6. d \in 1 .. n /\ d < n /\ d + 1 = c /\ ~(d \in C)
  BY <1>1, <1>2, <1>4, <1>5
<1>7. IsAt(d, m, g + d)
  BY <1>6
<1>8. NoGap(d)
  <2>1. StreamInv /\ Len(stream) \in Nat
    BY DEF FramingInv
  <2>2. d \in 1 .. Len(stream) - 1
    BY <1>6, <2>1
  <2>3. \A i \in 1 .. Len(stream) - 1 : NoGap(i)
    <3> HIDE DEF C
    <3> QED
      BY <2>1, Zenon DEF StreamInv
  <2> QED
    BY <2>2, <2>3
<1>9. PICK x \in 1 .. Len(posts) : \E b \in 1 .. Len(Post(x)) :
        /\ IsAt(d, x, b)
        /\ b < Len(Post(x)) => IsAt(d + 1, x, b + 1)
  BY <1>8 DEF NoGap
<1>b. PICK b \in 1 .. Len(Post(x)) :
        /\ IsAt(d, x, b)
        /\ b < Len(Post(x)) => IsAt(d + 1, x, b + 1)
  BY <1>9
<1>10. x = m /\ b = g + d
  <2>1. Byte(x, b) = Byte(m, g + d)
    BY <1>7, <1>b DEF IsAt
  <2> QED
    BY <2>1, BytesDiffer
<1>11. b < Len(Post(x)) /\ b + 1 = g + c
  <2>1. Len(Post(x)) \in Nat
    BY PostIs
  <2>2. g + d < g + n
    BY <1>6
  <2> QED
    BY <1>6, <1>10, <2>1, <2>2
<1>12. IsAt(c, m, g + c)
  BY <1>6, <1>b, <1>10, <1>11
<1> QED
  BY <1>2, <1>12

LEMMA ReceivesStep ==
    ASSUME FramingInv, Receives
    PROVE  /\ FramingInv'
           /\ \/ received' = received
              \/ /\ Reading < nth /\ Reading \in 1 .. Len(posts)
                 /\ received' = Append(received, Post(Reading))
           /\ posts' = posts /\ nth' = nth
<1>1. PICK m, g, l, size, k, s, R :
          /\ m = Reading /\ g = Got /\ l = Len(stream) /\ size = Len(Post(m))
          /\ k = nth /\ s = sent /\ R = received
  OBVIOUS
<1>2. PICK n, got, h, b, all :
          /\ n \in 1 .. Len(stream)
          /\ got = SubSeq(stream, 1, n)
          /\ h = IF Len(head) >= HEADER_SIZE THEN head ELSE head \o got
          /\ b = IF Len(head) >= HEADER_SIZE THEN body \o got ELSE body
          /\ all = (/\ Len(h) >= HEADER_SIZE
                    /\ \/ h[1].length - HEADER_SIZE = 0
                       \/ Len(b) >= h[1].length - HEADER_SIZE)
          /\ n <= IF Len(head) >= HEADER_SIZE THEN head[1].length - HEADER_SIZE - Len(body)
                  ELSE HEADER_SIZE - Len(head)
          /\ stream' = SubSeq(stream, n + 1, Len(stream))
          /\ head' = IF all THEN <<>> ELSE h
          /\ body' = IF all THEN <<>> ELSE b
          /\ received' = IF all THEN Append(received, h \o b) ELSE received
  BY Zenon DEF Receives, IsComplete, BodySize
<1>3. /\ posts' = posts /\ nth' = nth /\ sent' = sent /\ alive' = alive
      /\ failed' = failed
  BY DEF Receives
<1>4. /\ posts \in Seq(0 .. MaxBody) /\ received \in Seq(Seq(Bytes))
      /\ stream \in Seq(Bytes) /\ head \in Seq(Bytes) /\ body \in Seq(Bytes)
      /\ FramingTypeOK /\ StreamInv /\ ReadInv
  BY DEF FramingInv
<1>5. /\ l \in Nat /\ n \in 1 .. l /\ stream # <<>> /\ g \in Nat
      /\ Len(head) \in Nat /\ Len(body) \in Nat /\ g = Len(head) + Len(body)
  BY SMTT(40), <1>1, <1>2, <1>4 DEF Got
<1>6. m \in 1 .. Len(posts) /\ g + 1 \in 1 .. size
  BY <1>1, <1>4, <1>5 DEF StreamInv, IsAt
<1>7. PICK p, hs : p = posts[m] /\ hs = HEADER_SIZE
  OBVIOUS
<1>8. /\ size = hs + p /\ p \in Nat /\ hs \in Nat \ {0} /\ size \in Nat
      /\ size <= HEADER_SIZE + MaxBody /\ MaxBody \in Nat
      /\ Post(m) \in Seq(Bytes) /\ \A i \in 1 .. size : Post(m)[i] = Byte(m, i)
  BY <1>1, <1>6, <1>7, PostIs, FramingAssumption
<1>9. /\ \A i \in 1 .. Len(head) : head[i] = Byte(m, i)
      /\ \A i \in 1 .. Len(body) : body[i] = Byte(m, hs + i)
      /\ Len(head) < hs => body = <<>>
      /\ Len(head) <= hs
  BY <1>1, <1>4, <1>7 DEF ReadInv, FramingTypeOK
<1>10. g + n <= size
  <2>1. CASE Len(head) >= hs
    <3>1. head[1].length = hs + p
      <4>1. head[1] = Byte(m, 1)
        BY <1>5, <1>8, <1>9, <2>1
      <4> QED
        BY <1>7, <4>1 DEF Byte
    <3>2. n <= head[1].length - hs - Len(body)
      BY <1>2, <1>7, <2>1
    <3> QED
      BY <1>5, <1>8, <1>9, <2>1, <3>1, <3>2
  <2>2. CASE Len(head) < hs
    BY SMTT(40), <1>2, <1>5, <1>7, <1>8, <1>9, <2>2
  <2> QED
    BY <1>5, <1>8, <2>1, <2>2
<1>11. \A i \in 1 .. n : IsAt(i, m, g + i)
  BY <1>1, <1>5, <1>10, SameMessage
<1>12. /\ got \in Seq(Bytes) /\ Len(got) = n
       /\ \A i \in 1 .. n : got[i] = Byte(m, g + i)
  <2>1. /\ SubSeq(stream, 0 + 1, 0 + n) \in Seq(Bytes)
        /\ Len(SubSeq(stream, 0 + 1, 0 + n)) = n
        /\ \A i \in 1 .. n : SubSeq(stream, 0 + 1, 0 + n)[i] = stream[0 + i]
    <3>1. 0 \in Nat /\ n \in Nat /\ 0 + n <= Len(stream)
      BY <1>1, <1>5
    <3> QED
      BY <1>4, <3>1, Cut
  <2>2. \A i \in 1 .. n : stream[i] = Byte(m, g + i)
    BY <1>11 DEF IsAt
  <2>3. 0 + 1 = 1 /\ 0 + n = n /\ \A i \in 1 .. n : 0 + i = i
    BY <1>5
  <2>4. got \in Seq(Bytes) /\ Len(got) = n
    BY <1>2, <2>1, <2>3
  <2>5. \A i \in 1 .. n : got[i] = stream[i]
    <3> SUFFICES ASSUME NEW i \in 1 .. n PROVE got[i] = stream[i]
      OBVIOUS
    <3>1. got = SubSeq(stream, 0 + 1, 0 + n) /\ 0 + i = i
      BY <1>2, <2>3
    <3> QED
      BY <2>1, <3>1
  <2> QED
    BY <2>2, <2>4, <2>5
<1>13. /\ h \in Seq(Bytes) /\ b \in Seq(Bytes) /\ Len(h) + Len(b) = g + n
       /\ Len(h) <= hs /\ (Len(h) < hs => b = <<>>)
       /\ \A i \in 1 .. Len(h) : h[i] = Byte(m, i)
       /\ \A i \in 1 .. Len(b) : b[i] = Byte(m, hs + i)
  <2>1. CASE Len(head) >= hs
    <3>1. h = head /\ b = body \o got /\ Len(head) = hs
      BY SMTT(40), <1>2, <1>5, <1>7, <1>8, <1>9, <2>1
    <3>2. /\ b \in Seq(Bytes) /\ Len(b) = Len(body) + n
          /\ \A i \in 1 .. Len(body) : b[i] = body[i]
          /\ \A i \in 1 .. n : b[Len(body) + i] = got[i]
      <4>1. body \in Seq(Bytes) /\ got \in Seq(Bytes)
        BY <1>4, <1>12
      <4>2. /\ body \o got \in Seq(Bytes) /\ Len(body \o got) = Len(body) + Len(got)
            /\ \A i \in 1 .. Len(body) : (body \o got)[i] = body[i]
            /\ \A i \in 1 .. Len(got) : (body \o got)[Len(body) + i] = got[i]
        BY <4>1, Joined
      <4> QED
        BY <1>12, <3>1, <4>2
    <3>3. ASSUME NEW i \in 1 .. Len(b) PROVE b[i] = Byte(m, hs + i)
      <4>1. CASE i <= Len(body)
        BY <1>5, <1>9, <3>2, <4>1
      <4>2. CASE i > Len(body)
        <5>1. PICK j : j = i - Len(body)
          OBVIOUS
        <5>2. j \in 1 .. n /\ Len(body) + j = i /\ g + j = hs + i
          BY <1>5, <1>8, <3>1, <3>2, <4>2, <5>1
        <5>3. got[j] = Byte(m, g + j)
          BY <1>12, <5>2
        <5>4. b[Len(body) + j] = got[j]
          BY <3>2, <5>2, Zenon
        <5> QED
          BY <5>2, <5>3, <5>4, Zenon
      <4> QED
        BY <1>5, <4>1, <4>2
    <3>4. /\ h \in Seq(Bytes) /\ Len(h) = hs /\ \A i \in 1 .. Len(h) : h[i] = Byte(m, i)
      BY <1>4, <1>9, <3>1
    <3>5. Len(h) + Len(b) = g + n /\ Len(h) <= hs /\ ~(Len(h) < hs)
      BY <1>5, <1>8, <3>1, <3>2, <3>4
    <3> QED
      BY <3>2, <3>3, <3>4, <3>5
  <2>2. CASE Len(head) < hs
    <3>1. h = head \o got /\ b = body /\ body = <<>> /\ Len(body) = 0 /\ g = Len(head)
      <4>1. ~(Len(head) >= HEADER_SIZE) /\ body = <<>>
        BY <1>5, <1>7, <1>8, <1>9, <2>2
      <4>2. h = head \o got /\ b = body
        BY <1>2, <4>1, Zenon
      <4> QED
        BY <1>5, <4>1, <4>2
    <3>2. /\ h \in Seq(Bytes) /\ Len(h) = Len(head) + n
          /\ \A i \in 1 .. Len(head) : h[i] = head[i]
          /\ \A i \in 1 .. n : h[Len(head) + i] = got[i]
      <4>1. head \in Seq(Bytes) /\ got \in Seq(Bytes)
        BY <1>4, <1>12
      <4>2. /\ head \o got \in Seq(Bytes) /\ Len(head \o got) = Len(head) + Len(got)
            /\ \A i \in 1 .. Len(head) : (head \o got)[i] = head[i]
            /\ \A i \in 1 .. Len(got) : (head \o got)[Len(head) + i] = got[i]
        BY <4>1, Joined
      <4> QED
        BY <1>12, <3>1, <4>2
    <3>3. ASSUME NEW i \in 1 .. Len(h) PROVE h[i] = Byte(m, i)
      <4>1. CASE i <= Len(head)
        BY <1>5, <1>9, <3>2, <4>1
      <4>2. CASE i > Len(head)
        <5>1. PICK j : j = i - Len(head)
          OBVIOUS
        <5>2. j \in 1 .. n /\ Len(head) + j = i /\ g + j = i
          BY <1>5, <3>1, <3>2, <4>2, <5>1
        <5>3. got[j] = Byte(m, g + j)
          BY <1>12, <5>2
        <5>4. h[Len(head) + j] = got[j]
          BY <3>2, <5>2, Zenon
        <5> QED
          BY <5>2, <5>3, <5>4, Zenon
      <4> QED
        BY <1>5, <4>1, <4>2
    <3>4. n <= hs - Len(head)
      <4>1. ~(Len(head) >= HEADER_SIZE)
        BY <1>5, <1>7, <1>8, <2>2
      <4> QED
        BY <1>2, <1>7, <4>1
    <3> QED
      BY <1>4, <1>5, <1>8, <3>1, <3>2, <3>3, <3>4
  <2> QED
    BY <1>5, <1>8, <2>1, <2>2
<1>14. all <=> g + n = size
  <2>1. h[1].length = hs + p
    <3>1. 1 \in 1 .. Len(h)
      BY <1>5, <1>8, <1>13
    <3>2. h[1] = Byte(m, 1)
      BY <1>13, <3>1
    <3> QED
      BY <1>7, <3>2 DEF Byte
  <2>2. all <=> Len(h) >= hs /\ (h[1].length - hs = 0 \/ Len(b) >= h[1].length - hs)
    BY <1>2, <1>7, Zenon
  <2>3. Len(h) \in Nat /\ Len(b) \in Nat /\ h[1].length - hs = p
        /\ (Len(h) < hs => Len(b) = 0)
    BY <1>8, <1>13, <2>1
  <2>4. all <=> Len(h) >= hs /\ (p = 0 \/ Len(b) >= p)
    BY <2>2, <2>3, Zenon
  <2>5. PICK x, y : x = Len(h) /\ y = Len(b)
    OBVIOUS
  <2>6. /\ x \in Nat /\ y \in Nat /\ x + y = g + n /\ x <= hs /\ (x < hs => y = 0)
        /\ size = hs + p /\ hs \in Nat \ {0} /\ p \in Nat /\ g + n <= size
    BY <1>8, <1>10, <1>13, <2>3, <2>5
  <2>7. (x >= hs /\ (p = 0 \/ y >= p)) <=> x + y = size
    BY <2>6
  <2>8. all <=> x >= hs /\ (p = 0 \/ y >= p)
    BY <2>4, <2>5, Zenon
  <2> QED
    BY <2>6, <2>7, <2>8, Zenon
<1>15. /\ \A i, x : Byte(i, x)' = Byte(i, x)
       /\ \A i : Post(i)' = Post(i)
  BY <1>3 DEF Byte, Post
<1>16. /\ stream' \in Seq(Bytes) /\ Len(stream') = l - n
       /\ \A i \in 1 .. l - n : stream'[i] = stream[n + i]
  <2>1. PICK d : d = l - n
    OBVIOUS
  <2>2. n \in Nat /\ d \in Nat /\ n + d <= Len(stream) /\ n + d = Len(stream)
    BY <1>1, <1>5, <2>1
  <2>3. /\ SubSeq(stream, n + 1, n + d) \in Seq(Bytes)
        /\ Len(SubSeq(stream, n + 1, n + d)) = d
        /\ \A i \in 1 .. d : SubSeq(stream, n + 1, n + d)[i] = stream[n + i]
    BY <1>4, <2>2, Cut
  <2>4. stream' = SubSeq(stream, n + 1, n + d)
    BY <1>2, <2>2
  <2> QED
    BY <2>1, <2>3, <2>4
<1>17. ASSUME NEW i \in 1 .. l - n, NEW x, NEW y, IsAt(n + i, x, y) PROVE IsAt(i, x, y)'
  BY <1>3, <1>15, <1>16, <1>17 DEF IsAt
<1>18. IsAt(n, m, size) \/ g + n < size
  BY <1>5, <1>8, <1>10, <1>11
<1>19. /\ g + n = size => IsAt(n, m, size)
       /\ l - n # 0 /\ g + n < size => IsAt(n + 1, m, g + n + 1)
       /\ l - n # 0 /\ g + n = size => IsAt(n + 1, m + 1, 1)
  <2>1. g + n = size => IsAt(n, m, size)
    BY <1>8, <1>18
  <2>2. ASSUME l - n # 0
        PROVE  /\ g + n < size => IsAt(n + 1, m, g + n + 1)
               /\ g + n = size => IsAt(n + 1, m + 1, 1)
    <3>1. NoGap(n)
      BY <1>1, <1>4, <1>5, <2>2 DEF StreamInv
    <3>2. PICK x \in 1 .. Len(posts) : \E y \in 1 .. Len(Post(x)) :
            /\ IsAt(n, x, y)
            /\ y < Len(Post(x)) => IsAt(n + 1, x, y + 1)
            /\ ~(y < Len(Post(x))) => IsAt(n + 1, x + 1, 1)
      BY <3>1 DEF NoGap
    <3>3. PICK y \in 1 .. Len(Post(x)) :
            /\ IsAt(n, x, y)
            /\ y < Len(Post(x)) => IsAt(n + 1, x, y + 1)
            /\ ~(y < Len(Post(x))) => IsAt(n + 1, x + 1, 1)
      BY <3>2
    <3>4. x = m /\ y = g + n
      <4>1. IsAt(n, m, g + n)
        BY <1>5, <1>11
      <4>2. Byte(x, y) = Byte(m, g + n)
        BY <3>3, <4>1 DEF IsAt
      <4> QED
        BY <4>2, BytesDiffer
    <3>5. g + n < size => IsAt(n + 1, m, g + n + 1)
      BY <1>1, <3>3, <3>4
    <3>6. g + n = size => IsAt(n + 1, m + 1, 1)
      <4>1. g + n = size => ~(g + n < size)
        BY <1>8
      <4> QED
        BY <1>1, <3>3, <3>4, <4>1
    <3> QED
      BY <3>5, <3>6
  <2> QED
    BY <2>1, <2>2
<1>20. m <= k /\ (g + n = size => m < k)
  <2>1. m <= k
    BY <1>1, <1>4 DEF ReadInv
  <2>2. ASSUME g + n = size, m = k PROVE FALSE
    <3>1. IsAt(n, m, size)
      BY <1>19, <2>2
    <3>2. size <= s
      BY <1>1, <2>2, <3>1 DEF IsAt
    <3>3. s < size
      BY <1>1, <1>6, <2>2 DEF FramingInv
    <3>4. s \in Nat
      BY <1>1, <1>4, <1>8, FramingAssumption DEF FramingTypeOK
    <3> QED
      BY <1>8, <3>2, <3>3, <3>4
  <2>3. m \in Nat /\ k \in Nat
    BY <1>1, <1>4, <1>6 DEF FramingTypeOK
  <2> QED
    BY <2>1, <2>2, <2>3
<1>21. PICK r2, g2 : r2 = Reading' /\ g2 = Got'
  OBVIOUS
<1>22. g + n = size => /\ h \o b = Post(m) /\ received' = Append(received, Post(m))
                       /\ head' = <<>> /\ body' = <<>> /\ r2 = m + 1 /\ g2 = 0
                       /\ received' \in Seq(Seq(Bytes))
  <2> SUFFICES ASSUME g + n = size
               PROVE  /\ h \o b = Post(m) /\ received' = Append(received, Post(m))
                      /\ head' = <<>> /\ body' = <<>> /\ r2 = m + 1 /\ g2 = 0
                      /\ received' \in Seq(Seq(Bytes))
    OBVIOUS
  <2>1. /\ h \o b \in Seq(Bytes) /\ Len(h \o b) = Len(h) + Len(b)
        /\ \A i \in 1 .. Len(h) : (h \o b)[i] = h[i]
        /\ \A i \in 1 .. Len(b) : (h \o b)[Len(h) + i] = b[i]
    BY <1>13, Joined
  <2>2. Len(h) \in Nat /\ Len(b) \in Nat /\ Len(h) = hs
    <3>1. Len(h) \in Nat /\ Len(b) \in Nat /\ (Len(h) < hs => Len(b) = 0)
      BY <1>13
    <3>2. Len(h) + Len(b) = hs + p /\ Len(h) <= hs
      BY <1>8, <1>13
    <3> QED
      BY <1>8, <3>1, <3>2
  <2>3. ASSUME NEW i \in 1 .. size PROVE (h \o b)[i] = Post(m)[i]
    <3>1. CASE i <= hs
      BY <1>8, <1>13, <2>1, <2>2, <3>1
    <3>2. CASE i > hs
      <4>1. PICK j : j = i - hs
        OBVIOUS
      <4>2. j \in 1 .. Len(b) /\ hs + j = i
        BY <1>8, <1>13, <2>2, <3>2, <4>1
      <4>3. (h \o b)[Len(h) + j] = b[j] /\ b[j] = Byte(m, hs + j)
        BY <1>13, <2>1, <4>2, Zenon
      <4>4. Len(h) + j = i /\ Post(m)[i] = Byte(m, i)
        BY <1>8, <2>2, <4>2
      <4> QED
        BY <4>2, <4>3, <4>4, Zenon
    <3>3. i <= hs \/ i > hs
      BY <1>8
    <3> QED
      BY <3>1, <3>2, <3>3, Zenon
  <2>4. h \o b = Post(m)
    <3>1. Len(h \o b) = size /\ h \o b \in Seq(Bytes)
      BY <1>13, <2>1
    <3>2. Len(Post(m)) = size /\ Post(m) \in Seq(Bytes)
      BY <1>1, <1>8
    <3> QED
      BY <2>3, <3>1, <3>2, SameSeq
  <2>5. received' = Append(received, Post(m)) /\ head' = <<>> /\ body' = <<>>
    BY <1>2, <1>14, <2>4, Zenon
  <2>6. received' \in Seq(Seq(Bytes)) /\ Len(received') = Len(received) + 1
    BY <1>4, <1>8, <2>5, AppendProperties
  <2>7. r2 = m + 1
    BY <1>1, <1>4, <1>21, <2>6 DEF Reading
  <2>8. g2 = 0
    BY <1>21, <2>5 DEF Got
  <2> QED
    BY <2>4, <2>5, <2>6, <2>7, <2>8
<1>23. g + n < size => /\ received' = received /\ head' = h /\ body' = b
                       /\ r2 = m /\ g2 = g + n
  <2> SUFFICES ASSUME g + n < size
               PROVE  /\ received' = received /\ head' = h /\ body' = b
                      /\ r2 = m /\ g2 = g + n
    OBVIOUS
  <2>1. ~(g + n = size)
    BY <1>5, <1>8
  <2>2. received' = received /\ head' = h /\ body' = b
    BY <1>2, <1>14, <2>1, Zenon
  <2>3. r2 = m
    BY <1>1, <1>21, <2>2 DEF Reading
  <2>4. g2 = g + n
    BY <1>13, <1>21, <2>2 DEF Got
  <2> QED
    BY <2>2, <2>3, <2>4
<1>24. StreamInv'
  <2>0. StreamInv /\ Len(stream) \in Nat /\ s \in Nat
    BY <1>1, <1>4, <1>8, FramingAssumption DEF FramingTypeOK
  <2>1. IF s > 0 THEN IsAt(l, k, s) ELSE IsAt(l, k - 1, Len(Post(k - 1)))
    BY <1>1, <1>5, <2>0 DEF StreamInv
  <2>2. CASE l - n = 0
    <3>1. stream' = <<>> /\ n = l /\ IsAt(l, m, g + n)
      BY <1>5, <1>11, <1>16, <2>2
    <3>2. CASE s > 0
      <4>1. IsAt(l, k, s)
        BY <2>1, <3>2
      <4>2. k = m /\ s = g + n
        <5>1. Byte(k, s) = Byte(m, g + n)
          BY <3>1, <4>1 DEF IsAt
        <5> QED
          BY <5>1, BytesDiffer
      <4>3. s < size
        BY <1>1, <1>6, <4>2 DEF FramingInv
      <4>4. r2 = k /\ g2 = s
        BY <1>23, <4>2, <4>3
      <4> QED
        BY <1>1, <1>3, <1>21, <3>1, <4>4 DEF StreamInv
    <3>3. CASE s = 0
      <4>1. PICK y : y = Len(Post(k - 1))
        OBVIOUS
      <4>2. IsAt(l, k - 1, y)
        BY <2>0, <2>1, <3>3, <4>1
      <4>3. k - 1 = m /\ y = g + n
        <5>1. Byte(k - 1, y) = Byte(m, g + n)
          BY <3>1, <4>2 DEF IsAt
        <5> QED
          BY <5>1, BytesDiffer
      <4>4. r2 = m + 1 /\ g2 = 0
        BY <1>1, <1>22, <4>1, <4>3
      <4>5. r2 = k
        BY <1>1, <1>4, <1>6, <4>3, <4>4 DEF FramingTypeOK
      <4> QED
        BY <1>1, <1>3, <1>21, <3>1, <3>3, <4>4, <4>5 DEF StreamInv
    <3> QED
      BY <2>0, <3>2, <3>3
  <2>3. CASE l - n # 0
    <3>1. l - n \in Nat \ {0} /\ stream' # <<>>
      BY <1>5, <1>16, <2>3
    <3>2. IsAt(1, Reading, Got + 1)'
      <4>1. PICK x : x = g2 + 1
        OBVIOUS
      <4>2. IsAt(1, r2, x)'
        <5>1. 1 \in 1 .. l - n
          BY <3>1
        <5>2. CASE g + n = size
          BY <1>17, <1>19, <1>22, <2>3, <4>1, <5>1, <5>2
        <5>3. CASE g + n < size
          BY <1>17, <1>19, <1>23, <2>3, <4>1, <5>1, <5>3
        <5> QED
          BY <1>5, <1>8, <1>10, <5>2, <5>3
      <4> QED
        BY <1>21, <4>1, <4>2 DEF IsAt, Byte, Post
    <3>3. /\ sent' > 0 => IsAt(Len(stream), nth, sent)'
          /\ ~(sent' > 0) => IsAt(Len(stream), nth - 1, Len(Post(nth - 1)))'
      <4>1. PICK e, y : e = l - n /\ y = Len(Post(k - 1))
        OBVIOUS
      <4>2. e \in 1 .. l - n /\ n + e = l /\ Len(stream') = e
        BY <1>5, <1>16, <3>1, <4>1
      <4>3. ASSUME s > 0 PROVE IsAt(Len(stream), nth, sent)'
        <5>1. IsAt(e, k, s)'
          BY <1>17, <2>1, <4>2, <4>3
        <5> QED
          BY <1>1, <1>3, <4>2, <5>1 DEF IsAt, Byte, Post
      <4>4. ASSUME ~(s > 0) PROVE IsAt(Len(stream), nth - 1, Len(Post(nth - 1)))'
        <5>1. IsAt(e, k - 1, y)'
          BY <1>17, <2>1, <4>1, <4>2, <4>4
        <5>2. y = Len(Post(nth - 1))' /\ k - 1 = nth' - 1
          BY <1>1, <1>3, <4>1 DEF Byte, Post
        <5>3. PICK d : d = k - 1
          OBVIOUS
        <5>4. IsAt(e, d, y)'
          BY <1>1, <5>1, <5>3 DEF IsAt, Byte, Post
        <5> QED
          BY <4>2, <5>2, <5>3, <5>4 DEF IsAt, Byte
      <4> QED
        BY <1>1, <1>3, <4>3, <4>4
    <3>4. ASSUME NEW i \in 1 .. l - n - 1 PROVE NoGap(i)'
      <4> SUFFICES \E x \in 1 .. Len(posts) : \E y \in 1 .. Len(Post(x)) :
                      /\ IsAt(i, x, y)'
                      /\ y < Len(Post(x)) => IsAt(i + 1, x, y + 1)'
                      /\ ~(y < Len(Post(x))) => IsAt(i + 1, x + 1, 1)'
        BY <1>3, <1>15 DEF NoGap
      <4>1. NoGap(n + i)
        <5>1. n + i \in 1 .. Len(stream) - 1
          BY <1>1, <1>5
        <5> QED
          BY <1>5, <2>0, <5>1 DEF StreamInv
      <4>2. i \in 1 .. l - n /\ i + 1 \in 1 .. l - n /\ n + i + 1 = n + (i + 1)
        BY <1>5
      <4> QED
        BY <1>17, <4>1, <4>2 DEF NoGap
    <3> QED
      BY <1>16, <3>1, <3>2, <3>3, <3>4 DEF StreamInv
  <2> QED
    BY <2>2, <2>3
<1>25. ReadInv'
  <2>1. CASE g + n = size
    <3>1. head' = <<>> /\ body' = <<>> /\ Len(head') = 0 /\ Len(body') = 0
          /\ r2 = m + 1 /\ g2 = 0
      BY <1>22, <2>1
    <3>2. r2 <= nth'
      BY <1>1, <1>3, <1>4, <1>6, <1>20, <2>1, <3>1 DEF FramingTypeOK
    <3>3. /\ head' = [x \in 1 .. Len(head) |-> Byte(Reading, x)]'
          /\ body' = [x \in 1 .. Len(body) |-> Byte(Reading, HEADER_SIZE + x)]'
      BY <3>1
    <3>4. ASSUME r2 \in 1 .. Len(posts) PROVE g2 < Len(Post(r2))'
      <4>1. Len(Post(r2)) \in Nat \ {0}
        BY <3>4, PostIs
      <4> QED
        BY <1>15, <3>1, <4>1
    <3>5. r2 \in Nat \ {0}
      BY <1>6, <3>1
    <3>6. /\ Reading' <= nth' /\ (Reading' > Len(posts') => Got' = 0)
          /\ (Len(head') < HEADER_SIZE => body' = <<>>)
      BY <1>21, <3>1, <3>2
    <3>7. (Reading <= Len(posts) => Got < Len(Post(Reading)))'
      <4>1. ASSUME Reading' <= Len(posts') PROVE Got' < Len(Post(Reading))'
        <5>1. r2 \in 1 .. Len(posts)
          BY <1>3, <1>4, <1>21, <3>5, <4>1
        <5>2. g2 < Len(Post(r2))'
          BY <3>4, <5>1
        <5> QED
          BY <1>21, <5>2 DEF Post, Byte
      <4> QED
        BY <4>1
    <3> QED
      BY <3>3, <3>6, <3>7 DEF ReadInv
  <2>2. CASE g + n < size
    <3>1. head' = h /\ body' = b /\ r2 = m /\ g2 = g + n
      BY <1>23, <2>2
    <3>2. /\ Reading' <= nth' /\ (Reading' > Len(posts') => Got' = 0)
          /\ (Len(head') < HEADER_SIZE => body' = <<>>)
      BY <1>1, <1>3, <1>6, <1>7, <1>13, <1>20, <1>21, <3>1
    <3>3. /\ head' = [x \in 1 .. Len(head) |-> Byte(Reading, x)]'
          /\ body' = [x \in 1 .. Len(body) |-> Byte(Reading, HEADER_SIZE + x)]'
      <4>1. /\ h = [x \in 1 .. Len(h) |-> Byte(m, x)]
            /\ b = [x \in 1 .. Len(b) |-> Byte(m, hs + x)]
        BY <1>13
      <4> QED
        BY <1>3, <1>7, <1>21, <3>1, <4>1 DEF Byte
    <3>4. (Reading <= Len(posts) => Got < Len(Post(Reading)))'
      <4>1. g2 < Len(Post(m))'
        BY <1>1, <1>15, <2>2, <3>1
      <4> QED
        BY <1>21, <3>1, <4>1 DEF Post, Byte
    <3> QED
      BY <3>2, <3>3, <3>4 DEF ReadInv
  <2> QED
    BY <1>5, <1>8, <1>10, <2>1, <2>2
<1>26. FramingTypeOK' /\ head' \in Seq(Bytes) /\ body' \in Seq(Bytes)
  <2>1. CASE g + n = size
    <3>1. head' = <<>> /\ body' = <<>>
      BY <1>22, <2>1
    <3>2. head' \in Seq(Bytes) /\ body' \in Seq(Bytes) /\ Len(head') = 0 /\ Len(body') = 0
      BY <3>1
    <3>3. Len(head') <= HEADER_SIZE /\ Len(body') < HEADER_SIZE + MaxBody
      BY <1>8, <3>2, FramingAssumption
    <3>4. Len(stream') <= Room
      BY <1>1, <1>4, <1>5, <1>16, FramingAssumption DEF FramingTypeOK
    <3> QED
      BY <1>3, <1>4, <3>2, <3>3, <3>4 DEF FramingTypeOK
  <2>2. CASE g + n < size
    <3>1. head' = h /\ body' = b
      BY <1>23, <2>2
    <3>2. Len(h) \in Nat /\ Len(b) \in Nat /\ Len(h) + Len(b) < size /\ Len(h) <= hs
      BY <1>13, <2>2
    <3>3. Len(head') <= HEADER_SIZE /\ Len(body') < HEADER_SIZE + MaxBody
      BY <1>7, <1>8, <3>1, <3>2
    <3>4. Len(stream') <= Room
      BY <1>1, <1>4, <1>5, <1>16, FramingAssumption DEF FramingTypeOK
    <3> QED
      BY <1>3, <1>4, <1>13, <3>1, <3>3, <3>4 DEF FramingTypeOK
  <2> QED
    BY <1>5, <1>8, <1>10, <2>1, <2>2
<1>27. nth' <= Len(posts') => sent' < Len(Post(nth))'
  <2>1. nth <= Len(posts) => sent < Len(Post(nth))
    BY DEF FramingInv
  <2> QED
    BY <1>3, <2>1 DEF Post, Byte
<1>28. received' \in Seq(Seq(Bytes))
  <2>1. g + n = size \/ g + n < size
    BY <1>5, <1>8, <1>10
  <2> QED
    BY <1>4, <1>22, <1>23, <2>1, Zenon
<1>29. FramingInv'
  BY <1>3, <1>4, <1>16, <1>24, <1>25, <1>26, <1>27, <1>28 DEF FramingInv
<1>30. \/ received' = received
       \/ /\ Reading < nth /\ Reading \in 1 .. Len(posts)
          /\ received' = Append(received, Post(Reading))
  BY SMTT(40), <1>1, <1>5, <1>6, <1>8, <1>10, <1>20, <1>22, <1>23
<1> QED
  BY <1>3, <1>29, <1>30

-----------------------------------------------------------------------------
LEMMA FramingStep == FramingInv /\ [FramingNext]_fvars => FramingInv'
<1> SUFFICES ASSUME FramingInv, [FramingNext]_fvars PROVE FramingInv'
  OBVIOUS
<1>1. CASE Sends
  BY <1>1, SendsInv
<1>2. CASE Dies
  BY <1>2, StillInv
<1>3. CASE Receives
  BY <1>3, ReceivesStep
<1>4. CASE Fails
  BY <1>4, StillInv
<1>5. CASE UNCHANGED fvars
  BY <1>5, StillInv
<1> QED
  BY <1>1, <1>2, <1>3, <1>4, <1>5 DEF FramingNext

\* Whatever the cuts, the stream goes on without a gap from what recv_post has
\* to what send() took, and recv_post reads one message at a time.
THEOREM StreamHasNoGap == FramingSpec => []FramingInv
<1>1. FramingInit => FramingInv
  BY InitFramingInv
<1>2. FramingInv /\ [FramingNext]_fvars => FramingInv'
  BY FramingStep
<1> QED
  BY <1>1, <1>2, PTL DEF FramingSpec

\* The buffers keep to their limits, and no message is sent beyond its end.
THEOREM FramingTypeCorrect == FramingSpec => []FramingTypeOK
<1>1. FramingInv => FramingTypeOK
  BY DEF FramingInv
<1> QED
  BY <1>1, StreamHasNoGap, PTL

-----------------------------------------------------------------------------
\* The messages of a part of the connection, as a sequence.
LEMMA PostsAre ==
    ASSUME FramingInv, NEW i \in Nat \ {0}, NEW j \in Nat, j <= Len(posts), i <= j + 1
    PROVE  /\ Posts(i, j) \in Seq(Seq(Bytes)) /\ Len(Posts(i, j)) = j - i + 1
           /\ \A x \in 1 .. j - i + 1 : Posts(i, j)[x] = Post(i + x - 1)
<1>1. PICK n, P : n = j - i + 1 /\ P = Posts(i, j)
  OBVIOUS
<1>2. n \in Nat
  BY <1>1
<1>3. DOMAIN P = 1 .. n /\ \A x \in 1 .. n : P[x] = Post(i + x - 1)
  BY <1>1 DEF Posts
<1>4. P = [x \in 1 .. n |-> P[x]]
  BY <1>1 DEF Posts
<1>5. ASSUME NEW x \in 1 .. n PROVE P[x] \in Seq(Bytes)
  <2>1. i + x - 1 \in 1 .. Len(posts)
    <3>1. Len(posts) \in Nat
      BY DEF FramingInv
    <3> QED
      BY <1>1, <1>2, <3>1
  <2> QED
    BY <1>3, <2>1, PostIs
<1>6. P \in Seq(Seq(Bytes)) /\ Len(P) = n
  BY <1>2, <1>3, <1>4, <1>5, SeqOf
<1> QED
  BY <1>1, <1>3, <1>6

\* The first of them goes, and the others are left.
LEMMA PostsTail ==
    ASSUME FramingInv, NEW i \in Nat \ {0}, NEW j \in Nat, j <= Len(posts), i <= j
    PROVE  /\ Posts(i, j) # <<>> /\ Head(Posts(i, j)) = Post(i)
           /\ Tail(Posts(i, j)) = Posts(i + 1, j)
<1>1. PICK P, Q : P = Posts(i, j) /\ Q = Posts(i + 1, j)
  OBVIOUS
<1>a. i <= j + 1
  OBVIOUS
<1>2. P \in Seq(Seq(Bytes)) /\ Len(P) = j - i + 1
  BY <1>1, <1>a, PostsAre
<1>3. \A x \in 1 .. j - i + 1 : P[x] = Post(i + x - 1)
  BY <1>1, <1>a, PostsAre
<1>4. i + 1 \in Nat \ {0} /\ i + 1 <= j + 1
  OBVIOUS
<1>5. Q \in Seq(Seq(Bytes)) /\ Len(Q) = j - (i + 1) + 1
  BY <1>1, <1>4, PostsAre
<1>6. \A x \in 1 .. j - (i + 1) + 1 : Q[x] = Post(i + 1 + x - 1)
  BY <1>1, <1>4, PostsAre
<1>7. P # <<>> /\ Head(P) = P[1] /\ P[1] = Post(i)
  <2>1. P # <<>> /\ Head(P) = P[1]
    BY <1>2
  <2>2. 1 \in 1 .. j - i + 1 /\ i + 1 - 1 = i
    OBVIOUS
  <2>3. P[1] = Post(i + 1 - 1)
    BY <1>3, <2>2, Zenon
  <2> QED
    BY <2>1, <2>2, <2>3
<1>8. /\ Tail(P) \in Seq(Seq(Bytes)) /\ Len(Tail(P)) = Len(P) - 1
      /\ \A x \in 1 .. Len(P) - 1 : Tail(P)[x] = P[x + 1]
  BY <1>2, <1>7, HeadTailProperties
<1>9. ASSUME NEW x \in 1 .. Len(Q) PROVE Tail(P)[x] = Q[x]
  <2>1. /\ x \in 1 .. Len(P) - 1 /\ x + 1 \in 1 .. j - i + 1
        /\ x \in 1 .. j - (i + 1) + 1 /\ i + (x + 1) - 1 = i + 1 + x - 1
    BY <1>2, <1>5
  <2>2. Tail(P)[x] = P[x + 1]
    BY <1>8, <2>1
  <2>3. P[x + 1] = Post(i + (x + 1) - 1)
    BY <1>3, <2>1, Zenon
  <2>4. Q[x] = Post(i + 1 + x - 1)
    BY <1>6, <2>1, Zenon
  <2> QED
    BY <2>1, <2>2, <2>3, <2>4, Zenon
<1>10. Tail(P) = Q
  <2>1. Len(Tail(P)) = Len(Q)
    BY <1>2, <1>5, <1>8
  <2> QED
    BY <1>5, <1>8, <1>9, <2>1, SameSeq
<1> QED
  BY <1>1, <1>7, <1>10

\* One more follows them.
LEMMA PostsAppend ==
    ASSUME FramingInv, NEW i \in Nat \ {0}, NEW j \in Nat, j < Len(posts), i <= j + 1
    PROVE  Append(Posts(i, j), Post(j + 1)) = Posts(i, j + 1)
<1>0. j + 1 \in Nat /\ j + 1 <= Len(posts) /\ i <= j + 1 + 1 /\ j <= Len(posts)
      /\ j + 1 \in 1 .. Len(posts)
  BY DEF FramingInv
<1>1. PICK P, Q, p : P = Posts(i, j) /\ Q = Posts(i, j + 1) /\ p = Post(j + 1)
  OBVIOUS
<1>2. P \in Seq(Seq(Bytes)) /\ Len(P) = j - i + 1
  BY <1>0, <1>1, PostsAre
<1>3. \A x \in 1 .. j - i + 1 : P[x] = Post(i + x - 1)
  BY <1>0, <1>1, PostsAre
<1>a. PICK d : d = j + 1
  OBVIOUS
<1>b. /\ Posts(i, d) \in Seq(Seq(Bytes)) /\ Len(Posts(i, d)) = d - i + 1
      /\ \A x \in 1 .. d - i + 1 : Posts(i, d)[x] = Post(i + x - 1)
  <2>1. d \in Nat /\ d <= Len(posts) /\ i <= d + 1
    BY <1>0, <1>a
  <2> QED
    BY <2>1, PostsAre
<1>4. Q \in Seq(Seq(Bytes)) /\ Len(Q) = j + 1 - i + 1
  BY <1>1, <1>a, <1>b
<1>5. \A x \in 1 .. j + 1 - i + 1 : Q[x] = Post(i + x - 1)
  BY <1>1, <1>a, <1>b
<1>6. p \in Seq(Bytes)
  BY <1>0, <1>1, PostIs
<1>7. /\ Append(P, p) \in Seq(Seq(Bytes)) /\ Len(Append(P, p)) = Len(P) + 1
      /\ \A x \in 1 .. Len(P) : Append(P, p)[x] = P[x]
      /\ Append(P, p)[Len(P) + 1] = p
  BY <1>2, <1>6, AppendProperties
<1>8. ASSUME NEW x \in 1 .. Len(Q) PROVE Append(P, p)[x] = Q[x]
  <2>1. x \in 1 .. j + 1 - i + 1
    BY <1>4
  <2>2. Q[x] = Post(i + x - 1)
    BY <1>5, <2>1, Zenon
  <2>3. CASE x <= Len(P)
    <3>1. x \in 1 .. j - i + 1 /\ x \in 1 .. Len(P)
      BY <1>2, <2>1, <2>3
    <3> QED
      BY <1>3, <1>7, <2>2, <3>1, Zenon
  <2>4. CASE x = Len(P) + 1
    <3>1. i + x - 1 = j + 1
      BY <1>2, <2>4
    <3> QED
      BY <1>1, <1>7, <2>2, <2>4, <3>1, Zenon
  <2>5. x <= Len(P) \/ x = Len(P) + 1
    BY <1>2, <2>1
  <2> QED
    BY <2>3, <2>4, <2>5
<1>9. Append(P, p) = Q
  <2>1. Len(Append(P, p)) = Len(Q)
    BY <1>2, <1>4, <1>7
  <2> QED
    BY <1>4, <1>7, <1>8, <2>1, SameSeq
<1> QED
  BY <1>1, <1>9

\* What a step of the framing shows of the channel.
Shown == [Channel!Send \/ Channel!Receive]_Channel!channelvars

LEMMA ChannelStep == FramingInv /\ [FramingNext]_fvars => Shown
<1> SUFFICES ASSUME FramingInv, [FramingNext]_fvars PROVE Shown
  OBVIOUS
<1>1. PICK k, r, N : k = nth /\ r = Len(received) + 1 /\ N = Len(posts)
  OBVIOUS
<1>2. k \in Nat \ {0} /\ r \in Nat \ {0} /\ N \in Nat /\ r <= k /\ k <= N + 1
  BY <1>1 DEF FramingInv, FramingTypeOK, ReadInv, Reading
<1>3. PICK O, Q : O = Posts(k, N) /\ Q = Posts(r, k - 1)
  OBVIOUS
<1>4. PICK k2, r2, O2, Q2 : /\ k2 = nth' /\ r2 = Len(received') + 1
                            /\ O2 = Posts(nth, Len(posts))'
                            /\ Q2 = Posts(Len(received) + 1, nth - 1)'
  OBVIOUS
<1>5. ASSUME posts' = posts PROVE O2 = Posts(k2, N) /\ Q2 = Posts(r2, k2 - 1)
  BY <1>1, <1>4, <1>5 DEF Posts, Post, Byte
<1>6. ASSUME posts' = posts, nth' = nth, received' = received PROVE Shown
  <2>1. O2 = O /\ Q2 = Q
    BY <1>1, <1>3, <1>4, <1>5, <1>6
  <2>2. UNCHANGED Channel!channelvars
    BY <1>1, <1>3, <1>4, <1>6, <2>1 DEF Channel!channelvars
  <2> QED
    BY <2>2 DEF Shown
<1>7. CASE Sends
  <2>1. posts' = posts /\ received' = received /\ k <= N /\ (k2 = k \/ k2 = k + 1)
    BY <1>1, <1>4, <1>7 DEF Sends
  <2>2. CASE k2 = k
    BY <1>1, <1>4, <1>6, <2>1, <2>2
  <2>3. CASE k2 = k + 1
    <3>1. r2 = r /\ O2 = Posts(k + 1, N) /\ Q2 = Posts(r, k)
      BY <1>1, <1>2, <1>4, <1>5, <2>1, <2>3
    <3>2. O # <<>> /\ Head(O) = Post(k) /\ Tail(O) = O2
      BY SMTT(40), <1>1, <1>2, <1>3, <2>1, <3>1, PostsTail
    <3>3. Append(Q, Post(k)) = Q2
      <4>1. PICK j : j = k - 1
        OBVIOUS
      <4>2. j \in Nat /\ j < Len(posts) /\ r <= j + 1 /\ j + 1 = k
        BY <1>1, <1>2, <2>1, <4>1
      <4>3. Append(Posts(r, j), Post(j + 1)) = Posts(r, j + 1)
        BY <1>2, <4>2, PostsAppend
      <4> QED
        BY <1>3, <3>1, <4>1, <4>2, <4>3
    <3>4. Channel!Send
      BY <1>1, <1>3, <1>4, <2>1, <3>2, <3>3 DEF Channel!Send
    <3> QED
      BY <3>4 DEF Shown
  <2> QED
    BY <2>1, <2>2, <2>3
<1>8. CASE Receives
  <2>1. posts' = posts /\ nth' = nth
    BY <1>8 DEF Receives
  <2>2. CASE received' = received
    BY <1>6, <2>1, <2>2
  <2>3. CASE r < k /\ received' = Append(received, Post(r))
    <3>1. r2 = r + 1 /\ k2 = k
      <4>1. received \in Seq(Seq(Bytes)) /\ received' \in Seq(Seq(Bytes))
        BY <1>8, ReceivesStep DEF FramingInv
      <4>2. Post(r) \in Seq(Bytes)
        BY <1>1, <1>2, <2>3, PostIs
      <4> QED
        BY <1>1, <1>4, <2>1, <2>3, <4>1, <4>2, AppendProperties
    <3>2. O2 = O /\ Q2 = Posts(r + 1, k - 1)
      BY <1>3, <1>5, <2>1, <3>1
    <3>3. Q # <<>> /\ Head(Q) = Post(r) /\ Tail(Q) = Q2
      <4>1. PICK j : j = k - 1
        OBVIOUS
      <4>2. j \in Nat /\ j <= Len(posts) /\ r <= j
        BY <1>1, <1>2, <2>3, <4>1
      <4>3. /\ Posts(r, j) # <<>> /\ Head(Posts(r, j)) = Post(r)
            /\ Tail(Posts(r, j)) = Posts(r + 1, j)
        BY <1>2, <4>2, PostsTail
      <4> QED
        BY <1>3, <3>2, <4>1, <4>3
    <3>4. Channel!Receive
      BY <1>1, <1>3, <1>4, <2>3, <3>2, <3>3 DEF Channel!Receive
    <3> QED
      BY <3>4 DEF Shown
  <2>4. \/ received' = received
        \/ r < k /\ received' = Append(received, Post(r))
    BY <1>1, <1>8, ReceivesStep DEF Reading
  <2> QED
    BY <2>2, <2>3, <2>4
<1>9. CASE Dies \/ Fails \/ UNCHANGED fvars
  BY <1>6, <1>9 DEF Dies, Fails, fvars
<1> QED
  BY <1>7, <1>8, <1>9 DEF FramingNext

LEMMA ChannelInits == FramingInit => Channel!ChannelInit
<1> SUFFICES ASSUME FramingInit PROVE Channel!ChannelInit
  OBVIOUS
<1>1. nth = 1 /\ received = <<>> /\ Len(received) + 1 = 1 /\ nth - 1 = 0
  BY DEF FramingInit
<1>2. Posts(1, 0) = <<>>
  BY DEF Posts
<1> QED
  BY <1>1, <1>2 DEF Channel!ChannelInit

\* However the kernel cuts the stream, recv_post returns the messages of
\* send_post, whole and in order; one that was cut short by a kill never.
THEOREM ChannelImplemented == FramingSpec => ImplementsChannel
<1>1. FramingInit => Channel!ChannelInit
  BY ChannelInits
<1>2. FramingInv /\ [FramingNext]_fvars
      => [Channel!Send \/ Channel!Receive]_Channel!channelvars
  BY ChannelStep DEF Shown
<1> QED
  BY <1>1, <1>2, StreamHasNoGap, PTL
     DEF FramingSpec, ImplementsChannel, Channel!ChannelSpec

\* What recv_post has returned is the first messages of send_post, each whole
\* and none missing, doubled or out of its turn.
WholeMessages ==
    /\ Len(received) <= Len(posts)
    /\ \A i \in 1 .. Len(received) : received[i] = Post(i)

THEOREM MessagesArriveWhole == FramingSpec => []WholeMessages
<1>1. FramingInit => WholeMessages
  BY DEF FramingInit, WholeMessages
<1>2. FramingInv /\ FramingInv' /\ WholeMessages /\ [FramingNext]_fvars => WholeMessages'
  <2> SUFFICES ASSUME FramingInv, FramingInv', WholeMessages, [FramingNext]_fvars
               PROVE  WholeMessages'
    OBVIOUS
  <2>1. CASE posts' = posts /\ received' = received
    BY <2>1 DEF WholeMessages, Post, Byte
  <2>2. CASE Receives
    <3>1. posts' = posts /\ \A i : Post(i)' = Post(i)
      BY <2>2 DEF Receives, Post, Byte
    <3>2. PICK r : r = Len(received) + 1
      OBVIOUS
    <3>3. ASSUME r \in 1 .. Len(posts), received' = Append(received, Post(r))
          PROVE  WholeMessages'
      <4>1. received \in Seq(Seq(Bytes)) /\ Post(r) \in Seq(Bytes)
        BY <3>3, PostIs DEF FramingInv
      <4>2. /\ Len(received') = Len(received) + 1 /\ Len(received) \in Nat
            /\ \A i \in 1 .. Len(received) : received'[i] = received[i]
            /\ received'[Len(received) + 1] = Post(r)
        BY <3>3, <4>1, AppendProperties
      <4>3. ASSUME NEW i \in 1 .. Len(received') PROVE received'[i] = Post(i)'
        <5>1. CASE i \in 1 .. Len(received)
          BY <3>1, <4>2, <5>1 DEF WholeMessages
        <5>2. CASE i = r
          BY <3>1, <3>2, <4>2, <5>2
        <5> QED
          BY <3>2, <4>2, <5>1, <5>2
      <4> QED
        BY <3>1, <3>2, <3>3, <4>2, <4>3 DEF WholeMessages
    <3> QED
      BY <2>1, <2>2, <3>1, <3>2, <3>3, ReceivesStep DEF Reading
  <2>3. CASE Sends \/ Dies \/ Fails \/ UNCHANGED fvars
    BY <2>1, <2>3 DEF Sends, Dies, Fails, fvars
  <2> QED
    BY <2>2, <2>3 DEF FramingNext
<1> QED
  BY <1>1, <1>2, StreamHasNoGap, PTL DEF FramingSpec
=============================================================================
