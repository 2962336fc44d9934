--------------------------- MODULE TCPConnProofs ----------------------------
(***************************************************************************)
(* What TCPConn's reading of requests and writing of responses achieve,    *)
(* for every size of a request, of read_buf_ and of the socket, every      *)
(* layout of a response, every number of requests and wherever the network *)
(* cuts the stream.                                                        *)
(***************************************************************************)
EXTENDS TCPConn, FiniteSetTheorems, TLAPS

\* The stream the thread has still to look at: between two reads the tail in
\* read_buf_ belongs to it, and once a request was found Reset throws it away.
Pending == IF pc = "idle" THEN read_buf_ \o wire ELSE wire

\* Requests one after the other: from any byte on, the bytes of its request follow.
InSequence(s) ==
    \A i \in 1 .. Len(s), k \in Nat :
        i + k <= Len(s) /\ s[i] + k <= RequestSize => s[i + k] = s[i] + k

\* The stream stops at the end of a request.
EndsRequest(s) == s # <<>> => s[Len(s)] = RequestSize

\* The inductive invariant.  What waits is a stream of requests; between two reads
\* read_buf_ holds no newline and less than a request; and a request whose
\* newline was read is answered or among those the loop has left.
ReadInv ==
    /\ setup \in Setups /\ sent \in Nat /\ answered \in Nat /\ left \in Nat
    /\ wire \in Seq(1 .. RequestSize) /\ read_buf_ \in Seq(1 .. RequestSize)
    /\ pc \in {"idle", "write", "closed"}
    /\ InSequence(Pending) /\ EndsRequest(Pending)
    /\ pc = "idle" => left = 0 /\ Len(read_buf_) < RequestSize
    /\ pc = "write" => left >= 1
    /\ App # "memcached" => /\ pc = "idle" => Newlines(read_buf_) = 0
                            /\ pc # "closed" => answered + left + Newlines(wire) = sent

-----------------------------------------------------------------------------
(* Counting newlines.                                                        *)

\* An element of a sequence over S is in S.
LEMMA ElementOf ==
    ASSUME NEW S, NEW s \in Seq(S)
    PROVE  \A i \in 1 .. Len(s) : s[i] \in S
  OBVIOUS

\* The bytes of two pieces of a stream put together.
LEMMA Joined ==
    ASSUME NEW s \in Seq(1 .. RequestSize), NEW t \in Seq(1 .. RequestSize)
    PROVE  /\ s \o t \in Seq(1 .. RequestSize)
           /\ Len(s) \in Nat /\ Len(t) \in Nat /\ Len(s \o t) = Len(s) + Len(t)
           /\ \A i \in 1 .. Len(s) : s[i] \in 1 .. RequestSize /\ (s \o t)[i] = s[i]
           /\ \A i \in 1 .. Len(t) : t[i] \in 1 .. RequestSize /\ (s \o t)[Len(s) + i] = t[i]
  <1>1. /\ s \o t \in Seq(1 .. RequestSize)
        /\ Len(s) \in Nat /\ Len(t) \in Nat /\ Len(s \o t) = Len(s) + Len(t)
    OBVIOUS
  <1>2. \A i \in 1 .. Len(s) : s[i] \in 1 .. RequestSize
    BY ElementOf, Zenon
  <1>3. \A i \in 1 .. Len(t) : t[i] \in 1 .. RequestSize
    BY ElementOf, Zenon
  <1>4. \A i \in 1 .. Len(s) : (s \o t)[i] = s[i]
    OBVIOUS
  <1>5. \A i \in 1 .. Len(t) : (s \o t)[Len(s) + i] = t[i]
    OBVIOUS
  <1> QED
    BY <1>1, <1>2, <1>3, <1>4, <1>5, Zenon

\* The indices of the newlines are finitely many, so their number is a natural.
LEMMA NewlinesType ==
    ASSUME NEW s \in Seq(1 .. RequestSize)
    PROVE  /\ IsFiniteSet({i \in DOMAIN s : s[i] = RequestSize})
           /\ Newlines(s) \in Nat
           /\ Newlines(s) = 0 => \A i \in 1 .. Len(s) : s[i] # RequestSize
  <1> DEFINE D == {i \in DOMAIN s : s[i] = RequestSize}
  <1>1. Len(s) \in Nat /\ DOMAIN s = 1 .. Len(s)
    OBVIOUS
  <1>2. IsFiniteSet(1 .. Len(s))
    BY <1>1, FS_Interval, SMT
  <1>3. IsFiniteSet(D)
    BY <1>1, <1>2, FS_Subset, Zenon
  <1>4. Cardinality(D) \in Nat
    BY <1>3, FS_CardinalityType, Zenon
  <1>5. Cardinality(D) = 0 => D = {}
    BY <1>3, FS_EmptySet, Zenon
  <1> QED
    BY <1>1, <1>3, <1>4, <1>5, Zenon DEF Newlines

\* ParseMultiRequest's loop counts the newlines of two pieces of the stream as it
\* counts those of the whole.
LEMMA NewlinesConcat ==
    ASSUME NEW s \in Seq(1 .. RequestSize), NEW t \in Seq(1 .. RequestSize)
    PROVE  Newlines(s \o t) = Newlines(s) + Newlines(t)
  <1> DEFINE n == Len(s)
             A == {i \in DOMAIN s : s[i] = RequestSize}
             B == {i \in DOMAIN t : t[i] = RequestSize}
             C == {i \in n + 1 .. n + Len(t) : t[i - n] = RequestSize}
             D == {i \in DOMAIN (s \o t) : (s \o t)[i] = RequestSize}
             f == [i \in B |-> i + n]
  <1>1. /\ n \in Nat /\ Len(t) \in Nat /\ s \o t \in Seq(1 .. RequestSize)
        /\ DOMAIN s = 1 .. n /\ DOMAIN t = 1 .. Len(t) /\ DOMAIN (s \o t) = 1 .. n + Len(t)
        /\ \A i \in 1 .. n : (s \o t)[i] = s[i]
        /\ \A i \in n + 1 .. n + Len(t) : (s \o t)[i] = t[i - n]
    OBVIOUS
  <1>2. D = A \cup C /\ A \cap C = {}
    BY <1>1, SMT
  <1>3. IsFiniteSet(A) /\ IsFiniteSet(B)
    BY NewlinesType
  <1>4. f \in Bijection(B, C)
    <2>1. f \in [B -> C]
      BY <1>1, SMT
    <2>2. \A a, b \in B : f[a] = f[b] => a = b
      BY <1>1, SMT
    <2>3. \A c \in C : \E b \in B : f[b] = c
      <3> SUFFICES ASSUME NEW c \in C PROVE \E b \in B : f[b] = c
        OBVIOUS
      <3>1. c - n \in B /\ (c - n) + n = c
        BY <1>1, SMT
      <3> QED
        BY <3>1
    <2> QED
      BY <2>1, <2>2, <2>3 DEF Bijection, Injection, Surjection, IsInjective
  <1>5. IsFiniteSet(C) /\ Cardinality(C) = Cardinality(B)
    BY <1>3, <1>4, FS_Bijection DEF ExistsBijection
  <1>6. Cardinality(A \cup C) = Cardinality(A) + Cardinality(C) - Cardinality(A \cap C)
    BY <1>3, <1>5, FS_Union, Zenon
  <1>7. Cardinality({}) = 0
    BY FS_EmptySet, Zenon
  <1>8. Cardinality(A) \in Nat /\ Cardinality(C) \in Nat
    BY <1>3, <1>5, FS_CardinalityType, Zenon
  <1>9. Cardinality(D) = Cardinality(A) + Cardinality(B)
    <2> HIDE DEF A, B, C, D
    <2>1. Cardinality(D) = Cardinality(A) + Cardinality(C) - Cardinality({})
      BY <1>2, <1>6, Zenon
    <2> QED
      BY <2>1, <1>5, <1>7, <1>8, SMT
  <1> QED
    BY <1>9, Zenon DEF Newlines

\* A request has one newline: its last byte.
LEMMA NewlinesOfRequest ==
    LET request == [i \in 1 .. RequestSize |-> i]
    IN  request \in Seq(1 .. RequestSize) /\ Newlines(request) = 1
  <1> DEFINE request == [i \in 1 .. RequestSize |-> i]
             D == {i \in DOMAIN request : request[i] = RequestSize}
  <1>1. RequestSize \in Nat \ {0}
    BY TCPConnAssumption
  <1>2. request \in Seq(1 .. RequestSize)
    BY <1>1, SMT
  <1>3. D = {RequestSize}
    BY <1>1, SMT
  <1>4. Cardinality({RequestSize}) = 1
    BY FS_Singleton, Zenon
  <1> QED
    BY <1>2, <1>3, <1>4, Zenon DEF Newlines

-----------------------------------------------------------------------------
(* Streams of requests.                                                      *)

\* What is left of a stream when its head has been read is a stream.
LEMMA StreamSuffix ==
    ASSUME NEW s \in Seq(1 .. RequestSize), NEW t \in Seq(1 .. RequestSize),
           InSequence(s \o t), EndsRequest(s \o t)
    PROVE  InSequence(t) /\ EndsRequest(t)
  <1> DEFINE u == s \o t
  <1>1. RequestSize \in Nat \ {0}
    BY TCPConnAssumption
  <1>2. /\ Len(s) \in Nat /\ Len(t) \in Nat /\ Len(u) = Len(s) + Len(t)
        /\ \A i \in 1 .. Len(t) : t[i] \in 1 .. RequestSize /\ u[Len(s) + i] = t[i]
    BY Joined, Zenon
  <1>3. InSequence(t)
    <2> SUFFICES ASSUME NEW i \in 1 .. Len(t), NEW k \in Nat,
                        i + k <= Len(t), t[i] + k <= RequestSize
                 PROVE  t[i + k] = t[i] + k
      BY DEF InSequence
    <2>1. Len(s) + i \in 1 .. Len(u) /\ (Len(s) + i) + k <= Len(u) /\ i + k \in 1 .. Len(t)
      BY <1>2, SMT
    <2>2. u[Len(s) + i] = t[i] /\ u[Len(s) + (i + k)] = t[i + k]
      BY <1>2, <2>1
    <2>3. u[(Len(s) + i) + k] = u[Len(s) + i] + k
      BY <2>1, <2>2, Zenon DEF InSequence
    <2>4. (Len(s) + i) + k = Len(s) + (i + k)
      BY <1>2, SMT
    <2> QED
      BY <2>2, <2>3, <2>4
  <1>4. EndsRequest(t)
    <2> SUFFICES ASSUME t # <<>> PROVE t[Len(t)] = RequestSize
      BY DEF EndsRequest
    <2>1. Len(t) >= 1
      BY <1>2, SMT
    <2>2. u # <<>> /\ u[Len(u)] = t[Len(t)]
      BY <1>2, <2>1, SMT
    <2> QED
      BY <2>2 DEF EndsRequest
  <1> QED
    BY <1>3, <1>4

\* A request sent after a stream of requests makes it a longer one.
LEMMA StreamGrows ==
    ASSUME NEW s \in Seq(1 .. RequestSize), InSequence(s), EndsRequest(s)
    PROVE  LET u == s \o [i \in 1 .. RequestSize |-> i]
           IN  InSequence(u) /\ EndsRequest(u)
  <1> DEFINE request == [i \in 1 .. RequestSize |-> i]
             u == s \o request
  <1>1. RequestSize \in Nat \ {0}
    BY TCPConnAssumption
  <1>2. /\ Len(s) \in Nat /\ Len(u) = Len(s) + RequestSize /\ u \in Seq(1 .. RequestSize)
        /\ \A i \in 1 .. Len(s) : u[i] = s[i] /\ s[i] \in 1 .. RequestSize
        /\ \A i \in 1 .. RequestSize : u[Len(s) + i] = i
    BY <1>1, SMT
  <1>3. InSequence(u)
    <2> SUFFICES ASSUME NEW i \in 1 .. Len(u), NEW k \in Nat,
                        i + k <= Len(u), u[i] + k <= RequestSize
                 PROVE  u[i + k] = u[i] + k
      BY Zenon DEF InSequence
    <2> HIDE DEF u
    <2>1. CASE i > Len(s)
      <3>1. PICK j \in 1 .. RequestSize : i = Len(s) + j
        <4>1. i - Len(s) \in 1 .. RequestSize /\ i = Len(s) + (i - Len(s))
          BY <1>1, <1>2, <2>1, SMT
        <4> QED
          BY <4>1
      <3>2. u[i] = j
        BY <1>2, <3>1
      <3>3. j + k \in 1 .. RequestSize /\ i + k = Len(s) + (j + k)
        BY <1>1, <1>2, <3>1, <3>2, SMT
      <3> QED
        BY <1>2, <3>2, <3>3
    <2>2. CASE i <= Len(s) /\ i + k <= Len(s)
      <3>1. i \in 1 .. Len(s) /\ i + k \in 1 .. Len(s)
        BY <1>2, <2>2, SMT
      <3>2. u[i] = s[i] /\ u[i + k] = s[i + k]
        BY <1>2, <3>1
      <3> QED
        BY <2>2, <3>1, <3>2 DEF InSequence
    <2>3. CASE i <= Len(s) /\ i + k > Len(s)
      <3>1. PICK j \in Nat : i + j = Len(s)
        <4>1. Len(s) - i \in Nat /\ i + (Len(s) - i) = Len(s)
          BY <1>2, <2>3, SMT
        <4> QED
          BY <4>1, Zenon
      <3>2. i \in 1 .. Len(s) /\ j < k /\ s # <<>>
        BY <1>2, <2>3, <3>1, SMT
      <3>3. u[i] = s[i] /\ s[i] \in 1 .. RequestSize
        BY <1>2, <3>2
      <3>4. s[i] + j <= RequestSize
        BY <1>1, <3>2, <3>3, SMT
      <3>5. s[i + j] = s[i] + j
        <4>1. i + j <= Len(s)
          BY <1>2, <3>1, SMT
        <4> QED
          BY <3>2, <3>4, <4>1, Zenon DEF InSequence
      <3>6. s[i + j] = RequestSize
        BY <3>1, <3>2 DEF EndsRequest
      <3>7. PICK b \in 1 .. RequestSize : b = s[i]
        BY <3>3
      <3>8. b + j = RequestSize /\ b + k <= RequestSize /\ j < k
        BY <3>2, <3>3, <3>5, <3>6, <3>7, Zenon
      <3> QED
        BY <1>1, <3>8, SMT
    <2> QED
      BY <1>2, <2>1, <2>2, <2>3, SMT
  <1>4. EndsRequest(u)
    <2>1. u[Len(u)] = RequestSize
      BY <1>1, <1>2
    <2> QED
      BY <2>1, Zenon DEF EndsRequest
  <1> QED
    BY <1>3, <1>4

\* As much of a stream as a request has bytes contains a newline.
LEMMA NewlineWithin ==
    ASSUME NEW s \in Seq(1 .. RequestSize), NEW t \in Seq(1 .. RequestSize),
           InSequence(s \o t), Newlines(s) = 0
    PROVE  Len(s) < RequestSize
  <1> SUFFICES ASSUME Len(s) >= RequestSize PROVE FALSE
    BY TCPConnAssumption, SMT
  <1> DEFINE u == s \o t
  <1>1. RequestSize \in Nat \ {0}
    BY TCPConnAssumption
  <1>2. /\ Len(s) \in Nat /\ Len(t) \in Nat /\ Len(u) = Len(s) + Len(t)
        /\ \A i \in 1 .. Len(s) : s[i] \in 1 .. RequestSize /\ u[i] = s[i]
    BY Joined, Zenon
  <1>3. 1 \in 1 .. Len(s)
    BY <1>1, <1>2, SMT
  <1>4. PICK k \in Nat : s[1] + k = RequestSize
    <2>1. PICK b \in 1 .. RequestSize : b = s[1]
      BY <1>2, <1>3
    <2>2. RequestSize - b \in Nat /\ b + (RequestSize - b) = RequestSize
      BY <1>1, SMT
    <2> QED
      BY <2>1, <2>2
  <1>5. 1 + k \in 1 .. Len(s) /\ 1 + k <= Len(u) /\ 1 \in 1 .. Len(u)
    <2>1. PICK b \in 1 .. RequestSize : b = s[1]
      BY <1>2, <1>3
    <2>2. PICK l \in Nat : l = Len(s)
      BY <1>2
    <2>3. b + k = RequestSize /\ l >= RequestSize
      BY <1>4, <2>1, <2>2
    <2>4. 1 + k <= l /\ 1 + k \in 1 .. l /\ 1 \in 1 .. l
      BY <1>1, <2>3, SMT
    <2> QED
      BY <1>2, <2>2, <2>4, SMT
  <1>6. u[1] = s[1] /\ u[1 + k] = s[1 + k]
    BY <1>2, <1>3, <1>5
  <1>7. s[1 + k] = RequestSize
    <2> HIDE DEF u
    <2>1. u[1] + k <= RequestSize => u[1 + k] = u[1] + k
      BY <1>5 DEF InSequence, u
    <2>2. u[1] + k <= RequestSize
      BY <1>1, <1>4, <1>6, SMT
    <2> QED
      BY <1>4, <1>6, <2>1, <2>2
  <1> QED
    BY <1>5, <1>7, NewlinesType, Zenon

-----------------------------------------------------------------------------
(* The invariant.                                                            *)

\* An empty buffer has no newline.
LEMMA NewlinesEmpty == Newlines(<<>>) = 0
  <1>1. {i \in DOMAIN <<>> : <<>>[i] = RequestSize} = {}
    OBVIOUS
  <1> QED
    BY <1>1, FS_EmptySet, Zenon DEF Newlines

\* Putting pieces of a stream together is associative.
LEMMA JoinAssociative ==
    ASSUME NEW s \in Seq(1 .. RequestSize), NEW t \in Seq(1 .. RequestSize),
           NEW u \in Seq(1 .. RequestSize)
    PROVE  (s \o t) \o u = s \o (t \o u)
  OBVIOUS

\* What read() takes and what stays in the socket make up what was there.
LEMMA CutInTwo ==
    ASSUME NEW S, NEW s \in Seq(S), NEW n \in 1 .. Len(s)
    PROVE  /\ SubSeq(s, 1, n) \in Seq(S) /\ SubSeq(s, n + 1, Len(s)) \in Seq(S)
           /\ SubSeq(s, 1, n) \o SubSeq(s, n + 1, Len(s)) = s
  OBVIOUS

\* The smaller of two integers.
LEMMA MinOfTwo ==
    ASSUME NEW a \in Int, NEW b \in Int
    PROVE  Min({a, b}) \in Int /\ Min({a, b}) <= a /\ Min({a, b}) <= b
  <1>1. \E x \in {a, b} : \A y \in {a, b} : x <= y
    OBVIOUS
  <1>2. Min({a, b}) \in {a, b} /\ \A y \in {a, b} : Min({a, b}) <= y
    BY <1>1, Zenon DEF Min
  <1> QED
    BY <1>2, Zenon

\* A connection starts with nothing read and nothing sent.
LEMMA ReadInit == Init => ReadInv
  <1> SUFFICES ASSUME Init PROVE ReadInv
    OBVIOUS
  <1>1. RequestSize \in Nat \ {0}
    BY TCPConnAssumption
  <1>2. /\ setup \in Setups /\ sent = 0 /\ answered = 0 /\ left = 0
        /\ wire = <<>> /\ read_buf_ = <<>> /\ pc = "idle"
    BY DEF Init
  <1>3. Pending = <<>>
    BY <1>2 DEF Pending
  <1>4. InSequence(Pending) /\ EndsRequest(Pending)
    BY <1>3, SMT DEF InSequence, EndsRequest
  <1>5. Newlines(read_buf_) = 0 /\ Newlines(wire) = 0
    BY <1>2, NewlinesEmpty
  <1>6. wire \in Seq(1 .. RequestSize) /\ read_buf_ \in Seq(1 .. RequestSize)
    BY <1>2
  <1>7. Len(read_buf_) < RequestSize
    BY <1>1, <1>2, SMT
  <1> QED
    BY <1>2, <1>4, <1>5, <1>6, <1>7, SMT DEF ReadInv

\* Steps that leave alone what the invariant is about.
LEMMA ReadSame ==
    ASSUME ReadInv, UNCHANGED <<setup, sent, answered, left, wire, read_buf_, pc>>
    PROVE  ReadInv'
  BY DEF ReadInv, Pending, App, InSequence, EndsRequest

\* The client sends a request: one more to answer, and one newline more to read.
LEMMA ReadSend ==
    ASSUME ReadInv, Send
    PROVE  ReadInv'
  <1> DEFINE request == [i \in 1 .. RequestSize |-> i]
  <1>1. /\ wire' = wire \o request /\ sent' = sent + 1
        /\ setup' = setup /\ answered' = answered /\ left' = left
        /\ read_buf_' = read_buf_ /\ pc' = pc
    BY DEF Send, server
  <1>2. wire \in Seq(1 .. RequestSize) /\ read_buf_ \in Seq(1 .. RequestSize)
    BY DEF ReadInv
  <1>3. request \in Seq(1 .. RequestSize) /\ Newlines(request) = 1
    BY NewlinesOfRequest
  <1> HIDE DEF request
  <1>4. wire' \in Seq(1 .. RequestSize)
    BY <1>1, <1>2, <1>3, Joined
  <1>5. Newlines(wire') = Newlines(wire) + 1 /\ Newlines(wire) \in Nat
    BY <1>1, <1>2, <1>3, NewlinesConcat, NewlinesType, Zenon
  <1>6. Pending' = Pending \o request /\ Pending \in Seq(1 .. RequestSize)
    <2>1. /\ read_buf_ \o wire \in Seq(1 .. RequestSize)
          /\ (read_buf_ \o wire) \o request = read_buf_ \o (wire \o request)
      BY <1>2, <1>3, Joined, JoinAssociative, Zenon
    <2> QED
      BY <1>1, <1>2, <2>1, Zenon DEF Pending
  <1>7. InSequence(Pending') /\ EndsRequest(Pending')
    BY <1>6, StreamGrows, Zenon DEF ReadInv, request
  <1>8. sent \in Nat /\ answered \in Nat /\ left \in Nat
    BY DEF ReadInv
  <1>9. App' = App
    BY <1>1 DEF App
  <1>10. App # "memcached" /\ pc # "closed" => answered' + left' + Newlines(wire') = sent'
    <2>1. App # "memcached" /\ pc # "closed" => answered + left + Newlines(wire) = sent
      BY Zenon DEF ReadInv
    <2> QED
      BY <1>1, <1>5, <1>8, <2>1, SMT
  <1> QED
    BY <1>1, <1>4, <1>7, <1>8, <1>9, <1>10 DEF ReadInv

\* A read: the newlines read are answered next, or the tail is kept whole.
LEMMA ReadRead ==
    ASSUME ReadInv, ReadOnce
    PROVE  ReadInv'
  <1>1. PICK n \in 1 .. Min({Len(wire), ReadBufferSize - Len(read_buf_)}) :
            /\ wire' = SubSeq(wire, n + 1, Len(wire))
            /\ read_buf_' = read_buf_ \o SubSeq(wire, 1, n)
            /\ NextResponse(ParseMultiRequest(read_buf_ \o SubSeq(wire, 1, n)))
    BY DEF ReadOnce
  <1> DEFINE head == SubSeq(wire, 1, n)
             tail == SubSeq(wire, n + 1, Len(wire))
             buf == read_buf_ \o head
             found == ParseMultiRequest(buf)
  <1>2. RequestSize \in Nat \ {0}
    BY TCPConnAssumption
  <1>3. /\ wire \in Seq(1 .. RequestSize) /\ read_buf_ \in Seq(1 .. RequestSize)
        /\ sent \in Nat /\ answered \in Nat /\ pc = "idle" /\ left = 0 /\ setup \in Setups
    BY DEF ReadInv, ReadOnce
  <1>4. /\ setup' = setup /\ sent' = sent /\ answered' = answered
        /\ wire' = tail /\ read_buf_' = buf
        /\ pc' = (IF found > 0 THEN "write" ELSE "idle") /\ left' = found
    BY <1>1, Zenon DEF ReadOnce, NextResponse
  <1>5. n \in 1 .. Len(wire)
    <2>1. Len(wire) \in Int /\ Len(read_buf_) \in Int /\ ReadBufferSize \in Int
      BY <1>3, TCPConnAssumption
    <2>2. ReadBufferSize - Len(read_buf_) \in Int
      BY <2>1, SMT
    <2>3. /\ Min({Len(wire), ReadBufferSize - Len(read_buf_)}) \in Int
          /\ Min({Len(wire), ReadBufferSize - Len(read_buf_)}) <= Len(wire)
      BY <2>1, <2>2, MinOfTwo, Zenon
    <2> QED
      BY <1>1, <2>1, <2>3, SMT
  <1>6. /\ head \in Seq(1 .. RequestSize) /\ tail \in Seq(1 .. RequestSize)
        /\ head \o tail = wire
    BY <1>3, <1>5, CutInTwo, Zenon
  <1> HIDE DEF head, tail
  <1>7. buf \in Seq(1 .. RequestSize) /\ Len(buf) \in Nat
    BY <1>3, <1>6, Joined, Zenon
  <1>8. read_buf_ \o wire = buf \o tail
    BY <1>3, <1>6, JoinAssociative, Zenon
  <1>9. InSequence(buf \o tail) /\ EndsRequest(buf \o tail)
    BY <1>3, <1>8, Zenon DEF ReadInv, Pending
  <1>10. Newlines(buf) = Newlines(read_buf_) + Newlines(head)
    BY <1>3, <1>6, NewlinesConcat, Zenon
  <1>11. Newlines(wire) = Newlines(head) + Newlines(tail)
    BY <1>6, NewlinesConcat, Zenon
  <1>12. Newlines(head) \in Nat /\ Newlines(tail) \in Nat /\ Newlines(buf) \in Nat
    BY <1>6, <1>7, NewlinesType, Zenon
  <1> HIDE DEF buf
  <1>13. found \in Nat /\ (found = 0 => Len(buf) < RequestSize)
    <2>1. CASE App = "memcached"
      <3>1. found = Len(buf) \div RequestSize
        BY <2>1 DEF ParseMultiRequest
      <3> QED
        BY <1>2, <1>7, <3>1, SMT
    <2>2. CASE App # "memcached"
      <3>1. found = Newlines(buf)
        BY <2>2 DEF ParseMultiRequest
      <3>2. Newlines(buf) = 0 => Len(buf) < RequestSize
        BY <1>6, <1>7, <1>9, NewlineWithin, Zenon
      <3> QED
        BY <1>12, <3>1, <3>2
    <2> QED
      BY <2>1, <2>2
  <1>14. App # "memcached" => found = Newlines(buf)
    BY DEF ParseMultiRequest
  <1>15. App # "memcached" => answered + found + Newlines(tail) = sent
    <2>1. App # "memcached" => Newlines(read_buf_) = 0 /\ answered + left + Newlines(wire) = sent
      BY <1>3, Zenon DEF ReadInv
    <2> QED
      BY <1>3, <1>10, <1>11, <1>12, <1>14, <2>1, SMT
  <1> HIDE DEF found
  <1>16. InSequence(Pending') /\ EndsRequest(Pending')
    <2>1. CASE found > 0
      <3>1. Pending' = tail
        BY <1>4, <2>1 DEF Pending
      <3> QED
        BY <1>6, <1>7, <1>9, <3>1, StreamSuffix
    <2>2. CASE ~(found > 0)
      <3>1. Pending' = buf \o tail
        BY <1>4, <2>2 DEF Pending
      <3> QED
        BY <1>9, <3>1
    <2> QED
      BY <2>1, <2>2
  <1>17. App' = App
    BY <1>4 DEF App
  <1>18. /\ pc' = "idle" => left' = 0 /\ Len(read_buf_') < RequestSize
         /\ pc' = "write" => left' >= 1
         /\ pc' \in {"idle", "write"}
    BY <1>4, <1>13
  <1>19. App # "memcached" /\ pc' = "idle" => Newlines(read_buf_') = 0
    BY <1>4, <1>14, <1>18
  <1>20. App # "memcached" => answered' + left' + Newlines(wire') = sent'
    BY <1>4, <1>15
  <1> QED
    BY <1>3, <1>4, <1>6, <1>7, <1>13, <1>16, <1>17, <1>18, <1>19, <1>20 DEF ReadInv

\* The connection is closed: what is left of the stream stays a stream.
LEMMA ReadClosed ==
    ASSUME ReadInv, pc' = "closed", left' \in {0, left},
           UNCHANGED <<setup, sent, answered, wire, read_buf_>>
    PROVE  ReadInv'
  <1>1. wire \in Seq(1 .. RequestSize) /\ read_buf_ \in Seq(1 .. RequestSize)
    BY DEF ReadInv
  <1>2. InSequence(wire) /\ EndsRequest(wire)
    <2>1. CASE pc = "idle"
      <3>1. InSequence(read_buf_ \o wire) /\ EndsRequest(read_buf_ \o wire)
        BY <2>1, Zenon DEF ReadInv, Pending
      <3> QED
        BY <1>1, <3>1, StreamSuffix, Zenon
    <2>2. CASE pc # "idle"
      BY <2>2, Zenon DEF ReadInv, Pending
    <2> QED
      BY <2>1, <2>2
  <1>3. Pending' = wire
    BY DEF Pending
  <1>4. InSequence(Pending') /\ EndsRequest(Pending')
    BY <1>2, <1>3
  <1>5. sent' \in Nat /\ answered' \in Nat /\ left' \in Nat /\ setup' \in Setups
    BY DEF ReadInv
  <1> QED
    BY <1>1, <1>4, <1>5 DEF ReadInv

\* A response is complete: one request fewer is left, and Reset empties read_buf_.
LEMMA ReadAnswered ==
    ASSUME ReadInv, pc = "write", WriteAll, UNCHANGED <<setup, sent, wire>>
    PROVE  ReadInv'
  <1>1. /\ sent \in Nat /\ answered \in Nat /\ left \in Nat /\ left >= 1 /\ setup \in Setups
        /\ wire \in Seq(1 .. RequestSize) /\ InSequence(wire) /\ EndsRequest(wire)
    BY DEF ReadInv, Pending
  <1>2. /\ answered' = answered + 1 /\ read_buf_' = <<>> /\ left' = left - 1
        /\ pc' = (IF left - 1 > 0 THEN "write" ELSE "idle")
    BY DEF WriteAll, NextResponse
  <1>3. read_buf_' \in Seq(1 .. RequestSize) /\ Newlines(read_buf_') = 0
    BY <1>2, NewlinesEmpty
  <1>4. Len(read_buf_') < RequestSize
    BY <1>2, TCPConnAssumption, SMT
  <1>5. Pending' = wire
    BY <1>1, <1>2 DEF Pending
  <1>6. InSequence(Pending') /\ EndsRequest(Pending')
    BY <1>1, <1>5
  <1>7. App' = App
    BY DEF App
  <1>8. App # "memcached" => answered' + left' + Newlines(wire') = sent'
    <2>1. App # "memcached" => answered + left + Newlines(wire) = sent
      BY Zenon DEF ReadInv
    <2>2. Newlines(wire) \in Nat /\ wire' = wire /\ sent' = sent
      BY <1>1, NewlinesType, Zenon
    <2> QED
      BY <1>1, <1>2, <2>1, <2>2, SMT
  <1>9. /\ left' \in Nat /\ answered' \in Nat /\ pc' \in {"idle", "write"}
        /\ pc' = "idle" => left' = 0
        /\ pc' = "write" => left' >= 1
    BY <1>1, <1>2, SMT
  <1> QED
    BY <1>1, <1>3, <1>4, <1>6, <1>7, <1>8, <1>9 DEF ReadInv

\* Every step of the client and of the thread keeps the invariant.
LEMMA ReadStep == ReadInv /\ [Next]_vars => ReadInv'
  <1> SUFFICES ASSUME ReadInv, [Next]_vars PROVE ReadInv'
    OBVIOUS
  <1>1. CASE Send
    BY <1>1, ReadSend
  <1>2. CASE Receive
    BY <1>2, ReadSame DEF Receive, server
  <1>3. CASE Finish
    BY <1>3, ReadSame DEF Finish, server
  <1>4. CASE ReadOnce
    BY <1>4, ReadRead
  <1>5. CASE ReadEnd
    BY <1>5, ReadClosed DEF ReadEnd
  <1>6. CASE WriteOnce
    <2>1. /\ pc = "write" /\ UNCHANGED <<setup, sent, wire>>
          /\ WriteAll \/ UNCHANGED <<answered, read_buf_, pc, left>>
      BY <1>6, Zenon DEF WriteOnce
    <2> QED
      BY <2>1, ReadAnswered, ReadSame
  <1>7. CASE WriteFails
    BY <1>7, ReadClosed DEF WriteFails
  <1>8. CASE WriteBlocking
    <2>1. /\ pc = "write" /\ UNCHANGED <<setup, sent, wire>>
          /\ WriteAll \/ UNCHANGED <<answered, read_buf_, pc, left>>
      BY <1>8, Zenon DEF WriteBlocking
    <2> QED
      BY <2>1, ReadAnswered, ReadSame
  <1>9. CASE UNCHANGED vars
    BY <1>9, ReadSame DEF vars
  <1> QED
    BY <1>1, <1>2, <1>3, <1>4, <1>5, <1>6, <1>7, <1>8, <1>9 DEF Next, Serve

-----------------------------------------------------------------------------
(* The theorems.                                                             *)

\* The invariant holds in every state of every connection.
THEOREM ReadInvariant == Spec => []ReadInv
  BY ReadInit, ReadStep, PTL DEF Spec

\* In all three applications a connection that waits for data has room for it in
\* read_buf_, so that a read() of 0 bytes always means the end of the stream.
THEOREM AlwaysRoom == Spec => []RoomToRead
  <1>1. ReadInv => RoomToRead
    <2> SUFFICES ASSUME ReadInv, pc = "idle" PROVE Len(read_buf_) < ReadBufferSize
      BY DEF RoomToRead
    <2>1. Len(read_buf_) < RequestSize /\ Len(read_buf_) \in Nat
      BY DEF ReadInv
    <2> QED
      BY <2>1, TCPConnAssumption, SMT
  <1> QED
    BY <1>1, ReadInvariant, PTL

-----------------------------------------------------------------------------
(* Writing.                                                                  *)

\* What iv_ holds once Process has filled it in.
Parts == [1 .. 3 -> [iov_base : Nat, iov_len : 0 .. SizeMod - 1]]

\* How much a writev() of them is asked to write.
Lengths(iv) == iv[1].iov_len + iv[2].iov_len + iv[3].iov_len

\* The inductive invariant of WriteOnce.  The counters add up to a response; at
\* least what they say has been written, and exactly that unless synthetic_nginx
\* starts over; and iv_ never asks for more than is left of the response, except
\* for a length that has wrapped and that no writev() takes.
WriteInv ==
    /\ sent <= MaxRequests /\ eof \in BOOLEAN
    /\ out \in Seq(Nat) /\ unread \in 0 .. Len(out)
    /\ iv_ = <<>> \/ iv_ \in Parts
    /\ bytes_to_send_ \in Nat /\ bytes_have_send_ \in Nat /\ taken \in Nat
    /\ bytes_have_send_ + taken < ResponseSize
    /\ IF Build = "blocking" THEN bytes_have_send_ = 0 ELSE taken = 0
    /\ pc = "idle" => bytes_to_send_ = 0 /\ bytes_have_send_ = 0 /\ taken = 0
    /\ pc = "write" => /\ iv_ \in Parts
                       /\ bytes_to_send_ + bytes_have_send_ = ResponseSize
                       /\ Build = "blocking" => iv_ = Response
                       /\ App = "memcached" /\ Valid(iv_) => Lengths(iv_) <= bytes_to_send_
    /\ answered * ResponseSize + (bytes_have_send_ + taken) <= Len(out)
    /\ App # "nginx" => answered * ResponseSize + (bytes_have_send_ + taken) = Len(out)

\* A client of synthetic_memcached that waits for each response: either nothing is
\* outstanding, or one request, which is all that the stream holds.
SingleInv ==
    App = "memcached" /\ Depth = 1 /\ pc # "closed" =>
        /\ sent \in {answered, answered + 1} /\ left <= sent - answered
        /\ Len(Pending) = (IF sent = answered + left THEN 0 ELSE RequestSize)
        /\ answered + left + Newlines(wire) = sent

\* A connection whose application copes: every response is written whole, by one
\* writev() where the loop could not continue it, and the connection is not
\* closed before the last one.
CopeInv ==
    Copes =>
        /\ ResponsesIntact
        /\ answered * ResponseSize + (bytes_have_send_ + taken) = Len(out)
        /\ pc = "write" /\ App # "redis" => iv_ = Response /\ bytes_have_send_ = 0
        /\ sent <= Received + Depth
        /\ eof /\ Build = "epoll" => Len(out) >= sent * ResponseSize
        /\ pc = "closed" => eof /\ wire = <<>> /\ Len(out) = sent * ResponseSize

-----------------------------------------------------------------------------
(* The layout of a response.                                                 *)

\* What the setups have in common.
LEMMA SetupType ==
    ASSUME setup \in Setups
    PROVE  /\ Segments \in [1 .. 3 -> Nat] /\ ResponseSize \in Nat \ {0}
           /\ ResponseSize = Segments[1] + Segments[2] + Segments[3]
           /\ SizeMod \in Nat /\ SizeMod > 2 * ResponseSize + 1
           /\ SendBuffer \in Nat \ {0} /\ Depth \in Nat \ {0}
           /\ App \in {"memcached", "nginx", "redis"}
           /\ App = "redis" => Build # "blocking"
  <1>1. setup \in Setup
    BY TCPConnAssumption
  <1>2. /\ Segments \in [1 .. 3 -> Nat] /\ SendBuffer \in Nat \ {0} /\ Depth \in Nat \ {0}
        /\ App \in {"memcached", "nginx", "redis"}
    BY <1>1 DEF Setup, Segments, SendBuffer, Depth, App
  <1>3. /\ SizeMod \in Nat /\ ResponseSize > 0 /\ SizeMod > 2 * ResponseSize + 1
        /\ App = "redis" => Build # "blocking"
    BY TCPConnAssumption DEF ResponseSize, Segments, App, Build
  <1>4. ResponseSize = Segments[1] + Segments[2] + Segments[3]
    BY DEF ResponseSize, Total
  <1> QED
    BY <1>2, <1>3, <1>4

\* The bytes of one part.
LEMMA PieceBytes ==
    ASSUME NEW b \in Nat, NEW n \in Nat
    PROVE  LET p == Piece([iov_base |-> b, iov_len |-> n])
           IN  p \in Seq(Nat) /\ Len(p) = n /\ \A j \in 1 .. n : p[j] = b + j
  BY DEF Piece

\* Putting pieces of a response together.
LEMMA JoinedBytes ==
    ASSUME NEW s \in Seq(Nat), NEW t \in Seq(Nat)
    PROVE  /\ s \o t \in Seq(Nat)
           /\ Len(s) \in Nat /\ Len(t) \in Nat /\ Len(s \o t) = Len(s) + Len(t)
           /\ \A i \in 1 .. Len(s) : (s \o t)[i] = s[i]
           /\ \A i \in 1 .. Len(t) : (s \o t)[Len(s) + i] = t[i]
  OBVIOUS

\* The same with three pieces.
LEMMA JoinedThree ==
    ASSUME NEW s \in Seq(Nat), NEW t \in Seq(Nat), NEW u \in Seq(Nat)
    PROVE  /\ s \o t \o u \in Seq(Nat) /\ Len(s \o t \o u) = Len(s) + Len(t) + Len(u)
           /\ \A i \in 1 .. Len(s) : (s \o t \o u)[i] = s[i]
           /\ \A i \in 1 .. Len(t) : (s \o t \o u)[Len(s) + i] = t[i]
           /\ \A i \in 1 .. Len(u) : (s \o t \o u)[Len(s) + Len(t) + i] = u[i]
  <1>0. PICK k \in Nat, m \in Nat, n \in Nat : Len(s) = k /\ Len(t) = m /\ Len(u) = n
    OBVIOUS
  <1> DEFINE q == s \o t
             w == q \o u
  <1>1. /\ q \in Seq(Nat) /\ Len(q) = k + m
        /\ \A i \in 1 .. k : q[i] = s[i]
        /\ \A i \in 1 .. m : q[k + i] = t[i]
    <2>1. /\ q \in Seq(Nat) /\ Len(q) = Len(s) + Len(t)
          /\ \A i \in 1 .. Len(s) : q[i] = s[i]
          /\ \A i \in 1 .. Len(t) : q[Len(s) + i] = t[i]
      BY JoinedBytes
    <2> QED
      BY <1>0, <2>1, Zenon
  <1> HIDE DEF q
  <1>2. /\ w \in Seq(Nat) /\ Len(w) = k + m + n
        /\ \A i \in 1 .. k + m : w[i] = q[i]
        /\ \A i \in 1 .. n : w[k + m + i] = u[i]
    <2>1. /\ w \in Seq(Nat) /\ Len(w) = Len(q) + Len(u)
          /\ \A i \in 1 .. Len(q) : w[i] = q[i]
          /\ \A i \in 1 .. Len(u) : w[Len(q) + i] = u[i]
      BY <1>1, JoinedBytes
    <2> QED
      BY <1>0, <1>1, <2>1, Zenon
  <1> HIDE DEF w
  <1>3. ASSUME NEW i \in 1 .. k PROVE w[i] = s[i]
    <2>1. i \in 1 .. k + m
      BY SMT
    <2> QED
      BY <1>1, <1>2, <2>1, Zenon
  <1>4. ASSUME NEW i \in 1 .. m PROVE w[k + i] = t[i]
    <2>1. k + i \in 1 .. k + m
      BY SMT
    <2> QED
      BY <1>1, <1>2, <2>1, Zenon
  <1> QED
    BY <1>0, <1>2, <1>3, <1>4, Zenon DEF q, w

\* writev() gathers the parts one after the other.
LEMMA Gathered ==
    ASSUME NEW iv, \A i \in 1 .. 3 : iv[i] \in [iov_base : Nat, iov_len : Nat]
    PROVE  /\ iv[1].iov_len \in Nat /\ iv[2].iov_len \in Nat /\ iv[3].iov_len \in Nat
           /\ Bytes(iv) \in Seq(Nat)
           /\ Len(Bytes(iv)) = iv[1].iov_len + iv[2].iov_len + iv[3].iov_len
           /\ \A j \in 1 .. iv[1].iov_len : Bytes(iv)[j] = iv[1].iov_base + j
           /\ \A j \in 1 .. iv[2].iov_len : Bytes(iv)[iv[1].iov_len + j] = iv[2].iov_base + j
           /\ \A j \in 1 .. iv[3].iov_len :
                 Bytes(iv)[iv[1].iov_len + iv[2].iov_len + j] = iv[3].iov_base + j
  <1> DEFINE p1 == Piece(iv[1])
             p2 == Piece(iv[2])
             p3 == Piece(iv[3])
             w == p1 \o p2 \o p3
  <1>1. PICK b1 \in Nat, n1 \in Nat, b2 \in Nat, n2 \in Nat, b3 \in Nat, n3 \in Nat :
            /\ iv[1] = [iov_base |-> b1, iov_len |-> n1]
            /\ iv[2] = [iov_base |-> b2, iov_len |-> n2]
            /\ iv[3] = [iov_base |-> b3, iov_len |-> n3]
    <2>1. \A i \in 1 .. 3 : /\ iv[i] = [iov_base |-> iv[i].iov_base, iov_len |-> iv[i].iov_len]
                            /\ iv[i].iov_base \in Nat /\ iv[i].iov_len \in Nat
      OBVIOUS
    <2>2. 1 \in 1 .. 3 /\ 2 \in 1 .. 3 /\ 3 \in 1 .. 3
      OBVIOUS
    <2> QED
      BY <2>1, <2>2, Zenon
  <1>2. /\ p1 \in Seq(Nat) /\ Len(p1) = n1 /\ \A j \in 1 .. n1 : p1[j] = b1 + j
        /\ p2 \in Seq(Nat) /\ Len(p2) = n2 /\ \A j \in 1 .. n2 : p2[j] = b2 + j
        /\ p3 \in Seq(Nat) /\ Len(p3) = n3 /\ \A j \in 1 .. n3 : p3[j] = b3 + j
    BY <1>1, PieceBytes, SMTT(60)
  <1> HIDE DEF p1, p2, p3
  <1>3. /\ w \in Seq(Nat) /\ Len(w) = n1 + n2 + n3
        /\ \A j \in 1 .. n1 : w[j] = p1[j]
        /\ \A j \in 1 .. n2 : w[n1 + j] = p2[j]
        /\ \A j \in 1 .. n3 : w[n1 + n2 + j] = p3[j]
    <2>1. /\ w \in Seq(Nat) /\ Len(w) = Len(p1) + Len(p2) + Len(p3)
          /\ \A j \in 1 .. Len(p1) : w[j] = p1[j]
          /\ \A j \in 1 .. Len(p2) : w[Len(p1) + j] = p2[j]
          /\ \A j \in 1 .. Len(p3) : w[Len(p1) + Len(p2) + j] = p3[j]
      <3>1. p1 \in Seq(Nat) /\ p2 \in Seq(Nat) /\ p3 \in Seq(Nat)
        BY <1>2
      <3> QED
        BY <3>1, JoinedThree
    <2> QED
      BY <1>2, <2>1, Zenon
  <1> HIDE DEF w
  <1>4. ASSUME NEW j \in 1 .. n1 PROVE w[j] = b1 + j
    BY <1>2, <1>3
  <1>5. ASSUME NEW j \in 1 .. n2 PROVE w[n1 + j] = b2 + j
    BY <1>2, <1>3
  <1>6. ASSUME NEW j \in 1 .. n3 PROVE w[n1 + n2 + j] = b3 + j
    BY <1>2, <1>3
  <1>7. Bytes(iv) = w
    BY DEF Bytes, p1, p2, p3, w
  <1>8. /\ iv[1].iov_len = n1 /\ iv[2].iov_len = n2 /\ iv[3].iov_len = n3
        /\ iv[1].iov_base = b1 /\ iv[2].iov_base = b2 /\ iv[3].iov_base = b3
    BY <1>1
  <1> QED
    BY <1>3, <1>4, <1>5, <1>6, <1>7, <1>8, Zenon

\* What iv_ holds can be written: so many bytes as its lengths say.
LEMMA PartsBytes ==
    ASSUME NEW iv \in Parts, SizeMod \in Nat
    PROVE  /\ Bytes(iv) \in Seq(Nat)
           /\ Len(Bytes(iv)) = iv[1].iov_len + iv[2].iov_len + iv[3].iov_len
           /\ iv[1].iov_len \in Nat /\ iv[2].iov_len \in Nat /\ iv[3].iov_len \in Nat
  <1>1. \A i \in 1 .. 3 : iv[i] \in [iov_base : Nat, iov_len : Nat]
    BY DEF Parts
  <1> QED
    BY <1>1, Gathered, Zenon

\* A new response is one writev() of its bytes in order.
LEMMA ResponseBytes ==
    ASSUME setup \in Setups
    PROVE  /\ Response \in Parts /\ Valid(Response)
           /\ Response[1].iov_len + Response[2].iov_len + Response[3].iov_len = ResponseSize
           /\ Bytes(Response) \in Seq(Nat) /\ Len(Bytes(Response)) = ResponseSize
           /\ \A j \in 1 .. ResponseSize : Bytes(Response)[j] = j
  <1>1. PICK n1 \in Nat, n2 \in Nat, n3 \in Nat :
            Segments[1] = n1 /\ Segments[2] = n2 /\ Segments[3] = n3
    BY SetupType
  <1>2. /\ ResponseSize = n1 + n2 + n3 /\ ResponseSize \in Nat
        /\ SizeMod \in Nat /\ SizeMod > 2 * ResponseSize + 1
    BY <1>1, SetupType
  <1>3. /\ Response[1] = [iov_base |-> 0, iov_len |-> n1]
        /\ Response[2] = [iov_base |-> n1, iov_len |-> n2]
        /\ Response[3] = [iov_base |-> n1 + n2, iov_len |-> n3]
    BY <1>1 DEF Response, Part
  <1>4. /\ n1 \in 0 .. SizeMod - 1 /\ n2 \in 0 .. SizeMod - 1 /\ n3 \in 0 .. SizeMod - 1
        /\ n1 < SizeMod \div 2 /\ n2 < SizeMod \div 2 /\ n3 < SizeMod \div 2 /\ n1 + n2 \in Nat
    BY <1>2, SMT
  <1>5. Response \in Parts
    BY <1>1, <1>4 DEF Response, Part, Parts
  <1>6. Valid(Response)
    BY <1>3, <1>4 DEF Valid
  <1>7. /\ Bytes(Response) \in Seq(Nat) /\ Len(Bytes(Response)) = n1 + n2 + n3
        /\ \A j \in 1 .. n1 : Bytes(Response)[j] = 0 + j
        /\ \A j \in 1 .. n2 : Bytes(Response)[n1 + j] = n1 + j
        /\ \A j \in 1 .. n3 : Bytes(Response)[n1 + n2 + j] = (n1 + n2) + j
    <2> HIDE DEF Response
    <2>1. \A i \in 1 .. 3 : Response[i] \in [iov_base : Nat, iov_len : Nat]
      BY <1>3, <1>4
    <2>2. /\ Response[1].iov_len = n1 /\ Response[2].iov_len = n2 /\ Response[3].iov_len = n3
          /\ Response[1].iov_base = 0 /\ Response[2].iov_base = n1
          /\ Response[3].iov_base = n1 + n2
      BY <1>3
    <2>3. /\ Bytes(Response) \in Seq(Nat)
          /\ Len(Bytes(Response))
                = Response[1].iov_len + Response[2].iov_len + Response[3].iov_len
          /\ \A j \in 1 .. Response[1].iov_len : Bytes(Response)[j] = Response[1].iov_base + j
          /\ \A j \in 1 .. Response[2].iov_len :
                Bytes(Response)[Response[1].iov_len + j] = Response[2].iov_base + j
          /\ \A j \in 1 .. Response[3].iov_len :
                Bytes(Response)[Response[1].iov_len + Response[2].iov_len + j]
                    = Response[3].iov_base + j
      BY <2>1, Gathered
    <2> QED
      BY <2>2, <2>3
  <1>8. ASSUME NEW j \in 1 .. ResponseSize PROVE Bytes(Response)[j] = j
    <2>1. CASE j \in 1 .. n1
      BY <1>7, <2>1
    <2>2. CASE j - n1 \in 1 .. n2
      <3>1. PICK k \in 1 .. n2 : j = n1 + k
        <4>1. j = n1 + (j - n1)
          BY <1>2, SMT
        <4> QED
          BY <2>2, <4>1
      <3> QED
        BY <1>7, <3>1
    <2>3. CASE j - (n1 + n2) \in 1 .. n3
      <3>1. PICK k \in 1 .. n3 : j = n1 + n2 + k
        <4>1. j = n1 + n2 + (j - (n1 + n2))
          BY <1>2, SMT
        <4> QED
          BY <2>3, <4>1
      <3> QED
        BY <1>7, <3>1
    <2>4. j \in 1 .. n1 \/ j - n1 \in 1 .. n2 \/ j - (n1 + n2) \in 1 .. n3
      BY <1>2, SMT
    <2> QED
      BY <2>1, <2>2, <2>3, <2>4
  <1> QED
    BY <1>2, <1>3, <1>5, <1>6, <1>7, <1>8

\* synthetic_redis writes the rest of the response as one part.
LEMMA OnePartBytes ==
    ASSUME NEW b \in Nat, NEW n \in Nat, NEW r \in Nat, b + n = r, SizeMod \in Nat,
           SizeMod > 2 * r + 1
    PROVE  /\ Valid(OnePart(b, n)) /\ Bytes(OnePart(b, n)) \in Seq(Nat)
           /\ Len(Bytes(OnePart(b, n))) = n
           /\ \A j \in 1 .. n : Bytes(OnePart(b, n))[j] = b + j
  <1> DEFINE iv == OnePart(b, n)
  <1>1. /\ iv[1] = [iov_base |-> b, iov_len |-> n]
        /\ iv[2] = [iov_base |-> 0, iov_len |-> 0]
        /\ iv[3] = [iov_base |-> 0, iov_len |-> 0]
    BY DEF OnePart, Part
  <1>2. n < SizeMod \div 2 /\ 0 < SizeMod \div 2 /\ n + 0 + 0 = n /\ 0 \in Nat
    BY SMT
  <1> HIDE DEF iv
  <1>3. Valid(iv)
    BY <1>1, <1>2 DEF Valid
  <1>4. /\ Bytes(iv) \in Seq(Nat) /\ Len(Bytes(iv)) = n + 0 + 0
        /\ \A j \in 1 .. n : Bytes(iv)[j] = b + j
    <2>1. \A i \in 1 .. 3 : iv[i] \in [iov_base : Nat, iov_len : Nat]
      BY <1>1
    <2>2. /\ iv[1].iov_len = n /\ iv[2].iov_len = 0 /\ iv[3].iov_len = 0
          /\ iv[1].iov_base = b
      BY <1>1
    <2> QED
      BY <2>1, <2>2, Gathered, Zenon
  <1> QED
    BY <1>2, <1>3, <1>4 DEF iv

\* A piece of what writev() was given.
LEMMA Taken ==
    ASSUME NEW s \in Seq(Nat), NEW m \in Nat, NEW n \in Nat, m + n <= Len(s)
    PROVE  LET c == SubSeq(s, m + 1, m + n)
           IN  c \in Seq(Nat) /\ Len(c) = n /\ \A j \in 1 .. n : c[j] = s[m + j]
  <1> DEFINE c == SubSeq(s, m + 1, m + n)
  <1>1. c \in Seq(Nat) /\ Len(c) = n
    OBVIOUS
  <1>2. ASSUME NEW j \in 1 .. n PROVE c[j] = s[m + j]
    <2>1. c[j] = s[(m + 1) + j - 1] /\ (m + 1) + j - 1 = m + j
      OBVIOUS
    <2> QED
      BY <2>1
  <1> QED
    BY <1>1, <1>2

\* Multiplication of counters.
LEMMA Products ==
    ASSUME NEW a \in Nat, NEW r \in Nat
    PROVE  a * r \in Nat /\ (a + 1) * r = a * r + r
  OBVIOUS

\* Where a byte of the stream of responses is in its response.
LEMMA PlaceOf ==
    ASSUME NEW r \in Nat \ {0}, NEW a \in Nat, NEW k \in 1 .. r
    PROVE  1 + (((a * r + k) - 1) % r) = k
  <1>1. PICK d \in Nat : d = k - 1 /\ d < r
    BY SMT
  <1>2. (a * r + d) % r = d
    BY <1>1, SMT
  <1>3. (a * r + k) - 1 = a * r + d
    <2>1. a * r \in Int
      OBVIOUS
    <2> QED
      BY <1>1, <2>1, SMT
  <1>4. ((a * r + k) - 1) % r = d
    BY <1>2, <1>3, Zenon
  <1> QED
    BY <1>1, <1>4

\* How synthetic_memcached moves iv_ past what was written: it never asks for more
\* than is left, or a length has wrapped below zero and is no length any more.
LEMMA Advanced ==
    ASSUME setup \in Setups, App = "memcached", NEW iv \in Parts, Valid(iv),
           NEW to \in Nat, to <= ResponseSize, Lengths(iv) <= to,
           NEW n \in Nat, n <= Lengths(iv)
    PROVE  /\ Advance(iv, n) \in Parts
           /\ Valid(Advance(iv, n)) => Lengths(Advance(iv, n)) <= to - n
  <1> DEFINE R == [iov_base : Nat, iov_len : 0 .. SizeMod - 1]
             adv == Advance(iv, n)
  <1>1. /\ SizeMod \in Nat /\ ResponseSize \in Nat /\ SizeMod > 2 * ResponseSize + 1
    BY SetupType
  <1>2. DOMAIN iv = 1 .. 3 /\ \A i \in 1 .. 3 : iv[i] \in R
    BY DEF Parts
  <1>3. PICK b1 \in Nat, b2 \in Nat, b3 \in Nat,
             n1 \in 0 .. SizeMod - 1, n2 \in 0 .. SizeMod - 1, n3 \in 0 .. SizeMod - 1 :
            /\ iv[1].iov_len = n1 /\ iv[2].iov_len = n2 /\ iv[3].iov_len = n3
            /\ iv[1].iov_base = b1 /\ iv[2].iov_base = b2 /\ iv[3].iov_base = b3
    BY <1>2
  <1>4. Lengths(iv) = n1 + n2 + n3 /\ n <= n1 + n2 + n3 /\ n1 + n2 + n3 <= to
    BY <1>3 DEF Lengths
  <1>5. ASSUME NEW x1 \in R, NEW x2 \in R, NEW x3 \in R
        PROVE  <<x1, x2, x3>> \in Parts /\ Lengths(<<x1, x2, x3>>) = x1.iov_len + x2.iov_len + x3.iov_len
    BY DEF Parts, Lengths
  <1>6. CASE n < n1
    <2>1. adv = <<Part(b1 + n, n1 - n), iv[2], iv[3]>>
      BY <1>3, <1>6, Zenon DEF Advance
    <2>2. n1 - n \in 0 .. SizeMod - 1
      BY <1>1, <1>6, SMT
    <2>3. Part(b1 + n, n1 - n) \in R /\ Part(b1 + n, n1 - n).iov_len = n1 - n
      BY <2>2 DEF Part
    <2>4. adv \in Parts /\ Lengths(adv) = (n1 - n) + n2 + n3
      BY <1>2, <1>3, <1>5, <2>1, <2>3
    <2> QED
      BY <1>4, <2>4, SMT
  <1>7. CASE ~(n < n1) /\ n <= n1 + n2
    <2> DEFINE m == (n2 - n) % SizeMod
    <2>1. adv = <<Part(b1, 0), Part(b2 + n - n1, m), iv[3]>>
      BY <1>3, <1>7, Zenon DEF Advance
    <2>2. m \in 0 .. SizeMod - 1 /\ b2 + n - n1 \in Nat
      BY <1>1, <1>7, SMT
    <2>3. m < SizeMod \div 2 => m = n2 - n
      BY <1>1, <1>4, SMT
    <2> HIDE DEF m
    <2>4. /\ Part(b1, 0) \in R /\ Part(b1, 0).iov_len = 0
          /\ Part(b2 + n - n1, m) \in R /\ Part(b2 + n - n1, m).iov_len = m
      BY <1>1, <2>2 DEF Part
    <2>5. adv \in Parts /\ Lengths(adv) = 0 + m + n3 /\ adv[2].iov_len = m
      BY <1>2, <1>3, <1>5, <2>1, <2>4
    <2>6. Valid(adv) => m < SizeMod \div 2
      BY <2>5 DEF Valid
    <2> QED
      BY <1>4, <2>3, <2>5, <2>6, SMT
  <1>8. CASE ~(n < n1) /\ ~(n <= n1 + n2)
    <2> DEFINE m == (n3 - n) % SizeMod
    <2>1. adv = <<Part(b1, 0), Part(b2, 0), Part(b3 + n, m)>>
      BY <1>3, <1>8, Zenon DEF Advance
    <2>2. m \in 0 .. SizeMod - 1
      BY <1>1, SMT
    <2>3. m < SizeMod \div 2 => m = n3 - n
      BY <1>1, <1>4, SMT
    <2> HIDE DEF m
    <2>4. /\ Part(b1, 0) \in R /\ Part(b1, 0).iov_len = 0
          /\ Part(b2, 0) \in R /\ Part(b2, 0).iov_len = 0
          /\ Part(b3 + n, m) \in R /\ Part(b3 + n, m).iov_len = m
      BY <1>1, <2>2 DEF Part
    <2>5. adv \in Parts /\ Lengths(adv) = 0 + 0 + m /\ adv[3].iov_len = m
      BY <1>5, <2>1, <2>4
    <2>6. Valid(adv) => m < SizeMod \div 2
      BY <2>5 DEF Valid
    <2> QED
      BY <1>4, <2>3, <2>5, <2>6, SMT
  <1> QED
    BY <1>6, <1>7, <1>8

-----------------------------------------------------------------------------
(* The invariant of WriteOnce.                                               *)

\* A connection starts with nothing written.
LEMMA WriteInit == Init => WriteInv
  <1> SUFFICES ASSUME Init PROVE WriteInv
    OBVIOUS
  <1>1. /\ setup \in Setups /\ sent = 0 /\ eof = FALSE /\ out = <<>> /\ unread = 0 /\ answered = 0
        /\ iv_ = <<>> /\ bytes_to_send_ = 0 /\ bytes_have_send_ = 0 /\ taken = 0 /\ pc = "idle"
    BY DEF Init
  <1>2. ResponseSize \in Nat \ {0}
    BY <1>1, SetupType
  <1>3. /\ bytes_have_send_ + taken < ResponseSize
        /\ answered * ResponseSize + (bytes_have_send_ + taken) = 0
    BY <1>1, <1>2, SMT
  <1>4. out \in Seq(Nat) /\ Len(out) = 0 /\ unread \in 0 .. Len(out)
    BY <1>1
  <1>5. sent <= MaxRequests
    BY <1>1, TCPConnAssumption
  <1>6. /\ answered * ResponseSize + (bytes_have_send_ + taken) <= Len(out)
        /\ answered * ResponseSize + (bytes_have_send_ + taken) = Len(out)
    BY <1>3, <1>4
  <1> QED
    BY <1>1, <1>3, <1>4, <1>5, <1>6, Zenon DEF WriteInv

\* Steps of the client leave alone what the invariant says of the thread.
LEMMA WriteSame ==
    ASSUME WriteInv, UNCHANGED <<setup, answered, out, iv_, bytes_to_send_, bytes_have_send_,
                                 taken, pc>>,
           sent' <= MaxRequests, eof' \in BOOLEAN, unread' \in 0 .. Len(out)
    PROVE  WriteInv'
  BY DEF WriteInv, App, Build, ResponseSize, Segments, Response, Lengths, Valid

\* The next response, or none: nothing of it is written yet.
LEMMA WriteFresh ==
    ASSUME setup \in Setups, WriteInv, NEW n \in Nat, NextResponse(n), taken' = 0,
           UNCHANGED <<setup, sent, eof>>,
           out' \in Seq(Nat), unread' \in 0 .. Len(out'), answered' \in Nat,
           answered' * ResponseSize <= Len(out'),
           App # "nginx" => answered' * ResponseSize = Len(out')
    PROVE  WriteInv'
  <1>1. /\ ResponseSize \in Nat \ {0} /\ Response \in Parts
        /\ Lengths(Response) = ResponseSize
    BY SetupType, ResponseBytes DEF Lengths
  <1>2. /\ pc' = (IF n > 0 THEN "write" ELSE "idle")
        /\ iv_' = (IF n > 0 THEN Response ELSE iv_)
        /\ bytes_to_send_' = (IF n > 0 THEN ResponseSize ELSE 0)
        /\ bytes_have_send_' = 0
    BY DEF NextResponse
  <1>3. /\ App' = App /\ Build' = Build /\ ResponseSize' = ResponseSize
        /\ Response' = Response
    BY DEF App, Build, ResponseSize, Segments, Response
  <1>4. /\ bytes_to_send_' \in Nat /\ bytes_have_send_' \in Nat /\ taken' \in Nat
        /\ bytes_have_send_' + taken' < ResponseSize'
        /\ pc' = "idle" => bytes_to_send_' = 0 /\ bytes_have_send_' = 0 /\ taken' = 0
        /\ pc' = "write" => bytes_to_send_' + bytes_have_send_' = ResponseSize'
    BY <1>1, <1>2, <1>3, SMT
  <1>5. (iv_' = <<>> \/ iv_' \in Parts) /\ (pc' = "write" => iv_' \in Parts)
    BY <1>1, <1>2 DEF WriteInv
  <1>6. pc' = "write" => iv_' = Response /\ Lengths(iv_') <= bytes_to_send_'
    BY <1>1, <1>2
  <1>7. /\ answered' * ResponseSize' + (bytes_have_send_' + taken') <= Len(out')
        /\ App' # "nginx" =>
              answered' * ResponseSize' + (bytes_have_send_' + taken') = Len(out')
    <2>1. PICK q \in Nat : q = answered' * ResponseSize
      BY <1>1, Products
    <2> QED
      BY <1>2, <1>3, <2>1
  <1>8. sent' <= MaxRequests /\ eof' \in BOOLEAN
    BY DEF WriteInv
  <1> QED
    BY <1>2, <1>3, <1>4, <1>5, <1>6, <1>7, <1>8 DEF WriteInv

\* The connection is closed as it is.
LEMMA WriteClosed ==
    ASSUME WriteInv, pc' = "closed",
           UNCHANGED <<setup, sent, eof, out, unread, answered, iv_, bytes_to_send_,
                       bytes_have_send_, taken>>
    PROVE  WriteInv'
  BY DEF WriteInv, App, Build, ResponseSize, Segments

\* What WriteOnce is asked to write are bytes, and no more than are left unless
\* synthetic_nginx starts over.
LEMMA ToWriteBytes ==
    ASSUME setup \in Setups, WriteInv, pc = "write", Valid(ToWrite)
    PROVE  /\ Bytes(ToWrite) \in Seq(Nat) /\ Len(Bytes(ToWrite)) \in Nat
           /\ App # "nginx" => Len(Bytes(ToWrite)) <= bytes_to_send_
  <1>1. /\ iv_ \in Parts /\ SizeMod \in Nat /\ ResponseSize \in Nat
        /\ bytes_to_send_ \in Nat /\ bytes_have_send_ \in Nat
        /\ bytes_have_send_ + bytes_to_send_ = ResponseSize /\ SizeMod > 2 * ResponseSize + 1
    BY SetupType DEF WriteInv
  <1>2. CASE App = "redis"
    <2>1. ToWrite = OnePart(bytes_have_send_, bytes_to_send_)
      BY <1>2 DEF ToWrite
    <2>2. Bytes(ToWrite) \in Seq(Nat) /\ Len(Bytes(ToWrite)) = bytes_to_send_
      BY <1>1, <2>1, OnePartBytes
    <2> QED
      BY <1>1, <2>2
  <1>3. CASE App # "redis"
    <2>1. ToWrite = iv_
      BY <1>3 DEF ToWrite
    <2>2. Bytes(iv_) \in Seq(Nat) /\ Len(Bytes(iv_)) = Lengths(iv_)
      BY <1>1, PartsBytes DEF Lengths
    <2>3. App = "memcached" => Lengths(iv_) <= bytes_to_send_
      BY <2>1 DEF WriteInv
    <2>4. App \in {"memcached", "nginx", "redis"}
      BY SetupType
    <2> QED
      BY <1>3, <2>1, <2>2, <2>3, <2>4
  <1> QED
    BY <1>2, <1>3

\* A read finds so many requests.
LEMMA ReadFound ==
    ASSUME ReadInv, ReadOnce
    PROVE  \E n \in Nat : NextResponse(n)
  <1>1. ReadInv'
    BY ReadRead
  <1>2. PICK n : NextResponse(n)
    BY DEF ReadOnce
  <1>3. n = left' /\ left' \in Nat
    BY <1>1, <1>2 DEF ReadInv, NextResponse
  <1> QED
    BY <1>2, <1>3

\* A round of WriteOnce's loop.
LEMMA WriteWriteOnce ==
    ASSUME ReadInv, WriteInv, WriteOnce
    PROVE  WriteInv'
  <1> DEFINE bytes == Bytes(ToWrite)
             n == Min({Len(bytes), SendBuffer - unread})
             c == SubSeq(bytes, 1, n)
  <1>1. setup \in Setups /\ answered \in Nat /\ left \in Nat /\ left >= 1 /\ pc = "write"
    BY DEF ReadInv, WriteOnce
  <1>2. /\ Build # "blocking" /\ Valid(ToWrite) /\ n > 0
        /\ out' = out \o c /\ unread' = unread + n
        /\ UNCHANGED <<setup, sent, wire, eof, taken>>
        /\ \/ bytes_to_send_ - n <= 0 /\ WriteAll
           \/ /\ bytes_to_send_ - n > 0
              /\ bytes_have_send_' = bytes_have_send_ + n
              /\ bytes_to_send_' = bytes_to_send_ - n
              /\ iv_' = Advance(iv_, n)
              /\ UNCHANGED <<answered, read_buf_, pc, left>>
    BY DEF WriteOnce
  <1>3. /\ bytes \in Seq(Nat) /\ Len(bytes) \in Nat
        /\ App # "nginx" => Len(bytes) <= bytes_to_send_
    BY <1>1, <1>2, ToWriteBytes
  <1>4. /\ ResponseSize \in Nat \ {0} /\ SendBuffer \in Nat
    BY <1>1, SetupType
  <1>5. /\ out \in Seq(Nat) /\ unread \in 0 .. Len(out) /\ Len(out) \in Nat
        /\ bytes_to_send_ \in Nat /\ bytes_have_send_ \in Nat /\ taken = 0 /\ iv_ \in Parts
        /\ bytes_to_send_ + bytes_have_send_ = ResponseSize
    BY <1>1, <1>2 DEF WriteInv
  <1>6. n \in Nat \ {0} /\ n <= Len(bytes)
    <2>1. SendBuffer - unread \in Int /\ Len(bytes) \in Int
      BY <1>3, <1>4, <1>5, SMT
    <2>2. n \in Int /\ n <= Len(bytes)
      BY <2>1, MinOfTwo
    <2>3. n > 0
      BY <1>2, Zenon
    <2> QED
      BY <2>2, <2>3, SMT
  <1> HIDE DEF n
  <1>7. c \in Seq(Nat) /\ Len(c) = n
    BY <1>3, <1>6, SMT
  <1> HIDE DEF c, bytes
  <1>8. out' \in Seq(Nat) /\ Len(out') = Len(out) + n
    BY <1>2, <1>5, <1>7, JoinedBytes
  <1>9. unread' \in 0 .. Len(out')
    BY <1>2, <1>5, <1>6, <1>8, SMT
  <1>10. PICK q \in Nat : /\ q = answered * ResponseSize
                          /\ (answered + 1) * ResponseSize = q + ResponseSize
    BY <1>1, <1>4, Products
  <1>13. /\ q + bytes_have_send_ <= Len(out)
         /\ App # "nginx" => q + bytes_have_send_ = Len(out)
    <2>1. /\ answered * ResponseSize + (bytes_have_send_ + taken) <= Len(out)
          /\ App # "nginx" => answered * ResponseSize + (bytes_have_send_ + taken) = Len(out)
      BY DEF WriteInv
    <2> QED
      BY <1>5, <1>10, <2>1
  <1>11. CASE bytes_to_send_ - n <= 0 /\ WriteAll
    <2>1. answered' = answered + 1 /\ NextResponse(left - 1) /\ left - 1 \in Nat
      BY <1>1, <1>11 DEF WriteAll
    <2>2. answered' \in Nat /\ answered' * ResponseSize = q + ResponseSize
      BY <1>1, <1>10, <2>1
    <2>3. /\ q + ResponseSize <= Len(out')
          /\ App # "nginx" => q + ResponseSize = Len(out')
      <3>1. bytes_to_send_ <= n /\ (App # "nginx" => n <= bytes_to_send_)
        BY <1>3, <1>5, <1>6, <1>11, SMT
      <3>2. /\ Len(out) \in Nat /\ bytes_to_send_ \in Nat /\ bytes_have_send_ \in Nat
            /\ bytes_to_send_ + bytes_have_send_ = ResponseSize /\ Len(out') = Len(out) + n
        BY <1>5, <1>8
      <3> QED
        BY <1>4, <1>6, <1>13, <3>1, <3>2, SMT
    <2>4. taken' = 0 /\ UNCHANGED <<setup, sent, eof>>
      BY <1>2, <1>5
    <2> QED
      BY <1>1, <1>8, <1>9, <2>1, <2>2, <2>3, <2>4, WriteFresh
  <1>12. CASE /\ bytes_to_send_ - n > 0
              /\ bytes_have_send_' = bytes_have_send_ + n
              /\ bytes_to_send_' = bytes_to_send_ - n
              /\ iv_' = Advance(iv_, n)
              /\ UNCHANGED <<answered, read_buf_, pc, left>>
    <2>1. App' = App /\ Build' = Build /\ ResponseSize' = ResponseSize
      BY <1>2 DEF App, Build, ResponseSize, Segments
    <2>2. iv_' \in Parts /\ (App = "memcached" /\ Valid(iv_') => Lengths(iv_') <= bytes_to_send_')
      <3>1. CASE App = "memcached"
        <4>1. ToWrite = iv_ /\ Valid(iv_)
          BY <1>2, <3>1 DEF ToWrite
        <4>2. Lengths(iv_) = Len(bytes)
          BY <1>1, <1>5, <4>1, SetupType, PartsBytes DEF Lengths, bytes
        <4>3. n <= Lengths(iv_) /\ Lengths(iv_) <= bytes_to_send_ /\ bytes_to_send_ <= ResponseSize
          BY <1>3, <1>4, <1>5, <1>6, <3>1, <4>2, SMT
        <4> QED
          BY <1>1, <1>5, <1>6, <1>12, <3>1, <4>1, <4>3, Advanced
      <3>2. CASE App # "memcached"
        BY <1>5, <1>12, <3>2 DEF Advance
      <3> QED
        BY <3>1, <3>2
    <2>3. /\ bytes_to_send_' \in Nat /\ bytes_have_send_' \in Nat /\ taken' = 0
          /\ bytes_have_send_' + taken' < ResponseSize
          /\ bytes_to_send_' + bytes_have_send_' = ResponseSize
      BY <1>2, <1>4, <1>5, <1>6, <1>12, SMT
    <2>4. /\ answered' * ResponseSize + (bytes_have_send_' + taken') <= Len(out')
          /\ App # "nginx" => answered' * ResponseSize + (bytes_have_send_' + taken') = Len(out')
      <3>1. answered' * ResponseSize = q
        BY <1>10, <1>12
      <3>2. bytes_have_send_' + taken' = bytes_have_send_ + n
        BY <1>2, <1>5, <1>6, <1>12, SMT
      <3>3. Len(out) \in Nat /\ bytes_have_send_ \in Nat /\ Len(out') = Len(out) + n
        BY <1>5, <1>8
      <3> QED
        BY <1>6, <1>13, <3>1, <3>2, <3>3, SMT
    <2>5. sent' <= MaxRequests /\ eof' \in BOOLEAN
      BY <1>2 DEF WriteInv
    <2>6. pc' = "write"
      BY <1>1, <1>12
    <2> QED
      BY <1>2, <1>8, <1>9, <2>1, <2>2, <2>3, <2>4, <2>5, <2>6 DEF WriteInv
  <1> QED
    BY <1>2, <1>11, <1>12

\* A piece of a writev() that blocks.
LEMMA WriteWriteBlocking ==
    ASSUME ReadInv, WriteInv, WriteBlocking
    PROVE  WriteInv'
  <1> DEFINE n == Min({ResponseSize - taken, SendBuffer - unread})
             c == SubSeq(Bytes(iv_), taken + 1, taken + n)
  <1>1. setup \in Setups /\ answered \in Nat /\ left \in Nat /\ left >= 1 /\ pc = "write"
    BY DEF ReadInv, WriteBlocking
  <1>2. /\ Build = "blocking" /\ n > 0
        /\ out' = out \o c /\ unread' = unread + n
        /\ UNCHANGED <<setup, sent, wire, eof>>
        /\ \/ taken + n = ResponseSize /\ taken' = 0 /\ WriteAll
           \/ /\ taken + n < ResponseSize
              /\ taken' = taken + n
              /\ UNCHANGED <<answered, read_buf_, iv_, bytes_to_send_, bytes_have_send_, pc, left>>
    BY DEF WriteBlocking
  <1>3. /\ ResponseSize \in Nat \ {0} /\ SendBuffer \in Nat
    BY <1>1, SetupType
  <1>4. /\ out \in Seq(Nat) /\ unread \in 0 .. Len(out) /\ Len(out) \in Nat
        /\ taken \in Nat /\ taken < ResponseSize /\ iv_ = Response /\ iv_ \in Parts
        /\ bytes_to_send_ \in Nat /\ bytes_have_send_ = 0
        /\ bytes_to_send_ + bytes_have_send_ = ResponseSize
    BY <1>1, <1>2 DEF WriteInv
  <1>5. n \in Nat \ {0} /\ taken + n <= ResponseSize
    <2>1. SendBuffer - unread \in Int /\ ResponseSize - taken \in Int
      BY <1>3, <1>4, SMT
    <2>2. n \in Int /\ n <= ResponseSize - taken
      BY <2>1, MinOfTwo
    <2>3. n > 0
      BY <1>2, Zenon
    <2> QED
      BY <1>3, <1>4, <2>2, <2>3, SMT
  <1> HIDE DEF n
  <1>6. Bytes(iv_) \in Seq(Nat) /\ Len(Bytes(iv_)) = ResponseSize
    BY <1>1, <1>4, ResponseBytes
  <1>7. c \in Seq(Nat) /\ Len(c) = n
    <2>1. taken \in Nat /\ n \in Nat /\ taken + n <= Len(Bytes(iv_))
      BY <1>4, <1>5, <1>6
    <2> QED
      BY <1>6, <2>1, Taken
  <1> HIDE DEF c
  <1>8. out' \in Seq(Nat) /\ Len(out') = Len(out) + n
    BY <1>2, <1>4, <1>7, JoinedBytes
  <1>9. unread' \in 0 .. Len(out')
    BY <1>2, <1>4, <1>5, <1>8, SMT
  <1>10. PICK q \in Nat : /\ q = answered * ResponseSize
                          /\ (answered + 1) * ResponseSize = q + ResponseSize
    BY <1>1, <1>3, Products
  <1>11. q + taken <= Len(out) /\ (App # "nginx" => q + taken = Len(out))
    <2>1. /\ answered * ResponseSize + (bytes_have_send_ + taken) <= Len(out)
          /\ App # "nginx" => answered * ResponseSize + (bytes_have_send_ + taken) = Len(out)
      BY DEF WriteInv
    <2> QED
      BY <1>4, <1>10, <2>1
  <1>12. CASE taken + n = ResponseSize /\ taken' = 0 /\ WriteAll
    <2>1. answered' = answered + 1 /\ NextResponse(left - 1) /\ left - 1 \in Nat
      BY <1>1, <1>12 DEF WriteAll
    <2>2. answered' \in Nat /\ answered' * ResponseSize = q + ResponseSize
      BY <1>1, <1>10, <2>1
    <2>3. /\ q + ResponseSize <= Len(out')
          /\ App # "nginx" => q + ResponseSize = Len(out')
      <3>1. Len(out) \in Nat /\ taken \in Nat /\ Len(out') = Len(out) + n
        BY <1>4, <1>8
      <3> QED
        BY <1>3, <1>5, <1>11, <1>12, <3>1, SMT
    <2>4. UNCHANGED <<setup, sent, eof>>
      BY <1>2
    <2> QED
      BY <1>1, <1>8, <1>9, <1>12, <2>1, <2>2, <2>3, <2>4, WriteFresh
  <1>13. CASE /\ taken + n < ResponseSize
              /\ taken' = taken + n
              /\ UNCHANGED <<answered, read_buf_, iv_, bytes_to_send_, bytes_have_send_, pc, left>>
    <2>1. /\ App' = App /\ Build' = Build /\ ResponseSize' = ResponseSize
          /\ Response' = Response
      BY <1>2 DEF App, Build, ResponseSize, Segments, Response
    <2>2. /\ taken' \in Nat /\ bytes_have_send_' + taken' < ResponseSize
      BY <1>4, <1>5, <1>13, SMT
    <2>3. /\ answered' * ResponseSize + (bytes_have_send_' + taken') <= Len(out')
          /\ App # "nginx" => answered' * ResponseSize + (bytes_have_send_' + taken') = Len(out')
      <3>1. answered' * ResponseSize = q
        BY <1>10, <1>13
      <3>2. bytes_have_send_' + taken' = taken + n
        BY <1>4, <1>5, <1>13, SMT
      <3>3. Len(out) \in Nat /\ taken \in Nat /\ Len(out') = Len(out) + n
        BY <1>4, <1>8
      <3> QED
        BY <1>5, <1>11, <3>1, <3>2, <3>3, SMT
    <2>4. sent' <= MaxRequests /\ eof' \in BOOLEAN
      BY <1>2 DEF WriteInv
    <2>5. App = "memcached" /\ Valid(iv_) => Lengths(iv_) <= bytes_to_send_
      BY <1>1 DEF WriteInv
    <2>6. pc' = "write" /\ iv_' = iv_ /\ bytes_to_send_' = bytes_to_send_ /\ bytes_have_send_' = 0
      BY <1>1, <1>4, <1>13
    <2> QED
      BY <1>2, <1>4, <1>8, <1>9, <2>1, <2>2, <2>3, <2>4, <2>5, <2>6 DEF WriteInv
  <1> QED
    BY <1>2, <1>12, <1>13

\* Every step of the client and of the thread keeps the invariant.
LEMMA WriteStep == ReadInv /\ WriteInv /\ [Next]_vars => WriteInv'
  <1> SUFFICES ASSUME ReadInv, WriteInv, [Next]_vars PROVE WriteInv'
    OBVIOUS
  <1>1. setup \in Setups /\ answered \in Nat /\ sent \in Nat
    BY DEF ReadInv
  <1>2. /\ sent <= MaxRequests /\ eof \in BOOLEAN /\ out \in Seq(Nat)
        /\ unread \in 0 .. Len(out) /\ Len(out) \in Nat
    BY DEF WriteInv
  <1>3. CASE Send
    <2>1. sent' <= MaxRequests
      BY <1>1, <1>3, TCPConnAssumption DEF Send
    <2> QED
      BY <1>2, <1>3, <2>1, WriteSame DEF Send, server
  <1>4. CASE Receive
    <2>1. unread' \in 0 .. Len(out)
      BY <1>2, <1>4, SMT DEF Receive
    <2> QED
      BY <1>2, <1>4, <2>1, WriteSame DEF Receive, server
  <1>5. CASE Finish
    BY <1>2, <1>5, WriteSame DEF Finish, server
  <1>6. CASE ReadOnce
    <2>1. PICK n \in Nat : NextResponse(n)
      BY <1>6, ReadFound
    <2>2. /\ UNCHANGED <<setup, sent, eof, out, unread, answered, taken>> /\ pc = "idle"
      BY <1>6 DEF ReadOnce
    <2>3. /\ taken = 0 /\ bytes_have_send_ = 0
          /\ answered * ResponseSize + (bytes_have_send_ + taken) <= Len(out)
          /\ App # "nginx" => answered * ResponseSize + (bytes_have_send_ + taken) = Len(out)
      BY <2>2 DEF WriteInv
    <2>4. answered * ResponseSize \in Nat
      BY <1>1, SetupType, Products
    <2>5. /\ answered * ResponseSize <= Len(out)
          /\ App # "nginx" => answered * ResponseSize = Len(out)
      BY <2>3, <2>4
    <2> QED
      BY <1>1, <1>2, <2>1, <2>2, <2>3, <2>5, WriteFresh
  <1>7. CASE ReadEnd
    BY <1>7, WriteClosed DEF ReadEnd
  <1>8. CASE WriteOnce
    BY <1>8, WriteWriteOnce
  <1>9. CASE WriteFails
    BY <1>9, WriteClosed DEF WriteFails
  <1>10. CASE WriteBlocking
    BY <1>10, WriteWriteBlocking
  <1>11. CASE UNCHANGED vars
    BY <1>2, <1>11, WriteSame DEF vars
  <1> QED
    BY <1>3, <1>4, <1>5, <1>6, <1>7, <1>8, <1>9, <1>10, <1>11 DEF Next, Serve

-----------------------------------------------------------------------------
(* A client of synthetic_memcached that waits for each response.             *)

\* What a division of the bytes received by the size of a response gives.
LEMMA WholeResponses ==
    ASSUME NEW r \in Nat \ {0}, NEW m \in Nat
    PROVE  /\ m \div r \in Nat /\ (m \div r) * r <= m
           /\ \A a \in Nat : m < a * r + r => m \div r <= a
  <1>1. m \div r \in Nat /\ (m \div r) * r <= m
    BY SMT
  <1>2. ASSUME NEW a \in Nat, m < a * r + r PROVE m \div r <= a
    <2>1. PICK d \in Nat : d = m \div r
      BY <1>1
    <2>2. d * r <= m
      BY <1>1, <2>1
    <2> SUFFICES ASSUME d >= a + 1 PROVE FALSE
      BY <2>1, SMT
    <2>3. d * r >= (a + 1) * r
      BY SMT
    <2>4. (a + 1) * r = a * r + r
      BY Products
    <2> QED
      BY <1>2, <2>2, <2>3, <2>4, SMT
  <1> QED
    BY <1>1, <1>2

\* The client has at most received the responses that were finished, as long as
\* nothing was written twice.
LEMMA ReceivedIsAnswered ==
    ASSUME ReadInv, WriteInv,
           answered * ResponseSize + (bytes_have_send_ + taken) = Len(out)
    PROVE  Received \in Nat /\ Received <= answered /\ Received * ResponseSize <= Len(out) - unread
  <1>1. /\ ResponseSize \in Nat \ {0} /\ answered \in Nat /\ unread \in 0 .. Len(out)
        /\ Len(out) \in Nat /\ bytes_have_send_ \in Nat /\ taken \in Nat
        /\ bytes_have_send_ + taken < ResponseSize
    BY SetupType DEF ReadInv, WriteInv
  <1>2. PICK m \in Nat : m = Len(out) - unread
    <2>1. Len(out) - unread \in Nat
      BY <1>1, SMT
    <2> QED
      BY <2>1
  <1>3. PICK q \in Nat : q = answered * ResponseSize
    BY <1>1, Products
  <1>4. m < answered * ResponseSize + ResponseSize
    <2>1. q + (bytes_have_send_ + taken) = Len(out)
      BY <1>3
    <2>2. m < q + ResponseSize
      BY <1>1, <1>2, <2>1, SMT
    <2> QED
      BY <1>3, <2>2
  <1>5. Received = m \div ResponseSize
    BY <1>2 DEF Received
  <1> QED
    BY <1>1, <1>2, <1>4, <1>5, WholeResponses

\* No step changes the setup, and a closed connection stays closed.
LEMMA Stays ==
    ASSUME [Next]_vars
    PROVE  setup' = setup /\ (pc = "closed" => pc' = "closed")
  BY DEF Next, Serve, vars, Send, Receive, Finish, ReadOnce, ReadEnd, WriteOnce, WriteFails,
         WriteBlocking, server

\* The client sends its next request only when it has had the last response.
LEMMA SingleSend ==
    ASSUME ReadInv, WriteInv, SingleInv, Send, App = "memcached", Depth = 1, pc # "closed"
    PROVE  SingleInv'
  <1> DEFINE request == [i \in 1 .. RequestSize |-> i]
  <1>1. /\ sent - Received < 1 /\ sent' = sent + 1 /\ wire' = wire \o request
        /\ setup' = setup /\ answered' = answered /\ left' = left
        /\ read_buf_' = read_buf_ /\ pc' = pc
    BY DEF Send, server
  <1>2. /\ sent \in Nat /\ answered \in Nat /\ left \in Nat /\ (pc = "write" => left >= 1)
        /\ wire \in Seq(1 .. RequestSize) /\ read_buf_ \in Seq(1 .. RequestSize)
        /\ pc \in {"idle", "write", "closed"}
    BY DEF ReadInv
  <1>3. /\ sent \in {answered, answered + 1} /\ left <= sent - answered
        /\ Len(Pending) = (IF sent = answered + left THEN 0 ELSE RequestSize)
        /\ answered + left + Newlines(wire) = sent
    BY DEF SingleInv
  <1>4. Received \in Nat /\ Received <= answered
    BY ReceivedIsAnswered DEF WriteInv
  <1>5. sent = answered /\ left = 0
    BY <1>1, <1>2, <1>3, <1>4, SMT
  <1>6. pc = "idle" /\ pc' = "idle"
    BY <1>1, <1>2, <1>5, SMT
  <1>7. Len(read_buf_) + Len(wire) = 0
    BY <1>2, <1>3, <1>5, <1>6, Joined, SMT DEF Pending
  <1>8. request \in Seq(1 .. RequestSize) /\ Newlines(request) = 1 /\ Len(request) = RequestSize
    BY NewlinesOfRequest, TCPConnAssumption
  <1> HIDE DEF request
  <1>9. Newlines(wire') = Newlines(wire) + 1 /\ Newlines(wire) \in Nat
    BY <1>1, <1>2, <1>8, NewlinesConcat, NewlinesType
  <1>10. Len(Pending') = RequestSize
    <2>1. Pending' = read_buf_ \o (wire \o request)
      BY <1>1, <1>6 DEF Pending
    <2>2. wire \o request \in Seq(1 .. RequestSize) /\ Len(wire \o request) = Len(wire) + RequestSize
      BY <1>2, <1>8, Joined
    <2>3. Len(read_buf_ \o (wire \o request)) = Len(read_buf_) + (Len(wire) + RequestSize)
      BY <1>2, <2>2, Joined
    <2>4. Len(read_buf_) \in Nat /\ Len(wire) \in Nat /\ RequestSize \in Nat
      BY <1>2, TCPConnAssumption
    <2> QED
      BY <1>7, <2>1, <2>3, <2>4, SMT
  <1>11. /\ sent' \in {answered', answered' + 1} /\ left' <= sent' - answered'
         /\ sent' # answered' + left'
         /\ answered' + left' + Newlines(wire') = sent'
    BY <1>1, <1>2, <1>3, <1>5, <1>9, SMT
  <1> QED
    BY <1>10, <1>11 DEF SingleInv

\* What synthetic_memcached's division of the bytes read gives for up to one request.
LEMMA WholeRequests ==
    ASSUME NEW r \in Nat \ {0}
    PROVE  r \div r = 1 /\ \A m \in Nat : m < r => m \div r = 0
  BY SMT

\* A read finds the request exactly when it brings its last byte.
LEMMA SingleRead ==
    ASSUME ReadInv, SingleInv, ReadOnce, App = "memcached", Depth = 1
    PROVE  SingleInv'
  <1>1. PICK n \in 1 .. Min({Len(wire), ReadBufferSize - Len(read_buf_)}) :
            /\ wire' = SubSeq(wire, n + 1, Len(wire))
            /\ read_buf_' = read_buf_ \o SubSeq(wire, 1, n)
            /\ NextResponse(ParseMultiRequest(read_buf_ \o SubSeq(wire, 1, n)))
    BY DEF ReadOnce
  <1> DEFINE head == SubSeq(wire, 1, n)
             tail == SubSeq(wire, n + 1, Len(wire))
             buf == read_buf_ \o head
             found == Len(buf) \div RequestSize
  <1>2. RequestSize \in Nat \ {0} /\ ReadBufferSize \in Nat
    BY TCPConnAssumption
  <1>3. /\ wire \in Seq(1 .. RequestSize) /\ read_buf_ \in Seq(1 .. RequestSize)
        /\ sent \in Nat /\ answered \in Nat /\ pc = "idle" /\ left = 0
        /\ EndsRequest(read_buf_ \o wire) /\ InSequence(read_buf_ \o wire)
    BY DEF ReadInv, ReadOnce, Pending
  <1>4. /\ setup' = setup /\ sent' = sent /\ answered' = answered
        /\ wire' = tail /\ read_buf_' = buf
        /\ pc' = (IF found > 0 THEN "write" ELSE "idle") /\ left' = found
    BY <1>1, Zenon DEF ReadOnce, NextResponse, ParseMultiRequest
  <1>5. /\ sent \in {answered, answered + 1}
        /\ Len(read_buf_ \o wire) = (IF sent = answered THEN 0 ELSE RequestSize)
        /\ answered + Newlines(wire) = sent
    <2>1. /\ sent \in {answered, answered + 1}
          /\ Len(Pending) = (IF sent = answered + left THEN 0 ELSE RequestSize)
          /\ answered + left + Newlines(wire) = sent
      BY <1>3 DEF SingleInv
    <2>2. Pending = read_buf_ \o wire /\ answered + left = answered
      BY <1>3 DEF Pending
    <2> QED
      BY <2>1, <2>2, Zenon
  <1>6. n \in 1 .. Len(wire)
    <2>1. Len(wire) \in Int /\ ReadBufferSize - Len(read_buf_) \in Int
      BY <1>2, <1>3
    <2>2. /\ Min({Len(wire), ReadBufferSize - Len(read_buf_)}) \in Int
          /\ Min({Len(wire), ReadBufferSize - Len(read_buf_)}) <= Len(wire)
      BY <2>1, MinOfTwo, Zenon
    <2> QED
      BY <1>1, <2>1, <2>2, SMT
  <1>7. /\ head \in Seq(1 .. RequestSize) /\ tail \in Seq(1 .. RequestSize)
        /\ head \o tail = wire
    BY <1>3, <1>6, CutInTwo, Zenon
  <1>8. Len(tail) = Len(wire) - n /\ Len(tail) \in Nat
    BY <1>3, <1>6, SMT
  <1> HIDE DEF head, tail
  <1>9. buf \in Seq(1 .. RequestSize) /\ Len(buf) \in Nat
    BY <1>3, <1>7, Joined, Zenon
  <1>10. read_buf_ \o wire = buf \o tail
    BY <1>3, <1>7, JoinAssociative, Zenon
  <1>11. Len(buf \o tail) = Len(buf) + Len(tail)
    BY <1>7, <1>9, Joined
  <1>12. Len(read_buf_ \o wire) >= 1
    <2>1. Len(read_buf_ \o wire) = Len(read_buf_) + Len(wire) /\ Len(read_buf_) \in Nat /\ Len(wire) \in Nat
      BY <1>3, Joined
    <2> QED
      BY <1>6, <2>1, SMT
  <1>13. sent = answered + 1 /\ Len(buf) + Len(tail) = RequestSize /\ Newlines(wire) = 1
    <2>1. sent # answered
      BY <1>5, <1>12, SMT
    <2>2. Newlines(wire) \in Nat
      BY <1>3, NewlinesType
    <2> QED
      BY <1>3, <1>5, <1>10, <1>11, <2>1, <2>2, SMT
  <1>14. Newlines(head) + Newlines(tail) = 1 /\ Newlines(head) \in Nat /\ Newlines(tail) \in Nat
    BY <1>7, <1>13, NewlinesConcat, NewlinesType
  <1> HIDE DEF buf
  <1>15. CASE Len(tail) = 0
    <2>1. tail = <<>>
      BY <1>7, <1>15
    <2>2. Newlines(tail) = 0
      BY <2>1, NewlinesEmpty
    <2>3. found = 1
      <3>1. Len(buf) = RequestSize
        BY <1>9, <1>13, <1>15, SMT
      <3> QED
        BY <1>2, <3>1, WholeRequests, Zenon
    <2>4. pc' = "write" /\ left' = 1 /\ Pending' = tail
      BY <1>4, <2>3 DEF Pending
    <2> QED
      BY <1>3, <1>4, <1>13, <1>15, <2>2, <2>4, SMT DEF SingleInv
  <1>16. CASE Len(tail) # 0
    <2>1. found = 0
      <3>1. Len(buf) < RequestSize
        BY <1>8, <1>9, <1>13, <1>16, SMT
      <3> QED
        BY <1>2, <1>9, <3>1, WholeRequests, Zenon
    <2>2. pc' = "idle" /\ left' = 0 /\ Pending' = buf \o tail
      BY <1>4, <2>1 DEF Pending
    <2>3. Newlines(tail) = 1
      <3>1. InSequence(buf \o tail) /\ EndsRequest(buf \o tail)
        BY <1>3, <1>10
      <3>2. EndsRequest(tail)
        BY <1>7, <1>9, <3>1, StreamSuffix
      <3>3. tail # <<>> /\ Len(tail) \in 1 .. Len(tail)
        BY <1>7, <1>8, <1>16
      <3>4. tail[Len(tail)] = RequestSize
        BY <3>2, <3>3 DEF EndsRequest
      <3>5. Newlines(tail) # 0
        BY <1>7, <3>3, <3>4, NewlinesType
      <3> QED
        BY <1>14, <3>5, SMT
    <2>4. /\ sent' = answered' + 1 /\ left' = 0 /\ Len(Pending') = RequestSize
          /\ Newlines(wire') = 1 /\ answered' \in Nat
      BY <1>3, <1>4, <1>11, <1>13, <2>2, <2>3
    <2>5. /\ sent' \in {answered', answered' + 1} /\ left' <= sent' - answered'
          /\ sent' # answered' + left' /\ answered' + left' + Newlines(wire') = sent'
      <3>1. PICK a \in Nat : answered' = a
        BY <2>4
      <3>2. sent' = a + 1 /\ left' = 0 /\ Newlines(wire') = 1
        BY <2>4, <3>1
      <3> QED
        BY <3>1, <3>2
    <2> QED
      BY <2>4, <2>5 DEF SingleInv
  <1> QED
    BY <1>15, <1>16

\* The response is complete: nothing is outstanding any more.
LEMMA SingleWritten ==
    ASSUME ReadInv, SingleInv, WriteAll, pc = "write", UNCHANGED <<setup, sent, wire>>,
           App = "memcached", Depth = 1
    PROVE  SingleInv'
  <1>1. /\ sent \in Nat /\ answered \in Nat /\ left \in Nat /\ left >= 1
        /\ wire \in Seq(1 .. RequestSize) /\ Newlines(wire) \in Nat
    BY NewlinesType DEF ReadInv
  <1>2. /\ sent \in {answered, answered + 1} /\ left <= sent - answered
        /\ Len(wire) = (IF sent = answered + left THEN 0 ELSE RequestSize)
        /\ answered + left + Newlines(wire) = sent
    BY DEF SingleInv, Pending
  <1>3. left = 1 /\ sent = answered + 1 /\ Len(wire) = 0 /\ Newlines(wire) = 0
    BY <1>1, <1>2, SMT
  <1>4. answered' = answered + 1 /\ read_buf_' = <<>> /\ left' = 0 /\ pc' = "idle"
    BY <1>3 DEF WriteAll, NextResponse
  <1>5. Len(Pending') = 0
    <2>1. Pending' = <<>> \o wire
      BY <1>4 DEF Pending
    <2> QED
      BY <1>1, <1>3, <2>1
  <1> QED
    BY <1>1, <1>3, <1>4, <1>5 DEF SingleInv

\* Every step keeps what is said of the one request outstanding.
LEMMA SingleStep == ReadInv /\ WriteInv /\ SingleInv /\ [Next]_vars => SingleInv'
  <1> SUFFICES ASSUME ReadInv, WriteInv, SingleInv, [Next]_vars,
                      App' = "memcached", Depth' = 1, pc' # "closed"
               PROVE  SingleInv'
    BY DEF SingleInv
  <1>1. App = "memcached" /\ Depth = 1 /\ pc # "closed"
    BY Stays DEF App, Depth
  <1>2. ASSUME UNCHANGED <<setup, sent, wire, answered, read_buf_, pc, left>> PROVE SingleInv'
    BY <1>2 DEF SingleInv, App, Depth, Pending
  <1>3. CASE Send
    BY <1>1, <1>3, SingleSend
  <1>4. CASE Receive
    BY <1>2, <1>4 DEF Receive, server
  <1>5. CASE Finish
    BY <1>2, <1>5 DEF Finish, server
  <1>6. CASE ReadOnce
    BY <1>1, <1>6, SingleRead
  <1>7. CASE ReadEnd
    BY <1>7 DEF ReadEnd
  <1>8. CASE WriteOnce
    <2>1. /\ pc = "write" /\ UNCHANGED <<setup, sent, wire>>
          /\ WriteAll \/ UNCHANGED <<answered, read_buf_, pc, left>>
      BY <1>8, Zenon DEF WriteOnce
    <2> QED
      BY <1>1, <1>2, <2>1, SingleWritten
  <1>9. CASE WriteFails
    BY <1>9 DEF WriteFails
  <1>10. CASE WriteBlocking
    <2>1. /\ pc = "write" /\ UNCHANGED <<setup, sent, wire>>
          /\ WriteAll \/ UNCHANGED <<answered, read_buf_, pc, left>>
      BY <1>10, Zenon DEF WriteBlocking
    <2> QED
      BY <1>1, <1>2, <2>1, SingleWritten
  <1>11. CASE UNCHANGED vars
    BY <1>2, <1>11 DEF vars
  <1> QED
    BY <1>3, <1>4, <1>5, <1>6, <1>7, <1>8, <1>9, <1>10, <1>11 DEF Next, Serve

-----------------------------------------------------------------------------
(* A connection whose application copes.                                     *)

\* The smaller of two integers is one of them.
LEMMA MinIsOne ==
    ASSUME NEW a \in Int, NEW b \in Int
    PROVE  Min({a, b}) \in {a, b}
  <1>1. \E x \in {a, b} : \A y \in {a, b} : x <= y
    OBVIOUS
  <1> QED
    BY <1>1, Zenon DEF Min

\* Where requests are counted right, each one read to its end is answered or left
\* for the loop to answer.
LEMMA Counted ==
    ASSUME ReadInv, SingleInv, Counts, pc # "closed"
    PROVE  /\ answered + left + Newlines(wire) = sent /\ Newlines(wire) \in Nat
           /\ sent \in Nat /\ answered \in Nat /\ left \in Nat
  <1>1. sent \in Nat /\ answered \in Nat /\ left \in Nat /\ Newlines(wire) \in Nat
    BY NewlinesType DEF ReadInv
  <1>2. CASE App = "memcached"
    BY <1>1, <1>2 DEF Counts, SingleInv
  <1>3. CASE App # "memcached"
    BY <1>1, <1>3 DEF ReadInv
  <1> QED
    BY <1>2, <1>3

\* A client that is owed no more than the socket has room for leaves room for the
\* response that is next.
LEMMA RoomLeft ==
    ASSUME NEW r \in Nat \ {0}, NEW a \in Nat, NEW g \in Nat, NEW d \in Nat, NEW u \in Nat,
           NEW room \in Nat, a + 1 <= g + d, g * r + u <= a * r, d * r <= room
    PROVE  r <= room - u
  <1>1. (a + 1) * r <= (g + d) * r
    BY SMT
  <1>2. (a + 1) * r = a * r + r /\ (g + d) * r = g * r + d * r
    BY SMT
  <1>3. PICK ar \in Nat, gr \in Nat, dr \in Nat : ar = a * r /\ gr = g * r /\ dr = d * r
    BY Products
  <1>4. ar + r <= gr + dr /\ gr + u <= ar /\ dr <= room
    BY <1>1, <1>2, <1>3
  <1> QED
    BY <1>4, SMT

\* ... so that the loops which cannot continue a response write it at once.
LEMMA RoomForResponse ==
    ASSUME ReadInv, WriteInv, SingleInv, CopeInv, Copes, pc = "write",
           App # "redis", Build # "blocking"
    PROVE  ResponseSize <= SendBuffer - unread
  <1>1. /\ ResponseSize \in Nat \ {0} /\ SendBuffer \in Nat /\ Depth \in Nat
        /\ answered \in Nat /\ left \in Nat /\ left >= 1 /\ unread \in 0 .. Len(out)
        /\ Len(out) \in Nat /\ taken = 0 /\ sent \in Nat
    BY SMTT(60), SetupType DEF ReadInv, WriteInv
  <1>2. /\ bytes_have_send_ = 0 /\ sent <= Received + Depth
        /\ answered * ResponseSize + (bytes_have_send_ + taken) = Len(out)
    BY DEF CopeInv
  <1>3. Received \in Nat /\ Received * ResponseSize <= Len(out) - unread
    BY <1>2, ReceivedIsAnswered
  <1>4. Counts /\ SendBuffer >= Depth * ResponseSize
    BY DEF Copes
  <1>5. answered + 1 <= sent
    BY <1>1, <1>4, Counted, SMT
  <1>6. answered + 1 <= Received + Depth
    BY <1>1, <1>2, <1>3, <1>5, SMT
  <1>7. Received * ResponseSize + unread <= answered * ResponseSize
    <2>1. PICK gr \in Nat, ar \in Nat : gr = Received * ResponseSize /\ ar = answered * ResponseSize
      BY <1>1, <1>3, Products
    <2>2. ar = Len(out) /\ gr <= Len(out) - unread
      BY <1>1, <1>2, <1>3, <2>1
    <2> QED
      BY <1>1, <2>1, <2>2, SMT
  <1>8. unread \in Nat /\ Depth * ResponseSize <= SendBuffer
    <2>1. Depth * ResponseSize \in Nat
      BY <1>1, Products
    <2> QED
      BY <1>1, <1>4, <2>1
  <1> QED
    BY <1>1, <1>3, <1>6, <1>7, <1>8, RoomLeft

\* The next bytes of the response that is being written are its next bytes.
LEMMA CopeWrote ==
    ASSUME ReadInv, WriteInv, CopeInv, Copes, setup' = setup,
           NEW n \in Nat, NEW c \in Seq(Nat), Len(c) = n, out' = out \o c,
           bytes_have_send_ + taken + n <= ResponseSize,
           \A j \in 1 .. n : c[j] = bytes_have_send_ + taken + j
    PROVE  ResponsesIntact'
  <1>1. /\ ResponseSize \in Nat \ {0} /\ answered \in Nat /\ out \in Seq(Nat)
        /\ bytes_have_send_ \in Nat /\ taken \in Nat
    BY SetupType DEF ReadInv, WriteInv
  <1>2. PICK p \in Nat : p = bytes_have_send_ + taken
    BY <1>1
  <1>3. Len(out) = answered * ResponseSize + p
    BY <1>2 DEF CopeInv
  <1>4. \A i \in 1 .. Len(out) : out[i] = 1 + ((i - 1) % ResponseSize)
    <2>1. DOMAIN out = 1 .. Len(out)
      BY <1>1
    <2> QED
      BY <2>1, Zenon DEF CopeInv, ResponsesIntact
  <1>5. p + n <= ResponseSize /\ \A j \in 1 .. n : c[j] = p + j
    BY <1>2
  <1>6. \A i \in 1 .. Len(out \o c) : (out \o c)[i] = 1 + ((i - 1) % ResponseSize)
    <2> DEFINE u == out \o c
    <2>1. PICK r \in Nat \ {0} : r = ResponseSize
      BY <1>1
    <2>2. PICK q \in Nat : q = answered * r
      BY <1>1, <2>1, Products
    <2>3. /\ Len(out) \in Nat /\ Len(u) = Len(out) + n
          /\ \A i \in 1 .. Len(out) : u[i] = out[i]
          /\ \A j \in 1 .. n : u[Len(out) + j] = c[j]
      BY <1>1, JoinedBytes
    <2> HIDE DEF u
    <2> SUFFICES ASSUME NEW i \in 1 .. Len(u) PROVE u[i] = 1 + ((i - 1) % r)
      BY <2>1 DEF u
    <2>4. CASE i \in 1 .. Len(out)
      BY <1>4, <2>1, <2>3, <2>4, Zenon
    <2>5. CASE i \notin 1 .. Len(out)
      <3>1. PICK j \in 1 .. n : i = Len(out) + j
        <4>1. i - Len(out) \in 1 .. n /\ i = Len(out) + (i - Len(out))
          BY <2>3, <2>5, SMT
        <4> QED
          BY <4>1
      <3>2. PICK k \in 1 .. r : k = p + j
        BY <1>5, <2>1
      <3>3. i = answered * r + k
        <4>1. Len(out) = q + p
          BY <1>3, <2>1, <2>2
        <4>2. i = q + k
          BY <3>1, <3>2, <4>1
        <4> QED
          BY <2>2, <4>2
      <3>4. u[i] = k
        BY <1>5, <2>3, <3>1, <3>2, Zenon
      <3>5. 1 + (((answered * r + k) - 1) % r) = k
        BY <1>1, PlaceOf, Zenon
      <3> QED
        BY <3>3, <3>4, <3>5, Zenon
    <2> QED
      BY <2>4, <2>5
  <1>7. DOMAIN (out \o c) = 1 .. Len(out \o c)
    BY <1>1
  <1>8. ResponseSize' = ResponseSize
    BY DEF ResponseSize, Segments
  <1> QED
    BY <1>6, <1>7, <1>8 DEF ResponsesIntact

\* A round of WriteOnce's loop writes the rest of the response, or for
\* synthetic_redis a further piece of it.
LEMMA CopeWriteOnce ==
    ASSUME ReadInv, WriteInv, SingleInv, CopeInv, Copes, WriteOnce
    PROVE  /\ ResponsesIntact'
           /\ answered' * ResponseSize + (bytes_have_send_' + taken') = Len(out')
           /\ pc' = "write" /\ App # "redis" => iv_' = Response /\ bytes_have_send_' = 0
           /\ Len(out') >= Len(out) /\ Len(out') - unread' = Len(out) - unread
  <1> DEFINE bytes == Bytes(ToWrite)
             n == Min({Len(bytes), SendBuffer - unread})
             c == SubSeq(bytes, 1, n)
  <1>1. setup \in Setups /\ answered \in Nat /\ pc = "write"
    BY DEF ReadInv, WriteOnce
  <1>2. /\ Build # "blocking" /\ Valid(ToWrite) /\ n > 0
        /\ out' = out \o c /\ unread' = unread + n
        /\ UNCHANGED <<setup, sent, wire, eof, taken>>
        /\ \/ bytes_to_send_ - n <= 0 /\ WriteAll
           \/ /\ bytes_to_send_ - n > 0
              /\ bytes_have_send_' = bytes_have_send_ + n
              /\ UNCHANGED <<answered, pc>>
    BY DEF WriteOnce
  <1>3. /\ ResponseSize \in Nat \ {0} /\ SendBuffer \in Nat /\ SizeMod \in Nat
        /\ SizeMod > 2 * ResponseSize + 1
    BY <1>1, SetupType
  <1>4. /\ out \in Seq(Nat) /\ unread \in 0 .. Len(out) /\ Len(out) \in Nat
        /\ bytes_to_send_ \in Nat /\ bytes_have_send_ \in Nat /\ taken = 0
        /\ bytes_to_send_ + bytes_have_send_ = ResponseSize
    BY <1>1, <1>2 DEF WriteInv
  <1>5. /\ bytes \in Seq(Nat) /\ Len(bytes) = bytes_to_send_
        /\ \A j \in 1 .. bytes_to_send_ : bytes[j] = bytes_have_send_ + j
        /\ App # "redis" => bytes_have_send_ = 0
    <2>1. CASE App = "redis"
      <3>1. ToWrite = OnePart(bytes_have_send_, bytes_to_send_)
        BY <2>1 DEF ToWrite
      <3>2. bytes_have_send_ + bytes_to_send_ = ResponseSize
        BY <1>4, SMT
      <3> QED
        BY <1>3, <1>4, <2>1, <3>1, <3>2, OnePartBytes
    <2>2. CASE App # "redis"
      <3>1. ToWrite = Response /\ bytes_have_send_ = 0
        BY <1>1, <2>2 DEF ToWrite, CopeInv
      <3>2. bytes_to_send_ = ResponseSize
        BY <1>3, <1>4, <3>1, SMT
      <3>3. /\ bytes \in Seq(Nat) /\ Len(bytes) = ResponseSize
            /\ \A j \in 1 .. ResponseSize : bytes[j] = j
        BY <1>1, <3>1, ResponseBytes
      <3> HIDE DEF bytes
      <3>4. \A j \in 1 .. bytes_to_send_ : bytes[j] = bytes_have_send_ + j
        BY <1>3, <3>1, <3>2, <3>3
      <3> QED
        BY <3>1, <3>2, <3>3, <3>4
    <2> QED
      BY <2>1, <2>2
  <1>6. n \in Nat \ {0} /\ n <= bytes_to_send_ /\ (App # "redis" => n = bytes_to_send_)
    <2>1. SendBuffer - unread \in Int /\ Len(bytes) \in Int
      BY <1>3, <1>4, <1>5, SMT
    <2>2. n \in Int /\ n <= Len(bytes)
      BY <2>1, MinOfTwo
    <2>3. n > 0
      BY <1>2, Zenon
    <2>4. App # "redis" => Len(bytes) <= SendBuffer - unread
      <3>1. SUFFICES ASSUME App # "redis" PROVE Len(bytes) <= SendBuffer - unread
        OBVIOUS
      <3>2. ResponseSize <= SendBuffer - unread
        BY <1>1, <1>2, <3>1, RoomForResponse
      <3> QED
        BY <1>3, <1>4, <1>5, <2>1, <3>2, SMT
    <2>5. n \in {Len(bytes), SendBuffer - unread}
      BY <2>1, MinIsOne
    <2> HIDE DEF n
    <2> QED
      BY <1>4, <1>5, <2>1, <2>2, <2>3, <2>4, <2>5, SMT
  <1> HIDE DEF n
  <1>7. c \in Seq(Nat) /\ Len(c) = n /\ \A j \in 1 .. n : c[j] = bytes[j]
    BY <1>5, <1>6
  <1> HIDE DEF c, bytes
  <1>8. \A j \in 1 .. n : c[j] = bytes_have_send_ + taken + j
    <2> SUFFICES ASSUME NEW j \in 1 .. n PROVE c[j] = bytes_have_send_ + taken + j
      OBVIOUS
    <2>1. j \in 1 .. bytes_to_send_
      BY <1>4, <1>6, SMT
    <2>2. c[j] = bytes_have_send_ + j
      BY <1>5, <1>7, <2>1, Zenon
    <2> QED
      BY <1>4, <2>2
  <1>9. ResponsesIntact'
    <2>1. bytes_have_send_ + taken + n <= ResponseSize /\ setup' = setup /\ out' = out \o c
      BY <1>2, <1>3, <1>4, <1>6, SMT
    <2> QED
      BY <1>6, <1>7, <1>8, <2>1, CopeWrote
  <1>10. Len(out') = Len(out) + n
    BY <1>2, <1>4, <1>7, JoinedBytes
  <1>11. Len(out') >= Len(out) /\ Len(out') - unread' = Len(out) - unread
    <2>1. unread' = unread + n
      BY <1>2
    <2> QED
      BY <1>4, <1>6, <1>10, <2>1, SMT
  <1>12. PICK q \in Nat : /\ q = answered * ResponseSize
                          /\ (answered + 1) * ResponseSize = q + ResponseSize
    BY <1>1, <1>3, Products
  <1>13. q + bytes_have_send_ = Len(out)
    BY <1>4, <1>12 DEF CopeInv
  <1>14. CASE bytes_to_send_ - n <= 0 /\ WriteAll
    <2>1. /\ answered' = answered + 1 /\ bytes_have_send_' = 0 /\ taken' = 0
          /\ pc' = "write" => iv_' = Response
      BY <1>2, <1>4, <1>14 DEF WriteAll, NextResponse
    <2>2. Len(out') = q + ResponseSize
      <3>1. n = bytes_to_send_
        BY <1>4, <1>6, <1>14, SMT
      <3> QED
        BY <1>3, <1>4, <1>6, <1>10, <1>13, <3>1, SMT
    <2>3. answered' * ResponseSize + (bytes_have_send_' + taken') = q + ResponseSize
      BY <1>3, <1>12, <2>1
    <2> QED
      BY <1>9, <1>11, <2>1, <2>2, <2>3
  <1>15. CASE /\ bytes_to_send_ - n > 0
              /\ bytes_have_send_' = bytes_have_send_ + n
              /\ UNCHANGED <<answered, pc>>
    <2>1. App = "redis"
      BY <1>4, <1>6, <1>15, SMT
    <2>2. answered' * ResponseSize + (bytes_have_send_' + taken') = q + (bytes_have_send_ + n)
      BY <1>2, <1>4, <1>6, <1>12, <1>15
    <2>3. q + (bytes_have_send_ + n) = Len(out')
      BY <1>4, <1>6, <1>10, <1>13, SMT
    <2> QED
      BY <1>9, <1>11, <2>1, <2>2, <2>3
  <1> QED
    BY <1>2, <1>14, <1>15

\* A writev() that blocks writes the response piece by piece.
LEMMA CopeWriteBlocking ==
    ASSUME ReadInv, WriteInv, CopeInv, Copes, WriteBlocking
    PROVE  /\ ResponsesIntact'
           /\ answered' * ResponseSize + (bytes_have_send_' + taken') = Len(out')
           /\ pc' = "write" /\ App # "redis" => iv_' = Response /\ bytes_have_send_' = 0
           /\ Len(out') >= Len(out) /\ Len(out') - unread' = Len(out) - unread
  <1> DEFINE n == Min({ResponseSize - taken, SendBuffer - unread})
             c == SubSeq(Bytes(iv_), taken + 1, taken + n)
  <1>1. setup \in Setups /\ answered \in Nat /\ pc = "write"
    BY DEF ReadInv, WriteBlocking
  <1>2. /\ Build = "blocking" /\ n > 0
        /\ out' = out \o c /\ unread' = unread + n
        /\ UNCHANGED <<setup, sent, wire, eof>>
        /\ \/ taken + n = ResponseSize /\ taken' = 0 /\ WriteAll
           \/ /\ taken + n < ResponseSize
              /\ taken' = taken + n
              /\ UNCHANGED <<answered, iv_, bytes_have_send_, pc>>
    BY DEF WriteBlocking
  <1>3. /\ ResponseSize \in Nat \ {0} /\ SendBuffer \in Nat
    BY <1>1, SetupType
  <1>4. /\ out \in Seq(Nat) /\ unread \in 0 .. Len(out) /\ Len(out) \in Nat
        /\ taken \in Nat /\ taken < ResponseSize /\ iv_ = Response
        /\ bytes_have_send_ = 0
    BY SMTT(60), <1>1, <1>2 DEF WriteInv
  <1>5. n \in Nat \ {0} /\ taken + n <= ResponseSize
    <2>1. SendBuffer - unread \in Int /\ ResponseSize - taken \in Int
      BY <1>3, <1>4, SMT
    <2>2. n \in Int /\ n <= ResponseSize - taken
      BY <2>1, MinOfTwo
    <2>3. n > 0
      BY <1>2, Zenon
    <2> QED
      BY <1>3, <1>4, <2>2, <2>3, SMT
  <1> HIDE DEF n
  <1>6. /\ Bytes(iv_) \in Seq(Nat) /\ Len(Bytes(iv_)) = ResponseSize
        /\ \A j \in 1 .. ResponseSize : Bytes(iv_)[j] = j
    BY <1>1, <1>4, ResponseBytes
  <1>7. c \in Seq(Nat) /\ Len(c) = n /\ \A j \in 1 .. n : c[j] = Bytes(iv_)[taken + j]
    <2>1. taken \in Nat /\ n \in Nat /\ taken + n <= Len(Bytes(iv_))
      BY <1>4, <1>5, <1>6
    <2> QED
      BY <1>6, <2>1, Taken
  <1> HIDE DEF c
  <1>8. \A j \in 1 .. n : c[j] = bytes_have_send_ + taken + j
    <2> SUFFICES ASSUME NEW j \in 1 .. n PROVE c[j] = bytes_have_send_ + taken + j
      OBVIOUS
    <2>1. taken + j \in 1 .. ResponseSize
      BY <1>3, <1>4, <1>5, SMT
    <2>2. c[j] = taken + j
      BY <1>6, <1>7, <2>1, Zenon
    <2> QED
      BY <1>4, <2>2
  <1>9. ResponsesIntact'
    <2>1. bytes_have_send_ + taken + n <= ResponseSize /\ setup' = setup /\ out' = out \o c
      BY <1>2, <1>3, <1>4, <1>5, SMT
    <2> QED
      BY <1>5, <1>7, <1>8, <2>1, CopeWrote
  <1>10. Len(out') = Len(out) + n
    BY <1>2, <1>4, <1>7, JoinedBytes
  <1>11. Len(out') >= Len(out) /\ Len(out') - unread' = Len(out) - unread
    <2>1. unread' = unread + n
      BY <1>2
    <2> QED
      BY <1>4, <1>5, <1>10, <2>1, SMT
  <1>12. PICK q \in Nat : /\ q = answered * ResponseSize
                          /\ (answered + 1) * ResponseSize = q + ResponseSize
    BY <1>1, <1>3, Products
  <1>13. q + taken = Len(out)
    BY <1>4, <1>12 DEF CopeInv
  <1>14. CASE taken + n = ResponseSize /\ taken' = 0 /\ WriteAll
    <2>1. /\ answered' = answered + 1 /\ bytes_have_send_' = 0 /\ taken' = 0
          /\ pc' = "write" => iv_' = Response
      BY <1>14 DEF WriteAll, NextResponse
    <2>2. Len(out') = q + ResponseSize
      BY <1>3, <1>4, <1>5, <1>10, <1>13, <1>14, SMT
    <2>3. answered' * ResponseSize + (bytes_have_send_' + taken') = q + ResponseSize
      BY <1>3, <1>12, <2>1
    <2> QED
      BY <1>9, <1>11, <2>1, <2>2, <2>3
  <1>15. CASE taken + n < ResponseSize /\ taken' = taken + n
              /\ UNCHANGED <<answered, iv_, bytes_have_send_, pc>>
    <2>1. answered' * ResponseSize + (bytes_have_send_' + taken') = q + (taken + n)
      BY <1>4, <1>5, <1>12, <1>15
    <2>2. q + (taken + n) = Len(out')
      BY <1>4, <1>5, <1>10, <1>13, SMT
    <2> QED
      BY <1>4, <1>9, <1>11, <1>15, <2>1, <2>2
  <1> QED
    BY <1>2, <1>14, <1>15

\* The connection is only closed when everything the client has sent was answered.
LEMMA CopeReadEnd ==
    ASSUME ReadInv, WriteInv, SingleInv, CopeInv, Copes, ReadEnd
    PROVE  eof /\ wire = <<>> /\ Len(out) = sent * ResponseSize
  <1>1. /\ ResponseSize \in Nat \ {0} /\ answered \in Nat /\ sent \in Nat
        /\ wire \in Seq(1 .. RequestSize) /\ read_buf_ \in Seq(1 .. RequestSize)
        /\ pc = "idle" /\ left = 0 /\ Len(read_buf_) < RequestSize
    BY SetupType DEF ReadInv, ReadEnd
  <1>2. Len(out) = answered * ResponseSize
    <2>1. bytes_have_send_ = 0 /\ taken = 0
      BY <1>1 DEF WriteInv
    <2>2. answered * ResponseSize \in Nat
      BY <1>1, Products
    <2> QED
      BY <2>1, <2>2 DEF CopeInv
  <1>3. answered + Newlines(wire) = sent /\ Newlines(wire) \in Nat
    <2>1. answered + left + Newlines(wire) = sent /\ Newlines(wire) \in Nat
      BY <1>1, Counted DEF Copes
    <2> QED
      BY <1>1, <2>1
  <1>4. Len(read_buf_) # ReadBufferSize
    BY <1>1, TCPConnAssumption
  <1>5. CASE eof /\ wire = <<>>
    <2>1. answered = sent
      BY <1>1, <1>3, <1>5, NewlinesEmpty
    <2> QED
      BY <1>2, <1>5, <2>1
  <1>6. CASE Build = "epoll" /\ eof
    <2>1. Len(out) >= sent * ResponseSize
      BY <1>6 DEF CopeInv
    <2>2. PICK m \in Nat : m = Newlines(wire)
      BY <1>3
    <2>3. m = 0
      <3> SUFFICES ASSUME m >= 1 PROVE FALSE
        OBVIOUS
      <3>1. PICK d \in Nat : m = d + 1
        <4>1. m - 1 \in Nat /\ m = (m - 1) + 1
          OBVIOUS
        <4> QED
          BY <4>1
      <3>2. sent = (answered + d) + 1
        BY <1>1, <1>3, <2>2, <3>1
      <3>3. sent * ResponseSize = (answered + d) * ResponseSize + ResponseSize
        BY <1>1, <3>2, Products
      <3>4. (answered + d) * ResponseSize >= answered * ResponseSize
        BY <1>1, SMT
      <3>5. PICK x \in Nat, y \in Nat : x = (answered + d) * ResponseSize /\ y = answered * ResponseSize
        BY <1>1, Products
      <3>6. y >= x + ResponseSize /\ x >= y
        BY <1>2, <2>1, <3>3, <3>4, <3>5
      <3> QED
        BY <1>1, <3>6, SMT
    <2>4. wire = <<>>
      <3> SUFFICES ASSUME wire # <<>> PROVE FALSE
        OBVIOUS
      <3>1. EndsRequest(wire)
        <4>1. InSequence(read_buf_ \o wire) /\ EndsRequest(read_buf_ \o wire)
          BY <1>1 DEF ReadInv, Pending
        <4> QED
          BY <1>1, <4>1, StreamSuffix
      <3>2. wire[Len(wire)] = RequestSize
        BY <3>1 DEF EndsRequest
      <3>3. Len(wire) \in 1 .. Len(wire)
        BY <1>1
      <3>4. Newlines(wire) = 0
        BY <2>2, <2>3
      <3> QED
        BY <1>1, <3>2, <3>3, <3>4, NewlinesType, Zenon
    <2>5. answered = sent
      BY <1>1, <1>3, <2>2, <2>3
    <2> QED
      BY <1>2, <1>6, <2>4, <2>5
  <1>7. ~Breaks
    BY Zenon DEF Copes
  <1> QED
    BY Zenon, <1>4, <1>5, <1>6, <1>7 DEF ReadEnd

\* A writev() of a response, or of the rest of one, is never refused.
LEMMA CopeValid ==
    ASSUME ReadInv, WriteInv, CopeInv, Copes, pc = "write"
    PROVE  Valid(ToWrite)
  <1>1. setup \in Setups /\ ResponseSize \in Nat /\ SizeMod \in Nat /\ SizeMod > 2 * ResponseSize + 1
    BY SetupType DEF ReadInv
  <1>2. CASE App = "redis"
    <2>1. /\ ToWrite = OnePart(bytes_have_send_, bytes_to_send_)
          /\ bytes_have_send_ \in Nat /\ bytes_to_send_ \in Nat
          /\ bytes_to_send_ + bytes_have_send_ = ResponseSize
      BY <1>2 DEF ToWrite, WriteInv
    <2>2. bytes_have_send_ + bytes_to_send_ = ResponseSize
      BY <2>1
    <2> QED
      BY <1>1, <2>1, <2>2, OnePartBytes
  <1>3. CASE App # "redis"
    <2>1. ToWrite = Response
      BY <1>3 DEF ToWrite, CopeInv
    <2> QED
      BY <1>1, <2>1, ResponseBytes
  <1> QED
    BY <1>2, <1>3

\* The more bytes the client has received, the more responses.
LEMMA ReceivedGrows ==
    ASSUME NEW r \in Nat \ {0}, NEW m \in Nat, NEW n \in Nat, m <= n
    PROVE  m \div r <= n \div r
  <1>1. PICK d \in Nat : d = n \div r
    BY WholeResponses
  <1>2. n < d * r + r
    <2>1. n = r * (n \div r) + (n % r) /\ n % r < r
      BY SMT
    <2>2. d * r = r * (n \div r)
      BY <1>1, SMT
    <2>3. PICK q \in Nat, k \in Nat : q = d * r /\ k = n % r
      BY Products, SMT
    <2>4. n = q + k /\ k < r
      BY <2>1, <2>2, <2>3
    <2> QED
      BY <2>3, <2>4
  <1>3. PICK q \in Nat : q = d * r
    BY Products
  <1>4. m < q + r
    BY <1>2, <1>3, SMT
  <1>5. m < d * r + r
    BY <1>3, <1>4
  <1> QED
    BY <1>1, <1>5, WholeResponses

\* A step that leaves the responses as they are.
LEMMA CopeSame ==
    ASSUME CopeInv, Copes, UNCHANGED <<setup, out, answered, iv_, bytes_have_send_, taken, pc>>,
           sent' <= Received' + Depth,
           eof' /\ Build = "epoll" => Len(out) >= sent' * ResponseSize,
           pc = "closed" => eof' /\ wire' = <<>> /\ Len(out) = sent' * ResponseSize
    PROVE  CopeInv'
  <1>1. /\ App' = App /\ Build' = Build /\ ResponseSize' = ResponseSize
        /\ Response' = Response /\ Depth' = Depth
    BY DEF App, Build, ResponseSize, Segments, Response, Depth
  <1>2. ResponsesIntact'
    BY <1>1 DEF CopeInv, ResponsesIntact
  <1> QED
    BY <1>1, <1>2, Zenon DEF CopeInv

\* A step that writes.
LEMMA CopeWritten ==
    ASSUME ReadInv, WriteInv, CopeInv, Copes, UNCHANGED <<setup, sent, wire, eof>>,
           ResponsesIntact',
           answered' * ResponseSize + (bytes_have_send_' + taken') = Len(out'),
           pc' = "write" /\ App # "redis" => iv_' = Response /\ bytes_have_send_' = 0,
           Len(out') >= Len(out), Len(out') - unread' = Len(out) - unread, pc' # "closed",
           WriteInv'
    PROVE  CopeInv'
  <1>1. /\ App' = App /\ Build' = Build /\ ResponseSize' = ResponseSize
        /\ Response' = Response /\ Depth' = Depth
    BY DEF App, Build, ResponseSize, Segments, Response, Depth
  <1>2. Received' = Received
    BY <1>1, Zenon DEF Received
  <1>3. eof' /\ Build = "epoll" => Len(out') >= sent' * ResponseSize
    <2>1. sent * ResponseSize \in Nat /\ Len(out) \in Nat /\ Len(out') \in Nat
      <3>1. sent \in Nat /\ ResponseSize \in Nat /\ out \in Seq(Nat) /\ out' \in Seq(Nat)
        BY SetupType DEF ReadInv, WriteInv
      <3> QED
        BY <3>1, Products
    <2>2. eof /\ Build = "epoll" => Len(out) >= sent * ResponseSize
      BY DEF CopeInv
    <2> QED
      BY <2>1, <2>2
  <1>4. sent' <= Received' + Depth
    BY <1>2 DEF CopeInv
  <1> QED
    BY <1>1, <1>3, <1>4, Zenon DEF CopeInv

\* Every step keeps the promise of an application that copes.
LEMMA CopeStep ==
    ReadInv /\ WriteInv /\ SingleInv /\ CopeInv /\ [Next]_vars /\ WriteInv' => CopeInv'
  <1> SUFFICES ASSUME ReadInv, WriteInv, SingleInv, CopeInv, [Next]_vars, WriteInv', Copes'
               PROVE  CopeInv'
    BY DEF CopeInv
  <1>1. /\ setup' = setup /\ Copes /\ Build' = Build /\ ResponseSize' = ResponseSize
    BY Stays DEF Copes, Counts, App, Build, Depth, Breaks, SendBuffer, ResponseSize, Segments
  <1>2. /\ ResponseSize \in Nat \ {0} /\ Depth \in Nat /\ sent \in Nat /\ Len(out) \in Nat
        /\ out \in Seq(Nat) /\ unread \in 0 .. Len(out) /\ answered \in Nat
    BY SMTT(60), SetupType DEF ReadInv, WriteInv
  <1>3. /\ sent <= Received + Depth
        /\ eof /\ Build = "epoll" => Len(out) >= sent * ResponseSize
        /\ pc = "closed" => eof /\ wire = <<>> /\ Len(out) = sent * ResponseSize
        /\ answered * ResponseSize + (bytes_have_send_ + taken) = Len(out)
    BY <1>1 DEF CopeInv
  <1>4. Received \in Nat /\ Received * ResponseSize <= Len(out) - unread
    BY <1>3, ReceivedIsAnswered
  <1>5. CASE Send
    <2>1. /\ ~eof /\ sent - Received < Depth /\ sent' = sent + 1 /\ eof' = eof
          /\ UNCHANGED <<setup, out, unread, answered, iv_, bytes_have_send_, taken, pc>>
      BY <1>5 DEF Send, server
    <2>2. Received' = Received
      BY <1>1, <2>1 DEF Received
    <2>3. sent' <= Received' + Depth
      BY <1>2, <1>4, <2>1, <2>2, SMT
    <2> QED
      BY <1>1, <1>3, <2>1, <2>3, CopeSame
  <1>6. CASE Receive
    <2>1. /\ unread' \in 0 .. unread - 1 /\ unread > 0
          /\ UNCHANGED <<setup, sent, wire, eof, out, answered, iv_, bytes_have_send_, taken, pc>>
      BY <1>6 DEF Receive, server
    <2>2. PICK m \in Nat, n \in Nat : m = Len(out) - unread /\ n = Len(out) - unread' /\ m <= n
      <3>1. /\ Len(out) - unread \in Nat /\ Len(out) - unread' \in Nat
            /\ Len(out) - unread <= Len(out) - unread'
        BY <1>2, <2>1, SMT
      <3> QED
        BY <3>1
    <2>3. Received = m \div ResponseSize /\ Received' = n \div ResponseSize
      BY <1>1, <2>1, <2>2 DEF Received
    <2>4. m \div ResponseSize <= n \div ResponseSize /\ n \div ResponseSize \in Nat
      BY <1>2, <2>2, ReceivedGrows, WholeResponses
    <2>5. sent' <= Received' + Depth
      <3>1. PICK d \in Nat, e \in Nat : d = Received /\ e = Received' /\ d <= e
        BY <1>4, <2>3, <2>4
      <3>2. sent <= d + Depth
        BY <1>3, <3>1
      <3>3. sent' = sent /\ sent \in Nat /\ Depth \in Nat
        BY <1>2, <2>1
      <3>4. sent' <= e + Depth
        <4>1. PICK x \in Nat, y \in Nat : x = sent /\ y = Depth /\ x <= d + y
          BY <3>2, <3>3
        <4>2. d <= e
          BY <3>1
        <4>3. x <= e + y
          BY <4>1, <4>2
        <4> QED
          BY <3>3, <4>1, <4>3
      <3> QED
        BY <3>1, <3>4, Zenon
    <2> QED
      BY <1>1, <1>3, <2>1, <2>5, CopeSame
  <1>7. CASE Finish
    <2>1. /\ ~eof /\ (Build = "epoll" => Received = sent)
          /\ UNCHANGED <<setup, sent, wire, out, unread, answered, iv_, bytes_have_send_, taken, pc>>
      BY <1>7 DEF Finish, server
    <2>2. Received' = Received
      BY <1>1, <2>1 DEF Received
    <2>3. Build = "epoll" => Len(out) >= sent' * ResponseSize
      <3> SUFFICES ASSUME Build = "epoll" PROVE Len(out) >= sent * ResponseSize
        BY <2>1
      <3>1. PICK q \in Nat : q = sent * ResponseSize
        BY <1>2, Products
      <3>2. q <= Len(out) - unread
        BY <1>4, <2>1, <3>1
      <3> QED
        BY <1>2, <3>1, <3>2
    <2>4. sent' <= Received' + Depth
      BY <1>3, <2>1, <2>2
    <2> QED
      BY <1>1, <1>3, <2>1, <2>3, <2>4, CopeSame
  <1>8. CASE ReadOnce
    <2>1. PICK n \in Nat : NextResponse(n)
      BY <1>8, ReadFound
    <2>2. pc = "idle" /\ UNCHANGED <<setup, sent, eof, out, unread, answered, taken>>
      BY <1>8 DEF ReadOnce
    <2>3. /\ bytes_have_send_' = 0 /\ pc' # "closed" /\ (pc' = "write" => iv_' = Response)
      BY <2>1 DEF NextResponse
    <2>4. bytes_have_send_ = 0
      BY <2>2 DEF WriteInv
    <2>5. /\ App' = App /\ Response' = Response /\ Depth' = Depth /\ Received' = Received
      BY <1>1, <2>2 DEF App, Segments, Response, Depth, Received
    <2>6. ResponsesIntact'
      BY <1>1, <2>2 DEF CopeInv, ResponsesIntact
    <2> QED
      BY <1>1, <1>3, <2>2, <2>3, <2>4, <2>5, <2>6, Zenon DEF CopeInv
  <1>9. CASE ReadEnd
    <2>1. eof /\ wire = <<>> /\ Len(out) = sent * ResponseSize
      BY <1>1, <1>9, CopeReadEnd
    <2>2. /\ pc' = "closed"
          /\ UNCHANGED <<setup, sent, wire, eof, out, unread, answered, iv_, bytes_have_send_, taken>>
      BY <1>9 DEF ReadEnd
    <2>3. Depth' = Depth /\ Received' = Received
      BY <1>1, <2>2 DEF Depth, Received
    <2>4. ResponsesIntact'
      BY <1>1, <2>2 DEF CopeInv, ResponsesIntact
    <2> QED
      BY <1>1, <1>3, <2>1, <2>2, <2>3, <2>4, Zenon DEF CopeInv
  <1>10. ASSUME pc = "write", WriteAll \/ pc' = pc PROVE pc' # "closed"
    BY <1>10 DEF WriteAll, NextResponse
  <1>11. CASE WriteOnce
    <2>1. /\ UNCHANGED <<setup, sent, wire, eof>> /\ pc = "write" /\ (WriteAll \/ pc' = pc)
      BY <1>11 DEF WriteOnce
    <2> QED
      BY <1>1, <1>10, <1>11, <2>1, CopeWriteOnce, CopeWritten
  <1>12. CASE WriteFails
    <2>1. ~Breaks
      BY Zenon, <1>1 DEF Copes
    <2> QED
      BY Zenon, <1>1, <1>12, <2>1, CopeValid DEF WriteFails
  <1>13. CASE WriteBlocking
    <2>1. /\ UNCHANGED <<setup, sent, wire, eof>> /\ pc = "write" /\ (WriteAll \/ pc' = pc)
      BY <1>13 DEF WriteBlocking
    <2> QED
      BY <1>1, <1>10, <1>13, <2>1, CopeWriteBlocking, CopeWritten
  <1>14. CASE UNCHANGED vars
    <2>1. UNCHANGED <<setup, sent, wire, eof, out, unread, answered, iv_, bytes_have_send_, taken, pc>>
      BY <1>14 DEF vars
    <2>2. Received' = Received
      BY <1>1, <2>1 DEF Received
    <2> QED
      BY <1>1, <1>3, <2>1, <2>2, CopeSame
  <1> QED
    BY <1>5, <1>6, <1>7, <1>8, <1>9, <1>11, <1>12, <1>13, <1>14 DEF Next, Serve

-----------------------------------------------------------------------------
(* The theorems.                                                             *)

\* A connection starts with nothing sent, read or written.
LEMMA ConnectionInit == Init => SingleInv /\ CopeInv
  <1> SUFFICES ASSUME Init PROVE SingleInv /\ CopeInv
    OBVIOUS
  <1>1. /\ setup \in Setups /\ sent = 0 /\ wire = <<>> /\ eof = FALSE /\ out = <<>> /\ unread = 0
        /\ answered = 0 /\ read_buf_ = <<>> /\ bytes_have_send_ = 0 /\ taken = 0
        /\ pc = "idle" /\ left = 0
    BY DEF Init
  <1>2. ResponseSize \in Nat \ {0} /\ Depth \in Nat
    BY <1>1, SetupType
  <1>3. SingleInv
    <2>1. Pending = <<>> /\ Newlines(wire) = 0
      BY <1>1, NewlinesEmpty DEF Pending
    <2> QED
      BY SMTT(60), <1>1, <2>1 DEF SingleInv
  <1>4. ResponsesIntact
    BY <1>1 DEF ResponsesIntact
  <1>5. Received = 0
    <2>1. Len(out) - unread = 0
      BY <1>1
    <2>2. 0 \div ResponseSize = 0
      BY <1>2
    <2> QED
      BY <2>1, <2>2 DEF Received
  <1>6. /\ answered * ResponseSize + (bytes_have_send_ + taken) = Len(out)
        /\ sent <= Received + Depth
    BY <1>1, <1>2, <1>5
  <1> QED
    BY <1>1, <1>3, <1>4, <1>6 DEF CopeInv

\* The four invariants hold in every state of every connection.
THEOREM ConnectionInvariant == Spec => [](ReadInv /\ WriteInv /\ SingleInv /\ CopeInv)
  <1> DEFINE Inv == ReadInv /\ WriteInv /\ SingleInv /\ CopeInv
  <1>1. Init => Inv
    BY ReadInit, WriteInit, ConnectionInit
  <1>2. Inv /\ [Next]_vars => Inv'
    BY ReadStep, WriteStep, SingleStep, CopeStep
  <1> QED
    BY <1>1, <1>2, PTL DEF Spec

\* The connection's variables keep their types; between two responses the counters
\* are 0, and while one is written they add up to its size.
THEOREM ConnectionTypes == Spec => []TypeOK
  <1>1. ReadInv /\ WriteInv => TypeOK
    <2> SUFFICES ASSUME ReadInv, WriteInv PROVE TypeOK
      OBVIOUS
    <2>1. /\ setup \in Setups /\ answered \in Nat /\ left \in Nat
          /\ wire \in Seq(1 .. RequestSize) /\ read_buf_ \in Seq(1 .. RequestSize)
          /\ pc \in {"idle", "write", "closed"} /\ sent \in 0 .. MaxRequests
      BY SMTT(60), TCPConnAssumption DEF ReadInv, WriteInv
    <2>2. taken \in 0 .. ResponseSize
      <3>1. ResponseSize \in Nat /\ bytes_have_send_ \in Nat /\ taken \in Nat
            /\ bytes_have_send_ + taken < ResponseSize
        BY SetupType DEF ReadInv, WriteInv
      <3> QED
        BY <3>1, SMT
    <2>3. pc # "closed" =>
              bytes_to_send_ + bytes_have_send_ = IF pc = "idle" THEN 0 ELSE ResponseSize
      <3>1. /\ pc = "idle" => bytes_to_send_ = 0 /\ bytes_have_send_ = 0
            /\ pc = "write" => bytes_to_send_ + bytes_have_send_ = ResponseSize
        BY DEF WriteInv
      <3> QED
        BY <2>1, <3>1
    <2>4. \A i \in DOMAIN iv_ : iv_[i].iov_base \in Nat /\ iv_[i].iov_len \in 0 .. SizeMod - 1
      <3>1. CASE iv_ = <<>>
        BY <3>1
      <3>2. CASE iv_ \in Parts
        <4>1. \A i \in DOMAIN iv_ : iv_[i] \in [iov_base : Nat, iov_len : 0 .. SizeMod - 1]
          BY <3>2, Zenon DEF Parts
        <4> QED
          BY <4>1
      <3> QED
        BY <3>1, <3>2 DEF WriteInv
    <2> QED
      BY <2>1, <2>2, <2>3, <2>4 DEF TypeOK, WriteInv
  <1> QED
    BY <1>1, ConnectionInvariant, PTL

\* In all three applications, whatever room the socket has and however the
\* response is laid out, WriteOnce reports no response before all its bytes, or
\* as many, were written.
THEOREM WrittenFirst == Spec => []AnsweredIsWritten
  <1>1. ReadInv /\ WriteInv => AnsweredIsWritten
    <2> SUFFICES ASSUME ReadInv, WriteInv PROVE answered * ResponseSize <= Len(out)
      BY DEF AnsweredIsWritten
    <2>1. answered \in Nat /\ ResponseSize \in Nat /\ Len(out) \in Nat
          /\ bytes_have_send_ \in Nat /\ taken \in Nat
      BY SetupType DEF ReadInv, WriteInv
    <2>2. PICK q \in Nat : q = answered * ResponseSize
      BY <2>1, Products
    <2>3. q + (bytes_have_send_ + taken) <= Len(out)
      BY <2>2 DEF WriteInv
    <2> QED
      BY <2>1, <2>2, <2>3
  <1> QED
    BY <1>1, ConnectionInvariant, PTL

\* Every request read to its end has had its response by the next read, and no
\* other has, wherever the network cuts the stream: from the applications that
\* count newlines whatever the client sends ahead, and from synthetic_memcached,
\* which divides by the size of a request, when the client waits for each response.
THEOREM AllAnswered == Spec => []EveryRequestAnswered
  <1>1. ReadInv /\ SingleInv => EveryRequestAnswered
    <2> SUFFICES ASSUME ReadInv, SingleInv, Counts, pc = "idle"
                 PROVE  answered = sent - Newlines(wire)
      BY DEF EveryRequestAnswered
    <2>1. left = 0
      BY DEF ReadInv
    <2>2. /\ answered + left + Newlines(wire) = sent /\ Newlines(wire) \in Nat
          /\ sent \in Nat /\ answered \in Nat
      BY Counted
    <2> QED
      BY <2>1, <2>2, SMT
  <1> QED
    BY <1>1, ConnectionInvariant, PTL

\* Where the application copes, the client receives every byte of every response
\* once and in order, however many writes it takes.
THEOREM Intact == Spec => []IntactIfItCopes
  <1>1. CopeInv => IntactIfItCopes
    BY DEF CopeInv, IntactIfItCopes
  <1> QED
    BY <1>1, ConnectionInvariant, PTL

\* ... and a client that shuts down in order has had all its responses written when
\* the connection is closed.
THEOREM ClosedLast == Spec => []ClosedIsAnswered
  <1>1. CopeInv => ClosedIsAnswered
    BY DEF CopeInv, ClosedIsAnswered
  <1> QED
    BY <1>1, ConnectionInvariant, PTL

\* A connection whose application copes implements RequestReply: each step of the
\* client and of the thread sends one request, answers one that was sent and not
\* answered before, or is invisible.
THEOREM Implements == Spec => Coping!Spec
  <1> DEFINE s == IF Copes THEN sent ELSE 0
             a == IF Copes THEN answered ELSE 0
  <1>1. Init => Coping!Init
    BY DEF Init, Coping!Init
  <1>2. ReadInv /\ SingleInv /\ [Next]_vars => [Coping!Next]_<<s, a>>
    <2> SUFFICES ASSUME ReadInv, SingleInv, [Next]_vars PROVE Coping!Next \/ UNCHANGED <<s, a>>
      OBVIOUS
    <2>1. Copes' = Copes
      BY Stays DEF Copes, Counts, App, Build, Depth, Breaks, SendBuffer, ResponseSize, Segments
    <2>2. CASE ~Copes
      BY <2>1, <2>2
    <2>3. ASSUME UNCHANGED <<sent, answered>> PROVE UNCHANGED <<s, a>>
      BY <2>1, <2>3
    <2>4. ASSUME Copes, pc = "write", sent' = sent, WriteAll PROVE Coping!Reply
      <3>1. left >= 1 /\ answered' = answered + 1
        BY <2>4 DEF ReadInv, WriteAll
      <3>2. /\ answered + left + Newlines(wire) = sent /\ Newlines(wire) \in Nat
            /\ sent \in Nat /\ answered \in Nat /\ left \in Nat
        BY <2>4, Counted DEF Copes
      <3>3. answered < sent
        BY <3>1, <3>2, SMT
      <3> QED
        BY <2>1, <2>4, <3>1, <3>3 DEF Coping!Reply
    <2>5. CASE Copes
      <3>1. CASE Send
        BY <2>1, <2>5, <3>1 DEF Send, Coping!Next, Coping!Request
      <3>2. CASE WriteOnce
        <4>1. pc = "write" /\ sent' = sent /\ (WriteAll \/ answered' = answered)
          BY <3>2 DEF WriteOnce
        <4> QED
          BY <2>3, <2>4, <2>5, <4>1 DEF Coping!Next
      <3>3. CASE WriteBlocking
        <4>1. pc = "write" /\ sent' = sent /\ (WriteAll \/ answered' = answered)
          BY <3>3 DEF WriteBlocking
        <4> QED
          BY <2>3, <2>4, <2>5, <4>1 DEF Coping!Next
      <3>4. CASE Receive \/ Finish \/ ReadOnce \/ ReadEnd \/ WriteFails \/ UNCHANGED vars
        BY <2>3, <3>4 DEF Receive, Finish, ReadOnce, ReadEnd, WriteFails, vars
      <3> QED
        BY <3>1, <3>2, <3>3, <3>4 DEF Next, Serve
    <2> QED
      BY <2>2, <2>5
  <1> QED
    BY <1>1, <1>2, ConnectionInvariant, PTL DEF Spec, Coping!Spec

=============================================================================
