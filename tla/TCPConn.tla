------------------------------ MODULE TCPConn -------------------------------
(***************************************************************************)
(* One connection at the level of bytes: how ReadOnce and                  *)
(* ParseMultiRequest find requests in a byte stream that the network cuts  *)
(* anywhere, and how WriteOnce brings each response through a socket that  *)
(* may take only part of it.  The three synthetic applications fill in the *)
(* template connection/tcp_conn.cpp of network_skeleton in different ways, *)
(* exactly in these two points.  The application, how it was built, the    *)
(* layout of its responses and the client it meets are the connection's    *)
(* setup, chosen once.                                                     *)
(*                                                                         *)
(* One thread serves the connection: the event loop of a NETWORKEPOLL      *)
(* build, or the thread that handleNewConn starts for it in the NONBLOCKING *)
(* and BLOCKING builds.  What several threads and clients that leave in    *)
(* the middle do to a TCPConn is in Skeleton.                              *)
(***************************************************************************)
EXTENDS Integers, Sequences, FiniteSetsExt

CONSTANTS
    Setups,         \* see Setup below
    RequestSize,    \* bytes of a request; the last one is the newline
    ReadBufferSize, \* READ_BUFFER_SIZE
    MaxRequests,    \* bound: requests a client sends
    SizeMod         \* 2^w for the width w of size_t

\* build: which of NETWORKEPOLL, NONBLOCKING and BLOCKING is defined.
\* segments: the iov_len of each of the three parts iv_ has room for, 0 from
\* iv_count_ on.  sendBuffer: bytes the socket takes while the client reads
\* nothing.  depth: requests the client sends ahead of the responses.  breaks:
\* the client may reset the connection, or a signal cut a writev() that blocks short.
Setup == [app : {"memcached", "nginx", "redis"}, build : {"epoll", "nonblocking", "blocking"},
          segments : [1 .. 3 -> Nat], sendBuffer : Nat \ {0}, depth : Nat \ {0},
          breaks : BOOLEAN]

Total(lengths) == lengths[1] + lengths[2] + lengths[3]

ASSUME TCPConnAssumption ==
    /\ Setups \subseteq Setup
    /\ RequestSize \in Nat \ {0} /\ ReadBufferSize \in Nat /\ ReadBufferSize >= RequestSize
    /\ MaxRequests \in Nat
    /\ SizeMod \in Nat
    /\ \A s \in Setups : /\ s.app = "redis" => s.build # "blocking"  \* its writev() has no iv_
                         /\ Total(s.segments) > 0 /\ SizeMod > 2 * Total(s.segments) + 1

VARIABLES
    setup,            \* a member of Setups that no step changes
    sent,             \* requests the client has sent
    wire,             \* the socket's receive queue: a byte is its place in its request
    eof,              \* the client has shut down its side: it will send no more
    out,              \* history: the bytes written; a byte is its place in write_buf_
    unread,           \* how many of them the client has not read yet
    answered,         \* history: responses WriteOnce has finished
    read_buf_,        \* the first read_idx_ bytes of the buffer
    iv_,              \* for each part of the response, what is left to write
    bytes_to_send_, bytes_have_send_,
    taken,            \* bytes the socket has taken so far from a writev() that blocks
    pc, left          \* "idle", "write" or "closed"; iterations left of Process's loop

vars == <<setup, sent, wire, eof, out, unread, answered, read_buf_,
          iv_, bytes_to_send_, bytes_have_send_, taken, pc, left>>

\* What only the serving thread changes, besides read_buf_.
server == <<iv_, bytes_to_send_, bytes_have_send_, taken, pc, left>>

App == setup.app
Build == setup.build
Segments == setup.segments
SendBuffer == setup.sendBuffer
Depth == setup.depth
Breaks == setup.breaks
ResponseSize == Total(Segments)

Init ==
    /\ setup \in Setups
    /\ sent = 0 /\ wire = <<>> /\ eof = FALSE /\ out = <<>> /\ unread = 0 /\ answered = 0
    /\ read_buf_ = <<>> /\ iv_ = <<>> /\ bytes_to_send_ = 0 /\ bytes_have_send_ = 0
    /\ taken = 0 /\ pc = "idle" /\ left = 0

-----------------------------------------------------------------------------
(* The client.                                                               *)

Received == (Len(out) - unread) \div ResponseSize

Send ==
    /\ ~eof /\ sent < MaxRequests /\ sent - Received < Depth
    /\ sent' = sent + 1
    /\ wire' = wire \o [i \in 1 .. RequestSize |-> i]
    /\ UNCHANGED <<setup, eof, out, unread, answered, read_buf_, server>>

Receive ==
    /\ unread > 0
    /\ unread' \in 0 .. unread - 1
    /\ UNCHANGED <<setup, sent, wire, eof, out, answered, read_buf_, server>>

\* The client is done: shutdown(SHUT_WR).  An event loop closes a connection on
\* EPOLLRDHUP whatever is still to be read, so there the client must have all
\* its responses first; otherwise its last request will do.
Finish ==
    /\ ~eof /\ sent > 0
    /\ Build = "epoll" => Received = sent
    /\ eof' = TRUE
    /\ UNCHANGED <<setup, sent, wire, out, unread, answered, read_buf_, server>>

-----------------------------------------------------------------------------
(* ReadOnce, ParseMultiRequest and the head of Process's loop.               *)

Newlines(buf) == Cardinality({i \in DOMAIN buf : buf[i] = RequestSize})

\* Slip: the template's body left as it is, one request per read.
ParseMultiRequest_One(buf) == 1

ParseMultiRequest(buf) ==
    IF App = "memcached" THEN Len(buf) \div RequestSize ELSE Newlines(buf)

\* An element of iv_: so many bytes of write_buf_ from there.
Part(base, len) == [iov_base |-> base, iov_len |-> len]

\* iv_ for a new response.
Response ==
    <<Part(0, Segments[1]), Part(Segments[1], Segments[2]),
      Part(Segments[1] + Segments[2], Segments[3])>>

\* Slip: Reset forgets bytes_have_send_.
NextResponse_KeepSent(n) ==
    /\ pc' = (IF n > 0 THEN "write" ELSE "idle") /\ left' = n
    /\ iv_' = (IF n > 0 THEN Response ELSE iv_)
    /\ bytes_to_send_' = (IF n > 0 THEN ResponseSize ELSE 0)
    /\ bytes_have_send_' = bytes_have_send_ + bytes_to_send_

\* Process's loop has n more requests to answer.
NextResponse(n) ==
    /\ pc' = (IF n > 0 THEN "write" ELSE "idle") /\ left' = n
    /\ iv_' = (IF n > 0 THEN Response ELSE iv_)
    /\ bytes_to_send_' = (IF n > 0 THEN ResponseSize ELSE 0)
    /\ bytes_have_send_' = 0

\* One EPOLLIN event, or one round of handleNetwork's loop, whose read() waits
\* or spins until there is data.  read() returns what has arrived of the stream,
\* at most the room left in read_buf_.
ReadOnce ==
    /\ pc = "idle"
    /\ \E n \in 1 .. Min({Len(wire), ReadBufferSize - Len(read_buf_)}) :
          LET buf == read_buf_ \o SubSeq(wire, 1, n)
          IN  /\ wire' = SubSeq(wire, n + 1, Len(wire))
              /\ read_buf_' = buf
              /\ NextResponse(ParseMultiRequest(buf))
    /\ UNCHANGED <<setup, sent, eof, out, unread, answered, taken>>

\* Slip: handleNetwork leaves its loop once the client has shut down.
ReadEnd_Early ==
    /\ pc = "idle" /\ eof
    /\ pc' = "closed"
    /\ UNCHANGED <<setup, sent, wire, eof, out, unread, answered, read_buf_,
                   iv_, bytes_to_send_, bytes_have_send_, taken, left>>

\* read() returns 0, at the end of the stream or without room in read_buf_, and
\* ReadOnce false: handleNetwork closes the connection.  An event loop ignores
\* it, and closes the connection on EPOLLRDHUP.  Both close one that was reset.
ReadEnd ==
    /\ pc = "idle"
    /\ \/ Build = "epoll" /\ eof
       \/ Build # "epoll" /\ ((eof /\ wire = <<>>) \/ Len(read_buf_) = ReadBufferSize)
       \/ Breaks
    /\ pc' = "closed"
    /\ UNCHANGED <<setup, sent, wire, eof, out, unread, answered, read_buf_,
                   iv_, bytes_to_send_, bytes_have_send_, taken, left>>

-----------------------------------------------------------------------------
(* WriteOnce.                                                                *)

\* A write() of one part of write_buf_.
OnePart(base, len) == <<Part(base, len), Part(0, 0), Part(0, 0)>>

\* Slip: a further write() starts at the beginning of write_buf_ again.
ToWrite_Restart == OnePart(0, bytes_to_send_)

\* What the next writev(), sendmsg() or write() is asked to write.
ToWrite == IF App = "redis" THEN OnePart(bytes_have_send_, bytes_to_send_) ELSE iv_

Piece(part) == [j \in 1 .. part.iov_len |-> part.iov_base + j]
Bytes(iv) == Piece(iv[1]) \o Piece(iv[2]) \o Piece(iv[3])

\* A length above SSIZE_MAX is EINVAL.
Valid(iv) == \A i \in 1 .. 3 : iv[i].iov_len < SizeMod \div 2

\* How synthetic_memcached moves iv_ past the temp bytes written; the others
\* leave it.  iov_len is a size_t, and is set to 0 before it is used again.
Advance(iv, temp) ==
    IF App # "memcached" THEN iv
    ELSE IF temp < iv[1].iov_len
         THEN <<Part(iv[1].iov_base + temp, iv[1].iov_len - temp), iv[2], iv[3]>>
    ELSE IF temp <= iv[1].iov_len + iv[2].iov_len
         THEN <<Part(iv[1].iov_base, 0),
                Part(iv[2].iov_base + temp - iv[1].iov_len, (iv[2].iov_len - temp) % SizeMod),
                iv[3]>>
    ELSE <<Part(iv[1].iov_base, 0), Part(iv[2].iov_base, 0),
           Part(iv[3].iov_base + temp, (iv[3].iov_len - temp) % SizeMod)>>

\* Slip: the response is complete and WriteOnce returns without Reset.
WriteAll_NoReset ==
    /\ answered' = answered + 1
    /\ UNCHANGED read_buf_
    /\ NextResponse(left - 1)

\* bytes_to_send_ <= 0: Reset, which empties read_buf_, and the next request.
WriteAll ==
    /\ answered' = answered + 1
    /\ read_buf_' = <<>>
    /\ NextResponse(left - 1)

\* Slip: WriteOnce does not loop, as the name says.
WriteOnce_NoLoop ==
    LET temp == Min({Len(Bytes(ToWrite)), SendBuffer - unread})
    IN  /\ pc = "write" /\ Build # "blocking" /\ Valid(ToWrite) /\ temp > 0
        /\ out' = out \o SubSeq(Bytes(ToWrite), 1, temp)
        /\ unread' = unread + temp
        /\ WriteAll
        /\ UNCHANGED <<setup, sent, wire, eof, taken>>

\* The socket takes what fits.  When nothing fits it is EAGAIN, and when there is
\* nothing to write it returns 0: either way the loop goes round unchanged.
WriteOnce ==
    LET temp == Min({Len(Bytes(ToWrite)), SendBuffer - unread})
    IN  /\ pc = "write" /\ Build # "blocking" /\ Valid(ToWrite) /\ temp > 0
        /\ out' = out \o SubSeq(Bytes(ToWrite), 1, temp)
        /\ unread' = unread + temp
        /\ \/ bytes_to_send_ - temp <= 0 /\ WriteAll
           \/ /\ bytes_to_send_ - temp > 0
              /\ bytes_have_send_' = bytes_have_send_ + temp
              /\ bytes_to_send_' = bytes_to_send_ - temp
              /\ iv_' = Advance(iv_, temp)
              /\ UNCHANGED <<answered, read_buf_, pc, left>>
        /\ UNCHANGED <<setup, sent, wire, eof, taken>>

\* EINVAL, ECONNRESET, or a writev() that blocked and returns with part of the
\* response: CloseConn, and the rest of Process's loop writes to descriptor -1.
\* handleNetwork then fails to read from it and closes the connection.
WriteFails ==
    /\ pc = "write" /\ (Breaks \/ ~Valid(ToWrite))
    /\ pc' = "closed" /\ left' = 0
    /\ UNCHANGED <<setup, sent, wire, eof, out, unread, answered, read_buf_,
                   iv_, bytes_to_send_, bytes_have_send_, taken>>

\* BLOCKING: one writev(), which the socket keeps waiting until it has taken all
\* of the response; then bytes_to_send_ is 0.
WriteBlocking ==
    LET n == Min({ResponseSize - taken, SendBuffer - unread})
    IN  /\ pc = "write" /\ Build = "blocking" /\ n > 0
        /\ out' = out \o SubSeq(Bytes(iv_), taken + 1, taken + n)
        /\ unread' = unread + n
        /\ \/ taken + n = ResponseSize /\ taken' = 0 /\ WriteAll
           \/ /\ taken + n < ResponseSize
              /\ taken' = taken + n
              /\ UNCHANGED <<answered, read_buf_, iv_, bytes_to_send_, bytes_have_send_, pc, left>>
        /\ UNCHANGED <<setup, sent, wire, eof>>

Serve == ReadOnce \/ ReadEnd \/ WriteOnce \/ WriteFails \/ WriteBlocking

Next == Send \/ Receive \/ Finish \/ Serve

Spec == Init /\ [][Next]_vars

\* The thread runs whenever it can, and the client reads what it is sent.
FairSpec == Spec /\ WF_vars(Serve) /\ WF_vars(Receive)

-----------------------------------------------------------------------------
(* Properties.                                                               *)

\* Every variable has its type, and the counters of a response add up to it.
TypeOK ==
    /\ setup \in Setups /\ sent \in 0 .. MaxRequests /\ answered \in Nat /\ left \in Nat
    /\ wire \in Seq(1 .. RequestSize) /\ read_buf_ \in Seq(1 .. RequestSize)
    /\ eof \in BOOLEAN /\ out \in Seq(Nat) /\ unread \in 0 .. Len(out)
    /\ pc \in {"idle", "write", "closed"} /\ taken \in 0 .. ResponseSize
    /\ pc # "closed" => bytes_to_send_ + bytes_have_send_ = IF pc = "idle" THEN 0 ELSE ResponseSize
    /\ \A i \in DOMAIN iv_ : iv_[i].iov_base \in Nat /\ iv_[i].iov_len \in 0 .. SizeMod - 1

\* What the application's counting of requests stands: synthetic_memcached divides
\* the bytes it has by the size of a request and throws the rest away.
Counts == App = "memcached" => Depth = 1

\* What its WriteOnce stands: synthetic_redis and a writev() that blocks any
\* socket, the other loops only one with room for every response asked for; and
\* none a connection that breaks.
Copes == Counts /\ ~Breaks /\ (App = "redis" \/ Build = "blocking" \/ SendBuffer >= Depth * ResponseSize)

\* Between two reads, every request whose last byte has been read has had its
\* response, and no other has: wherever the network cuts the stream, no request
\* is lost in the tail that Reset throws away, and none is counted twice.
EveryRequestAnswered ==
    Counts /\ pc = "idle" => answered = sent - Newlines(wire)

\* The client receives each response from its first byte to its last, once,
\* however many writes it takes.
ResponsesIntact ==
    \A i \in DOMAIN out : out[i] = 1 + ((i - 1) % ResponseSize)

\* ... from an application that copes with the client and its socket.
IntactIfItCopes == Copes => ResponsesIntact

\* Nobody closes the connection of a client that shuts down in order before all
\* its requests are answered: handleNetwork reads up to the end of the stream.
ClosedIsAnswered ==
    Copes /\ pc = "closed" => eof /\ wire = <<>> /\ Len(out) = sent * ResponseSize

\* WriteOnce does not report a response as finished before all of it is written.
AnsweredIsWritten == answered * ResponseSize <= Len(out)

\* Between two reads ReadOnce has room: otherwise read() would return 0, and the
\* event loop spin on the socket for ever or handleNetwork close it.
RoomToRead ==
    pc = "idle" => Len(read_buf_) < ReadBufferSize

\* The connection answers every request once, after it was sent and in the end.
RR == INSTANCE RequestReply WITH MaxRequests <- MaxRequests, sent <- sent, answered <- answered
AnswersRequests == RR!FairSpec

\* ... as long as the application copes; a connection of another one counts as
\* one without requests.
Coping == INSTANCE RequestReply
          WITH MaxRequests <- MaxRequests,
               sent <- IF Copes THEN sent ELSE 0,
               answered <- IF Copes THEN answered ELSE 0
AnswersIfItCopes == Coping!FairSpec

=============================================================================
