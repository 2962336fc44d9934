--------------------------- MODULE ClientBuffers ----------------------------
(***************************************************************************)
(* The inductive invariant of the load client, and the proofs of its first *)
(* parts: where the thread is, and what the buffers and the network hold.  *)
(* Each part has a section, with a lemma for the steps that matter to it   *)
(* and one, named ...Step, for them all.                                   *)
(***************************************************************************)
EXTENDS Client, BufferProofs

-----------------------------------------------------------------------------
(* The constants, and the calls that the thread is in.                       *)

\* A setup is one of Setup, with a command to choose and a connection to use.
LEMMA SetupFacts ==
    ASSUME setup \in Setups
    PROVE  /\ setup.proto \in {"synthetic", "memcache"}
           /\ setup.mode \in {"per_request", "round_robin", "random"}
           /\ setup.cmds \subseteq {"Get", "Set"}
           /\ setup.conn_cnt \in Nat /\ (setup.mode # "per_request" => setup.conn_cnt > 0)
           /\ setup.pre \in Nat /\ setup.measure \in Nat \ {0} /\ setup.post \in Nat
           /\ setup.rbuf \in Nat \ {0} /\ setup.wbuf \in Nat \ {0}
           /\ setup.queue \in Nat \ {0} /\ setup.room \in Nat \ {0}
  BY ClientAssumption, Zenon DEF Setup

\* The sizes of the parts of packets.
LEMMA SizeFacts ==
    /\ PktSize \in Nat \ {0} /\ RespSize \in Nat \ {0} /\ HdrSize \in Nat \ {0}
    /\ ExtrasSize \in Nat \ {0} /\ KeySize \in Nat \ {0} /\ ValSize \in Nat \ {0}
  BY ClientAssumption, Zenon

\* There is at least one request and one generator.
LEMMA TotalFacts ==
    ASSUME setup \in Setups
    PROVE  /\ total_samples_ \in Nat \ {0}
           /\ Gens \subseteq Nat \ {0} /\ 1 \in Gens
           /\ setup.mode = "per_request" => Gens = 1 .. total_samples_
           /\ setup.mode # "per_request" => Gens = 1 .. setup.conn_cnt
  <1>1. total_samples_ \in Nat \ {0}
    BY SetupFacts, SMT DEF total_samples_
  <1>2. setup.conn_cnt \in Nat /\ (setup.mode # "per_request" => setup.conn_cnt > 0)
    BY SetupFacts, Zenon
  <1> QED
    BY <1>1, <1>2, SMT DEF Gens

-----------------------------------------------------------------------------
(* Where the thread is.                                                      *)

Calls == {"events", "busy", "timer", "loop"}
Places == {"rx", "rx_callbacks", "tx", "tx_callbacks", "read", "put"}

\* The control state: run_io never gets to _send_request's read(), only it has an
\* EPOLLOUT, and send_request runs in the loop of a timer, for a deadline that has
\* passed and on the generator made for the request.
ControlInv ==
    /\ setup \in Setups /\ ops \in [Requests -> setup.cmds]
    /\ due \in 0 .. total_samples_ /\ now \in 0 .. due /\ sent_count_ \in 0 .. total_samples_
    /\ armed \in BOOLEAN /\ todo \in Seq(Calls) /\ gen \in Gens /\ out \in BOOLEAN
    /\ call \in {"none", "run_io", "send_request"} /\ at \in Places \cup {"none"}
    /\ call = "none" <=> at = "none"
    /\ at = "read" => call = "send_request"
    /\ out => call = "run_io"
    /\ call = "send_request" =>
           /\ sent_count_ < now /\ todo # <<>>
           /\ setup.mode = "per_request" => gen = sent_count_ + 1
    /\ \A e \in events : e = TimerEvent \/ (e.gen \in Gens /\ e.out \in BOOLEAN)

\* What ControlInv speaks of, but for at.
control == <<setup, ops, due, now, sent_count_, armed, events, todo, call, gen, out>>

\* What follows from the setup does not change either.
LEMMA SetupStays ==
    ASSUME setup' = setup
    PROVE  total_samples_' = total_samples_ /\ Gens' = Gens /\ Requests' = Requests
  BY Zenon DEF total_samples_, Gens, Requests

\* Steps within a call on a generator.
LEMMA ControlWithin ==
    ASSUME ControlInv, UNCHANGED control, call # "none",
           at' \in Places, at' = "read" => call = "send_request"
    PROVE  ControlInv'
  <1>1. total_samples_' = total_samples_ /\ Gens' = Gens /\ Requests' = Requests
    BY SetupStays, Zenon DEF control
  <1>2. "none" \notin Places
    BY Zenon DEF Places
  <1> QED
    BY <1>1, <1>2, Zenon DEF ControlInv, control, TimerEvent

\* rx(), tx(), read() and the loops over the callbacks.
LEMMA SockControl ==
    ASSUME ControlInv, Tx \/ TxCallback \/ Read \/ Rx \/ RxCallback
    PROVE  ControlInv'
  <1>1. UNCHANGED control /\ at # "none"
    BY Zenon DEF control, Tx, TxCallback, Read, Rx, RxCallback, On, counts, timer, RxHeader, RecordSample
  <1>2. CASE Tx
    <2>1. at' \in {"put", "read", "tx_callbacks"} /\ (at' = "read" => call # "run_io")
      BY <1>2, Zenon DEF Tx, ReturnTx
    <2> QED
      BY <1>1, <2>1, ControlWithin, Zenon DEF ControlInv, Places
  <1>3. CASE TxCallback
    <2>1. at' \in {"tx", "tx_callbacks"}
      BY <1>3, Zenon DEF TxCallback, On
    <2> QED
      BY <1>1, <2>1, ControlWithin, Zenon DEF ControlInv, Places
  <1>4. CASE Read
    <2>1. at' \in {"rx", "put", "read"} /\ at = "read"
      BY <1>4, Zenon DEF Read, On
    <2> QED
      BY <1>1, <2>1, ControlWithin, Zenon DEF ControlInv, Places
  <1>5. CASE Rx
    <2>1. at' \in {"tx", "put", "rx", "rx_callbacks"}
      BY <1>5, Zenon DEF Rx, ReturnRx, On
    <2> QED
      BY <1>1, <2>1, ControlWithin, Zenon DEF ControlInv, Places
  <1>6. CASE RxCallback
    <2>1. at' \in {"rx", "rx_callbacks"}
      BY <1>6, Zenon DEF RxCallback, RxHeader, On
    <2> QED
      BY <1>1, <2>1, ControlWithin, Zenon DEF ControlInv, Places
  <1> QED
    BY <1>2, <1>3, <1>4, <1>5, <1>6, Zenon

\* The end of run_io and of send_request.
LEMMA EndControl ==
    ASSUME ControlInv, EndRunIO \/ EndSendRequest
    PROVE  ControlInv'
  <1>1. /\ UNCHANGED <<setup, ops, due, now, armed, events, gen>>
        /\ call' = "none" /\ at' = "none" /\ out' = FALSE
    BY Zenon DEF EndRunIO, EndSendRequest, Leave, counts, timer
  <1>2. total_samples_' = total_samples_ /\ Gens' = Gens /\ Requests' = Requests
    BY <1>1, SetupStays, Zenon
  <1>3. sent_count_' \in 0 .. total_samples_ /\ todo' \in Seq(Calls)
    <2>1. CASE EndRunIO
      BY <2>1, Zenon DEF EndRunIO, ControlInv, counts
    <2>2. CASE EndSendRequest
      <3>1. /\ call = "send_request" /\ sent_count_' = sent_count_ + 1
            /\ todo' \in {todo, Tail(todo)}
        BY <2>2, Zenon DEF EndSendRequest
      <3>2. /\ sent_count_ < now /\ todo # <<>> /\ todo \in Seq(Calls)
            /\ due \in 0 .. total_samples_ /\ now \in 0 .. due /\ sent_count_ \in 0 .. total_samples_
        BY <3>1, Zenon DEF ControlInv
      <3>3. total_samples_ \in Nat
        BY TotalFacts, Zenon DEF ControlInv
      <3>4. Tail(todo) \in Seq(Calls)
        BY <3>2
      <3>5. sent_count_' \in 0 .. total_samples_
        BY <3>1, <3>2, <3>3, SMT
      <3> QED
        BY <3>1, <3>2, <3>4, <3>5, Zenon
    <2> QED
      BY <2>1, <2>2, Zenon
  <1> QED
    BY <1>1, <1>2, <1>3, Zenon DEF ControlInv, Places, TimerEvent

\* The kernel, the server and the clock.
LEMMA PeerControl ==
    ASSUME ControlInv, Peer \/ Tick
    PROVE  ControlInv'
  <1>1. UNCHANGED <<setup, ops, now, sent_count_, armed, events, todo, place>>
    BY Zenon DEF Peer, Connect, Serve, Deliver, Tick, counts, timer, sockets, place
  <1>2. total_samples_' = total_samples_ /\ Gens' = Gens /\ Requests' = Requests
    BY <1>1, SetupStays, Zenon
  <1>3. due' \in 0 .. total_samples_ /\ now \in 0 .. due'
    <2>1. due' = due \/ (due' = due + 1 /\ due < total_samples_)
      BY Zenon DEF Peer, Connect, Serve, Deliver, Tick
    <2>2. due \in 0 .. total_samples_ /\ now \in 0 .. due /\ total_samples_ \in Nat
      BY TotalFacts, Zenon DEF ControlInv
    <2> QED
      BY <2>1, <2>2, SMT
  <1> QED
    BY <1>1, <1>2, <1>3, Zenon DEF ControlInv, TimerEvent, place

\* What the events of a round are about.
LEMMA ReadyFacts ==
    ASSUME NEW e \in Ready, e # TimerEvent
    PROVE  e.gen \in Gens /\ e.out \in BOOLEAN /\ net[e.gen].edge /\ e = Event(e.gen)
  <1>1. PICK g \in Gens : net[g].edge /\ e = Event(g)
    BY Zenon DEF Ready
  <1>2. e.gen = g /\ e.out \in BOOLEAN
    BY <1>1, Zenon DEF Event
  <1> QED
    BY <1>1, <1>2, Zenon

\* The calls of the client's own functions.
LEMMA RunControl ==
    ASSUME ControlInv, EpollWait \/ HandleEvent \/ ReadClock \/ Sleep
    PROVE  ControlInv'
  <1>1. UNCHANGED <<setup, ops, due, sent_count_>> /\ call = "none"
    BY Zenon DEF EpollWait, HandleEvent, ReadClock, Sleep, counts, In
  <1>2. total_samples_' = total_samples_ /\ Gens' = Gens /\ Requests' = Requests
    BY <1>1, SetupStays, Zenon
  <1>3. CASE EpollWait
    <2>1. /\ UNCHANGED <<now, place>> /\ armed' \in BOOLEAN /\ events' = Ready
          /\ todo' = IF setup.busy THEN <<"events", "busy">> ELSE <<"events">>
      BY <1>3, Zenon DEF EpollWait
    <2>2. <<"events", "busy">> \in Seq(Calls) /\ <<"events">> \in Seq(Calls)
      BY SMT DEF Calls
    <2>3. \A e \in events' : e = TimerEvent \/ (e.gen \in Gens /\ e.out \in BOOLEAN)
      BY <2>1, ReadyFacts, Zenon
    <2> QED
      BY <1>1, <1>2, <2>1, <2>2, <2>3, Zenon DEF ControlInv, TimerEvent, place
  <1>4. CASE HandleEvent
    <2>1. UNCHANGED timer /\ todo # <<>> /\ events' \subseteq events
      BY <1>4, Zenon DEF HandleEvent, In
    <2>2. todo' \in {todo, Tail(todo), <<"timer">> \o todo}
      BY <1>4, Zenon DEF HandleEvent
    <2>3. todo' \in Seq(Calls)
      <3>1. todo \in Seq(Calls) /\ "timer" \in Calls
        BY Zenon DEF ControlInv, Calls
      <3>2. Tail(todo) \in Seq(Calls) /\ <<"timer">> \o todo \in Seq(Calls)
        BY <2>1, <3>1
      <3> QED
        BY <2>2, <3>1, <3>2, Zenon
    <2>4. CASE UNCHANGED place
      BY <1>1, <1>2, <2>1, <2>3, <2>4, Zenon DEF ControlInv, TimerEvent, place, timer
    <2>5. CASE \E e \in events : e # TimerEvent /\ RunIO(e)
      <3>1. PICK e \in events : e # TimerEvent /\ RunIO(e)
        BY <2>5, Zenon
      <3>2. /\ call' = "run_io" /\ gen' \in Gens /\ out' \in BOOLEAN
            /\ at' \in {"rx", "tx", "put"}
        BY <3>1, Zenon DEF RunIO, ControlInv
      <3> QED
        BY <1>1, <1>2, <2>1, <2>3, <3>2, Zenon DEF ControlInv, Places, TimerEvent, timer
    <2> QED
      BY <1>4, <2>4, <2>5, Zenon DEF HandleEvent
  <1>5. CASE ReadClock
    <2>1. UNCHANGED <<armed, events, place>> /\ now' = due /\ todo' = <<"loop">> \o Tail(todo) /\ todo # <<>>
      BY <1>5, Zenon DEF ReadClock, In
    <2>2. todo \in Seq(Calls) /\ "loop" \in Calls
      BY Zenon DEF ControlInv, Calls
    <2>3. todo' \in Seq(Calls)
      BY <2>1, <2>2
    <2>4. now' \in 0 .. due
      <3>1. due \in 0 .. total_samples_ /\ total_samples_ \in Nat
        BY TotalFacts, Zenon DEF ControlInv
      <3> QED
        BY <2>1, <3>1, SMT
    <2> QED
      BY <1>1, <1>2, <2>1, <2>3, <2>4, Zenon DEF ControlInv, TimerEvent, place
  <1>6. CASE Sleep
    <2>1. UNCHANGED <<now, events, place>> /\ armed' = ~setup.busy /\ todo' = Tail(todo) /\ todo # <<>>
      BY <1>6, Zenon DEF Sleep, In
    <2>2. todo \in Seq(Calls)
      BY Zenon DEF ControlInv
    <2>3. todo' \in Seq(Calls)
      BY <2>1, <2>2
    <2> QED
      BY <1>1, <1>2, <2>1, <2>3, Zenon DEF ControlInv, TimerEvent, place
  <1> QED
    BY <1>3, <1>4, <1>5, <1>6, Zenon

\* The generator that get_connection returns.
LEMMA ChosenIsOne ==
    ASSUME ControlInv, sent_count_ < now, NEW g \in Chosen
    PROVE  g \in Gens /\ (setup.mode = "per_request" => g = sent_count_ + 1)
  <1>1. /\ setup \in Setups /\ due \in 0 .. total_samples_ /\ now \in 0 .. due
        /\ sent_count_ \in 0 .. total_samples_
    BY Zenon DEF ControlInv
  <1>2. /\ total_samples_ \in Nat \ {0}
        /\ setup.mode = "per_request" => Gens = 1 .. total_samples_
        /\ setup.mode # "per_request" => Gens = 1 .. setup.conn_cnt
    BY <1>1, TotalFacts, Zenon
  <1>3. setup.conn_cnt \in Nat /\ (setup.mode # "per_request" => setup.conn_cnt > 0)
    BY <1>1, SetupFacts, Zenon
  <1>4. CASE setup.mode = "per_request"
    BY <1>1, <1>2, <1>4, SMT DEF Chosen
  <1>5. CASE setup.mode = "round_robin"
    <2>1. g = 1 + (sent_count_ % setup.conn_cnt) /\ Gens = 1 .. setup.conn_cnt
      BY <1>2, <1>5, Zenon DEF Chosen
    <2> QED
      BY <1>1, <1>2, <1>3, <1>5, <2>1, SMT
  <1>6. CASE setup.mode \notin {"per_request", "round_robin"}
    BY <1>6, Zenon DEF Chosen
  <1> QED
    BY <1>4, <1>5, <1>6, Zenon

\* send_request.
LEMMA SendControl ==
    ASSUME ControlInv, SendRequest
    PROVE  ControlInv'
  <1>1. /\ UNCHANGED <<setup, ops, due, sent_count_, now, armed, events, todo>>
        /\ call = "none" /\ todo # <<>> /\ sent_count_ < now /\ UNCHANGED out
    BY Zenon DEF SendRequest, In, counts, timer, place
  <1>2. total_samples_' = total_samples_ /\ Gens' = Gens /\ Requests' = Requests
    BY <1>1, SetupStays, Zenon
  <1>3. CASE UNCHANGED place
    <2>1. gen' = gen /\ call' = call /\ at' = at
      BY <1>3, Zenon DEF place
    <2> QED
      BY <1>1, <1>2, <2>1, Zenon DEF ControlInv, TimerEvent
  <1>4. CASE ~UNCHANGED place
    <2>1. gen' \in Chosen /\ call' = "send_request" /\ at' \in {"tx", "read"}
      BY <1>4, Zenon DEF SendRequest
    <2>2. gen' \in Gens /\ (setup.mode = "per_request" => gen' = sent_count_ + 1)
      BY <1>1, <2>1, ChosenIsOne, Zenon
    <2> QED
      BY <1>1, <1>2, <2>1, <2>2, Zenon DEF ControlInv, TimerEvent, Places
  <1> QED
    BY <1>3, <1>4, Zenon

\* ControlInv is inductive.
LEMMA ControlStep ==
    ASSUME ControlInv, [Next]_vars
    PROVE  ControlInv'
  <1>1. CASE Run
    BY <1>1, RunControl, SendControl, SockControl, EndControl, Zenon DEF Run
  <1>2. CASE Peer \/ Tick
    BY <1>2, PeerControl
  <1>3. CASE UNCHANGED vars
    BY <1>3, SetupStays, Zenon DEF ControlInv, vars, counts, timer, place, TimerEvent
  <1> QED
    BY <1>1, <1>2, <1>3, Zenon DEF Next, Ended

\* It holds at the start.
LEMMA ControlInit == Init => ControlInv
  <1> SUFFICES ASSUME Init PROVE ControlInv
    OBVIOUS
  <1>1. total_samples_ \in Nat \ {0} /\ 1 \in Gens
    BY TotalFacts, Zenon DEF Init
  <1>2. due \in 0 .. total_samples_ /\ now \in 0 .. due /\ sent_count_ \in 0 .. total_samples_
    BY <1>1, SMT DEF Init
  <1>3. todo \in Seq(Calls)
    <2>1. <<>> \in Seq(Calls) /\ <<"timer">> \in Seq(Calls)
      BY SMT DEF Calls
    <2> QED
      BY <2>1, Zenon DEF Init
  <1> QED
    BY <1>1, <1>2, <1>3, Zenon DEF Init, ControlInv

-----------------------------------------------------------------------------
(* The bytes on the way.                                                     *)

Byte == Nat \X Nat
Line ==
    [open : BOOLEAN, edge : BOOLEAN, nospace : BOOLEAN,
     up : Seq(Byte), got : Seq(Byte), owed : Seq(Byte), down : Seq(Byte)]

\* Each socket has its line, and a generator that does not exist has none open.
NetInv == net \in [Gens -> Line]

\* The parts of packets are bytes.
LEMMA PartIsBytes ==
    ASSUME NEW r \in Nat, NEW from \in Nat, NEW n \in Nat
    PROVE  Part(r, from, n) \in Seq(Byte) /\ Len(Part(r, from, n)) = n
  <1>1. \A i \in 1 .. n : from + i \in Nat
    BY SMT
  <1>2. \A i \in 1 .. n : <<r, from + i>> \in Byte
    BY <1>1, SMT DEF Byte
  <1>3. Part(r, from, n) = [i \in 1 .. n |-> <<r, from + i>>]
    BY Zenon DEF Part
  <1>4. Part(r, from, n) \in [1 .. n -> Byte]
    BY <1>2, <1>3, Zenon
  <1> QED
    BY <1>4, SMT

\* Packets have sizes, of any commands.
LEMMA PacketSizes ==
    ASSUME NEW r
    PROVE  RequestSize(r) \in Nat \ {0} /\ HeaderSize \in Nat \ {0} /\ BodySize(r) \in Nat
  BY SizeFacts, SMT DEF RequestSize, HeaderSize, BodySize

\* The network and the server.
LEMMA PeerNet ==
    ASSUME ControlInv, NetInv, Peer
    PROVE  NetInv'
  <1>1. setup' = setup
    BY Zenon DEF Peer, Connect, Serve, Deliver
  <1>2. Gens' = Gens
    BY <1>1, SetupStays, Zenon
  <1>3. PICK g \in Gens : Connect(g) \/ Serve(g) \/ Deliver(g)
    BY Zenon DEF Peer
  <1>4. net \in [Gens -> Line] /\ net[g] \in Line
    BY Zenon DEF NetInv
  <1>5. CASE Connect(g)
    BY <1>2, <1>4, <1>5 DEF Connect, NetInv, Line
  <1>6. CASE Serve(g)
    <2> DEFINE all == net[g].got \o net[g].up
               r == all[1][1]
               complete == all # <<>> /\ all[1] # Junk /\ Len(all) >= RequestSize(r)
               got == IF complete THEN SubSeq(all, RequestSize(r) + 1, Len(all)) ELSE all
               owed == IF complete THEN net[g].owed \o Part(r, 0, HeaderSize + BodySize(r))
                       ELSE net[g].owed
    <2>1. net' = [net EXCEPT ![g].up = <<>>, ![g].nospace = FALSE,
                             ![g].edge = @ \/ net[g].nospace, ![g].got = got, ![g].owed = owed]
      BY <1>6, Zenon DEF Serve
    <2>2. net[g].got \in Seq(Byte) /\ net[g].up \in Seq(Byte) /\ net[g].owed \in Seq(Byte)
      BY <1>4, Zenon DEF Line
    <2>3. all \in Seq(Byte)
      BY <2>2
    <2>4. got \in Seq(Byte)
      <3> HIDE DEF all
      <3>1. RequestSize(r) + 1 \in Nat \ {0} /\ RequestSize(r) + 1 >= 1 /\ Len(all) \in Nat
        BY <2>3, PacketSizes, SMT
      <3>2. SubSeq(all, RequestSize(r) + 1, Len(all)) \in Seq(Byte)
        BY <2>3, <3>1
      <3> QED
        BY <2>3, <3>2, Zenon
    <2>5. owed \in Seq(Byte)
      <3> HIDE DEF all
      <3>1. complete => r \in Nat
        BY <2>3, SMT DEF Byte
      <3>2. HeaderSize + BodySize(r) \in Nat
        BY PacketSizes, SMT
      <3>3. complete => Part(r, 0, HeaderSize + BodySize(r)) \in Seq(Byte)
        BY <3>1, <3>2, PartIsBytes
      <3>4. complete => net[g].owed \o Part(r, 0, HeaderSize + BodySize(r)) \in Seq(Byte)
        BY <2>2, <3>3
      <3> QED
        BY <2>2, <3>4, Zenon
    <2>6. <<>> \in Seq(Byte)
      OBVIOUS
    <2> HIDE DEF got, owed
    <2> QED
      BY <1>2, <1>4, <2>1, <2>4, <2>5, <2>6 DEF NetInv, Line
  <1>7. CASE Deliver(g)
    <2>1. PICK n \in 1 .. Len(net[g].owed) :
           net' = [net EXCEPT ![g].down = @ \o SubSeq(net[g].owed, 1, n),
                              ![g].owed = SubSeq(@, n + 1, Len(@)), ![g].edge = TRUE]
      BY <1>7, Zenon DEF Deliver
    <2>2. net[g].owed \in Seq(Byte) /\ net[g].down \in Seq(Byte)
      BY <1>4, Zenon DEF Line
    <2>3. SubSeq(net[g].owed, 1, n) \in Seq(Byte) /\ SubSeq(net[g].owed, n + 1, Len(net[g].owed)) \in Seq(Byte)
      BY <2>2
    <2>4. net[g].down \o SubSeq(net[g].owed, 1, n) \in Seq(Byte)
      BY <2>2, <2>3
    <2> QED
      BY <1>2, <1>4, <2>1, <2>3, <2>4 DEF NetInv, Line
  <1> QED
    BY <1>3, <1>5, <1>6, <1>7, Zenon

\* One of two numbers is their minimum.
LEMMA MinOfTwo ==
    ASSUME NEW m \in Int, NEW n \in Int
    PROVE  Min({m, n}) = IF m <= n THEN m ELSE n
  <1>1. Min({m, n}) = CHOOSE x \in {m, n} : \A y \in {m, n} : x <= y
    BY Zenon DEF Min
  <1>2. LET x == IF m <= n THEN m ELSE n IN x \in {m, n} /\ \A y \in {m, n} : x <= y
    BY SMT
  <1>3. Min({m, n}) \in {m, n} /\ \A y \in {m, n} : Min({m, n}) <= y
    BY <1>1, <1>2, Zenon
  <1> QED
    BY <1>3, SMT

-----------------------------------------------------------------------------
(* The inductive invariant.                                                  *)

Slot == 0 .. setup.queue - 1
Request == [id : Nat, op : {"Get", "Set"}, measure : BOOLEAN, sent : BOOLEAN]
RxEntry == [hdrlen : Nat, bodylen : Nat, cbdata : Slot]
TxEntry == [len : Nat, cbdata : Slot]

\* The buffers of all generators hold what they should.
BufInv ==
    /\ requests_ \in [Gens -> BufferOf(setup.queue, Request)]
    /\ rx_cbs_ \in [Gens -> BufferOf(setup.queue, RxEntry)]
    /\ tx_cbs_ \in [Gens -> BufferOf(setup.queue, TxEntry)]
    /\ rbuf_ \in [Gens -> BufferOf(setup.rbuf, Byte)]
    /\ wbuf_ \in [Gens -> BufferOf(setup.wbuf, Byte)]

\* The iterators of the two loops, and the bytes that tx() has left for callbacks.
LoopInv ==
    /\ drop \in Nat /\ nbytes \in Nat
    /\ at = "tx_callbacks" => drop <= Len(Slots(tx_cbs_[gen]))
    /\ at = "rx_callbacks" => drop <= Len(Slots(rx_cbs_[gen]))
    /\ at # "tx_callbacks" => nbytes = 0
    /\ at \notin {"tx_callbacks", "rx_callbacks"} => drop = 0

\* What tx() has passed and has left on this socket.
TxPassed(g) == IF g = gen /\ at = "tx_callbacks" THEN drop ELSE 0
TxLeft(g) == IF g = gen /\ at = "tx_callbacks" THEN nbytes ELSE 0

\* The lengths of callbacks.
Lens(s) == [i \in 1 .. Len(s) |-> s[i].len]

\* sum[i] is the sum of the lengths after the i-th of s, and o the one after the d-th.
SumsTo(s, d, sum, o) ==
    /\ sum[Len(s)] = 0 /\ sum[d] = o
    /\ \A i \in 1 .. Len(s) : i > d => sum[i - 1] = sum[i] + s[i]

\* tx_out_ is the sum of the lengths of the callbacks that wait, and no more than
\* there is to write, unless tx_cbs_ is full, which it then stays.
TxOf(g) ==
    /\ \E sum \in [0 .. setup.queue -> Nat] :
          SumsTo(Lens(Items(tx_cbs_[g])), TxPassed(g), sum, tx_out_[g])
    /\ tx_cbs_[g].used_ < setup.queue => tx_out_[g] <= wbuf_[g].used_ + TxLeft(g)
TxInv == tx_out_ \in [Gens -> Nat] /\ \A g \in Gens : TxOf(g)

\* The responses that are counted: as many as requests finished, until the last.
CountInv ==
    /\ rcvd_count_ \in 0 .. total_samples_ /\ measure_count_ \in 0 .. rcvd_count_
    /\ Running => rcvd_count_ < total_samples_
    /\ status \in {"running", "exited", "full", "check_failed", "use_after_free", "terminated"}

\* A generator that does not exist has no connection, and nothing epoll_wait has
\* reported is about one; run_io has taken its event from the list, and those made
\* for one request are used in their turn.
RefInv ==
    /\ ref_cnt_ \in [Gens -> Nat] /\ ReferencesCounted /\ UsedIsAlive
    /\ \A g \in Gens : ref_cnt_[g] = 0 => net[g] = NotConnected
    /\ \A e, f \in events : e.gen = f.gen => e = f
    /\ call = "run_io" => \A e \in events : e.gen # gen
    /\ setup.mode = "per_request" =>
           /\ \A e \in events : e.gen <= sent_count_
           /\ \A g \in Gens : requests_[g].used_ > 0 =>
                  g <= sent_count_ \/ (g = gen /\ call = "send_request")

\* What rx() has passed on this socket, and whether _send_request still has to
\* queue the callback for the response.
RxPassed(g) == IF g = gen /\ at = "rx_callbacks" THEN drop ELSE 0
RxPending(g) ==
    IF g = gen /\ call = "send_request" /\ at \in {"tx", "tx_callbacks", "read"} THEN 1 ELSE 0

\* Without bodies there is one callback for each request, and it waits for a header.
RxOf(g) ==
    /\ rx_cbs_[g].used_ - RxPassed(g) + RxPending(g) = requests_[g].used_
    /\ \A i \in 1 .. rx_cbs_[g].used_ : i > RxPassed(g) => Items(rx_cbs_[g])[i].hdrlen > 0
RxInv == setup.proto = "synthetic" => \A g \in Gens : RxOf(g)

\* A socket is only destroyed with a callback too many where bodies come late and
\* the connection goes with its request.
QuietUnlessBodies ==
    setup.proto = "synthetic" \/ setup.mode # "per_request" => TeardownIsQuiet

-----------------------------------------------------------------------------
(* What is put in wbuf_.                                                     *)

\* write() of a sequence of bytes that there is room for.
LEMMA Written ==
    ASSUME NEW N \in Nat \ {0}, NEW b \in BufferOf(N, Byte), NEW data \in Seq(Byte),
           CanQueue(b, Len(data))
    PROVE  Write(b, data) \in BufferOf(N, Byte) /\ Write(b, data).used_ = b.used_ + Len(data)
  BY QueueIndices DEF Write

\* The part of an object that is contiguous.
LEMMA PrepBounds ==
    ASSUME NEW N \in Nat \ {0}, NEW T, NEW b \in BufferOf(N, T), NEW len \in Nat, CanQueue(b, len)
    PROVE  QueuePrep(b, len) \in 1 .. len
  <1>1. b.size = N /\ b.head_ \in 0 .. N - 1 /\ b.tail_ \in 0 .. N - 1
    BY Fields, Zenon
  <1>2. len # 0
    BY Zenon DEF CanQueue
  <1> QED
    BY <1>1, <1>2, SMT DEF QueuePrep

\* write_emplace puts as many bytes as the object has.
LEMMA WrittenObject ==
    ASSUME NEW N \in Nat \ {0}, NEW b \in BufferOf(N, Byte), NEW data \in Seq(Byte),
           CanQueue(b, Len(data))
    PROVE  /\ WriteEmplace(b, data) \in BufferOf(N, Byte)
           /\ WriteEmplace(b, data).used_ = b.used_ + Len(data)
  <1> DEFINE n1 == QueuePrep(b, Len(data))
             put == [i \in 1 .. Len(data) |-> IF i <= n1 THEN data[i] ELSE Junk]
  <1>1. Junk \in Byte
    BY SMT DEF Junk, Byte
  <1>2. \A i \in 1 .. Len(data) : (IF i <= n1 THEN data[i] ELSE Junk) \in Byte
    BY <1>1, ElementOfSeq, Zenon
  <1>3. put \in [1 .. Len(data) -> Byte] /\ Len(data) \in Nat
    BY <1>2, LenProperties, Zenon
  <1>4. WriteEmplace(b, data) = Write(b, put)
    BY Zenon DEF WriteEmplace
  <1> HIDE DEF put
  <1>5. put \in Seq(Byte) /\ Len(put) = Len(data)
    BY <1>3
  <1> QED
    BY <1>4, <1>5, Written, Zenon

\* write_prepare puts some of them.
LEMMA WrittenPrepared ==
    ASSUME NEW N \in Nat \ {0}, NEW b \in BufferOf(N, Byte), NEW data \in Seq(Byte),
           CanQueue(b, Len(data))
    PROVE  /\ WritePrepared(b, data) \in BufferOf(N, Byte)
           /\ WritePrepared(b, data).used_ >= b.used_
  <1> DEFINE n1 == QueuePrep(b, Len(data))
             put == SubSeq(data, 1, n1)
  <1>1. Len(data) \in Nat
    BY LenProperties, Zenon
  <1>2. n1 \in 1 .. Len(data)
    BY <1>1, PrepBounds, Zenon
  <1> HIDE DEF n1
  <1>3. put \in Seq(Byte) /\ Len(put) = n1
    BY <1>2
  <1> HIDE DEF put
  <1>4. b.used_ \in 0 .. N /\ b.size = N
    BY Fields, Zenon
  <1>5. CanQueue(b, Len(put))
    <2>1. Len(data) <= N - b.used_
      BY <1>4, Zenon DEF CanQueue, Space
    <2>2. n1 # 0 /\ n1 <= N - b.used_
      BY <1>1, <1>2, <1>4, <2>1, SMT
    <2> QED
      BY <1>3, <1>4, <2>2, Zenon DEF CanQueue, Space
  <1>6. Write(b, put) \in BufferOf(N, Byte) /\ Write(b, put).used_ = b.used_ + n1
    BY <1>3, <1>5, Written, Zenon
  <1>7. b.used_ + n1 >= b.used_
    BY <1>2, <1>4, SMT
  <1>8. WritePrepared(b, data) = Write(b, put)
    BY Zenon DEF WritePrepared, put, n1
  <1> QED
    BY <1>6, <1>7, <1>8, Zenon

\* Room for the whole is room for the first part, and then for the second.
LEMMA RoomForBoth ==
    ASSUME NEW N \in Nat \ {0}, NEW b \in BufferOf(N, Byte), NEW m \in Nat \ {0}, NEW n \in Nat \ {0},
           CanQueue(b, m + n)
    PROVE  /\ CanQueue(b, m)
           /\ \A c \in BufferOf(N, Byte) : c.used_ = b.used_ + m => CanQueue(c, n)
  <1>1. b.used_ \in 0 .. N /\ b.size = N
    BY Fields, Zenon
  <1>2. m + n <= N - b.used_
    BY <1>1, Zenon DEF CanQueue, Space
  <1>3. m # 0 /\ m <= N - b.used_ /\ n # 0 /\ n <= N - (b.used_ + m)
    BY <1>1, <1>2, SMT
  <1>4. \A c \in BufferOf(N, Byte) : c.size = N
    BY Fields, Zenon
  <1> QED
    BY <1>1, <1>3, <1>4, Zenon DEF CanQueue, Space

\* _send_request of either protocol: what was in wbuf_ stays, and more comes.
LEMMA RequestPut ==
    ASSUME setup \in Setups, NEW b \in BufferOf(setup.wbuf, Byte), NEW r \in Nat,
           CanQueue(b, RequestSize(r))
    PROVE  /\ PutRequest(b, r) \in BufferOf(setup.wbuf, Byte)
           /\ PutRequest(b, r).used_ >= b.used_
  <1> DEFINE B == BufferOf(setup.wbuf, Byte)
  <1>1. setup.wbuf \in Nat \ {0} /\ b.used_ \in Nat
    <2>1. setup.wbuf \in Nat \ {0}
      BY SetupFacts, Zenon
    <2>2. b.used_ \in 0 .. setup.wbuf
      BY <2>1, Fields, Zenon
    <2> QED
      BY <2>1, <2>2, SMT
  <1>2. /\ PktSize \in Nat \ {0} /\ HdrSize \in Nat \ {0} /\ ExtrasSize \in Nat \ {0}
        /\ KeySize \in Nat \ {0} /\ ValSize \in Nat \ {0} /\ 0 \in Nat
    BY SizeFacts, SMT
  <1> DEFINE head == Part(r, 0, HdrSize)
             header == WriteEmplace(b, head)
  <1>3. \A from, n \in Nat : Part(r, from, n) \in Seq(Byte) /\ Len(Part(r, from, n)) = n
    BY PartIsBytes, Zenon
  <1>4. CASE setup.proto = "synthetic"
    <2>1. Part(r, 0, PktSize) \in Seq(Byte) /\ Len(Part(r, 0, PktSize)) = PktSize
      BY <1>2, <1>3, Zenon
    <2>2. CanQueue(b, PktSize) /\ PutRequest(b, r) = WritePrepared(b, Part(r, 0, PktSize))
      BY <1>4, Zenon DEF PutRequest, RequestSize
    <2> QED
      BY <1>1, <2>1, <2>2, WrittenPrepared, Zenon
  <1>5. ASSUME NEW n \in Nat \ {0}, CanQueue(b, HdrSize + n)
        PROVE  header \in B /\ header.used_ = b.used_ + HdrSize /\ CanQueue(header, n)
    <2>1. head \in Seq(Byte) /\ Len(head) = HdrSize
      BY <1>2, <1>3, Zenon
    <2>2. CanQueue(b, HdrSize)
      BY <1>1, <1>2, <1>5, RoomForBoth, Zenon
    <2>3. header \in B /\ header.used_ = b.used_ + HdrSize
      BY <1>1, <2>1, <2>2, WrittenObject, Zenon
    <2>4. \A c \in B : c.used_ = b.used_ + HdrSize => CanQueue(c, n)
      BY <1>1, <1>2, <1>5, RoomForBoth, Zenon
    <2> QED
      BY <2>3, <2>4, Zenon
  <1> HIDE DEF header, head
  <1>6. CASE setup.proto # "synthetic" /\ ops[r] = "Get"
    <2> DEFINE key == Part(r, HdrSize, KeySize)
    <2>1. key \in Seq(Byte) /\ Len(key) = KeySize
      BY <1>2, <1>3, Zenon
    <2>2. CanQueue(b, HdrSize + KeySize) /\ PutRequest(b, r) = Write(header, key)
      BY <1>6, Zenon DEF PutRequest, RequestSize, header, head
    <2> HIDE DEF key
    <2>3. header \in B /\ header.used_ = b.used_ + HdrSize /\ CanQueue(header, KeySize)
      BY <1>2, <1>5, <2>2, Zenon
    <2>4. PutRequest(b, r) \in B /\ PutRequest(b, r).used_ = (b.used_ + HdrSize) + KeySize
      BY <1>1, <2>1, <2>2, <2>3, Written, Zenon
    <2>5. (b.used_ + HdrSize) + KeySize >= b.used_
      BY <1>1, <1>2, SMT
    <2> QED
      BY <2>4, <2>5, Zenon
  <1>7. CASE setup.proto # "synthetic" /\ ops[r] # "Get"
    <2> DEFINE d1 == Part(r, HdrSize, ExtrasSize)
               d2 == Part(r, HdrSize + ExtrasSize, KeySize)
               d3 == Part(r, HdrSize + ExtrasSize + KeySize, ValSize)
               extras == WriteEmplace(header, d1)
               key == Write(extras, d2)
    <2>1. /\ HdrSize + ExtrasSize \in Nat /\ HdrSize + ExtrasSize + KeySize \in Nat
          /\ KeySize + ValSize \in Nat \ {0} /\ ExtrasSize + (KeySize + ValSize) \in Nat \ {0}
          /\ HdrSize + ExtrasSize + KeySize + ValSize = HdrSize + (ExtrasSize + (KeySize + ValSize))
      BY <1>2, SMT
    <2>2. /\ d1 \in Seq(Byte) /\ Len(d1) = ExtrasSize /\ d2 \in Seq(Byte) /\ Len(d2) = KeySize
          /\ d3 \in Seq(Byte) /\ Len(d3) = ValSize
      BY <1>2, <1>3, <2>1, Zenon
    <2>3. CanQueue(b, HdrSize + (ExtrasSize + (KeySize + ValSize))) /\ PutRequest(b, r) = Write(key, d3)
      BY <1>7, <2>1, Zenon DEF PutRequest, RequestSize, header, head
    <2> HIDE DEF d1, d2, d3
    <2>4. /\ header \in B /\ header.used_ = b.used_ + HdrSize
          /\ CanQueue(header, ExtrasSize + (KeySize + ValSize))
      BY <1>5, <2>1, <2>3, Zenon
    <2>5. extras \in B /\ extras.used_ = header.used_ + ExtrasSize /\ CanQueue(extras, KeySize + ValSize)
      <3>1. CanQueue(header, ExtrasSize)
        BY <1>1, <1>2, <2>1, <2>4, RoomForBoth, Zenon
      <3>2. extras \in B /\ extras.used_ = header.used_ + ExtrasSize
        BY <1>1, <2>2, <2>4, <3>1, WrittenObject, Zenon
      <3> QED
        BY <1>1, <1>2, <2>1, <2>4, <3>2, RoomForBoth, Zenon
    <2> HIDE DEF extras
    <2>6. key \in B /\ key.used_ = extras.used_ + KeySize /\ CanQueue(key, ValSize)
      <3>1. CanQueue(extras, KeySize)
        BY <1>1, <1>2, <2>5, RoomForBoth, Zenon
      <3>2. key \in B /\ key.used_ = extras.used_ + KeySize
        BY <1>1, <2>2, <2>5, <3>1, Written, Zenon
      <3> QED
        BY <1>1, <1>2, <2>5, <3>2, RoomForBoth, Zenon
    <2> HIDE DEF key
    <2>7. PutRequest(b, r) \in B /\ PutRequest(b, r).used_ = key.used_ + ValSize
      BY <1>1, <2>2, <2>3, <2>6, Written, Zenon
    <2>8. PutRequest(b, r).used_ = (((b.used_ + HdrSize) + ExtrasSize) + KeySize) + ValSize
      BY <2>4, <2>5, <2>6, <2>7, Zenon
    <2>9. (((b.used_ + HdrSize) + ExtrasSize) + KeySize) + ValSize >= b.used_
      BY <1>1, <1>2, SMT
    <2> QED
      BY <2>7, <2>8, <2>9, Zenon
  <1> QED
    BY <1>4, <1>6, <1>7, Zenon

-----------------------------------------------------------------------------
(* The bytes on the way, in every step.                                      *)

\* The buffers of one generator.
LEMMA GenFacts ==
    ASSUME ControlInv, BufInv, NEW g \in Gens
    PROVE  /\ setup.queue \in Nat \ {0} /\ setup.rbuf \in Nat \ {0} /\ setup.wbuf \in Nat \ {0}
           /\ requests_[g] \in BufferOf(setup.queue, Request)
           /\ rx_cbs_[g] \in BufferOf(setup.queue, RxEntry)
           /\ tx_cbs_[g] \in BufferOf(setup.queue, TxEntry)
           /\ rbuf_[g] \in BufferOf(setup.rbuf, Byte)
           /\ wbuf_[g] \in BufferOf(setup.wbuf, Byte)
  BY SetupFacts, Zenon DEF ControlInv, BufInv

\* How much they hold.
LEMMA UsedFacts ==
    ASSUME ControlInv, BufInv, NEW g \in Gens
    PROVE  /\ requests_[g].used_ \in Nat /\ requests_[g].used_ <= setup.queue
           /\ rx_cbs_[g].used_ \in Nat /\ rx_cbs_[g].used_ <= setup.queue
           /\ tx_cbs_[g].used_ \in Nat /\ tx_cbs_[g].used_ <= setup.queue
           /\ rbuf_[g].used_ \in Nat /\ rbuf_[g].used_ <= setup.rbuf /\ rbuf_[g].size = setup.rbuf
           /\ wbuf_[g].used_ \in Nat /\ wbuf_[g].used_ <= setup.wbuf
  <1>1. /\ requests_[g].used_ \in 0 .. setup.queue /\ rx_cbs_[g].used_ \in 0 .. setup.queue
        /\ tx_cbs_[g].used_ \in 0 .. setup.queue
        /\ rbuf_[g].used_ \in 0 .. setup.rbuf /\ wbuf_[g].used_ \in 0 .. setup.wbuf
        /\ rbuf_[g].size = setup.rbuf
    BY GenFacts, Fields, ZenonT(60)
  <1>2. setup.queue \in Nat \ {0} /\ setup.rbuf \in Nat \ {0} /\ setup.wbuf \in Nat \ {0}
    BY GenFacts, Zenon
  <1>3. \A u, N : N \in Nat \ {0} /\ u \in 0 .. N => u \in Nat /\ u <= N
    BY SMT
  <1> QED
    BY <1>1, <1>2, <1>3, Zenon

\* A sequence in two parts.
LEMMA TwoParts ==
    ASSUME NEW S, NEW s \in Seq(S), NEW n \in 0 .. Len(s)
    PROVE  /\ SubSeq(s, 1, n) \in Seq(S) /\ Len(SubSeq(s, 1, n)) = n
           /\ SubSeq(s, n + 1, Len(s)) \in Seq(S)
  OBVIOUS

\* What tx() writes is the first n bytes of wbuf_.
LEMMA TxBytes ==
    ASSUME ControlInv, NetInv, BufInv,
           NEW n, n = Min({wbuf_[gen].used_, setup.room - Len(net[gen].up)}), n > 0
    PROVE  /\ n \in 1 .. wbuf_[gen].used_
           /\ LET data == Peek1(wbuf_[gen], wbuf_[gen].used_) \o Peek2(wbuf_[gen], wbuf_[gen].used_)
              IN  SubSeq(data, 1, n) \in Seq(Byte)
  <1>1. gen \in Gens /\ setup.room \in Nat \ {0}
    BY SetupFacts, Zenon DEF ControlInv
  <1>2. PICK b \in BufferOf(setup.wbuf, Byte) : b = wbuf_[gen]
    BY <1>1, GenFacts, Zenon
  <1>3. setup.wbuf \in Nat \ {0} /\ b.used_ \in Nat
    BY <1>1, <1>2, GenFacts, UsedFacts, Zenon
  <1>4. net[gen].up \in Seq(Byte)
    BY <1>1, Zenon DEF NetInv, Line
  <1>5. PICK k \in Int : k = setup.room - Len(net[gen].up)
    <2>1. Len(net[gen].up) \in Nat
      BY <1>4, LenProperties, Zenon
    <2> QED
      BY <1>1, <2>1, SMT
  <1>6. n = IF b.used_ <= k THEN b.used_ ELSE k
    <2>1. b.used_ \in Int
      BY <1>3, SMT
    <2>2. n = Min({b.used_, k})
      BY <1>2, <1>5, Zenon
    <2> QED
      BY <2>1, <2>2, MinOfTwo, Zenon
  <1>7. n \in 1 .. b.used_ /\ b.used_ # 0 /\ b.used_ <= b.used_
    BY <1>3, <1>6, SMT
  <1> DEFINE data == Peek1(b, b.used_) \o Peek2(b, b.used_)
  <1>8. data = SubSeq(Items(b), 1, b.used_)
    BY <1>3, <1>7, PeekInOrder, Zenon DEF CanTake
  <1>9. Items(b) \in Seq(Byte) /\ Len(Items(b)) = b.used_
    BY <1>3, ItemsType, Zenon
  <1> HIDE DEF data
  <1>10. data \in Seq(Byte) /\ Len(data) = b.used_
    BY <1>3, <1>8, <1>9
  <1>11. SubSeq(data, 1, n) \in Seq(Byte)
    <2>1. n \in 0 .. b.used_
      BY <1>3, <1>7, SMT
    <2> QED
      BY <1>10, <2>1, TwoParts, Zenon
  <1> QED
    BY <1>2, <1>7, <1>11, Zenon DEF data

\* What rx() reads fits in rbuf_.
LEMMA RxBytes ==
    ASSUME ControlInv, NetInv, BufInv,
           NEW n, n = Min({Space(rbuf_[gen]), Len(net[gen].down)}), n > 0
    PROVE  /\ SubSeq(net[gen].down, 1, n) \in Seq(Byte) /\ Len(SubSeq(net[gen].down, 1, n)) = n
           /\ SubSeq(net[gen].down, n + 1, Len(net[gen].down)) \in Seq(Byte)
           /\ CanQueue(rbuf_[gen], n)
  <1>1. gen \in Gens
    BY Zenon DEF ControlInv
  <1>2. PICK down \in Seq(Byte) : down = net[gen].down
    BY <1>1, Zenon DEF NetInv, Line
  <1>3. PICK len \in Nat : len = Len(down)
    BY LenProperties, Zenon
  <1>4. PICK k \in Int : k = Space(rbuf_[gen])
    <2>1. rbuf_[gen].used_ \in Nat /\ rbuf_[gen].size \in Nat
      BY <1>1, UsedFacts, GenFacts
    <2> QED
      BY <2>1, SMT DEF Space
  <1>5. n = IF k <= len THEN k ELSE len
    <2>1. n = Min({k, len}) /\ len \in Int
      BY <1>2, <1>3, <1>4
    <2> QED
      BY <2>1, MinOfTwo, Zenon
  <1>6. n \in Nat /\ n # 0 /\ n <= k /\ n <= len
    BY <1>5, SMT
  <1>7. n \in 0 .. Len(down)
    BY <1>3, <1>6, SMT
  <1>8. SubSeq(down, 1, n) \in Seq(Byte) /\ Len(SubSeq(down, 1, n)) = n
    BY <1>7, TwoParts, Zenon
  <1>9. SubSeq(down, n + 1, Len(down)) \in Seq(Byte)
    BY <1>7, TwoParts, Zenon
  <1>10. CanQueue(rbuf_[gen], n)
    BY <1>4, <1>6, Zenon DEF CanQueue
  <1> QED
    BY <1>2, <1>8, <1>9, <1>10, Zenon

\* The end of a call on a generator leaves setup and what it does not name alone.
LEMMA EndFacts ==
    ASSUME EndRunIO \/ EndSendRequest
    PROVE  /\ Running /\ Put /\ Leave /\ at = "put" /\ call # "none"
           /\ UNCHANGED <<setup, ops, due, now, armed, events, requests_, sockets, locals>>
           /\ UNCHANGED <<rcvd_count_, measure_count_>>
  BY Zenon DEF EndRunIO, EndSendRequest, On, counts, timer

\* No step changes the setup.
LEMMA SetupSame ==
    ASSUME [Next]_vars
    PROVE  /\ setup' = setup /\ total_samples_' = total_samples_ /\ Gens' = Gens
  <1>1. setup' = setup
    BY Zenon DEF Next, Run, Peer, Ended, vars, EpollWait, HandleEvent, ReadClock, Sleep, SendRequest,
       Tx, TxCallback, Read, Rx, RxCallback, EndRunIO, EndSendRequest, Tick, Connect, Serve, Deliver
  <1> QED
    BY <1>1, SetupStays, Zenon

\* NetInv is preserved.
LEMMA NetStep ==
    ASSUME ControlInv, NetInv, BufInv, [Next]_vars
    PROVE  NetInv'
  <1>1. Gens' = Gens
    BY SetupSame, Zenon
  <1>2. gen \in Gens /\ net \in [Gens -> Line] /\ net[gen] \in Line
    BY Zenon DEF ControlInv, NetInv
  <1>3. CASE UNCHANGED net
    BY <1>1, <1>3, Zenon DEF NetInv
  <1>4. CASE EpollWait
    <2>1. net' = [g \in Gens |-> [net[g] EXCEPT !.edge = FALSE]]
      BY <1>4, Zenon DEF EpollWait
    <2>2. \A g \in Gens : net[g] \in Line
      BY Zenon DEF NetInv
    <2>3. \A g \in Gens : [net[g] EXCEPT !.edge = FALSE] \in Line
      BY <2>2 DEF Line
    <2> QED
      BY <1>1, <2>1, <2>3, Zenon DEF NetInv
  <1>5. CASE Tx
    <2> DEFINE n == Min({wbuf_[gen].used_, setup.room - Len(net[gen].up)})
               data == Peek1(wbuf_[gen], wbuf_[gen].used_) \o Peek2(wbuf_[gen], wbuf_[gen].used_)
               part == SubSeq(data, 1, n)
    <2>1. \/ UNCHANGED net
          \/ net' = [net EXCEPT ![gen].nospace = TRUE]
          \/ n > 0 /\ net' = [net EXCEPT ![gen].up = @ \o part]
      BY <1>5, Zenon DEF Tx
    <2>2. n > 0 => part \in Seq(Byte)
      BY TxBytes, Zenon
    <2> HIDE DEF n, part
    <2>3. net[gen].up \in Seq(Byte)
      BY <1>2, Zenon DEF Line
    <2>4. n > 0 => net[gen].up \o part \in Seq(Byte)
      BY <2>2, <2>3
    <2>5. CASE net' = [net EXCEPT ![gen].nospace = TRUE]
      BY <1>1, <1>2, <2>5 DEF NetInv, Line
    <2>6. CASE n > 0 /\ net' = [net EXCEPT ![gen].up = @ \o part]
      <3>1. PICK up \in Seq(Byte) : up = net[gen].up \o part
        BY <2>4, <2>6, Zenon
      <3>2. net' = [net EXCEPT ![gen].up = up]
        BY <2>6, <3>1, Zenon
      <3>3. [net[gen] EXCEPT !.up = up] \in Line
        BY <1>2 DEF Line
      <3>4. net' = [net EXCEPT ![gen] = [net[gen] EXCEPT !.up = up]]
        BY <3>2, Zenon
      <3> QED
        BY <1>1, <1>2, <3>3, <3>4, Zenon DEF NetInv
    <2> QED
      BY <1>3, <2>1, <2>5, <2>6, Zenon
  <1>6. CASE Rx
    <2> DEFINE n == Min({Space(rbuf_[gen]), Len(net[gen].down)})
               rest == SubSeq(net[gen].down, n + 1, Len(net[gen].down))
    <2>1. UNCHANGED net \/ (n > 0 /\ net' = [net EXCEPT ![gen].down = SubSeq(@, n + 1, Len(@))])
      BY <1>6, Zenon DEF Rx
    <2>2. CASE n > 0 /\ net' = [net EXCEPT ![gen].down = SubSeq(@, n + 1, Len(@))]
      <3>1. rest \in Seq(Byte)
        BY <2>2, RxBytes, Zenon
      <3>2. net' = [net EXCEPT ![gen] = [net[gen] EXCEPT !.down = rest]]
        BY <2>2, Zenon
      <3> HIDE DEF rest
      <3>3. [net[gen] EXCEPT !.down = rest] \in Line
        BY <1>2, <3>1 DEF Line
      <3> QED
        BY <1>1, <1>2, <3>2, <3>3, Zenon DEF NetInv
    <2> QED
      BY <1>3, <2>1, <2>2, Zenon
  <1>7. CASE EndRunIO \/ EndSendRequest
    <2>1. NotConnected \in Line
      BY SMT DEF NotConnected, Line
    <2>2. UNCHANGED net \/ net' = [net EXCEPT ![gen] = NotConnected]
      BY <1>7, EndFacts, Zenon DEF Put
    <2> QED
      BY <1>1, <1>2, <1>3, <2>1, <2>2, Zenon DEF NetInv
  <1>8. CASE Peer
    BY <1>8, PeerNet, Zenon
  <1>9. UNCHANGED net \/ EpollWait \/ Tx \/ Rx \/ EndRunIO \/ EndSendRequest \/ Peer
    BY Zenon DEF Next, Run, Ended, vars, HandleEvent, ReadClock, Sleep, SendRequest, TxCallback, Read,
       RxCallback, Tick
  <1> QED
    BY <1>3, <1>4, <1>5, <1>6, <1>7, <1>8, <1>9, Zenon

-----------------------------------------------------------------------------
(* The buffers, in every step.                                               *)

\* The entry at the iterator of a loop that has not ended.
LEMMA AtIterator ==
    ASSUME NEW N \in Nat \ {0}, NEW T, NEW b \in BufferOf(N, T), NEW d \in Nat,
           d <= Len(Slots(b)), d # Len(Slots(b))
    PROVE  /\ d + 1 \in 1 .. b.used_ /\ b.used_ < N /\ d <= b.used_
           /\ Slots(b)[d + 1] = SlotOf(b, d + 1) /\ SlotOf(b, d + 1) \in 0 .. N - 1
           /\ b.buf_[SlotOf(b, d + 1)] \in T /\ b.buf_[SlotOf(b, d + 1)] = Items(b)[d + 1]
  <1>1. /\ Len(Slots(b)) \in 0 .. b.used_ /\ Len(Slots(b)) = (IF b.used_ < N THEN b.used_ ELSE 0)
        /\ \A i \in 1 .. Len(Slots(b)) : Slots(b)[i] = SlotOf(b, i)
    BY LoopSlots, Zenon
  <1>2. b.used_ \in 0 .. N /\ b.buf_ \in [0 .. N - 1 -> T]
    BY Fields, Zenon
  <1>3. PICK l \in Int : l = Len(Slots(b))
    BY <1>1, <1>2, SMT
  <1>4. d + 1 \in 1 .. l /\ d + 1 \in 1 .. b.used_ /\ b.used_ < N /\ d <= b.used_
    <2>1. d <= l /\ d # l /\ l \in 0 .. b.used_ /\ l = (IF b.used_ < N THEN b.used_ ELSE 0)
      BY <1>1, <1>3, Zenon
    <2> QED
      BY <1>2, <2>1, SMT
  <1>5. Slots(b)[d + 1] = SlotOf(b, d + 1)
    BY <1>1, <1>3, <1>4, Zenon
  <1>6. SlotOf(b, d + 1) \in 0 .. N - 1
    BY <1>4, SlotInRange, Zenon
  <1>7. b.buf_[SlotOf(b, d + 1)] = Items(b)[d + 1]
    BY <1>4, Zenon DEF Items
  <1> QED
    BY <1>2, <1>4, <1>5, <1>6, <1>7, Zenon

\* The end of a loop: what it has passed is dropped.
LEMMA AtLoopEnd ==
    ASSUME NEW N \in Nat \ {0}, NEW T, NEW b \in BufferOf(N, T), NEW d \in Nat, d <= Len(Slots(b))
    PROVE  /\ d <= b.used_ /\ Drop(b, d) \in BufferOf(N, T) /\ Drop(b, d).used_ = b.used_ - d
           /\ Items(Drop(b, d)) = SubSeq(Items(b), d + 1, b.used_)
  <1>1. Len(Slots(b)) \in 0 .. b.used_ /\ b.used_ \in 0 .. N
    BY LoopSlots, Fields, Zenon
  <1>2. PICK l \in Int : l = Len(Slots(b))
    BY <1>1, SMT
  <1>3. d \in 0 .. b.used_ /\ d <= b.used_
    <2>1. d <= l /\ l \in 0 .. b.used_
      BY <1>1, <1>2, Zenon
    <2> QED
      BY <1>1, <2>1, SMT
  <1> QED
    BY <1>3, Dropped, Zenon

\* The loop ends at an entry that is changed first.
LEMMA AtLoopStop ==
    ASSUME NEW N \in Nat \ {0}, NEW T, NEW b \in BufferOf(N, T), NEW d \in Nat,
           d <= Len(Slots(b)), d # Len(Slots(b)), NEW x \in T
    PROVE  LET c == SetSlot(b, Slots(b)[d + 1], x) IN
           /\ Drop(c, d) \in BufferOf(N, T) /\ Drop(c, d).used_ = b.used_ - d
           /\ Items(Drop(c, d)) = SubSeq([Items(b) EXCEPT ![d + 1] = x], d + 1, b.used_)
  <1>1. /\ d + 1 \in 1 .. b.used_ /\ b.used_ < N /\ d <= b.used_
        /\ Slots(b)[d + 1] = SlotOf(b, d + 1) /\ SlotOf(b, d + 1) \in 0 .. N - 1
    BY AtIterator
  <1>2. /\ SetSlot(b, SlotOf(b, d + 1), x) \in BufferOf(N, T)
        /\ SetSlot(b, SlotOf(b, d + 1), x).used_ = b.used_
    BY <1>1, SlotKept
  <1>3. Items(SetSlot(b, SlotOf(b, d + 1), x)) = [Items(b) EXCEPT ![d + 1] = x]
    BY <1>1, ItemSet
  <1>4. PICK c \in BufferOf(N, T) :
           c = SetSlot(b, SlotOf(b, d + 1), x) /\ c.used_ = b.used_
           /\ Items(c) = [Items(b) EXCEPT ![d + 1] = x]
    BY <1>2, <1>3, Zenon
  <1>5. d \in 0 .. c.used_
    <2>1. b.used_ \in 0 .. N
      BY Fields, Zenon
    <2> QED
      BY <1>1, <1>4, <2>1, SMT
  <1>6. /\ Drop(c, d) \in BufferOf(N, T) /\ Drop(c, d).used_ = c.used_ - d
        /\ Items(Drop(c, d)) = SubSeq(Items(c), d + 1, c.used_)
    BY <1>5, Dropped, Zenon
  <1>7. c = SetSlot(b, Slots(b)[d + 1], x)
    BY <1>1, <1>4, Zenon
  <1> QED
    BY <1>4, <1>6, <1>7, Zenon

\* The same of the loop that is running.
LEMMA AtCurrent ==
    ASSUME NEW N \in Nat \ {0}, NEW T, NEW b \in BufferOf(N, T), drop \in Nat,
           drop <= Len(Slots(b)), ~AtEnd(b)
    PROVE  /\ drop + 1 \in 1 .. b.used_ /\ b.used_ < N /\ drop # Len(Slots(b))
           /\ Current(b) = Slots(b)[drop + 1] /\ Current(b) \in 0 .. N - 1
           /\ b.buf_[Current(b)] \in T /\ b.buf_[Current(b)] = Items(b)[drop + 1]
  <1>1. drop # Len(Slots(b)) /\ Current(b) = Slots(b)[drop + 1]
    BY Zenon DEF AtEnd, Current
  <1>2. PICK d \in Nat : d = drop
    BY Zenon
  <1>3. d <= Len(Slots(b)) /\ d # Len(Slots(b))
    BY <1>1, <1>2, Zenon
  <1>4. /\ d + 1 \in 1 .. b.used_ /\ b.used_ < N /\ d <= b.used_
        /\ Slots(b)[d + 1] = SlotOf(b, d + 1) /\ SlotOf(b, d + 1) \in 0 .. N - 1
        /\ b.buf_[SlotOf(b, d + 1)] \in T /\ b.buf_[SlotOf(b, d + 1)] = Items(b)[d + 1]
    BY <1>3, AtIterator
  <1> QED
    BY <1>1, <1>2, <1>4, Zenon

\* What BufInv says once more, for a step that does not change the setup.
LEMMA BufFrom ==
    ASSUME setup' = setup,
           requests_' \in [Gens -> BufferOf(setup.queue, Request)],
           rx_cbs_' \in [Gens -> BufferOf(setup.queue, RxEntry)],
           tx_cbs_' \in [Gens -> BufferOf(setup.queue, TxEntry)],
           rbuf_' \in [Gens -> BufferOf(setup.rbuf, Byte)],
           wbuf_' \in [Gens -> BufferOf(setup.wbuf, Byte)]
    PROVE  BufInv'
  <1>1. Gens' = Gens
    BY SetupStays, Zenon
  <1>2. RxEntry' = RxEntry /\ TxEntry' = TxEntry
    BY Zenon DEF RxEntry, TxEntry, Slot
  <1> QED
    BY <1>1, <1>2, Zenon DEF BufInv

\* sent_request changes one request.
LEMMA MarkedSent ==
    ASSUME setup.queue \in Nat \ {0}, NEW b \in BufferOf(setup.queue, Request), NEW i \in Slot
    PROVE  /\ MarkSent(b, i) \in BufferOf(setup.queue, Request)
           /\ MarkSent(b, i).used_ = b.used_
  <1> DEFINE request == b.buf_[i]
             sent == [id |-> request.id, op |-> request.op, measure |-> request.measure, sent |-> TRUE]
  <1>1. b.buf_ \in [0 .. setup.queue - 1 -> Request] /\ i \in 0 .. setup.queue - 1
    BY Fields, Zenon DEF Slot
  <1>2. request \in Request
    BY <1>1, Zenon
  <1>3. sent \in Request
    BY <1>2, Zenon DEF Request
  <1>4. MarkSent(b, i) = SetSlot(b, i, sent)
    BY Zenon DEF MarkSent
  <1> HIDE DEF sent
  <1> QED
    BY <1>1, <1>3, <1>4, SlotKept

\* The callbacks of tx().
LEMMA TxCallbackBuf ==
    ASSUME ControlInv, BufInv, LoopInv, TxCallback
    PROVE  BufInv'
  <1>1. setup' = setup /\ UNCHANGED <<rx_cbs_, rbuf_, wbuf_>> /\ at = "tx_callbacks" /\ gen \in Gens
    BY Zenon DEF TxCallback, rxside, On, ControlInv
  <1>2. PICK cbs \in BufferOf(setup.queue, TxEntry) : cbs = tx_cbs_[gen]
    BY <1>1, GenFacts, Zenon
  <1>3. setup.queue \in Nat \ {0} /\ drop \in Nat /\ nbytes \in Nat /\ drop <= Len(Slots(cbs))
    BY <1>1, <1>2, GenFacts, Zenon DEF LoopInv
  <1>4. CASE TxWaits(gen) /\ UNCHANGED requests_
    <2> DEFINE tx == cbs.buf_[Current(cbs)]
               rest == [len |-> tx.len - nbytes, cbdata |-> tx.cbdata]
               new == Drop(SetSlot(cbs, Current(cbs), rest), drop)
    <2>1. ~AtEnd(cbs) /\ tx.len > nbytes /\ tx_cbs_' = [tx_cbs_ EXCEPT ![gen] = new]
      BY <1>2, <1>4, Zenon DEF TxWaits
    <2>2. drop # Len(Slots(cbs)) /\ Current(cbs) = Slots(cbs)[drop + 1]
      BY <1>3, <2>1, AtCurrent, Zenon
    <2>3. tx \in TxEntry
      BY <1>3, <2>1, AtCurrent, Zenon
    <2>4. tx.len - nbytes \in Nat /\ tx.cbdata \in Slot
      <3>1. tx.len \in Nat /\ tx.cbdata \in Slot
        BY <2>3, Zenon DEF TxEntry
      <3> HIDE DEF tx
      <3> QED
        BY <1>3, <2>1, <3>1, SMT
    <2>5. rest \in TxEntry
      BY <2>4, Zenon DEF TxEntry
    <2> HIDE DEF rest
    <2>6. new \in BufferOf(setup.queue, TxEntry)
      BY <1>3, <2>1, <2>2, <2>5, AtLoopStop, Zenon
    <2> HIDE DEF new
    <2>7. tx_cbs_' \in [Gens -> BufferOf(setup.queue, TxEntry)]
      BY <2>1, <2>6, Zenon DEF BufInv
    <2> QED
      BY <1>1, <1>4, <2>7, BufFrom, Zenon DEF BufInv
  <1>5. CASE /\ TxDone(gen)
             /\ requests_' = [requests_ EXCEPT ![gen] = MarkSent(@, cbs.buf_[Current(cbs)].cbdata)]
    <2> DEFINE i == cbs.buf_[Current(cbs)].cbdata
    <2>1. ~AtEnd(cbs) /\ UNCHANGED tx_cbs_
      BY <1>2, <1>5, Zenon DEF TxDone
    <2>2. i \in Slot
      <3>1. cbs.buf_[Current(cbs)] \in TxEntry
        BY <1>3, <2>1, AtCurrent, Zenon
      <3> QED
        BY <3>1, Zenon DEF TxEntry
    <2> HIDE DEF i
    <2>3. PICK b \in BufferOf(setup.queue, Request) : b = requests_[gen]
      BY <1>1, GenFacts, Zenon
    <2>4. MarkSent(b, i) \in BufferOf(setup.queue, Request)
      BY <1>3, <2>2, MarkedSent, Zenon
    <2>5. requests_' = [requests_ EXCEPT ![gen] = MarkSent(b, i)]
      BY <1>5, <2>3, Zenon DEF i
    <2>6. requests_' \in [Gens -> BufferOf(setup.queue, Request)]
      BY <2>4, <2>5, Zenon DEF BufInv
    <2> QED
      BY <1>1, <2>1, <2>6, BufFrom, Zenon DEF BufInv
  <1>6. CASE UNCHANGED requests_ /\ tx_cbs_' = [tx_cbs_ EXCEPT ![gen] = Drop(cbs, drop)]
    <2>1. Drop(cbs, drop) \in BufferOf(setup.queue, TxEntry)
      BY <1>3, AtLoopEnd, Zenon
    <2>2. tx_cbs_' \in [Gens -> BufferOf(setup.queue, TxEntry)]
      BY <1>6, <2>1, Zenon DEF BufInv
    <2> QED
      BY <1>1, <1>6, <2>2, BufFrom, Zenon DEF BufInv
  <1> QED
    BY <1>2, <1>4, <1>5, <1>6, Zenon DEF TxCallback

\* What is said of a body.
LEMMA BodyIsNat ==
    ASSUME NEW request, NEW seg1
    PROVE  ResponseBody(request, seg1) \in Nat
  <1>1. \A r : BodySize(r) \in Nat
    BY PacketSizes, Zenon
  <1>2. 0 \in Nat
    BY SMT
  <1> QED
    BY <1>1, <1>2, Zenon DEF ResponseBody

\* The body of a response is dropped from b, what there is of it.
LEMMA BodyBuf ==
    ASSUME ControlInv, BufInv, LoopInv, at = "rx_callbacks", ~AtEnd(rx_cbs_[gen]),
           NEW b \in BufferOf(setup.rbuf, Byte), NEW n \in Nat,
           RxBodyWaits(gen, b, n) \/ RxBodyDone(gen, b, n)
    PROVE  /\ rx_cbs_' \in [Gens -> BufferOf(setup.queue, RxEntry)]
           /\ rbuf_' \in [Gens -> BufferOf(setup.rbuf, Byte)]
  <1>1. gen \in Gens /\ setup.rbuf \in Nat \ {0}
    BY GenFacts, Zenon DEF ControlInv
  <1>2. PICK cbs \in BufferOf(setup.queue, RxEntry) : cbs = rx_cbs_[gen]
    BY <1>1, GenFacts, Zenon
  <1>3. setup.queue \in Nat \ {0} /\ drop \in Nat /\ drop <= Len(Slots(cbs)) /\ ~AtEnd(cbs)
    BY <1>1, <1>2, GenFacts, Zenon DEF LoopInv
  <1>4. /\ drop # Len(Slots(cbs)) /\ Current(cbs) = Slots(cbs)[drop + 1]
        /\ Current(cbs) \in 0 .. setup.queue - 1 /\ cbs.buf_[Current(cbs)] \in RxEntry
    BY <1>3, AtCurrent, Zenon
  <1> DEFINE cbdata == cbs.buf_[Current(cbs)].cbdata
  <1>5. cbdata \in Slot /\ b.used_ \in 0 .. setup.rbuf
    BY <1>1, <1>4, Fields, Zenon DEF RxEntry
  <1> HIDE DEF cbdata
  <1>6. b.used_ \in Nat
    BY <1>1, <1>5, SMT
  <1>7. CASE RxBodyWaits(gen, b, n)
    <2> DEFINE rest == [hdrlen |-> 0, bodylen |-> n - b.used_, cbdata |-> cbdata]
    <2>1. /\ b.used_ < n /\ rbuf_' = [rbuf_ EXCEPT ![gen] = Drop(b, b.used_)]
          /\ rx_cbs_' = [rx_cbs_ EXCEPT ![gen] = Drop(SetSlot(cbs, Current(cbs), rest), drop)]
      BY <1>2, <1>7, Zenon DEF RxBodyWaits, RxDrop, cbdata
    <2>2. n - b.used_ \in Nat /\ 0 \in Nat /\ b.used_ \in 0 .. b.used_
      <3>1. b.used_ < n
        BY <2>1, Zenon
      <3> QED
        BY <1>6, <3>1, SMT
    <2>3. rest \in RxEntry
      BY <1>5, <2>2, Zenon DEF RxEntry
    <2> HIDE DEF rest
    <2>4. Drop(SetSlot(cbs, Current(cbs), rest), drop) \in BufferOf(setup.queue, RxEntry)
      BY <1>3, <1>4, <2>3, AtLoopStop, Zenon
    <2>5. Drop(b, b.used_) \in BufferOf(setup.rbuf, Byte)
      BY <1>1, <2>2, Dropped, Zenon
    <2> QED
      BY <2>1, <2>4, <2>5, Zenon DEF BufInv
  <1>8. CASE RxBodyDone(gen, b, n)
    <2> DEFINE rest == [hdrlen |-> 0, bodylen |-> 0, cbdata |-> cbdata]
    <2>1. /\ b.used_ >= n /\ rbuf_' = [rbuf_ EXCEPT ![gen] = Drop(b, n)]
          /\ rx_cbs_' = [rx_cbs_ EXCEPT ![gen] = SetSlot(cbs, Current(cbs), rest)]
      BY <1>2, <1>8, Zenon DEF RxBodyDone, cbdata
    <2>2. n \in 0 .. b.used_ /\ 0 \in Nat
      <3>1. b.used_ >= n
        BY <2>1, Zenon
      <3> QED
        BY <1>6, <3>1, SMT
    <2>3. rest \in RxEntry
      BY <1>5, <2>2, Zenon DEF RxEntry
    <2> HIDE DEF rest
    <2>4. SetSlot(cbs, Current(cbs), rest) \in BufferOf(setup.queue, RxEntry)
      BY <1>3, <1>4, <2>3, SlotKept
    <2>5. Drop(b, n) \in BufferOf(setup.rbuf, Byte)
      BY <1>1, <2>2, Dropped, Zenon
    <2> QED
      BY <2>1, <2>4, <2>5, Zenon DEF BufInv
  <1> QED
    BY <1>7, <1>8, Zenon

\* The callbacks of rx().
LEMMA RxCallbackBuf ==
    ASSUME ControlInv, BufInv, LoopInv, RxCallback
    PROVE  BufInv'
  <1> DEFINE cbs == rx_cbs_[gen]
             b == rbuf_[gen]
             rx == cbs.buf_[Current(cbs)]
  <1>1. setup' = setup /\ UNCHANGED <<tx_cbs_, wbuf_>> /\ at = "rx_callbacks" /\ gen \in Gens
    BY Zenon DEF RxCallback, txside, On, ControlInv
  <1>2. /\ setup.queue \in Nat \ {0} /\ setup.rbuf \in Nat \ {0} /\ b \in BufferOf(setup.rbuf, Byte)
        /\ cbs \in BufferOf(setup.queue, RxEntry) /\ requests_[gen] \in BufferOf(setup.queue, Request)
    BY <1>1, GenFacts, Zenon
  <1>3. drop \in Nat /\ drop <= Len(Slots(cbs))
    BY <1>1, Zenon DEF LoopInv
  <1>4. ~AtEnd(cbs) => rx.hdrlen \in Nat /\ rx.bodylen \in Nat
    <2>1. ~AtEnd(cbs) => rx \in RxEntry
      BY <1>2, <1>3, AtCurrent, Zenon
    <2> QED
      BY <2>1, Zenon DEF RxEntry
  <1>5. CASE RxDrop(gen, cbs) /\ UNCHANGED <<rbuf_, requests_>>
    <2>1. Drop(cbs, drop) \in BufferOf(setup.queue, RxEntry)
      BY <1>2, <1>3, AtLoopEnd, Zenon
    <2>2. rx_cbs_' \in [Gens -> BufferOf(setup.queue, RxEntry)]
      BY <1>5, <2>1, Zenon DEF BufInv, RxDrop
    <2> QED
      BY <1>1, <1>5, <2>2, BufFrom, Zenon DEF BufInv
  <1>6. CASE /\ ~AtEnd(cbs) /\ UNCHANGED requests_
             /\ RxBodyWaits(gen, b, rx.bodylen) \/ RxBodyDone(gen, b, rx.bodylen)
    <2>1. /\ rx_cbs_' \in [Gens -> BufferOf(setup.queue, RxEntry)]
          /\ rbuf_' \in [Gens -> BufferOf(setup.rbuf, Byte)]
      BY <1>1, <1>2, <1>4, <1>6, BodyBuf, Zenon
    <2> QED
      BY <1>1, <1>6, <2>1, BufFrom, Zenon DEF BufInv
  <1>7. CASE ~AtEnd(cbs) /\ RxHeader(b, rx)
    <2>1. CASE UNCHANGED <<requests_, rx_cbs_, rbuf_>>
      BY <1>1, <2>1, BufFrom, Zenon DEF BufInv
    <2>2. CASE ~UNCHANGED <<requests_, rx_cbs_, rbuf_>>
      <3> DEFINE left == Drop(b, rx.hdrlen)
                 n == ResponseBody(requests_[gen].buf_[rx.cbdata], Peek1(b, rx.hdrlen))
      <3>1. /\ requests_[gen].used_ > 0 /\ requests_' = [requests_ EXCEPT ![gen] = Drop(@, 1)]
            /\ RxBodyWaits(gen, left, n) \/ RxBodyDone(gen, left, n)
            /\ rx.hdrlen <= b.used_
        BY <1>7, <2>2, Zenon DEF RxHeader, Expected, FinishRequest
      <3>2. n \in Nat
        BY BodyIsNat, Zenon
      <3>3. left \in BufferOf(setup.rbuf, Byte)
        <4>1. b.used_ \in Nat
          BY <1>1, UsedFacts, Zenon
        <4> HIDE DEF rx
        <4>2. rx.hdrlen \in 0 .. b.used_
          BY <1>4, <1>7, <3>1, <4>1, SMT
        <4> QED
          BY <1>2, <4>2, Dropped, Zenon
      <3> HIDE DEF n, left
      <3>4. /\ rx_cbs_' \in [Gens -> BufferOf(setup.queue, RxEntry)]
            /\ rbuf_' \in [Gens -> BufferOf(setup.rbuf, Byte)]
        BY <1>1, <1>7, <3>1, <3>2, <3>3, BodyBuf, Zenon
      <3>5. Drop(requests_[gen], 1) \in BufferOf(setup.queue, Request)
        <4>1. requests_[gen].used_ \in Nat
          BY <1>1, UsedFacts, Zenon
        <4>2. 1 \in 0 .. requests_[gen].used_
          BY <3>1, <4>1, SMT
        <4> QED
          BY <1>2, <4>2, Dropped, Zenon
      <3>6. requests_' \in [Gens -> BufferOf(setup.queue, Request)]
        BY <3>1, <3>5, Zenon DEF BufInv
      <3> QED
        BY <1>1, <3>4, <3>6, BufFrom, Zenon DEF BufInv
    <2> QED
      BY <2>1, <2>2, Zenon
  <1> QED
    BY <1>5, <1>6, <1>7, Zenon DEF RxCallback

\* tx() takes from wbuf_.
LEMMA TxBuf ==
    ASSUME ControlInv, NetInv, BufInv, Tx
    PROVE  BufInv'
  <1> DEFINE n == Min({wbuf_[gen].used_, setup.room - Len(net[gen].up)})
  <1>1. setup' = setup /\ UNCHANGED <<requests_, rx_cbs_, rbuf_, tx_cbs_>> /\ gen \in Gens
    BY Zenon DEF Tx, rxside, ControlInv
  <1>2. UNCHANGED wbuf_ \/ (n > 0 /\ wbuf_' = [wbuf_ EXCEPT ![gen] = Drop(wbuf_[gen], n)])
    BY Zenon DEF Tx
  <1>3. n > 0 => n \in 0 .. wbuf_[gen].used_
    <2>1. n > 0 => n \in 1 .. wbuf_[gen].used_
      BY TxBytes, Zenon
    <2>2. wbuf_[gen].used_ \in Nat
      BY <1>1, UsedFacts, Zenon
    <2> HIDE DEF n
    <2> QED
      BY <2>1, <2>2, SMT
  <1> HIDE DEF n
  <1>4. n > 0 => Drop(wbuf_[gen], n) \in BufferOf(setup.wbuf, Byte)
    BY <1>1, <1>3, GenFacts, Dropped, Zenon
  <1>5. wbuf_' \in [Gens -> BufferOf(setup.wbuf, Byte)]
    BY <1>2, <1>4, Zenon DEF BufInv
  <1> QED
    BY <1>1, <1>5, BufFrom, Zenon DEF BufInv

\* rx() adds to rbuf_.
LEMMA RxBuf ==
    ASSUME ControlInv, NetInv, BufInv, Rx
    PROVE  BufInv'
  <1> DEFINE n == Min({Space(rbuf_[gen]), Len(net[gen].down)})
             data == SubSeq(net[gen].down, 1, n)
  <1>1. setup' = setup /\ UNCHANGED <<requests_, rx_cbs_, wbuf_, tx_cbs_>> /\ gen \in Gens
    BY Zenon DEF Rx, txside, ControlInv
  <1>2. UNCHANGED rbuf_ \/ (n > 0 /\ rbuf_' = [rbuf_ EXCEPT ![gen] = Write(rbuf_[gen], data)])
    BY Zenon DEF Rx
  <1>3. n > 0 => data \in Seq(Byte) /\ CanQueue(rbuf_[gen], Len(data))
    BY RxBytes, Zenon
  <1> HIDE DEF n, data
  <1>4. n > 0 => Write(rbuf_[gen], data) \in BufferOf(setup.rbuf, Byte)
    BY <1>1, <1>3, GenFacts, Written, Zenon
  <1>5. rbuf_' \in [Gens -> BufferOf(setup.rbuf, Byte)]
    BY <1>2, <1>4, Zenon DEF BufInv
  <1> QED
    BY <1>1, <1>5, BufFrom, Zenon DEF BufInv

\* The callback for the response of the request queued last.
LEMMA NewRx ==
    ASSUME ControlInv, BufInv
    PROVE  [hdrlen |-> HeaderSize, bodylen |-> 0, cbdata |-> LastSlot(requests_[gen])] \in RxEntry
  <1>1. PICK b \in BufferOf(setup.queue, Request) : b = requests_[gen]
    BY GenFacts, Zenon DEF ControlInv
  <1>2. setup.queue \in Nat \ {0} /\ b.size = setup.queue /\ b.tail_ \in 0 .. setup.queue - 1
    BY GenFacts, Fields, ZenonT(60) DEF ControlInv
  <1>3. LastSlot(b) \in Slot
    BY <1>2, SMT DEF LastSlot, Slot
  <1>4. HeaderSize \in Nat /\ 0 \in Nat
    BY PacketSizes, SMT
  <1> QED
    BY <1>1, <1>3, <1>4, Zenon DEF RxEntry

\* read() adds to rx_cbs_.
LEMMA ReadBuf ==
    ASSUME ControlInv, BufInv, Read
    PROVE  BufInv'
  <1> DEFINE rx == [hdrlen |-> HeaderSize, bodylen |-> 0, cbdata |-> LastSlot(requests_[gen])]
  <1>1. /\ setup' = setup /\ UNCHANGED <<requests_, wbuf_, rbuf_, tx_cbs_>> /\ gen \in Gens
    BY Zenon DEF Read, txside, ControlInv
  <1>2. \/ UNCHANGED rx_cbs_
        \/ CanQueue(rx_cbs_[gen], 1) /\ rx_cbs_' = [rx_cbs_ EXCEPT ![gen] = QueueEmplace(@, rx)]
    BY Zenon DEF Read
  <1>3. rx \in RxEntry
    BY NewRx, Zenon
  <1> HIDE DEF rx
  <1>4. CanQueue(rx_cbs_[gen], 1) => QueueEmplace(rx_cbs_[gen], rx) \in BufferOf(setup.queue, RxEntry)
    BY <1>1, <1>3, GenFacts, Emplaced, Zenon
  <1>5. rx_cbs_' \in [Gens -> BufferOf(setup.queue, RxEntry)]
    BY <1>2, <1>4, Zenon DEF BufInv
  <1> QED
    BY <1>1, <1>5, BufFrom, Zenon DEF BufInv

\* What send_request does to generator g.
Sends(g, request, tx) ==
    /\ gen' = g /\ call' = "send_request" /\ at' \in {"tx", "read"} /\ UNCHANGED <<out, status>>
    /\ ref_cnt_' = [ref_cnt_ EXCEPT ![g] = References(g)]
    /\ CanQueue(requests_[g], 1) /\ CanQueue(tx_cbs_[g], 1)
    /\ CanQueue(wbuf_[g], RequestSize(sent_count_ + 1))
    /\ requests_' = [requests_ EXCEPT ![g] = QueueEmplace(@, request)]
    /\ wbuf_' = [wbuf_ EXCEPT ![g] = PutRequest(@, sent_count_ + 1)]
    /\ tx_cbs_' = [tx_cbs_ EXCEPT ![g] = QueueEmplace(@, tx)]
    /\ tx_out_' = [tx_out_ EXCEPT ![g] = tx_out_[g] + tx.len]
    /\ tx_out_[g] + tx.len = PutRequest(wbuf_[g], sent_count_ + 1).used_

\* Without callbacks tx_out_ is 0.
LEMMA NoneWaits ==
    ASSUME ControlInv, BufInv, TxInv, at = "none", NEW g \in Gens, tx_cbs_[g].used_ = 0
    PROVE  tx_out_[g] = 0
  <1>1. PICK sum \in [0 .. setup.queue -> Nat] : SumsTo(Lens(Items(tx_cbs_[g])), TxPassed(g), sum, tx_out_[g])
    BY Zenon DEF TxInv, TxOf
  <1>2. TxPassed(g) = 0
    BY Zenon DEF TxPassed
  <1>3. Items(tx_cbs_[g]) \in Seq(TxEntry) /\ Len(Items(tx_cbs_[g])) = 0
    BY GenFacts, ItemsType, Zenon
  <1>4. Len(Lens(Items(tx_cbs_[g]))) = 0
    <2>1. PICK s \in Seq(TxEntry) : s = Items(tx_cbs_[g])
      BY <1>3, Zenon
    <2>2. Len(Lens(s)) = Len(s)
      BY DEF Lens
    <2> QED
      BY <1>3, <2>1, <2>2, Zenon
  <1> QED
    BY <1>1, <1>2, <1>4, Zenon DEF SumsTo

\* send_request either gives up or queues the request, its bytes and its callback.
LEMMA SendCases ==
    ASSUME ControlInv, BufInv, TxInv, SendRequest
    PROVE  \/ status' = "full" /\ UNCHANGED <<place, ref_cnt_, requests_, wbuf_, tx_cbs_, tx_out_>>
           \/ \E g \in Gens, request \in Request, tx \in TxEntry : g \in Chosen /\ Sends(g, request, tx)
  <1> DEFINE r == sent_count_ + 1
             request == [id |-> r, op |-> ops[r], measure |-> Measured(sent_count_), sent |-> FALSE]
  <1>1. /\ call = "none" /\ at = "none" /\ sent_count_ < now
        /\ \E g \in Chosen :
              IF /\ CanQueue(requests_[g], 1) /\ CanQueue(tx_cbs_[g], 1)
                 /\ CanQueue(wbuf_[g], RequestSize(r))
              THEN /\ gen' = g
                   /\ ref_cnt_' = [ref_cnt_ EXCEPT ![g] = References(g)]
                   /\ requests_' = [requests_ EXCEPT ![g] = QueueEmplace(@, request)]
                   /\ wbuf_' = [wbuf_ EXCEPT ![g] = PutRequest(@, r)]
                   /\ WriteCbPoint(g, PutRequest(wbuf_[g], r).used_, requests_[g].tail_)
                   /\ call' = "send_request" /\ at' = (IF tx_rdy_[g] THEN "tx" ELSE "read")
                   /\ UNCHANGED <<out, status>>
              ELSE /\ status' = "full"
                   /\ UNCHANGED <<place, ref_cnt_, requests_, wbuf_, tx_cbs_, tx_out_>>
    BY Zenon DEF SendRequest, In, ControlInv
  <1>2. PICK g \in Chosen :
              IF /\ CanQueue(requests_[g], 1) /\ CanQueue(tx_cbs_[g], 1)
                 /\ CanQueue(wbuf_[g], RequestSize(r))
              THEN /\ gen' = g
                   /\ ref_cnt_' = [ref_cnt_ EXCEPT ![g] = References(g)]
                   /\ requests_' = [requests_ EXCEPT ![g] = QueueEmplace(@, request)]
                   /\ wbuf_' = [wbuf_ EXCEPT ![g] = PutRequest(@, r)]
                   /\ WriteCbPoint(g, PutRequest(wbuf_[g], r).used_, requests_[g].tail_)
                   /\ call' = "send_request" /\ at' = (IF tx_rdy_[g] THEN "tx" ELSE "read")
                   /\ UNCHANGED <<out, status>>
              ELSE /\ status' = "full"
                   /\ UNCHANGED <<place, ref_cnt_, requests_, wbuf_, tx_cbs_, tx_out_>>
    BY <1>1, Zenon
  <1>3. g \in Gens
    BY <1>1, ChosenIsOne, Zenon
  <1>4. CASE ~(/\ CanQueue(requests_[g], 1) /\ CanQueue(tx_cbs_[g], 1)
               /\ CanQueue(wbuf_[g], RequestSize(r)))
    BY <1>2, <1>4, Zenon
  <1>5. CASE /\ CanQueue(requests_[g], 1) /\ CanQueue(tx_cbs_[g], 1)
             /\ CanQueue(wbuf_[g], RequestSize(r))
    <2> DEFINE o == PutRequest(wbuf_[g], r).used_
               len == o - (IF tx_cbs_[g].used_ = 0 THEN 0 ELSE tx_out_[g])
               tx == [len |-> len, cbdata |-> requests_[g].tail_]
    <2>1. /\ gen' = g /\ call' = "send_request" /\ at' \in {"tx", "read"} /\ UNCHANGED <<out, status>>
          /\ ref_cnt_' = [ref_cnt_ EXCEPT ![g] = References(g)]
          /\ requests_' = [requests_ EXCEPT ![g] = QueueEmplace(@, request)]
          /\ wbuf_' = [wbuf_ EXCEPT ![g] = PutRequest(@, r)]
          /\ tx_cbs_' = [tx_cbs_ EXCEPT ![g] = QueueEmplace(@, tx)]
          /\ tx_out_' = [tx_out_ EXCEPT ![g] = o]
      BY <1>2, <1>5, Zenon DEF WriteCbPoint
    <2>2. r \in Requests /\ r \in Nat
      <3>1. /\ due \in 0 .. total_samples_ /\ now \in 0 .. due /\ sent_count_ \in 0 .. total_samples_
            /\ total_samples_ \in Nat \ {0}
        BY TotalFacts, Zenon DEF ControlInv
      <3> QED
        BY <1>1, <3>1, SMT DEF Requests
    <2>3. request \in Request
      <3>1. ops[r] \in {"Get", "Set"}
        BY <2>2, SetupFacts, Zenon DEF ControlInv
      <3>2. Measured(sent_count_) \in BOOLEAN
        BY Zenon DEF Measured
      <3> QED
        BY <2>2, <3>1, <3>2, Zenon DEF Request
    <2>4. o \in Nat /\ wbuf_[g].used_ \in Nat /\ o >= wbuf_[g].used_
      <3>1. wbuf_[g] \in BufferOf(setup.wbuf, Byte) /\ setup.wbuf \in Nat \ {0} /\ setup \in Setups
        BY <1>3, GenFacts, Zenon DEF ControlInv
      <3>2. PutRequest(wbuf_[g], r) \in BufferOf(setup.wbuf, Byte) /\ o >= wbuf_[g].used_
        BY <1>5, <2>2, <3>1, RequestPut, Zenon
      <3>3. o \in 0 .. setup.wbuf /\ wbuf_[g].used_ \in 0 .. setup.wbuf
        BY <3>1, <3>2, Fields, Zenon
      <3> HIDE DEF o
      <3> QED
        BY <3>1, <3>2, <3>3, SMT
    <2> HIDE DEF o, r
    <2>5. tx_out_[g] \in Nat /\ tx_out_[g] <= o
      <3>1. tx_out_[g] \in Nat /\ (tx_cbs_[g].used_ < setup.queue => tx_out_[g] <= wbuf_[g].used_ + 0)
        BY <1>1, <1>3, Zenon DEF TxInv, TxOf, TxLeft
      <3>2. tx_cbs_[g].used_ < setup.queue
        <4>1. PICK b \in BufferOf(setup.queue, TxEntry) : b = tx_cbs_[g]
          BY <1>3, GenFacts, Zenon
        <4>2. b.size = setup.queue /\ b.used_ \in 0 .. setup.queue /\ setup.queue \in Nat \ {0}
          BY <1>3, GenFacts, Fields, Zenon
        <4>3. 1 <= setup.queue - b.used_
          BY <1>5, <4>1, <4>2, Zenon DEF CanQueue, Space
        <4>4. b.used_ < setup.queue
          BY <4>2, <4>3, SMT
        <4> QED
          BY <4>1, <4>4, Zenon
      <3> QED
        BY <2>4, <3>1, <3>2, SMT
    <2>6. len = o - tx_out_[g]
      BY <1>1, <1>3, NoneWaits, Zenon
    <2> HIDE DEF len
    <2>7. len \in Nat /\ tx_out_[g] + len = o
      BY <2>4, <2>5, <2>6, SMT
    <2>8. requests_[g].tail_ \in Slot
      BY <1>3, GenFacts, Fields, Zenon DEF Slot
    <2>9. tx \in TxEntry /\ tx.len = len
      BY <2>7, <2>8, Zenon DEF TxEntry
    <2> HIDE DEF tx, request
    <2>10. Sends(g, request, tx)
      BY <1>5, <2>1, <2>7, <2>9, Zenon DEF Sends, r, o
    <2> QED
      BY <1>3, <2>3, <2>9, <2>10, Zenon
  <1> QED
    BY <1>4, <1>5, Zenon

\* send_request adds to three of the buffers.
LEMMA SendBuf ==
    ASSUME ControlInv, BufInv, TxInv, SendRequest
    PROVE  BufInv'
  <1>1. setup' = setup /\ UNCHANGED <<rx_cbs_, rbuf_>>
    BY Zenon DEF SendRequest, rxside
  <1>2. CASE UNCHANGED <<requests_, wbuf_, tx_cbs_>>
    BY <1>1, <1>2, BufFrom, Zenon DEF BufInv
  <1>3. CASE \E g \in Gens, request \in Request, tx \in TxEntry : Sends(g, request, tx)
    <2>1. PICK g \in Gens, request \in Request, tx \in TxEntry : Sends(g, request, tx)
      BY <1>3, Zenon
    <2>2. /\ requests_[g] \in BufferOf(setup.queue, Request) /\ tx_cbs_[g] \in BufferOf(setup.queue, TxEntry)
          /\ wbuf_[g] \in BufferOf(setup.wbuf, Byte) /\ setup.queue \in Nat \ {0} /\ setup \in Setups
      BY GenFacts, Zenon DEF ControlInv
    <2>3. QueueEmplace(requests_[g], request) \in BufferOf(setup.queue, Request)
      BY <2>1, <2>2, Emplaced, Zenon DEF Sends
    <2>4. QueueEmplace(tx_cbs_[g], tx) \in BufferOf(setup.queue, TxEntry)
      BY <2>1, <2>2, Emplaced, Zenon DEF Sends
    <2>5. sent_count_ + 1 \in Nat
      <3>1. sent_count_ \in 0 .. total_samples_ /\ total_samples_ \in Nat \ {0}
        BY TotalFacts, Zenon DEF ControlInv
      <3> QED
        BY <3>1, SMT
    <2>6. PutRequest(wbuf_[g], sent_count_ + 1) \in BufferOf(setup.wbuf, Byte)
      BY <2>1, <2>2, <2>5, RequestPut, Zenon DEF Sends
    <2>7. /\ requests_' \in [Gens -> BufferOf(setup.queue, Request)]
          /\ tx_cbs_' \in [Gens -> BufferOf(setup.queue, TxEntry)]
          /\ wbuf_' \in [Gens -> BufferOf(setup.wbuf, Byte)]
      BY <2>1, <2>3, <2>4, <2>6, Zenon DEF Sends, BufInv
    <2> QED
      BY <1>1, <2>7, BufFrom, Zenon DEF BufInv
  <1> QED
    BY <1>2, <1>3, SendCases, Zenon

\* BufInv is preserved.
LEMMA BufStep ==
    ASSUME ControlInv, NetInv, BufInv, LoopInv, TxInv, [Next]_vars
    PROVE  BufInv'
  <1>1. CASE UNCHANGED <<requests_, rx_cbs_, rbuf_, tx_cbs_, wbuf_>>
    BY <1>1, SetupSame, BufFrom, Zenon DEF BufInv
  <1>2. CASE SendRequest \/ Tx \/ TxCallback \/ Read \/ Rx \/ RxCallback
    BY <1>2, SendBuf, TxBuf, TxCallbackBuf, ReadBuf, RxBuf, RxCallbackBuf, Zenon
  <1> QED
    BY <1>1, <1>2, Zenon DEF Next, Run, Ended, vars, sockets, rxside, txside, EpollWait, HandleEvent,
       ReadClock, Sleep, EndRunIO, EndSendRequest, Tick, Peer, Connect, Serve, Deliver

-----------------------------------------------------------------------------
(* The loops, in every step.                                                 *)

Loops == {"tx_callbacks", "rx_callbacks"}

\* A step outside the loops that starts none.
LEMMA LoopQuiet ==
    ASSUME LoopInv, UNCHANGED locals, at \notin Loops, at' \notin Loops
    PROVE  LoopInv'
  BY Zenon DEF LoopInv, Loops, locals

\* The first iteration of a loop is still to come.
LEMMA LoopStart ==
    ASSUME ControlInv, BufInv, LoopInv, at \notin Loops, UNCHANGED <<drop, gen, tx_cbs_, rx_cbs_>>
    PROVE  drop' = 0 /\ drop' <= Len(Slots(tx_cbs_'[gen'])) /\ drop' <= Len(Slots(rx_cbs_'[gen']))
  <1>1. drop = 0 /\ gen \in Gens
    BY Zenon DEF LoopInv, ControlInv, Loops
  <1>2. /\ Len(Slots(tx_cbs_[gen])) \in 0 .. tx_cbs_[gen].used_ /\ tx_cbs_[gen].used_ \in Nat
        /\ Len(Slots(rx_cbs_[gen])) \in 0 .. rx_cbs_[gen].used_ /\ rx_cbs_[gen].used_ \in Nat
    BY <1>1, GenFacts, UsedFacts, LoopSlots, Zenon
  <1>3. \A l, u : u \in Nat /\ l \in 0 .. u => 0 <= l
    BY SMT
  <1>4. 0 <= Len(Slots(tx_cbs_[gen])) /\ 0 <= Len(Slots(rx_cbs_[gen]))
    BY <1>2, <1>3, Zenon
  <1> QED
    BY <1>1, <1>4, Zenon

\* An assignment to a slot does not move the iterators.
LEMMA SlotsStay ==
    ASSUME NEW N \in Nat \ {0}, NEW T, NEW b \in BufferOf(N, T), NEW s \in 0 .. N - 1, NEW x \in T
    PROVE  Slots(SetSlot(b, s, x)) = Slots(b)
  <1>1. PICK c : c = SetSlot(b, s, x)
    BY Zenon
  <1>2. c.head_ = b.head_ /\ c.tail_ = b.tail_ /\ c.size = b.size
    BY <1>1, SlotKept
  <1>3. Slots(c) = Slots(b)
    BY <1>2, Zenon DEF Slots, Visited
  <1> QED
    BY <1>1, <1>3, Zenon

\* One more is passed.
LEMMA LoopPasses ==
    ASSUME NEW N \in Nat \ {0}, NEW T, NEW b \in BufferOf(N, T), drop \in Nat,
           drop <= Len(Slots(b)), ~AtEnd(b)
    PROVE  drop + 1 <= Len(Slots(b)) /\ drop + 1 \in Nat
  <1>1. Len(Slots(b)) \in 0 .. b.used_ /\ b.used_ \in 0 .. N
    BY LoopSlots, Fields, Zenon
  <1>2. PICK l \in Int : l = Len(Slots(b))
    BY <1>1, SMT
  <1>3. drop # l /\ drop <= l
    BY <1>2, Zenon DEF AtEnd
  <1>4. drop + 1 <= l /\ drop + 1 \in Nat
    BY <1>3, SMT
  <1> QED
    BY <1>2, <1>4, Zenon

\* The loop of tx().
LEMMA TxCallbackLoop ==
    ASSUME ControlInv, BufInv, LoopInv, TxCallback
    PROVE  LoopInv'
  <1>1. at = "tx_callbacks" /\ gen' = gen /\ gen \in Gens /\ UNCHANGED rx_cbs_
    BY Zenon DEF TxCallback, On, ControlInv, rxside
  <1>2. CASE EndLoop /\ at' = "tx"
    <2>1. 0 \in Nat
      BY SMT
    <2> QED
      BY <1>2, <2>1, Zenon DEF LoopInv, EndLoop
  <1>3. CASE TxDone(gen) /\ UNCHANGED at
    <2>1. PICK cbs \in BufferOf(setup.queue, TxEntry) : cbs = tx_cbs_[gen]
      BY <1>1, GenFacts, Zenon
    <2>2. /\ setup.queue \in Nat \ {0} /\ drop \in Nat /\ nbytes \in Nat /\ drop <= Len(Slots(cbs))
      BY <1>1, <2>1, GenFacts, Zenon DEF LoopInv
    <2> DEFINE len == cbs.buf_[Current(cbs)].len
    <2>3. /\ ~AtEnd(cbs) /\ len <= nbytes /\ nbytes' = nbytes - len /\ drop' = drop + 1
          /\ UNCHANGED tx_cbs_
      BY <1>3, <2>1, Zenon DEF TxDone
    <2>4. len \in Nat
      <3>1. cbs.buf_[Current(cbs)] \in TxEntry
        BY <2>2, <2>3, AtCurrent, Zenon
      <3> QED
        BY <3>1, Zenon DEF TxEntry
    <2> HIDE DEF len
    <2>5. nbytes' \in Nat
      BY <2>2, <2>3, <2>4, SMT
    <2>6. drop' \in Nat /\ drop' <= Len(Slots(cbs))
      BY <2>2, <2>3, LoopPasses, Zenon
    <2>7. drop' <= Len(Slots(tx_cbs_'[gen']))
      BY <1>1, <2>1, <2>3, <2>6, Zenon
    <2> QED
      BY <1>1, <1>3, <2>5, <2>6, <2>7, Zenon DEF LoopInv
  <1> QED
    BY <1>2, <1>3, Zenon DEF TxCallback

\* The loop of rx().
LEMMA RxCallbackLoop ==
    ASSUME ControlInv, BufInv, LoopInv, RxCallback
    PROVE  LoopInv'
  <1> DEFINE cbs == rx_cbs_[gen]
  <1>1. at = "rx_callbacks" /\ gen' = gen /\ gen \in Gens /\ UNCHANGED tx_cbs_
    BY Zenon DEF RxCallback, On, ControlInv, txside
  <1>2. CASE EndLoop /\ at' = "rx"
    <2>1. 0 \in Nat
      BY SMT
    <2> QED
      BY <1>2, <2>1, Zenon DEF LoopInv, EndLoop
  <1>3. CASE UNCHANGED <<rx_cbs_, locals, at>>
    BY <1>1, <1>3, Zenon DEF LoopInv, locals
  <1>4. CASE ~AtEnd(cbs) /\ UNCHANGED <<nbytes, at>> /\ \E b, n : RxBodyDone(gen, b, n)
    <2>1. setup.queue \in Nat \ {0} /\ cbs \in BufferOf(setup.queue, RxEntry)
      BY <1>1, GenFacts, Zenon
    <2>2. drop \in Nat /\ nbytes \in Nat /\ drop <= Len(Slots(cbs))
      BY <1>1, Zenon DEF LoopInv
    <2> DEFINE rest == [hdrlen |-> 0, bodylen |-> 0, cbdata |-> cbs.buf_[Current(cbs)].cbdata]
    <2>3. /\ drop' = drop + 1
          /\ rx_cbs_' = [rx_cbs_ EXCEPT ![gen] = SetSlot(cbs, Current(cbs), rest)]
      BY <1>4, Zenon DEF RxBodyDone
    <2>4. cbs.buf_[Current(cbs)] \in RxEntry /\ Current(cbs) \in 0 .. setup.queue - 1
      BY <1>4, <2>1, <2>2, AtCurrent, Zenon
    <2>5. rest \in RxEntry
      <3>1. 0 \in Nat
        BY SMT
      <3> QED
        BY <2>4, <3>1, Zenon DEF RxEntry
    <2> HIDE DEF rest
    <2>6. Slots(SetSlot(cbs, Current(cbs), rest)) = Slots(cbs)
      BY <2>1, <2>4, <2>5, SlotsStay, ZenonT(60)
    <2>7. rx_cbs_'[gen] = SetSlot(cbs, Current(cbs), rest)
      BY <1>1, <2>3, Zenon DEF BufInv
    <2>8. drop' \in Nat /\ drop' <= Len(Slots(cbs))
      BY <1>4, <2>1, <2>2, <2>3, LoopPasses, Zenon
    <2>9. drop' <= Len(Slots(rx_cbs_'[gen']))
      BY <1>1, <2>6, <2>7, <2>8, Zenon
    <2> QED
      BY <1>1, <1>4, <2>2, <2>8, <2>9, Zenon DEF LoopInv
  <1> QED
    BY <1>2, <1>3, <1>4, Zenon DEF RxCallback, RxHeader

\* LoopInv is preserved.
LEMMA LoopStep ==
    ASSUME ControlInv, NetInv, BufInv, LoopInv, [Next]_vars
    PROVE  LoopInv'
  <1>1. CASE UNCHANGED <<locals, at, gen, tx_cbs_, rx_cbs_>>
    BY <1>1, Zenon DEF LoopInv, locals
  <1>2. CASE UNCHANGED locals /\ at \notin Loops /\ at' \notin Loops
    BY <1>2, LoopQuiet, Zenon
  <1>3. CASE TxCallback \/ RxCallback
    BY <1>3, TxCallbackLoop, RxCallbackLoop, Zenon
  <1>4. CASE Tx
    <2> DEFINE n == Min({wbuf_[gen].used_, setup.room - Len(net[gen].up)})
    <2>1. at = "tx" /\ UNCHANGED <<drop, gen, tx_cbs_, rx_cbs_>>
      BY <1>4, Zenon DEF Tx, On, rxside
    <2>2. \/ at' \in {"put", "read"} /\ UNCHANGED nbytes
          \/ at' = "tx_callbacks" /\ n > 0 /\ nbytes' = n
      BY <1>4, Zenon DEF Tx, ReturnTx
    <2>3. at \notin Loops
      BY <2>1, Zenon DEF Loops
    <2>4. CASE at' \in {"put", "read"} /\ UNCHANGED nbytes
      <3>1. at' \notin Loops
        BY <2>4, Zenon DEF Loops
      <3> QED
        BY <2>1, <2>3, <2>4, <3>1, LoopQuiet, Zenon DEF locals
    <2>5. CASE at' = "tx_callbacks" /\ n > 0 /\ nbytes' = n
      <3>1. n \in Nat
        <4>1. n \in 1 .. wbuf_[gen].used_
          BY <2>5, TxBytes, Zenon
        <4>2. wbuf_[gen].used_ \in Nat
          BY UsedFacts, Zenon DEF ControlInv
        <4> HIDE DEF n
        <4> QED
          BY <4>1, <4>2, SMT
      <3>2. drop' = 0 /\ drop' <= Len(Slots(tx_cbs_'[gen']))
        BY <2>1, <2>3, LoopStart, Zenon
      <3> QED
        BY <2>1, <2>5, <3>1, <3>2, Zenon DEF LoopInv
    <2> QED
      BY <2>2, <2>4, <2>5, Zenon
  <1>5. CASE Rx
    <2>1. at = "rx" /\ UNCHANGED <<locals, drop, nbytes, gen, tx_cbs_, rx_cbs_>>
      BY <1>5, Zenon DEF Rx, On, txside, locals
    <2>2. at' \in {"put", "tx", "rx", "rx_callbacks"}
      BY <1>5, <2>1, Zenon DEF Rx, ReturnRx
    <2>3. at \notin Loops
      BY <2>1, Zenon DEF Loops
    <2>4. CASE at' \in {"put", "tx", "rx"}
      <3>1. at' \notin Loops
        BY <2>4, Zenon DEF Loops
      <3> QED
        BY <2>1, <2>3, <3>1, LoopQuiet, Zenon
    <2>5. CASE at' = "rx_callbacks"
      <3>1. drop' = 0 /\ drop' <= Len(Slots(rx_cbs_'[gen']))
        BY <2>1, <2>3, LoopStart, Zenon
      <3>2. nbytes = 0 /\ nbytes \in Nat /\ drop \in Nat
        BY <2>1, Zenon DEF LoopInv
      <3> QED
        BY <2>1, <2>5, <3>1, <3>2, Zenon DEF LoopInv
    <2> QED
      BY <2>2, <2>4, <2>5, Zenon
  <1>6. CASE HandleEvent \/ SendRequest \/ Read \/ EndRunIO \/ EndSendRequest
    <2>1. UNCHANGED locals
      BY <1>6, EndFacts, Zenon DEF HandleEvent, SendRequest, Read
    <2>2. at \in {"none", "read", "put"}
      BY <1>6, EndFacts, Zenon DEF HandleEvent, SendRequest, Read, On, In, ControlInv
    <2>3. at' \in {"none", "rx", "tx", "read", "put"}
      BY <1>6, <2>2, EndFacts, Zenon DEF HandleEvent, RunIO, SendRequest, Read, Leave, place
    <2> QED
      BY <1>2, <2>1, <2>2, <2>3, Zenon DEF Loops
  <1> QED
    BY <1>1, <1>3, <1>4, <1>5, <1>6, Zenon DEF Next, Run, Ended, vars, sockets, rxside, txside, place,
       EpollWait, ReadClock, Sleep, Tick, Peer, Connect, Serve, Deliver

=============================================================================
