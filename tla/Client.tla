------------------------------- MODULE Client -------------------------------
(***************************************************************************)
(* The open-loop load client (client/mutated/client/client.cc) with its    *)
(* two packet generators, their reference counts and their sockets.  One   *)
(* thread runs everything: todo is its stack of calls not finished yet,    *)
(* call, gen and at say where it is in a generator, and between two of its *)
(* steps, each at most one system call or one callback, the kernel, the    *)
(* server and the clock move on.                                           *)
(*                                                                         *)
(* Time is the number of deadlines passed.  The server is up and answers   *)
(* every request; what it is sent and what it sends are bytes that the     *)
(* network cuts anywhere.  Latencies and the missed-send statistic, which  *)
(* nothing reads back, are left out, and so is send_only.                  *)
(***************************************************************************)
EXTENDS Sock, FiniteSetsExt

CONSTANTS
    Setups,         \* see Setup below
    PktSize, RespSize,                    \* synthetic: pkt_size, sizeof(resp_pkt)
    HdrSize, ExtrasSize, KeySize, ValSize \* memcache: parts of a packet

\* cmds: what choose_cmd may choose.  rbuf, wbuf, queue: CHARBUF_SIZE, twice, and
\* MAX_OUTSTANDING_REQS.  room: bytes the kernel takes before the server reads.
Setup ==
    [proto : {"synthetic", "memcache"}, mode : {"per_request", "round_robin", "random"},
     busy : BOOLEAN, conn_cnt : Nat, cmds : SUBSET {"Get", "Set"},
     pre : Nat, measure : Nat \ {0}, post : Nat,
     rbuf : Nat \ {0}, wbuf : Nat \ {0}, queue : Nat \ {0}, room : Nat \ {0}]

ASSUME ClientAssumption ==
    /\ Setups \subseteq Setup
    /\ {PktSize, RespSize, HdrSize, ExtrasSize, KeySize, ValSize} \subseteq Nat \ {0}
    /\ \A s \in Setups : s.cmds # {} /\ (s.mode # "per_request" => s.conn_cnt > 0)

VARIABLES
    setup,          \* a member of Setups that no step changes
    ops,            \* the command of each request, chosen ahead
    due,            \* deadlines passed
    sent_count_, rcvd_count_, measure_count_,
    now,            \* timer_handler's and busy_timer's reading of the clock
    armed,          \* the timer is set for the next deadline
    events,         \* the events of this round that are not handled yet
    todo,           \* calls of the client to finish, innermost first
    call, gen,      \* before them, the call on a generator: "run_io", "send_request" or "none"
    at, out,        \* where that call is, and whether run_io has EPOLLOUT
    ref_cnt_,       \* 0: no generator yet, or deleted
    requests_,
    net,            \* the kernel's and the server's side of each socket
    status,         \* "running", or how the program ended
    matched         \* history: for each request, the one whose response it was given

counts == <<sent_count_, rcvd_count_, measure_count_, matched>>
timer == <<now, armed>>
place == <<call, gen, at, out>>
sockets == <<rxside, txside>>
vars == <<setup, ops, due, net, counts, timer, events, todo, place, ref_cnt_, requests_,
          sockets, locals, status>>

total_samples_ == setup.pre + setup.measure + setup.post
Requests == 1 .. total_samples_
Gens == 1 .. (IF setup.mode = "per_request" THEN total_samples_ ELSE setup.conn_cnt)

NoRequest == [id |-> 0, op |-> "Get", measure |-> FALSE, sent |-> FALSE]

\* Bytes on the way: up in the kernel, got in the server, owed the response not
\* delivered yet, down ready to be read.  edge: epoll has something to report.
\* nospace: a write() has returned EAGAIN.
NotConnected ==
    [open |-> FALSE, edge |-> FALSE, nospace |-> FALSE,
     up |-> <<>>, got |-> <<>>, owed |-> <<>>, down |-> <<>>]

\* setup_experiment: the pool of connections, with one reference each, the schedule,
\* the first timer_handler.  A generator to be made later is as its constructor
\* will leave it.
Init ==
    /\ setup \in Setups
    /\ ops \in [Requests -> setup.cmds]
    /\ due = 0 /\ sent_count_ = 0 /\ rcvd_count_ = 0 /\ measure_count_ = 0
    /\ now = 0 /\ armed = FALSE /\ events = {}
    /\ call = "none" /\ gen = 1 /\ at = "none" /\ out = FALSE
    /\ todo = (IF setup.busy THEN <<>> ELSE <<"timer">>)
    /\ ref_cnt_ = [g \in Gens |-> IF setup.mode = "per_request" THEN 0 ELSE 1]
    /\ requests_ = [g \in Gens |-> NewBuffer(setup.queue, NoRequest)]
    /\ NewSocks(Gens, setup.rbuf, setup.wbuf, setup.queue)
    /\ net = [g \in Gens |-> NotConnected]
    /\ status = "running"
    /\ matched = [r \in Requests |-> 0]

Running == status = "running"

\* The thread is in this call of the client, or on the current generator.
In(f) == Running /\ call = "none" /\ todo # <<>> /\ Head(todo) = f
On(f) == Running /\ at = f

-----------------------------------------------------------------------------
(* Packets.                                                                  *)

Part(r, from, n) == [i \in 1 .. n |-> <<r, from + i>>]

RequestSize(r) ==
    IF setup.proto = "synthetic" THEN PktSize
    ELSE IF ops[r] = "Get" THEN HdrSize + KeySize
    ELSE HdrSize + ExtrasSize + KeySize + ValSize

HeaderSize == IF setup.proto = "synthetic" THEN RespSize ELSE HdrSize
BodySize(r) == IF setup.proto = "memcache" /\ ops[r] = "Get" THEN ValSize ELSE 0

\* How _send_request puts a request in b, its wbuf_.
PutRequest(b, r) ==
    LET header == WriteEmplace(b, Part(r, 0, HdrSize))
        extras == WriteEmplace(header, Part(r, HdrSize, ExtrasSize))
        key == Write(extras, Part(r, HdrSize + ExtrasSize, KeySize))
    IN  IF setup.proto = "synthetic" THEN WritePrepared(b, Part(r, 0, PktSize))
        ELSE IF ops[r] = "Get" THEN Write(header, Part(r, HdrSize, KeySize))
        ELSE Write(key, Part(r, HdrSize + ExtrasSize + KeySize, ValSize))

\* The last byte of bodylen in a header: 12 of 24.
BodyLenAt == HdrSize \div 2

\* What recv_response says of the body of a response.  Of a header in two parts
\* the second is copied to the wrong place: bodylen stays 0 if it was there.
ResponseBody(request, seg1) ==
    IF setup.proto = "synthetic" \/ request.op = "Set" THEN 0
    ELSE IF Len(seg1) >= BodyLenAt THEN BodySize(seg1[BodyLenAt][1])
    ELSE 0

-----------------------------------------------------------------------------
(* The kernel, the server and the clock.                                     *)

Tick ==
    /\ Running /\ due < total_samples_
    /\ due' = due + 1
    /\ UNCHANGED <<setup, ops, net, counts, timer, events, todo, place, ref_cnt_, requests_,
                   sockets, locals, status>>

\* A connect() in progress completes.
Connect(g) ==
    /\ Running /\ ref_cnt_[g] > 0 /\ ~net[g].open
    /\ net' = [net EXCEPT ![g].open = TRUE, ![g].edge = TRUE]
    /\ UNCHANGED <<setup, ops, due, counts, timer, events, todo, place, ref_cnt_, requests_,
                   sockets, locals, status>>

\* A server that keeps the protocol reads what has arrived and answers the first
\* request it has all of.
Serve(g) ==
    LET all == net[g].got \o net[g].up
        r == all[1][1]
        complete == all # <<>> /\ all[1] # Junk /\ Len(all) >= RequestSize(r)
    IN  /\ Running /\ (net[g].up # <<>> \/ complete)
        /\ net' = [net EXCEPT
              ![g].up = <<>>, ![g].nospace = FALSE, ![g].edge = @ \/ net[g].nospace,
              ![g].got = IF complete THEN SubSeq(all, RequestSize(r) + 1, Len(all)) ELSE all,
              ![g].owed = IF complete THEN @ \o Part(r, 0, HeaderSize + BodySize(r)) ELSE @]
        /\ UNCHANGED <<setup, ops, due, counts, timer, events, todo, place, ref_cnt_, requests_,
                       sockets, locals, status>>

Deliver(g) ==
    /\ Running
    /\ \E n \in 1 .. Len(net[g].owed) :
          net' = [net EXCEPT ![g].down = @ \o SubSeq(net[g].owed, 1, n),
                             ![g].owed = SubSeq(@, n + 1, Len(@)), ![g].edge = TRUE]
    /\ UNCHANGED <<setup, ops, due, counts, timer, events, todo, place, ref_cnt_, requests_,
                   sockets, locals, status>>

-----------------------------------------------------------------------------
(* Client::run.                                                              *)

\* What epoll reports of a socket whose state has changed.
Event(g) ==
    [gen |-> g, in |-> net[g].down # <<>>, out |-> net[g].open /\ Len(net[g].up) < setup.room]
TimerEvent == [gen |-> 0, in |-> FALSE, out |-> FALSE]

TimerFired == armed /\ due > sent_count_
Ready ==
    {e \in {Event(g) : g \in {h \in Gens : net[h].edge}} : e.in \/ e.out}
    \cup (IF TimerFired THEN {TimerEvent} ELSE {})

\* epoll_wait, edge-triggered; it blocks unless the timers are busy.
EpollWait ==
    /\ Running /\ call = "none" /\ todo = <<>> /\ (setup.busy \/ Ready # {})
    /\ events' = Ready
    /\ net' = [g \in Gens |-> [net[g] EXCEPT !.edge = FALSE]]
    /\ armed' = (armed /\ ~TimerFired)
    /\ todo' = (IF setup.busy THEN <<"events", "busy">> ELSE <<"events">>)
    /\ UNCHANGED <<setup, ops, due, counts, now, place, ref_cnt_, requests_, sockets, locals, status>>

\* Slip: run_io does not take the reference that it gives back.
RunIO_NoGet(e) ==
    /\ call' = "run_io" /\ gen' = e.gen /\ out' = e.out
    /\ at' = (IF e.in THEN "rx" ELSE IF e.out THEN "tx" ELSE "put")
    /\ rx_rdy_' = [rx_rdy_ EXCEPT ![e.gen] = @ \/ e.in]
    /\ tx_rdy_' = [tx_rdy_ EXCEPT ![e.gen] = @ \/ e.out]
    /\ UNCHANGED ref_cnt_

\* Generator::run_io and Sock::run_io up to rx() or tx(); rx() does not look at tx_rdy_.
RunIO(e) ==
    /\ call' = "run_io" /\ gen' = e.gen /\ out' = e.out
    /\ at' = (IF e.in THEN "rx" ELSE IF e.out THEN "tx" ELSE "put")
    /\ rx_rdy_' = [rx_rdy_ EXCEPT ![e.gen] = @ \/ e.in]
    /\ tx_rdy_' = [tx_rdy_ EXCEPT ![e.gen] = @ \/ e.out]
    /\ ref_cnt_' = [ref_cnt_ EXCEPT ![e.gen] = @ + 1]

\* The next event, in the order epoll_wait has put them.
HandleEvent ==
    /\ In("events")
    /\ \/ /\ events = {} /\ todo' = Tail(todo)
          /\ UNCHANGED <<events, place, ref_cnt_, rx_rdy_, tx_rdy_, status>>
       \/ \E e \in events :
             /\ events' = events \ {e}
             /\ \/ /\ e = TimerEvent /\ todo' = <<"timer">> \o todo
                   /\ UNCHANGED <<place, ref_cnt_, rx_rdy_, tx_rdy_, status>>
                \/ /\ e # TimerEvent /\ UNCHANGED todo
                   /\ IF ref_cnt_[e.gen] > 0 THEN RunIO(e) /\ UNCHANGED status
                      ELSE /\ status' = "use_after_free"
                           /\ UNCHANGED <<place, ref_cnt_, rx_rdy_, tx_rdy_>>
    /\ UNCHANGED <<setup, ops, due, net, counts, timer, requests_,
                   rx_cbs_, rbuf_, tx_cbs_, wbuf_, tx_out_, locals>>

-----------------------------------------------------------------------------
(* timer_handler and busy_timer.                                             *)

ReadClock ==
    /\ In("timer") \/ In("busy")
    /\ now' = due
    /\ todo' = <<"loop">> \o Tail(todo)
    /\ UNCHANGED <<setup, ops, due, net, counts, armed, events, place, ref_cnt_, requests_,
                   sockets, locals, status>>

\* The next deadline is not reached.  busy_timer also reads the deadline after
\* the last one, which does not exist, and stops whatever it finds.
Sleep ==
    /\ In("loop") /\ sent_count_ >= now
    /\ armed' = ~setup.busy
    /\ todo' = Tail(todo)
    /\ UNCHANGED <<setup, ops, due, net, counts, now, events, place, ref_cnt_, requests_,
                   sockets, locals, status>>

\* The references taken by get_connection and Generator::send_request.
References(g) == IF setup.mode = "per_request" THEN 2 ELSE ref_cnt_[g] + 2

Chosen ==
    IF setup.mode = "per_request" THEN {sent_count_ + 1}
    ELSE IF setup.mode = "round_robin" THEN {1 + (sent_count_ % setup.conn_cnt)}
    ELSE Gens

\* Slip: every request counts as measured once the warm-up is over.
Measured_NoEnd(n) == n >= setup.pre

Measured(n) == n >= setup.pre /\ n < setup.pre + setup.measure

\* send_request up to try_tx: a full buffer throws, and the client gives up.
SendRequest ==
    LET r == sent_count_ + 1
        request == [id |-> r, op |-> ops[r], measure |-> Measured(sent_count_), sent |-> FALSE]
    IN  /\ In("loop") /\ sent_count_ < now
        /\ \E g \in Chosen :
              IF /\ CanQueue(requests_[g], 1) /\ CanQueue(tx_cbs_[g], 1)
                 /\ CanQueue(wbuf_[g], RequestSize(r))
              THEN /\ gen' = g
                   /\ ref_cnt_' = [ref_cnt_ EXCEPT ![g] = References(g)]
                   /\ requests_' = [requests_ EXCEPT ![g] = QueueEmplace(@, request)]
                   /\ wbuf_' = [wbuf_ EXCEPT ![g] = PutRequest(@, r)]
                   /\ WriteCbPoint(g, PutRequest(wbuf_[g], r).used_, requests_[g].tail_)
                   /\ call' = "send_request" /\ at' = (IF tx_rdy_[g] THEN "tx" ELSE "read")
                   /\ UNCHANGED <<out, status>>
              ELSE /\ status' = "full"
                   /\ UNCHANGED <<place, ref_cnt_, requests_, wbuf_, tx_cbs_, tx_out_>>
        /\ UNCHANGED <<setup, ops, due, net, counts, timer, events, todo, rxside, tx_rdy_, locals>>

-----------------------------------------------------------------------------
(* Sock::tx, Sock::read and Sock::rx on the current generator.               *)

\* Where tx() and rx() return to.
ReturnTx == at' = IF call = "run_io" THEN "put" ELSE "read"
ReturnRx == at' = IF out THEN "tx" ELSE "put"
EndLoop == drop' = 0 /\ nbytes' = 0

Tx ==
    LET b == wbuf_[gen]
        n == Min({b.used_, setup.room - Len(net[gen].up)})
        data == Peek1(b, b.used_) \o Peek2(b, b.used_)
    IN  /\ On("tx")
        /\ \/ b.used_ = 0 /\ ReturnTx /\ UNCHANGED <<net, tx_rdy_, wbuf_, nbytes>>
           \/ /\ b.used_ > 0 /\ n = 0   \* EAGAIN
              /\ tx_rdy_' = [tx_rdy_ EXCEPT ![gen] = FALSE]
              /\ net' = [net EXCEPT ![gen].nospace = TRUE]
              /\ ReturnTx /\ UNCHANGED <<wbuf_, nbytes>>
           \/ /\ n > 0
              /\ net' = [net EXCEPT ![gen].up = @ \o SubSeq(data, 1, n)]
              /\ wbuf_' = [wbuf_ EXCEPT ![gen] = Drop(b, n)]
              /\ nbytes' = n
              /\ at' = "tx_callbacks"
              /\ UNCHANGED tx_rdy_
        /\ UNCHANGED <<setup, ops, due, counts, timer, events, todo, call, gen, out, ref_cnt_,
                       requests_, rxside, tx_cbs_, tx_out_, drop, status>>

\* sent_request: the request has its sent_ts.
MarkSent(b, i) ==
    LET request == b.buf_[i]
    IN  SetSlot(b, i, [id |-> request.id, op |-> request.op, measure |-> request.measure,
                       sent |-> TRUE])

TxCallback ==
    LET cbs == tx_cbs_[gen]
    IN  /\ On("tx_callbacks")
        /\ \/ TxWaits(gen) /\ EndLoop /\ at' = "tx" /\ UNCHANGED requests_
           \/ /\ TxDone(gen) /\ UNCHANGED at
              /\ requests_' = [requests_ EXCEPT ![gen] = MarkSent(@, cbs.buf_[Current(cbs)].cbdata)]
           \/ /\ AtEnd(cbs) /\ EndLoop /\ at' = "tx" /\ UNCHANGED <<requests_, tx_out_>>
              /\ tx_cbs_' = [tx_cbs_ EXCEPT ![gen] = Drop(cbs, drop)]
        /\ UNCHANGED <<setup, ops, due, net, counts, timer, events, todo, call, gen, out, ref_cnt_,
                       rxside, tx_rdy_, wbuf_, status>>

\* The end of _send_request: the response of the request queued last is awaited.
Read ==
    LET rx == [hdrlen |-> HeaderSize, bodylen |-> 0, cbdata |-> LastSlot(requests_[gen])]
    IN  /\ On("read")
        /\ IF CanQueue(rx_cbs_[gen], 1)
           THEN /\ rx_cbs_' = [rx_cbs_ EXCEPT ![gen] = QueueEmplace(@, rx)]
                /\ at' = (IF rx_rdy_[gen] THEN "rx" ELSE "put")
                /\ UNCHANGED status
           ELSE status' = "full" /\ UNCHANGED <<rx_cbs_, at>>
        /\ UNCHANGED <<setup, ops, due, net, counts, timer, events, todo, call, gen, out, ref_cnt_,
                       requests_, rx_rdy_, rbuf_, txside, locals>>

Rx ==
    LET b == rbuf_[gen]
        n == Min({Space(b), Len(net[gen].down)})
    IN  /\ On("rx")
        /\ \/ rx_cbs_[gen].used_ = 0 /\ ReturnRx /\ UNCHANGED <<net, rx_rdy_, rbuf_, status>>
           \/ /\ rx_cbs_[gen].used_ > 0 /\ Space(b) = 0
              /\ status' = "full" /\ UNCHANGED <<net, rx_rdy_, rbuf_, at>>
           \/ /\ rx_cbs_[gen].used_ > 0 /\ Space(b) > 0 /\ n = 0   \* EAGAIN
              /\ rx_rdy_' = [rx_rdy_ EXCEPT ![gen] = FALSE]
              /\ ReturnRx /\ UNCHANGED <<net, rbuf_, status>>
           \/ /\ rx_cbs_[gen].used_ > 0 /\ n > 0
              /\ net' = [net EXCEPT ![gen].down = SubSeq(@, n + 1, Len(@))]
              /\ rbuf_' = [rbuf_ EXCEPT ![gen] = Write(b, SubSeq(net[gen].down, 1, n))]
              /\ at' = "rx_callbacks"
              /\ UNCHANGED <<rx_rdy_, status>>
        /\ UNCHANGED <<setup, ops, due, counts, timer, events, todo, call, gen, out, ref_cnt_,
                       requests_, rx_cbs_, txside, locals>>

\* The checks of recv_response: its cbdata is the first request outstanding, and
\* that request has been sent.
Expected(cbdata) ==
    /\ requests_[gen].used_ > 0 /\ cbdata = requests_[gen].head_
    /\ requests_[gen].buf_[cbdata].sent

\* The request whose response has this header, or -1 if it is no header.
HeaderOf(header) == IF header = Part(header[1][1], 0, HeaderSize) THEN header[1][1] ELSE -1

\* Slip: a finished request keeps its reference.
FinishRequest_NoPut ==
    /\ requests_' = [requests_ EXCEPT ![gen] = Drop(@, 1)]
    /\ UNCHANGED ref_cnt_

\* recv_response takes the request from requests_, and record_sample gives its
\* reference back.
FinishRequest ==
    /\ requests_' = [requests_ EXCEPT ![gen] = Drop(@, 1)]
    /\ ref_cnt_' = [ref_cnt_ EXCEPT ![gen] = @ - 1]

\* The rest of record_sample.
RecordSample(request, header) ==
    /\ rcvd_count_' = rcvd_count_ + 1
    /\ measure_count_' = measure_count_ + (IF request.measure THEN 1 ELSE 0)
    /\ matched' = [matched EXCEPT ![request.id] = HeaderOf(header)]
    /\ status' = (IF rcvd_count_' >= total_samples_ THEN "exited" ELSE status)
    /\ UNCHANGED sent_count_

\* The header of the entry rx at the iterator is complete in b: recv_response gets
\* it as two arrays, and the body it tells of comes next.  A generator deleted in
\* the callback is used after it.
RxHeader(b, rx) ==
    LET request == requests_[gen].buf_[rx.cbdata]
        seg1 == Peek1(b, rx.hdrlen)
        seg2 == Peek2(b, rx.hdrlen)
        left == Drop(b, rx.hdrlen)
        bodylen == ResponseBody(request, seg1)
    IN  /\ rx.hdrlen > 0 /\ rx.hdrlen <= b.used_
        /\ IF Expected(rx.cbdata) /\ ref_cnt_[gen] > 1
           THEN /\ FinishRequest /\ RecordSample(request, seg1 \o seg2)
                /\ \/ RxBodyWaits(gen, left, bodylen) /\ EndLoop /\ at' = "rx"
                   \/ RxBodyDone(gen, left, bodylen) /\ UNCHANGED <<nbytes, at>>
           ELSE /\ status' = (IF Expected(rx.cbdata) THEN "use_after_free" ELSE "check_failed")
                /\ UNCHANGED <<requests_, ref_cnt_, counts, rx_cbs_, rbuf_, locals, at>>

RxCallback ==
    LET b == rbuf_[gen]
        cbs == rx_cbs_[gen]
        rx == cbs.buf_[Current(cbs)]
    IN  /\ On("rx_callbacks")
        /\ \/ /\ ~AtEnd(cbs) => b.used_ < rx.hdrlen
              /\ RxDrop(gen, cbs) /\ EndLoop /\ at' = "rx"
              /\ UNCHANGED <<rbuf_, requests_, ref_cnt_, counts, status>>
           \/ /\ ~AtEnd(cbs) /\ rx.hdrlen = 0   \* more of the body
              /\ \/ RxBodyWaits(gen, b, rx.bodylen) /\ EndLoop /\ at' = "rx"
                 \/ RxBodyDone(gen, b, rx.bodylen) /\ UNCHANGED <<nbytes, at>>
              /\ UNCHANGED <<requests_, ref_cnt_, counts, status>>
           \/ ~AtEnd(cbs) /\ RxHeader(b, rx)
        /\ UNCHANGED <<setup, ops, due, net, timer, events, todo, call, gen, out, rx_rdy_, txside>>

-----------------------------------------------------------------------------
(* The end of Generator::run_io and of send_request.                         *)

\* ~Sock calls back for every entry of rx_cbs_, and recv_response drops a request
\* each time: if there is none left it throws, in a destructor.
Put ==
    IF ref_cnt_[gen] > 1
    THEN ref_cnt_' = [ref_cnt_ EXCEPT ![gen] = @ - 1] /\ UNCHANGED <<net, status>>
    ELSE IF Len(Slots(rx_cbs_[gen])) > requests_[gen].used_
    THEN status' = "terminated" /\ UNCHANGED <<ref_cnt_, net>>
    ELSE /\ ref_cnt_' = [ref_cnt_ EXCEPT ![gen] = 0]
         /\ net' = [net EXCEPT ![gen] = NotConnected]
         /\ UNCHANGED status

Leave == call' = "none" /\ at' = "none" /\ out' = FALSE /\ UNCHANGED gen

EndRunIO ==
    /\ On("put") /\ call = "run_io" /\ Put /\ Leave
    /\ UNCHANGED <<setup, ops, due, counts, timer, events, todo, requests_, sockets, locals>>

\* After the last request the loop ends too.
EndSendRequest ==
    /\ On("put") /\ call = "send_request" /\ Put /\ Leave
    /\ sent_count_' = sent_count_ + 1
    /\ todo' = (IF sent_count_' >= total_samples_ THEN Tail(todo) ELSE todo)
    /\ UNCHANGED <<setup, ops, due, rcvd_count_, measure_count_, matched, timer, events,
                   requests_, sockets, locals>>

Run ==
    \/ EpollWait \/ HandleEvent \/ ReadClock \/ Sleep \/ SendRequest
    \/ Tx \/ TxCallback \/ Read \/ Rx \/ RxCallback \/ EndRunIO \/ EndSendRequest

Ended == ~Running /\ UNCHANGED vars

Peer == \E g \in Gens : Connect(g) \/ Serve(g) \/ Deliver(g)

Next == Run \/ Tick \/ Peer \/ Ended

Spec == Init /\ [][Next]_vars

\* The thread is not blocked in epoll_wait: one of the actions of Run is enabled.
CanRun == Running /\ (todo # <<>> \/ call # "none" \/ setup.busy \/ Ready # {})

\* WF_vars(Run) in a form that TLC is quick to evaluate: all steps of Run, and no
\* others, change where the thread is.
ThreadAt == <<todo, place, drop, status>>
ThreadRuns == []<>~CanRun \/ []<><<ThreadAt' # ThreadAt>>_vars

\* The thread runs, time passes, and the network and the server go on.
FairSpec == Spec /\ ThreadRuns /\ WF_vars(Tick) /\ WF_vars(Peer)

-----------------------------------------------------------------------------
(* Properties.                                                               *)

\* Every variable has its type, and every buffer's indices agree with its counter.
TypeOK ==
    /\ setup \in Setups /\ ops \in [Requests -> setup.cmds]
    /\ {due, now, sent_count_, rcvd_count_, measure_count_} \subseteq 0 .. total_samples_
    /\ armed \in BOOLEAN /\ gen \in Gens /\ DOMAIN net = Gens
    /\ ref_cnt_ \in [Gens -> Nat] /\ tx_out_ \in [Gens -> Nat]
    /\ drop \in Nat /\ nbytes \in Nat
    /\ status \in {"running", "exited", "full", "check_failed", "use_after_free", "terminated"}
    /\ todo \in Seq({"events", "busy", "timer", "loop"}) 
    /\ call \in {"none", "run_io", "send_request"} /\ out \in BOOLEAN
    /\ at \in {"none", "rx", "rx_callbacks", "tx", "tx_callbacks", "read", "put"}
    /\ \A g \in Gens : /\ WellFormed(requests_[g]) /\ WellFormed(rx_cbs_[g])
                       /\ WellFormed(tx_cbs_[g]) /\ WellFormed(rbuf_[g]) /\ WellFormed(wbuf_[g])

InCall(g) == g = gen /\ call # "none"

\* A generator has one reference for the pool, one for each request that has no
\* response yet and one for the call that is using it: none is deleted early, and
\* a connection made for one request goes with its response.
ReferencesCounted ==
    Running => \A g \in Gens :
        ref_cnt_[g] = (IF setup.mode = "per_request" THEN 0 ELSE 1)
                      + requests_[g].used_ + (IF InCall(g) THEN 1 ELSE 0)

\* No generator is touched after its deletion: not by the rest of rx() after a
\* callback, and not by an event that epoll_wait had already reported.
UsedIsAlive ==
    /\ status # "use_after_free"
    /\ \A e \in events : e # TimerEvent => ref_cnt_[e.gen] > 0

\* The generators' own checks never fire: responses come in the order of the
\* requests, and never before the request is marked as sent.
ChecksHold == status # "check_failed"

\* ~Sock never calls back for a response whose request is already finished.
TeardownIsQuiet == status # "terminated"

\* A request is marked as sent exactly when the kernel has taken its last byte,
\* however the writes are cut and however many requests share wbuf_.  Only while
\* MAX_OUTSTANDING_REQS are unanswered the callbacks stop: a loop over a full
\* queue visits nothing.
SentWhenWritten ==
    \A g \in Gens : Running /\ Space(requests_[g]) > 0 /\ ~(g = gen /\ On("tx_callbacks")) =>
        \A i \in 1 .. requests_[g].used_ :
            LET request == Items(requests_[g])[i]
                waiting == Items(wbuf_[g])
            IN  request.sent <=> \A j \in DOMAIN waiting : waiting[j][1] # request.id

\* Every request gets the header of its own response, and when the client exits
\* all of them have, the samples asked for among them.
OwnResponses ==
    /\ \A r \in Requests : matched[r] \in {0, r}
    /\ status = "exited" => /\ \A r \in Requests : matched[r] = r
                            /\ measure_count_ = setup.measure

\* The requests a connection has room for, in its queues and in wbuf_.
Capacity ==
    LET largest == IF setup.proto = "synthetic" THEN PktSize
                   ELSE HdrSize + ExtrasSize + KeySize + ValSize
    IN  Min({setup.queue, setup.wbuf \div largest})

\* The client keeps the promise of OpenLoop: it sends by the clock, never waits for
\* an answer, ends after the last one, and gives up only over Capacity requests.
\* It hangs, as OpenLoop allows, when the last request fills a queue: rx_cbs_ then
\* has begin() = end(), so rx() visits no callback, and nothing is left to send.
\* One counts as issued once it is in requests_, before send_request returns.
OL == INSTANCE OpenLoop WITH
    total <- total_samples_, limit <- Capacity, most <- setup.queue, due <- due,
    issued <- sent_count_ + (IF call = "send_request" THEN 1 ELSE 0),
    answered <- rcvd_count_, over <- status
ImplementsOpenLoop == OL!FairSpec

=============================================================================
