------------------------------ MODULE ClientRefs -----------------------------
(***************************************************************************)
(* The second half of the inductive invariant of the load client: the      *)
(* counters, the references of the generators, and what ~Sock finds.       *)
(***************************************************************************)
EXTENDS ClientBuffers

-----------------------------------------------------------------------------
(* The counters, in every step.                                              *)

Statuses == {"running", "exited", "full", "check_failed", "use_after_free", "terminated"}

\* A step that counts nothing goes on, or ends the program.
LEMMA CountQuiet ==
    ASSUME CountInv, setup' = setup, UNCHANGED <<rcvd_count_, measure_count_>>,
           status' = status \/ status' \in Statuses \ {"running"}
    PROVE  CountInv'
  <1>1. total_samples_' = total_samples_
    BY SetupStays, Zenon
  <1>2. status' \in Statuses /\ (Running' => Running)
    BY Zenon DEF CountInv, Statuses, Running
  <1> QED
    BY <1>1, <1>2, Zenon DEF CountInv, Statuses

\* record_sample exits with the last of them.
LEMMA RecordCount ==
    ASSUME ControlInv, CountInv, Running, setup' = setup,
           NEW request \in Request, NEW header, RecordSample(request, header)
    PROVE  CountInv'
  <1>1. total_samples_' = total_samples_ /\ total_samples_ \in Nat \ {0}
    BY SetupStays, TotalFacts, Zenon DEF ControlInv
  <1>2. rcvd_count_ \in 0 .. total_samples_ /\ measure_count_ \in 0 .. rcvd_count_ /\ rcvd_count_ < total_samples_
    BY Zenon DEF CountInv
  <1>3. /\ rcvd_count_' = rcvd_count_ + 1
        /\ measure_count_' = measure_count_ + (IF request.measure THEN 1 ELSE 0)
    BY Zenon DEF RecordSample
  <1>4. measure_count_' = measure_count_ \/ measure_count_' = measure_count_ + 1
    BY <1>2, <1>3, SMT
  <1>5. rcvd_count_' \in 0 .. total_samples_ /\ measure_count_' \in 0 .. rcvd_count_'
    BY <1>1, <1>2, <1>3, <1>4, SMT
  <1>6. status' = "exited" \/ (status' = "running" /\ ~(rcvd_count_' >= total_samples_))
    BY <1>1, Zenon DEF RecordSample, Running
  <1>7. Running' => rcvd_count_' < total_samples_
    BY <1>1, <1>5, <1>6, SMT DEF Running
  <1> QED
    BY <1>1, <1>5, <1>6, <1>7, Zenon DEF CountInv, Running

\* Every step keeps the counters of requests and responses consistent with status.
LEMMA CountStep ==
    ASSUME ControlInv, NetInv, BufInv, LoopInv, CountInv, [Next]_vars
    PROVE  CountInv'
  <1>1. setup' = setup
    BY SetupSame, Zenon
  <1>2. CASE /\ UNCHANGED <<rcvd_count_, measure_count_>>
             /\ status' = status \/ status' \in Statuses \ {"running"}
    BY <1>1, <1>2, CountQuiet, Zenon
  <1>3. CASE RxCallback
    <2> DEFINE cbs == rx_cbs_[gen]
               rx == cbs.buf_[Current(cbs)]
               request == requests_[gen].buf_[rx.cbdata]
    <2>1. \/ UNCHANGED <<rcvd_count_, measure_count_, status>>
          \/ UNCHANGED <<rcvd_count_, measure_count_>> /\ status' \in {"use_after_free", "check_failed"}
          \/ ~AtEnd(cbs) /\ \E header : RecordSample(request, header)
      BY <1>3, Zenon DEF RxCallback, RxHeader, counts
    <2>2. Running /\ gen \in Gens /\ at = "rx_callbacks"
      BY <1>3, Zenon DEF RxCallback, On, ControlInv
    <2>3. ASSUME ~AtEnd(cbs)
          PROVE  request \in Request
      <3>1. /\ setup.queue \in Nat \ {0} /\ requests_[gen] \in BufferOf(setup.queue, Request)
            /\ cbs \in BufferOf(setup.queue, RxEntry)
        BY <2>2, GenFacts, Zenon
      <3>2. drop \in Nat /\ drop <= Len(Slots(cbs))
        BY <2>2, Zenon DEF LoopInv
      <3>3. rx \in RxEntry
        BY <2>3, <3>1, <3>2, AtCurrent, Zenon
      <3>4. rx.cbdata \in 0 .. setup.queue - 1
        BY <3>3, Zenon DEF RxEntry, Slot
      <3>5. requests_[gen].buf_ \in [0 .. setup.queue - 1 -> Request]
        BY <3>1, Fields, Zenon
      <3> QED
        BY <3>4, <3>5, Zenon
    <2> HIDE DEF request
    <2>4. CASE ~AtEnd(cbs) /\ \E header : RecordSample(request, header)
      BY <1>1, <2>2, <2>3, <2>4, RecordCount, Zenon
    <2> QED
      BY <1>2, <2>1, <2>4, Zenon DEF Statuses
  <1>4. CASE UNCHANGED <<rcvd_count_, measure_count_, status>>
    BY <1>2, <1>4, Zenon
  <1>5. CASE HandleEvent \/ SendRequest
    BY <1>2, <1>5, Zenon DEF HandleEvent, SendRequest, Statuses, counts
  <1>6. CASE Read \/ Rx
    BY <1>2, <1>6, Zenon DEF Read, Rx, Statuses, counts
  <1>7. CASE EndRunIO \/ EndSendRequest
    BY <1>2, <1>7, Zenon DEF EndRunIO, EndSendRequest, Put, Statuses, counts
  <1>8. CASE Tx \/ TxCallback
    BY <1>4, <1>8, Zenon DEF Tx, TxCallback, counts
  <1> QED
    BY <1>3, <1>4, <1>5, <1>6, <1>7, <1>8, Zenon DEF Next, Run, Ended, vars, EpollWait,
       ReadClock, Sleep, Tick, Peer, Connect, Serve, Deliver, counts

-----------------------------------------------------------------------------
(* The reference counts, in every step.                                      *)

\* The references of a generator but for the call's.
Owned(g) == (IF setup.mode = "per_request" THEN 0 ELSE 1) + requests_[g].used_

\* References are counted while the program runs.
LEMMA RefFacts ==
    ASSUME ControlInv, BufInv, RefInv, Running, NEW g \in Gens
    PROVE  /\ ref_cnt_[g] \in Nat /\ requests_[g].used_ \in Nat
           /\ ref_cnt_[g] = Owned(g) + (IF InCall(g) THEN 1 ELSE 0)
           /\ Owned(g) \in Nat /\ (Owned(g) = 0 <=> setup.mode = "per_request" /\ requests_[g].used_ = 0)
           /\ InCall(g) => ref_cnt_[g] > 0
           /\ InCall(g) /\ requests_[g].used_ > 0 => ref_cnt_[g] > 1
  <1>1. ref_cnt_[g] \in Nat /\ requests_[g].used_ \in Nat
    BY UsedFacts, Zenon DEF RefInv
  <1>2. ref_cnt_[g] = Owned(g) + (IF InCall(g) THEN 1 ELSE 0)
    BY Zenon DEF RefInv, ReferencesCounted, Owned
  <1>3. Owned(g) \in Nat /\ (Owned(g) = 0 <=> setup.mode = "per_request" /\ requests_[g].used_ = 0)
        /\ (requests_[g].used_ > 0 => Owned(g) > 0)
    BY <1>1, SMT DEF Owned
  <1>4. InCall(g) => ref_cnt_[g] = Owned(g) + 1
    BY <1>2, Zenon
  <1>5. InCall(g) => ref_cnt_[g] > 0
    BY <1>3, <1>4, SMT
  <1>6. InCall(g) /\ requests_[g].used_ > 0 => ref_cnt_[g] > 1
    BY <1>3, <1>4, SMT
  <1> QED
    BY <1>1, <1>2, <1>3, <1>5, <1>6, Zenon

\* A step that neither takes nor gives a reference.
LEMMA RefSame ==
    ASSUME RefInv, setup' = setup, UNCHANGED <<ref_cnt_, events, call, gen, sent_count_>>,
           \A g \in Gens : requests_'[g].used_ = requests_[g].used_,
           \A g \in Gens : ref_cnt_[g] = 0 => net'[g] = net[g],
           status' # "use_after_free", Running' => Running
    PROVE  RefInv'
  <1>1. Gens' = Gens
    BY SetupStays, Zenon
  <1>2. ReferencesCounted'
    BY <1>1, Zenon DEF RefInv, ReferencesCounted, InCall
  <1>3. UsedIsAlive'
    BY <1>1, Zenon DEF RefInv, UsedIsAlive, TimerEvent
  <1> QED
    BY <1>1, <1>2, <1>3, Zenon DEF RefInv

\* A socket that does not exist has nothing to report.
LEMMA NoConnection ==
    /\ NotConnected.up = <<>> /\ NotConnected.got = <<>> /\ NotConnected.owed = <<>>
    /\ NotConnected.edge = FALSE /\ [NotConnected EXCEPT !.edge = FALSE] = NotConnected
  <1>1. NotConnected.up = <<>> /\ NotConnected.got = <<>> /\ NotConnected.owed = <<>>
    BY SMT DEF NotConnected
  <1>2. NotConnected.edge = FALSE
    BY Zenon DEF NotConnected
  <1>3. [NotConnected EXCEPT !.edge = FALSE] = NotConnected
    <2>1. <<>> \in Seq(Byte)
      BY SMT
    <2>2. NotConnected \in Line
      BY <2>1, Zenon DEF NotConnected, Line
    <2> QED
      BY <1>2, <2>2, Zenon DEF Line
  <1> QED
    BY <1>1, <1>2, <1>3, Zenon

\* The kernel and the server.
LEMMA PeerRef ==
    ASSUME ControlInv, NetInv, RefInv, Peer
    PROVE  RefInv'
  <1>1. PICK g \in Gens : Connect(g) \/ Serve(g) \/ Deliver(g)
    BY Zenon DEF Peer
  <1>2. /\ UNCHANGED <<setup, ref_cnt_, requests_, events, call, gen, sent_count_, status>>
        /\ \A h \in Gens : h # g => net'[h] = net[h]
    BY <1>1, Zenon DEF Connect, Serve, Deliver, place, counts, NetInv
  <1>3. ref_cnt_[g] # 0
    <2>1. CASE Connect(g)
      BY <2>1, SMT DEF Connect, RefInv
    <2>2. net[g] = NotConnected =>
             net[g].up = <<>> /\ net[g].got = <<>> /\ net[g].owed = <<>>
      BY NoConnection, Zenon
    <2>3. CASE Serve(g)
      <3>1. net[g].up # <<>> \/ net[g].got \o net[g].up # <<>>
        BY <2>3, Zenon DEF Serve
      <3>2. <<>> \o <<>> = <<>>
        BY SMT
      <3> QED
        BY <2>2, <3>1, <3>2, Zenon DEF RefInv
    <2>4. CASE Deliver(g)
      <3>1. \E n \in 1 .. Len(net[g].owed) : TRUE
        BY <2>4, Zenon DEF Deliver
      <3>2. Len(<<>>) = 0 /\ ~\E n \in 1 .. 0 : TRUE
        BY SMT
      <3> QED
        BY <2>2, <3>1, <3>2, Zenon DEF RefInv
    <2> QED
      BY <1>1, <2>1, <2>3, <2>4, Zenon
  <1> QED
    BY <1>2, <1>3, RefSame, Zenon DEF Running, RefInv, UsedIsAlive


\* epoll_wait reports sockets that exist, and each once.
LEMMA EpollRef ==
    ASSUME ControlInv, NetInv, BufInv, RefInv, EpollWait
    PROVE  RefInv'
  <1>1. /\ UNCHANGED <<setup, ref_cnt_, requests_, call, gen, sent_count_, status>>
        /\ Running /\ call = "none" /\ events' = Ready
        /\ net' = [g \in Gens |-> [net[g] EXCEPT !.edge = FALSE]]
    BY Zenon DEF EpollWait, place, counts
  <1>2. Gens' = Gens /\ Gens \subseteq Nat \ {0}
    BY <1>1, SetupStays, TotalFacts, Zenon DEF ControlInv
  <1>3. ASSUME NEW e \in Ready, e # TimerEvent
        PROVE  /\ e.gen \in Gens /\ e = Event(e.gen) /\ ref_cnt_[e.gen] > 0
               /\ setup.mode = "per_request" => e.gen <= sent_count_
    <2>1. e.gen \in Gens /\ net[e.gen].edge /\ e = Event(e.gen)
      BY <1>3, ReadyFacts, Zenon
    <2>2. PICK g \in Gens : g = e.gen
      BY <2>1, Zenon
    <2>3. ref_cnt_[g] # 0
      BY <2>1, <2>2, NoConnection, Zenon DEF RefInv
    <2>4. ref_cnt_[g] > 0
      BY <2>3, SMT DEF RefInv
    <2>5. /\ ref_cnt_[g] \in Nat /\ ref_cnt_[g] = Owned(g) + (IF InCall(g) THEN 1 ELSE 0)
          /\ requests_[g].used_ \in Nat
          /\ Owned(g) \in Nat /\ (Owned(g) = 0 <=> setup.mode = "per_request" /\ requests_[g].used_ = 0)
      BY <1>1, RefFacts, Zenon
    <2>6. ref_cnt_[g] = Owned(g)
      <3>1. ref_cnt_[g] = Owned(g) + 0
        BY <1>1, <2>5, Zenon DEF InCall
      <3> QED
        BY <2>5, <3>1, SMT
    <2>7. setup.mode = "per_request" => requests_[g].used_ > 0
      BY <2>3, <2>5, <2>6, SMT
    <2>8. setup.mode = "per_request" => g <= sent_count_
      BY <1>1, <2>7, Zenon DEF RefInv
    <2> QED
      BY <2>1, <2>2, <2>4, <2>8, Zenon
  <1>4. UsedIsAlive'
    BY <1>1, <1>3, Zenon DEF RefInv, UsedIsAlive, TimerEvent
  <1>5. \A e, f \in Ready : e.gen = f.gen => e = f
    <2>1. TimerEvent.gen \notin Gens
      BY <1>2, SMT DEF TimerEvent
    <2> QED
      BY <1>3, <2>1, Zenon
  <1>6. setup.mode = "per_request" => \A e \in Ready : e.gen <= sent_count_
    <2>1. TimerEvent.gen <= sent_count_
      BY SMT DEF TimerEvent, ControlInv
    <2> QED
      BY <1>3, <2>1, Zenon
  <1>7. \A g \in Gens : ref_cnt_[g] = 0 => net'[g] = NotConnected
    BY <1>1, NoConnection, Zenon DEF RefInv
  <1>8. ReferencesCounted'
    BY <1>1, <1>2, Zenon DEF RefInv, ReferencesCounted, InCall, Running
  <1> QED
    BY <1>1, <1>2, <1>4, <1>5, <1>6, <1>7, <1>8, Zenon DEF RefInv

\* run_io takes a reference, on a generator that exists.
LEMMA EventRef ==
    ASSUME ControlInv, BufInv, RefInv, HandleEvent
    PROVE  RefInv'
  <1>1. /\ UNCHANGED <<setup, net, sent_count_, requests_>> /\ Running /\ call = "none"
    BY Zenon DEF HandleEvent, In, counts
  <1>2. Gens' = Gens
    BY <1>1, SetupStays, Zenon
  <1>3. CASE /\ UNCHANGED <<call, gen, ref_cnt_, status>> /\ events' \subseteq events
    <2>1. ReferencesCounted'
      BY <1>1, <1>2, <1>3, Zenon DEF RefInv, ReferencesCounted, InCall, Running
    <2>2. UsedIsAlive'
      BY <1>3, Zenon DEF RefInv, UsedIsAlive, TimerEvent
    <2> QED
      BY <1>1, <1>2, <1>3, <2>1, <2>2, Zenon DEF RefInv
  <1>4. CASE \E e \in events : /\ e # TimerEvent /\ events' = events \ {e}
                               /\ IF ref_cnt_[e.gen] > 0 THEN RunIO(e) /\ UNCHANGED status
                                  ELSE status' = "use_after_free"
    <2>1. PICK e \in events : /\ e # TimerEvent /\ events' = events \ {e}
                              /\ IF ref_cnt_[e.gen] > 0 THEN RunIO(e) /\ UNCHANGED status
                                 ELSE status' = "use_after_free"
      BY <1>4, Zenon
    <2>2. PICK g \in Gens : g = e.gen /\ ref_cnt_[g] > 0
      BY <2>1, Zenon DEF ControlInv, RefInv, UsedIsAlive
    <2>3. /\ call' = "run_io" /\ gen' = g /\ UNCHANGED status
          /\ ref_cnt_' = [ref_cnt_ EXCEPT ![g] = ref_cnt_[g] + 1]
      BY <2>1, <2>2, Zenon DEF RunIO
    <2>4. ref_cnt_[g] + 1 \in Nat /\ ref_cnt_[g] + 1 > 0 /\ ref_cnt_[g] + 1 # 0
      BY <2>2, SMT DEF RefInv
    <2>5. /\ ref_cnt_' \in [Gens -> Nat] /\ ref_cnt_'[g] = ref_cnt_[g] + 1
          /\ \A h \in Gens : h # g => ref_cnt_'[h] = ref_cnt_[h]
      BY <2>3, <2>4, Zenon DEF RefInv
    <2>6. \A h \in Gens : Owned(h)' = Owned(h)
      BY <1>1, Zenon DEF Owned
    <2>7. \A h \in Gens : Owned(h) \in Nat /\ ref_cnt_[h] = Owned(h) + 0
      BY <1>1, RefFacts, Zenon DEF InCall
    <2>8. \A h \in Gens : ref_cnt_'[h] = Owned(h) + (IF h = g THEN 1 ELSE 0)
      <3>1. \A n \in Nat : (n + 0) + 1 = n + 1
        BY SMT
      <3> QED
        BY <2>5, <2>7, <3>1, Zenon
    <2>9. ReferencesCounted'
      BY <1>2, <2>3, <2>6, <2>8, Zenon DEF ReferencesCounted, InCall, Owned
    <2>10. UsedIsAlive'
      BY <2>1, <2>3, <2>4, <2>5, Zenon DEF RefInv, UsedIsAlive, TimerEvent, ControlInv
    <2>11. \A f \in events' : f.gen # g
      BY <2>1, <2>2, Zenon DEF RefInv
    <2>12. \A h \in Gens : ref_cnt_'[h] = 0 => net'[h] = NotConnected
      BY <1>1, <2>4, <2>5, Zenon DEF RefInv
    <2>13. setup.mode = "per_request" =>
              /\ \A f \in events' : f.gen <= sent_count_
              /\ \A h \in Gens : requests_[h].used_ > 0 => h <= sent_count_
      BY <1>1, <2>1, Zenon DEF RefInv
    <2> QED
      BY <1>1, <1>2, <2>1, <2>3, <2>5, <2>9, <2>10, <2>11, <2>12, <2>13, Zenon DEF RefInv
  <1> QED
    BY <1>3, <1>4, Zenon DEF HandleEvent, place


\* One request more.
LEMMA RequestQueued ==
    ASSUME ControlInv, BufInv, NEW g \in Gens, NEW request \in Request, CanQueue(requests_[g], 1),
           requests_' = [requests_ EXCEPT ![g] = QueueEmplace(requests_[g], request)]
    PROVE  /\ requests_'[g].used_ = requests_[g].used_ + 1
           /\ \A h \in Gens : h # g => requests_'[h].used_ = requests_[h].used_
  <1>1. PICK N \in Nat \ {0} : N = setup.queue /\ requests_[g] \in BufferOf(N, Request)
    BY GenFacts, Zenon
  <1>2. PICK b \in BufferOf(N, Request) : b = requests_[g] /\ CanQueue(b, 1)
    BY <1>1, Zenon
  <1>3. /\ QueueEmplace(b, request) \in BufferOf(N, Request)
        /\ QueueEmplace(b, request).used_ = b.used_ + 1
        /\ Items(QueueEmplace(b, request)) = Items(b) \o <<request>>
    BY <1>2, Emplaced
  <1> QED
    BY <1>2, <1>3, Zenon DEF BufInv

\* send_request takes one reference for the request and one for itself; a generator
\* made for the request has no other.
LEMMA SendRef ==
    ASSUME ControlInv, BufInv, TxInv, RefInv, SendRequest
    PROVE  RefInv'
  <1>1. /\ UNCHANGED <<setup, net, sent_count_, events>> /\ Running /\ call = "none" /\ sent_count_ < now
    BY Zenon DEF SendRequest, In, counts
  <1>2. Gens' = Gens
    BY <1>1, SetupStays, Zenon
  <1>3. CASE status' = "full" /\ UNCHANGED <<place, ref_cnt_, requests_>>
    BY <1>1, <1>3, RefSame, Zenon DEF place, Running
  <1>4. CASE \E g \in Gens, request \in Request, tx \in TxEntry : g \in Chosen /\ Sends(g, request, tx)
    <2>1. PICK g \in Gens, request \in Request, tx \in TxEntry : g \in Chosen /\ Sends(g, request, tx)
      BY <1>4, Zenon
    <2>2. /\ gen' = g /\ call' = "send_request" /\ UNCHANGED status
          /\ ref_cnt_' = [ref_cnt_ EXCEPT ![g] = References(g)]
          /\ CanQueue(requests_[g], 1)
          /\ requests_' = [requests_ EXCEPT ![g] = QueueEmplace(requests_[g], request)]
      BY <2>1, Zenon DEF Sends
    <2>3. setup.mode = "per_request" => g = sent_count_ + 1
      BY <1>1, <2>1, ChosenIsOne, Zenon
    <2>4. /\ requests_'[g].used_ = requests_[g].used_ + 1
          /\ \A h \in Gens : h # g => requests_'[h].used_ = requests_[h].used_
      BY <2>2, RequestQueued, Zenon
    <2>5. \A h \in Gens : ref_cnt_[h] \in Nat /\ Owned(h) \in Nat /\ ref_cnt_[h] = Owned(h) + 0
      BY <1>1, RefFacts, Zenon DEF InCall
    <2>6. setup.mode = "per_request" => Owned(g) = 0
      <3>1. ~(sent_count_ + 1 <= sent_count_)
        BY SMT DEF ControlInv
      <3>2. setup.mode = "per_request" => ~(requests_[g].used_ > 0)
        BY <1>1, <2>3, <3>1, Zenon DEF RefInv
      <3>3. requests_[g].used_ \in Nat
        BY UsedFacts, Zenon
      <3> QED
        BY <3>2, <3>3, SMT DEF Owned
    <2>7. References(g) = (Owned(g) + 1) + 1
      <3>1. CASE setup.mode = "per_request"
        BY <2>6, <3>1, SMT DEF References
      <3>2. CASE setup.mode # "per_request"
        <4>1. References(g) = ref_cnt_[g] + 2
          BY <3>2, Zenon DEF References
        <4> QED
          BY <2>5, <4>1, SMT
      <3> QED
        BY <3>1, <3>2, Zenon
    <2>8. /\ Owned(g)' = Owned(g) + 1
          /\ \A h \in Gens : h # g => Owned(h)' = Owned(h)
      <3>1. requests_[g].used_ \in Nat
        BY UsedFacts, Zenon
      <3>2. \A m \in Nat, n \in Nat : m + (n + 1) = (m + n) + 1
        BY SMT
      <3> QED
        BY <1>1, <2>4, <3>1, <3>2, Zenon DEF Owned
    <2>9. References(g) \in Nat /\ References(g) > 0 /\ References(g) # 0
      BY <2>5, <2>7, SMT
    <2>10. /\ ref_cnt_' \in [Gens -> Nat] /\ ref_cnt_'[g] = References(g)
           /\ \A h \in Gens : h # g => ref_cnt_'[h] = ref_cnt_[h]
      BY <2>2, <2>9, Zenon DEF RefInv
    <2>11. \A h \in Gens : ref_cnt_'[h] = Owned(h)' + (IF h = g THEN 1 ELSE 0)
      BY <2>5, <2>7, <2>8, <2>10, Zenon
    <2>12. ReferencesCounted'
      BY <1>2, <2>2, <2>11, Zenon DEF ReferencesCounted, InCall, Owned
    <2>13. UsedIsAlive'
      BY <1>1, <2>2, <2>9, <2>10, Zenon DEF RefInv, UsedIsAlive, TimerEvent, ControlInv
    <2>14. \A h \in Gens : ref_cnt_'[h] = 0 => net'[h] = NotConnected
      BY <1>1, <2>9, <2>10, Zenon DEF RefInv
    <2>15. setup.mode = "per_request" =>
              \A h \in Gens : requests_'[h].used_ > 0 => h <= sent_count_ \/ h = g
      BY <1>1, <2>4, Zenon DEF RefInv
    <2> QED
      BY <1>1, <1>2, <2>2, <2>10, <2>12, <2>13, <2>14, <2>15, Zenon DEF RefInv
  <1> QED
    BY <1>3, <1>4, SendCases, Zenon

\* run_io and send_request give theirs back.  Only a generator made for a request
\* that has its response goes, and nothing is left that speaks of it.
LEMMA EndRef ==
    ASSUME ControlInv, NetInv, BufInv, RefInv, EndRunIO \/ EndSendRequest
    PROVE  RefInv'
  <1>1. PICK g \in Gens : g = gen
    BY Zenon DEF ControlInv
  <1>2. /\ UNCHANGED <<setup, events, requests_>> /\ gen' = g /\ call' = "none"
        /\ Running /\ call # "none" /\ Put
        /\ sent_count_' = IF call = "send_request" THEN sent_count_ + 1 ELSE sent_count_
    BY <1>1, Zenon DEF EndRunIO, EndSendRequest, Leave, On, counts
  <1>3. Gens' = Gens
    BY <1>2, SetupStays, Zenon
  <1>4. \A h \in Gens : /\ ref_cnt_[h] \in Nat /\ Owned(h) \in Nat
                        /\ ref_cnt_[h] = Owned(h) + (IF InCall(h) THEN 1 ELSE 0)
    BY <1>2, RefFacts, Zenon
  <1>5. ref_cnt_[g] = Owned(g) + 1
    BY <1>1, <1>2, <1>4, Zenon DEF InCall
  <1>6. \A h \in Gens : h # g => ref_cnt_[h] = Owned(h) + 0
    BY <1>1, <1>4, Zenon DEF InCall
  <1>7. Owned(g) = 0 => setup.mode = "per_request"
    BY <1>2, RefFacts, Zenon
  <1>8. setup.mode = "per_request" =>
           /\ \A e \in events' : e.gen <= sent_count_'
           /\ \A h \in Gens : requests_'[h].used_ > 0 => h <= sent_count_'
    <2>1. CASE call = "send_request"
      <3>1. PICK n \in Nat : n = sent_count_ /\ sent_count_' = n + 1
        BY <1>2, <2>1, SMT DEF ControlInv
      <3>2. setup.mode = "per_request" => g = n + 1
        BY <1>1, <2>1, <3>1, Zenon DEF ControlInv
      <3>3. \A h \in Gens : h <= n => h <= n + 1
        BY TotalFacts, SMT DEF ControlInv
      <3>4. n + 1 <= n + 1
        BY SMT
      <3>5. setup.mode = "per_request" => \A h \in Gens : requests_'[h].used_ > 0 => h <= n + 1
        BY <1>1, <1>2, <3>1, <3>2, <3>3, <3>4, Zenon DEF RefInv
      <3>6. setup.mode = "per_request" => \A e \in events' : e.gen <= n + 1
        <4>1. \A e \in events : e.gen \in Gens \/ e.gen = 0
          <5>1. TimerEvent.gen = 0
            BY Zenon DEF TimerEvent
          <5> QED
            BY <5>1, Zenon DEF ControlInv
        <4>2. 0 <= n + 1
          BY SMT
        <4> QED
          BY <1>2, <3>1, <3>3, <4>1, <4>2, Zenon DEF RefInv
      <3> QED
        BY <3>1, <3>5, <3>6, Zenon
    <2>2. CASE call # "send_request"
      BY <1>2, <2>2, Zenon DEF RefInv
    <2> QED
      BY <2>1, <2>2, Zenon
  <1>9. CASE status' = "terminated" /\ UNCHANGED <<ref_cnt_, net>>
    <2>1. ReferencesCounted' /\ UsedIsAlive'
      BY <1>2, <1>9, Zenon DEF RefInv, ReferencesCounted, UsedIsAlive, Running, TimerEvent
    <2> QED
      BY <1>2, <1>3, <1>8, <1>9, <2>1, Zenon DEF RefInv
  <1>10. ASSUME UNCHANGED status, ref_cnt_' = [ref_cnt_ EXCEPT ![g] = Owned(g)],
                \A h \in Gens : ref_cnt_'[h] = 0 => net'[h] = NotConnected,
                Owned(g) > 0 \/ \A e \in events : e.gen # g
         PROVE  RefInv'
    <2>1. /\ ref_cnt_' \in [Gens -> Nat] /\ ref_cnt_'[g] = Owned(g)
          /\ \A h \in Gens : h # g => ref_cnt_'[h] = ref_cnt_[h]
      BY <1>4, <1>10, Zenon DEF RefInv
    <2>2. \A h \in Gens : ref_cnt_'[h] = Owned(h) + 0
      <3>1. \A n \in Nat : n = n + 0
        BY SMT
      <3> QED
        BY <1>4, <1>6, <2>1, <3>1, Zenon
    <2>3. \A h \in Gens : Owned(h)' = Owned(h)
      BY <1>2, Zenon DEF Owned
    <2>4. ReferencesCounted'
      BY <1>2, <1>3, <2>2, <2>3, Zenon DEF ReferencesCounted, InCall, Owned
    <2>5. UsedIsAlive'
      BY <1>2, <1>10, <2>1, Zenon DEF RefInv, UsedIsAlive, TimerEvent, ControlInv
    <2> QED
      BY <1>2, <1>3, <1>8, <1>10, <2>1, <2>4, <2>5, Zenon DEF RefInv
  <1>11. CASE ref_cnt_[g] > 1 /\ ref_cnt_' = [ref_cnt_ EXCEPT ![g] = @ - 1] /\ UNCHANGED <<net, status>>
    <2>1. ref_cnt_[g] - 1 = Owned(g) /\ Owned(g) > 0 /\ Owned(g) # 0
      BY <1>4, <1>5, <1>11, SMT
    <2>2. ref_cnt_' = [ref_cnt_ EXCEPT ![g] = Owned(g)]
      BY <1>11, <2>1, Zenon
    <2>3. \A h \in Gens : ref_cnt_'[h] = 0 => net'[h] = NotConnected
      BY <1>11, <2>1, <2>2, Zenon DEF RefInv
    <2> QED
      BY <1>10, <1>11, <2>1, <2>2, <2>3, Zenon
  <1>12. CASE /\ ~(ref_cnt_[g] > 1) /\ ref_cnt_' = [ref_cnt_ EXCEPT ![g] = 0]
              /\ net' = [net EXCEPT ![g] = NotConnected] /\ UNCHANGED status
    <2>1. Owned(g) = 0
      BY <1>4, <1>5, <1>12, SMT
    <2>2. \A h \in Gens : ref_cnt_'[h] = 0 => net'[h] = NotConnected
      BY <1>12, Zenon DEF RefInv, NetInv
    <2>3. \A e \in events : e.gen # g
      <3>1. CASE call = "run_io"
        BY <1>1, <3>1, Zenon DEF RefInv
      <3>2. CASE call = "send_request"
        <4>1. g = sent_count_ + 1 /\ \A e \in events : e.gen <= sent_count_
          BY <1>1, <1>7, <2>1, <3>2, Zenon DEF ControlInv, RefInv
        <4>2. ~(sent_count_ + 1 <= sent_count_)
          BY SMT DEF ControlInv
        <4> QED
          BY <4>1, <4>2, Zenon
      <3> QED
        BY <1>2, <3>1, <3>2, Zenon DEF ControlInv
    <2> QED
      BY <1>10, <1>12, <2>1, <2>2, <2>3, Zenon
  <1> QED
    BY <1>1, <1>2, <1>9, <1>11, <1>12, Zenon DEF Put


\* One request less.
LEMMA RequestFinished ==
    ASSUME ControlInv, BufInv, NEW g \in Gens, requests_[g].used_ > 0,
           requests_' = [requests_ EXCEPT ![g] = Drop(requests_[g], 1)]
    PROVE  /\ requests_'[g].used_ = requests_[g].used_ - 1
           /\ \A h \in Gens : h # g => requests_'[h].used_ = requests_[h].used_
  <1>1. PICK N \in Nat \ {0} : N = setup.queue /\ requests_[g] \in BufferOf(N, Request)
    BY GenFacts, Zenon
  <1>2. requests_[g].used_ \in Nat
    BY UsedFacts, Zenon
  <1>3. 1 \in 0 .. requests_[g].used_
    BY <1>2, SMT
  <1>4. PICK b \in BufferOf(N, Request) : b = requests_[g] /\ 1 \in 0 .. b.used_
    BY <1>1, <1>3, Zenon
  <1>5. Drop(b, 1).used_ = b.used_ - 1
    BY <1>4, Dropped
  <1> QED
    BY <1>4, <1>5, Zenon DEF BufInv

\* A response takes its request and the reference of that, never the last one.
LEMMA RxCallbackRef ==
    ASSUME ControlInv, NetInv, BufInv, LoopInv, RefInv, RxCallback
    PROVE  RefInv'
  <1>1. PICK g \in Gens : g = gen
    BY Zenon DEF ControlInv
  <1>2. /\ UNCHANGED <<setup, events, net, call, gen>> /\ Running /\ call # "none"
    BY Zenon DEF RxCallback, On, ControlInv
  <1>3. Gens' = Gens
    BY <1>2, SetupStays, Zenon
  <1>4. UNCHANGED sent_count_
    BY Zenon DEF RxCallback, RxHeader, RecordSample, counts
  <1>5. InCall(g)
    BY <1>1, <1>2, Zenon DEF InCall
  <1>6. /\ ref_cnt_[g] \in Nat /\ requests_[g].used_ \in Nat
        /\ requests_[g].used_ > 0 => ref_cnt_[g] > 1
    BY <1>2, <1>5, RefFacts, Zenon
  <1>7. CASE /\ UNCHANGED <<requests_, ref_cnt_>>
             /\ status' = status \/ status' = "check_failed"
    BY <1>2, <1>4, <1>7, RefSame, Zenon DEF RefInv, UsedIsAlive, Running
  <1>8. CASE /\ requests_[g].used_ > 0 /\ FinishRequest /\ status' \in {"exited", "running"}
    <2>1. /\ requests_' = [requests_ EXCEPT ![g] = Drop(requests_[g], 1)]
          /\ ref_cnt_' = [ref_cnt_ EXCEPT ![g] = ref_cnt_[g] - 1]
      BY <1>1, <1>8, Zenon DEF FinishRequest
    <2>2. /\ requests_'[g].used_ = requests_[g].used_ - 1
          /\ \A h \in Gens : h # g => requests_'[h].used_ = requests_[h].used_
      BY <1>8, <2>1, RequestFinished, Zenon
    <2>3. ref_cnt_[g] - 1 \in Nat /\ ref_cnt_[g] - 1 > 0 /\ ref_cnt_[g] - 1 # 0
      BY <1>6, <1>8, SMT
    <2>4. /\ ref_cnt_' \in [Gens -> Nat] /\ ref_cnt_'[g] = ref_cnt_[g] - 1
          /\ \A h \in Gens : h # g => ref_cnt_'[h] = ref_cnt_[h]
      BY <2>1, <2>3, Zenon DEF RefInv
    <2>5. \A h \in Gens : ref_cnt_[h] = Owned(h) + (IF InCall(h) THEN 1 ELSE 0)
      BY <1>2, RefFacts, Zenon
    <2>6. \A h \in Gens : InCall(h)' = InCall(h)
      BY <1>2, Zenon DEF InCall
    <2>7. ref_cnt_[g] - 1 = Owned(g)' + 1
      <3>1. PICK pool \in {0, 1} : pool = IF setup.mode = "per_request" THEN 0 ELSE 1
        BY Zenon
      <3>2. PICK n \in Nat : n = requests_[g].used_
        BY <1>6, Zenon
      <3>3. Owned(g)' = pool + (n - 1)
        BY <1>2, <2>2, <3>1, <3>2, Zenon DEF Owned
      <3>4. ref_cnt_[g] = (pool + n) + 1
        BY <1>5, <2>5, <3>1, <3>2, Zenon DEF Owned
      <3>5. ((pool + n) + 1) - 1 = (pool + (n - 1)) + 1
        BY SMT
      <3> QED
        BY <3>3, <3>4, <3>5, Zenon
    <2>8. \A h \in Gens : h # g => Owned(h)' = Owned(h)
      BY <1>2, <2>2, Zenon DEF Owned
    <2>9. \A h \in Gens : ref_cnt_'[h] = Owned(h)' + (IF InCall(h)' THEN 1 ELSE 0)
      BY <1>5, <2>4, <2>5, <2>6, <2>7, <2>8, Zenon
    <2>10. ReferencesCounted'
      BY <1>3, <2>9, Zenon DEF ReferencesCounted, Owned
    <2>11. UsedIsAlive'
      BY <1>2, <1>8, <2>3, <2>4, Zenon DEF RefInv, UsedIsAlive, TimerEvent, ControlInv
    <2>12. \A h \in Gens : ref_cnt_'[h] = 0 => net'[h] = NotConnected
      BY <1>2, <2>3, <2>4, Zenon DEF RefInv
    <2>13. \A h \in Gens : requests_'[h].used_ > 0 => requests_[h].used_ > 0
      BY <1>8, <2>2, Zenon
    <2> QED
      BY <1>2, <1>3, <1>4, <2>4, <2>10, <2>11, <2>12, <2>13, Zenon DEF RefInv
  <1>9. ASSUME NEW rx, RxHeader(rbuf_[gen], rx)
        PROVE  \/ /\ UNCHANGED <<requests_, ref_cnt_>> /\ status' = "check_failed"
               \/ /\ requests_[g].used_ > 0 /\ FinishRequest /\ status' \in {"exited", "running"}
    <2>1. Expected(rx.cbdata) => requests_[g].used_ > 0
      BY <1>1, Zenon DEF Expected
    <2>2. Expected(rx.cbdata) => ref_cnt_[gen] > 1
      BY <1>1, <1>6, <2>1, Zenon
    <2> QED
      BY <1>2, <1>9, <2>1, <2>2, Zenon DEF RxHeader, RecordSample, Running
  <1> QED
    BY <1>7, <1>8, <1>9, Zenon DEF RxCallback

\* Marking a request as sent removes none.
LEMMA TxCallbackUsed ==
    ASSUME ControlInv, BufInv, LoopInv, TxCallback
    PROVE  \A g \in Gens : requests_'[g].used_ = requests_[g].used_
  <1>1. at = "tx_callbacks" /\ gen \in Gens
    BY Zenon DEF TxCallback, On, ControlInv
  <1>2. PICK cbs \in BufferOf(setup.queue, TxEntry) : cbs = tx_cbs_[gen]
    BY <1>1, GenFacts, Zenon
  <1>3. PICK b \in BufferOf(setup.queue, Request) : b = requests_[gen]
    BY <1>1, GenFacts, Zenon
  <1>4. setup.queue \in Nat \ {0} /\ drop \in Nat /\ drop <= Len(Slots(cbs))
    BY <1>1, <1>2, GenFacts, Zenon DEF LoopInv
  <1>5. CASE UNCHANGED requests_
    BY <1>5, Zenon
  <1> DEFINE i == cbs.buf_[Current(cbs)].cbdata
  <1>6. CASE ~AtEnd(cbs) /\ requests_' = [requests_ EXCEPT ![gen] = MarkSent(b, i)]
    <2>1. cbs.buf_[Current(cbs)] \in TxEntry
      BY <1>4, <1>6, AtCurrent, Zenon
    <2>2. i \in Slot
      BY <2>1, Zenon DEF TxEntry
    <2> HIDE DEF i
    <2>3. MarkSent(b, i).used_ = b.used_
      BY <1>4, <2>2, MarkedSent, Zenon
    <2> QED
      BY <1>3, <1>6, <2>3, Zenon DEF BufInv
  <1> QED
    BY <1>2, <1>3, <1>5, <1>6, Zenon DEF TxCallback, TxDone

\* Every step keeps the references of every generator counted, and no event of epoll_wait
\* is left for a deleted one.
LEMMA RefStep ==
    ASSUME ControlInv, NetInv, BufInv, LoopInv, TxInv, RefInv, [Next]_vars
    PROVE  RefInv'
  <1>1. setup' = setup
    BY SetupSame, Zenon
  <1>2. CASE /\ UNCHANGED <<ref_cnt_, requests_, events, call, gen, sent_count_, net>>
             /\ status' = status \/ status' = "full"
    BY <1>1, <1>2, RefSame, Zenon DEF RefInv, UsedIsAlive, Running
  <1>3. CASE Tx \/ Rx
    <2>1. /\ UNCHANGED <<ref_cnt_, requests_, events, call, gen, sent_count_>>
          /\ Running /\ call # "none" /\ (status' = status \/ status' = "full")
      BY <1>3, Zenon DEF Tx, Rx, On, ControlInv, counts
    <2>2. \A g \in Gens : g # gen => net'[g] = net[g]
      BY <1>3, Zenon DEF Tx, Rx, NetInv
    <2>3. ref_cnt_[gen] # 0
      <3>1. PICK g \in Gens : g = gen
        BY Zenon DEF ControlInv
      <3>2. ref_cnt_[g] \in Nat /\ ref_cnt_[g] > 0
        <4>1. InCall(g)
          BY <2>1, <3>1, Zenon DEF InCall
        <4> QED
          BY <2>1, <4>1, RefFacts, Zenon
      <3>3. ref_cnt_[g] # 0
        BY <3>2, SMT
      <3> QED
        BY <3>1, <3>3, Zenon
    <2> QED
      BY <1>1, <2>1, <2>2, <2>3, RefSame, Zenon DEF RefInv, UsedIsAlive, Running
  <1>4. CASE TxCallback
    <2>1. UNCHANGED <<ref_cnt_, events, call, gen, sent_count_, net, status>>
      BY <1>4, Zenon DEF TxCallback, counts
    <2>2. \A g \in Gens : requests_'[g].used_ = requests_[g].used_
      BY <1>4, TxCallbackUsed, Zenon
    <2> QED
      BY <1>1, <2>1, <2>2, RefSame, Zenon DEF RefInv, UsedIsAlive, Running
  <1>5. CASE EpollWait \/ HandleEvent \/ SendRequest \/ RxCallback \/ EndRunIO \/ EndSendRequest \/ Peer
    BY <1>5, EpollRef, EventRef, SendRef, RxCallbackRef, EndRef, PeerRef, Zenon
  <1>6. CASE Read
    BY <1>2, <1>6, Zenon DEF Read, counts
  <1> QED
    BY <1>2, <1>3, <1>4, <1>5, <1>6, Zenon DEF Next, Run, Ended, vars, ReadClock, Sleep, Tick,
       counts, place

-----------------------------------------------------------------------------
(* Callbacks and requests of a synthetic client, in every step.              *)

\* A step that changes none of this.
LEMMA RxOther ==
    ASSUME NEW g, RxOf(g), rx_cbs_'[g] = rx_cbs_[g], requests_'[g].used_ = requests_[g].used_,
           RxPassed(g)' = RxPassed(g), RxPending(g)' = RxPending(g)
    PROVE  RxOf(g)'
  BY Zenon DEF RxOf

\* A step in the loop over no callbacks of a response, or in none.
LEMMA RxQuiet ==
    ASSUME RxInv, setup' = setup, UNCHANGED rx_cbs_,
           \A g \in Gens : requests_'[g].used_ = requests_[g].used_,
           \A g \in Gens : RxPassed(g)' = RxPassed(g) /\ RxPending(g)' = RxPending(g)
    PROVE  RxInv'
  <1>1. Gens' = Gens
    BY SetupStays, Zenon
  <1>2. ASSUME NEW g \in Gens, RxOf(g)
        PROVE  RxOf(g)'
    BY <1>2, RxOther, Zenon
  <1> QED
    BY <1>1, <1>2, Zenon DEF RxInv

\* A step on the current generator, or one that makes g the current one.
LEMMA RxOnOne ==
    ASSUME RxInv, setup' = setup, NEW g \in Gens, gen' = g, gen = g \/ at = "none", call = "none" <=> at = "none",
           \A h \in Gens : h # g =>
               rx_cbs_'[h] = rx_cbs_[h] /\ requests_'[h].used_ = requests_[h].used_,
           setup.proto = "synthetic" => RxOf(g)'
    PROVE  RxInv'
  <1>1. Gens' = Gens
    BY SetupStays, Zenon
  <1>2. ASSUME NEW h \in Gens, h # g, RxOf(h)
        PROVE  RxOf(h)'
    <2>1. RxPassed(h)' = RxPassed(h) /\ RxPending(h)' = RxPending(h)
      BY <1>2, Zenon DEF RxPassed, RxPending
    <2> QED
      BY <1>2, <2>1, RxOther, Zenon
  <1> QED
    BY <1>1, <1>2, Zenon DEF RxInv

\* A new request, for which read() has still to be called.
LEMMA SendRx ==
    ASSUME ControlInv, BufInv, TxInv, RxInv, SendRequest
    PROVE  RxInv'
  <1>1. call = "none" /\ at = "none" /\ setup' = setup /\ UNCHANGED rx_cbs_
    BY Zenon DEF SendRequest, In, ControlInv, rxside
  <1>2. CASE UNCHANGED <<place, requests_>>
    BY <1>1, <1>2, RxQuiet, Zenon DEF place, RxPassed, RxPending
  <1>3. CASE \E g \in Gens, request \in Request, tx \in TxEntry : Sends(g, request, tx)
    <2>1. PICK g \in Gens, request \in Request, tx \in TxEntry : Sends(g, request, tx)
      BY <1>3, Zenon
    <2>2. /\ gen' = g /\ call' = "send_request" /\ at' \in {"tx", "read"} /\ CanQueue(requests_[g], 1)
          /\ requests_' = [requests_ EXCEPT ![g] = QueueEmplace(requests_[g], request)]
      BY <2>1, Zenon DEF Sends
    <2>3. /\ requests_'[g].used_ = requests_[g].used_ + 1
          /\ \A h \in Gens : h # g => requests_'[h].used_ = requests_[h].used_
      BY <2>2, RequestQueued, Zenon
    <2>4. /\ RxPassed(g) = 0 /\ RxPending(g) = 0 /\ RxPassed(g)' = 0 /\ RxPending(g)' = 1
      BY <1>1, <2>2, Zenon DEF RxPassed, RxPending
    <2>5. ASSUME RxOf(g)
          PROVE  RxOf(g)'
      <3>1. PICK n \in Nat, m \in Nat : n = rx_cbs_[g].used_ /\ m = requests_[g].used_
        BY UsedFacts, Zenon
      <3>2. (n - 0) + 0 = m
        BY <2>4, <2>5, <3>1, Zenon DEF RxOf
      <3>3. (n - 0) + 1 = m + 1
        BY <3>2, SMT
      <3> QED
        BY <1>1, <2>3, <2>4, <2>5, <3>1, <3>3, Zenon DEF RxOf
    <2> QED
      BY <1>1, <2>2, <2>3, <2>5, RxOnOne, Zenon DEF RxInv
  <1> QED
    BY <1>2, <1>3, SendCases, Zenon

\* read() queues the callback of the new request, for a header.
LEMMA ReadRx ==
    ASSUME ControlInv, BufInv, RxInv, Read
    PROVE  RxInv'
  <1>1. PICK g \in Gens : g = gen
    BY Zenon DEF ControlInv
  <1>2. /\ at = "read" /\ call = "send_request" /\ setup' = setup /\ gen' = g /\ UNCHANGED <<requests_, call, drop>>
    BY <1>1, Zenon DEF Read, On, ControlInv, locals
  <1>3. CASE UNCHANGED <<rx_cbs_, at>>
    BY <1>1, <1>2, <1>3, RxQuiet, Zenon DEF RxPassed, RxPending
  <1>4. CASE /\ CanQueue(rx_cbs_[g], 1) /\ at' \in {"rx", "put"}
             /\ \E rx \in RxEntry : /\ rx.hdrlen = HeaderSize
                                    /\ rx_cbs_' = [rx_cbs_ EXCEPT ![g] = QueueEmplace(@, rx)]
    <2>1. PICK rx \in RxEntry : /\ rx.hdrlen = HeaderSize
                                /\ rx_cbs_' = [rx_cbs_ EXCEPT ![g] = QueueEmplace(@, rx)]
      BY <1>4, Zenon
    <2>2. PICK N \in Nat \ {0} : N = setup.queue /\ rx_cbs_[g] \in BufferOf(N, RxEntry)
      BY GenFacts, Zenon
    <2>3. PICK b \in BufferOf(N, RxEntry) : b = rx_cbs_[g] /\ CanQueue(b, 1)
      BY <1>4, <2>2, Zenon
    <2>4. PICK c \in BufferOf(N, RxEntry) :
             c = QueueEmplace(b, rx) /\ c.used_ = b.used_ + 1 /\ Items(c) = Items(b) \o <<rx>>
      <3>1. /\ QueueEmplace(b, rx) \in BufferOf(N, RxEntry)
            /\ QueueEmplace(b, rx).used_ = b.used_ + 1
            /\ Items(QueueEmplace(b, rx)) = Items(b) \o <<rx>>
        BY <2>3, Emplaced
      <3> QED
        BY <3>1, Zenon
    <2>5. rx_cbs_'[g] = c /\ \A h \in Gens : h # g => rx_cbs_'[h] = rx_cbs_[h]
      BY <2>1, <2>3, <2>4, Zenon DEF BufInv
    <2>6. /\ RxPassed(g) = 0 /\ RxPending(g) = 1 /\ RxPassed(g)' = 0 /\ RxPending(g)' = 0
      BY <1>1, <1>2, <1>4, Zenon DEF RxPassed, RxPending
    <2>7. ASSUME RxOf(g)
          PROVE  RxOf(g)'
      <3>1. PICK n \in Nat, m \in Nat : n = b.used_ /\ m = requests_[g].used_
        BY <2>3, UsedFacts, Zenon
      <3>2. (n - 0) + 1 = m /\ \A i \in 1 .. n : i > 0 => Items(b)[i].hdrlen > 0
        BY <2>3, <2>6, <2>7, <3>1, Zenon DEF RxOf
      <3>3. ((n + 1) - 0) + 0 = m
        BY <3>2, SMT
      <3>4. PICK s \in Seq(RxEntry) : s = Items(b) /\ Len(s) = n
        BY <3>1, ItemsType, Zenon
      <3>5. \A i \in 1 .. n + 1 : (s \o <<rx>>)[i] = IF i <= n THEN s[i] ELSE rx
        BY <3>4, SMT
      <3>6. rx.hdrlen > 0
        BY <2>1, PacketSizes, SMT
      <3>7. \A i \in 1 .. n + 1 : i <= n => i \in 1 .. n /\ i > 0
        BY SMT
      <3>8. \A i \in 1 .. n + 1 : (s \o <<rx>>)[i].hdrlen > 0
        BY <3>2, <3>4, <3>5, <3>6, <3>7, Zenon
      <3> QED
        BY <1>2, <2>4, <2>5, <2>6, <3>1, <3>3, <3>4, <3>8, Zenon DEF RxOf
    <2> QED
      BY <1>1, <1>2, <2>5, <2>7, RxOnOne, Zenon DEF RxInv
  <1>5. [hdrlen |-> HeaderSize, bodylen |-> 0, cbdata |-> LastSlot(requests_[gen])] \in RxEntry
    BY NewRx, Zenon
  <1> QED
    BY <1>1, <1>3, <1>4, <1>5, Zenon DEF Read


\* The loop of rx(): the callbacks passed are of requests finished.
LEMMA RxCallbackRx ==
    ASSUME ControlInv, NetInv, BufInv, LoopInv, RxInv, RxCallback
    PROVE  RxInv'
  <1>1. PICK g \in Gens : g = gen
    BY Zenon DEF ControlInv
  <1>2. at = "rx_callbacks" /\ setup' = setup /\ gen' = g /\ UNCHANGED call
    BY <1>1, Zenon DEF RxCallback, On
  <1>3. SUFFICES ASSUME setup.proto = "synthetic"
                 PROVE  RxInv'
    BY <1>2, Zenon DEF RxInv
  <1>4. PICK N \in Nat \ {0} : N = setup.queue /\ rx_cbs_[g] \in BufferOf(N, RxEntry)
    BY GenFacts, Zenon
  <1>5. PICK cbs \in BufferOf(N, RxEntry) : cbs = rx_cbs_[g]
    BY <1>4, Zenon
  <1>6. PICK d \in Nat : d = drop /\ d <= Len(Slots(cbs))
    BY <1>1, <1>2, <1>5, Zenon DEF LoopInv
  <1>7. PICK u \in Nat, m \in Nat : u = cbs.used_ /\ m = requests_[g].used_
    BY <1>5, UsedFacts, Zenon
  <1>8. RxPassed(g) = d /\ RxPending(g) = 0
    BY <1>1, <1>2, <1>6, Zenon DEF RxPassed, RxPending
  <1>9. (u - d) + 0 = m /\ \A i \in 1 .. u : i > d => Items(cbs)[i].hdrlen > 0
    BY <1>3, <1>5, <1>7, <1>8, Zenon DEF RxInv, RxOf
  <1>10. PICK s \in Seq(RxEntry) : s = Items(cbs) /\ Len(s) = u
    BY <1>7, ItemsType, Zenon
  <1> DEFINE rx == cbs.buf_[Current(cbs)]
  <1>11. ASSUME ~AtEnd(cbs)
         PROVE  /\ d + 1 \in 1 .. u /\ d # Len(Slots(cbs)) /\ rx = s[d + 1] /\ rx.hdrlen > 0
                /\ Current(cbs) = Slots(cbs)[d + 1] /\ rx.hdrlen \in Nat /\ rx.cbdata \in Slot
    <2>1. /\ d + 1 \in 1 .. u /\ d # Len(Slots(cbs)) /\ rx = s[d + 1] /\ rx \in RxEntry
          /\ Current(cbs) = Slots(cbs)[d + 1]
      BY <1>6, <1>7, <1>10, <1>11, AtCurrent, Zenon
    <2>2. d + 1 > d
      BY SMT
    <2>3. rx.hdrlen \in Nat /\ rx.cbdata \in Slot
      BY <2>1, Zenon DEF RxEntry
    <2> QED
      BY <1>9, <1>10, <2>1, <2>2, <2>3, Zenon
  <1>12. CASE RxDrop(gen, cbs) /\ at' = "rx" /\ UNCHANGED requests_
    <2>1. rx_cbs_' = [rx_cbs_ EXCEPT ![g] = Drop(cbs, d)]
      BY <1>1, <1>6, <1>12, Zenon DEF RxDrop
    <2>2. d <= u /\ Drop(cbs, d).used_ = u - d /\ Items(Drop(cbs, d)) = SubSeq(s, d + 1, u)
      <3>1. /\ d <= cbs.used_ /\ Drop(cbs, d).used_ = cbs.used_ - d
            /\ Items(Drop(cbs, d)) = SubSeq(Items(cbs), d + 1, cbs.used_)
        BY <1>6, AtLoopEnd
      <3> QED
        BY <1>7, <1>10, <3>1, Zenon
    <2>3. rx_cbs_'[g] = Drop(cbs, d) /\ \A h \in Gens : h # g => rx_cbs_'[h] = rx_cbs_[h]
      BY <2>1, Zenon DEF BufInv
    <2>4. RxPassed(g)' = 0 /\ RxPending(g)' = 0
      BY <1>12, Zenon DEF RxPassed, RxPending
    <2>5. ((u - d) - 0) + 0 = m
      BY <1>9, SMT
    <2>6. \A i \in 1 .. u - d : SubSeq(s, d + 1, u)[i] = s[d + i]
      BY <1>10, <2>2, SMT
    <2>7. \A i \in 1 .. u - d : d + i \in 1 .. u /\ d + i > d
      BY <2>2, SMT
    <2>8. \A i \in 1 .. u - d : SubSeq(s, d + 1, u)[i].hdrlen > 0
      BY <1>9, <1>10, <2>6, <2>7, Zenon
    <2>9. RxOf(g)'
      BY <1>7, <1>12, <2>2, <2>3, <2>4, <2>5, <2>8, Zenon DEF RxOf
    <2> QED
      BY <1>1, <1>2, <1>12, <2>3, <2>9, RxOnOne, Zenon DEF ControlInv
  <1>13. CASE UNCHANGED <<requests_, rx_cbs_, drop, at>>
    BY <1>1, <1>2, <1>13, RxQuiet, Zenon DEF RxPassed, RxPending
  <1>14. ASSUME ~AtEnd(cbs), NEW b, RxBodyDone(gen, b, 0), FinishRequest, m > 0, UNCHANGED at
         PROVE  RxInv'
    <2> DEFINE x == [hdrlen |-> 0, bodylen |-> 0, cbdata |-> rx.cbdata]
    <2>1. rx_cbs_' = [rx_cbs_ EXCEPT ![g] = SetSlot(cbs, Slots(cbs)[d + 1], x)] /\ drop' = d + 1
      BY <1>1, <1>5, <1>6, <1>11, <1>14, Zenon DEF RxBodyDone
    <2>2. x \in RxEntry
      <3>1. 0 \in Nat
        BY SMT
      <3> QED
        BY <1>11, <1>14, <3>1, Zenon DEF RxEntry
    <2>3. PICK y \in RxEntry : y = x
      BY <2>2, Zenon
    <2>4. PICK i \in 0 .. N - 1 : i = Slots(cbs)[d + 1] /\ i = SlotOf(cbs, d + 1)
      <3>1. /\ Slots(cbs)[d + 1] = SlotOf(cbs, d + 1) /\ SlotOf(cbs, d + 1) \in 0 .. N - 1
        BY <1>6, <1>11, <1>14, AtIterator
      <3> QED
        BY <3>1, Zenon
    <2>5. SetSlot(cbs, i, y).used_ = u
      <3>1. SetSlot(cbs, i, y).used_ = cbs.used_
        BY SlotKept
      <3> QED
        BY <1>7, <3>1, Zenon
    <2>6. d + 1 \in 1 .. cbs.used_
      BY <1>7, <1>11, <1>14, Zenon
    <2>7. Items(SetSlot(cbs, SlotOf(cbs, d + 1), y)) = [Items(cbs) EXCEPT ![d + 1] = y]
      BY <2>6, ItemSet
    <2> HIDE DEF x
    <2>8. rx_cbs_'[g] = SetSlot(cbs, i, y) /\ \A h \in Gens : h # g => rx_cbs_'[h] = rx_cbs_[h]
      BY <2>1, <2>3, <2>4, Zenon DEF BufInv
    <2>9. /\ requests_'[g].used_ = m - 1
          /\ \A h \in Gens : h # g => requests_'[h].used_ = requests_[h].used_
      BY <1>1, <1>7, <1>14, RequestFinished, Zenon DEF FinishRequest
    <2>10. RxPassed(g)' = d + 1 /\ RxPending(g)' = 0
      BY <1>1, <1>2, <1>14, <2>1, Zenon DEF RxPassed, RxPending
    <2>11. (u - (d + 1)) + 0 = m - 1
      BY <1>9, SMT
    <2>12. \A j \in 1 .. u : j > d + 1 => j > d /\ j # d + 1
      BY SMT
    <2>13. \A j \in 1 .. u : j > d + 1 => [s EXCEPT ![d + 1] = y][j] = s[j]
      <3>1. s \in [1 .. u -> RxEntry]
        BY <1>10, SMT
      <3> QED
        BY <2>12, <3>1, Zenon
    <2>14. \A j \in 1 .. u : j > d + 1 => Items(SetSlot(cbs, i, y))[j].hdrlen > 0
      BY <1>9, <1>10, <2>4, <2>7, <2>12, <2>13, ZenonT(60)
    <2>15. RxOf(g)'
      BY <2>5, <2>8, <2>9, <2>10, <2>11, <2>14, Zenon DEF RxOf
    <2> QED
      BY <1>1, <1>2, <2>8, <2>9, <2>15, RxOnOne, Zenon DEF ControlInv
  <1>15. ASSUME ~AtEnd(cbs), RxHeader(rbuf_[gen], rx)
         PROVE  RxInv'
    <2> DEFINE left == Drop(rbuf_[gen], rx.hdrlen)
    <2>1. rx.hdrlen <= rbuf_[gen].used_
      BY <1>15, Zenon DEF RxHeader
    <2>2. \A request, seg1 : ResponseBody(request, seg1) = 0
      BY <1>3, Zenon DEF ResponseBody
    <2>3. Expected(rx.cbdata) => m > 0
      BY <1>1, <1>7, Zenon DEF Expected
    <2>4. ~(left.used_ < 0)
      <3>1. PICK M \in Nat \ {0} : rbuf_[gen] \in BufferOf(M, Byte)
        BY <1>1, GenFacts, Zenon
      <3>2. PICK b \in BufferOf(M, Byte) : b = rbuf_[gen] /\ b.used_ \in Nat
        BY <1>1, <3>1, UsedFacts, Zenon
      <3>3. rx.hdrlen \in 0 .. b.used_
        BY <1>11, <1>15, <2>1, <3>2, SMT
      <3>4. PICK n \in 0 .. b.used_ : n = rx.hdrlen
        BY <3>3, Zenon
      <3>5. Drop(b, n).used_ = b.used_ - n
        BY Dropped
      <3>6. ~(b.used_ - n < 0)
        BY <3>2, SMT
      <3> QED
        BY <3>2, <3>4, <3>5, <3>6, Zenon
    <2>5. CASE Expected(rx.cbdata) /\ FinishRequest /\ RxBodyDone(gen, left, 0) /\ UNCHANGED at
      BY <1>14, <1>15, <2>3, <2>5, Zenon
    <2>6. ~RxBodyWaits(gen, left, 0)
      BY <2>4, Zenon DEF RxBodyWaits
    <2> QED
      BY <1>13, <1>15, <2>2, <2>5, <2>6, Zenon DEF RxHeader, locals
  <1>16. rx.hdrlen = 0 => AtEnd(cbs)
    <2>1. ~(0 > 0)
      BY SMT
    <2> QED
      BY <1>11, <2>1, Zenon
  <1> HIDE DEF rx
  <1> QED
    BY <1>1, <1>5, <1>12, <1>15, <1>16, Zenon DEF RxCallback, rx


\* Every step of a synthetic client keeps one entry of rx_cbs_ per outstanding request.
LEMMA RxStep ==
    ASSUME ControlInv, NetInv, BufInv, LoopInv, TxInv, RxInv, [Next]_vars
    PROVE  RxInv'
  <1>1. setup' = setup
    BY SetupSame, Zenon
  <1>2. CASE UNCHANGED <<rx_cbs_, requests_, call, gen, at, drop>>
    BY <1>1, <1>2, RxQuiet, Zenon DEF RxPassed, RxPending
  <1>3. CASE SendRequest \/ Read \/ RxCallback
    BY <1>3, SendRx, ReadRx, RxCallbackRx, Zenon
  <1>4. CASE HandleEvent
    <2>1. /\ call = "none" /\ at = "none" /\ UNCHANGED <<rx_cbs_, requests_>>
          /\ \/ call' = "none" /\ at' = "none"
             \/ call' = "run_io" /\ at' \in {"rx", "tx", "put"}
      BY <1>4, Zenon DEF HandleEvent, In, RunIO, place, ControlInv
    <2>2. \A g : /\ RxPassed(g) = 0 /\ RxPassed(g)' = 0
                 /\ RxPending(g) = 0 /\ RxPending(g)' = 0
      BY <2>1, Zenon DEF RxPassed, RxPending
    <2> QED
      BY <1>1, <2>1, <2>2, RxQuiet, Zenon
  <1>5. CASE Tx
    <2>1. /\ at = "tx" /\ UNCHANGED <<rx_cbs_, requests_, call, gen>>
          /\ at' \in {"tx_callbacks", IF call = "run_io" THEN "put" ELSE "read"}
          /\ call \in {"run_io", "send_request"}
      BY <1>5, Zenon DEF Tx, ReturnTx, On, rxside, ControlInv
    <2>2. \A g : /\ RxPassed(g) = 0 /\ RxPassed(g)' = 0 /\ RxPending(g)' = RxPending(g)
      BY <2>1, Zenon DEF RxPassed, RxPending
    <2> QED
      BY <1>1, <2>1, <2>2, RxQuiet, Zenon
  <1>6. CASE TxCallback
    <2>1. /\ at = "tx_callbacks" /\ at' \in {"tx", "tx_callbacks"} /\ UNCHANGED <<rx_cbs_, call, gen>>
      BY <1>6, Zenon DEF TxCallback, On, rxside
    <2>2. \A g : /\ RxPassed(g) = 0 /\ RxPassed(g)' = 0 /\ RxPending(g)' = RxPending(g)
      BY <2>1, Zenon DEF RxPassed, RxPending
    <2>3. \A g \in Gens : requests_'[g].used_ = requests_[g].used_
      BY <1>6, TxCallbackUsed, Zenon
    <2> QED
      BY <1>1, <2>1, <2>2, <2>3, RxQuiet, Zenon
  <1>7. CASE Rx
    <2>1. /\ at = "rx" /\ UNCHANGED <<rx_cbs_, requests_, call, gen, drop>> /\ drop = 0
          /\ (at' \in {"rx", "rx_callbacks", "put"} \/ (at' = "tx" /\ call = "run_io"))
      BY <1>7, Zenon DEF Rx, ReturnRx, On, ControlInv, LoopInv, locals
    <2>2. \A g : /\ RxPassed(g) = 0 /\ RxPassed(g)' = 0 /\ RxPending(g) = 0 /\ RxPending(g)' = 0
      BY <2>1, Zenon DEF RxPassed, RxPending
    <2> QED
      BY <1>1, <2>1, <2>2, RxQuiet, Zenon
  <1>8. CASE EndRunIO \/ EndSendRequest
    <2>1. at = "put" /\ at' = "none" /\ UNCHANGED <<rx_cbs_, requests_>>
      BY <1>8, Zenon DEF EndRunIO, EndSendRequest, Leave, On, sockets, rxside
    <2>2. \A g : /\ RxPassed(g) = 0 /\ RxPassed(g)' = 0 /\ RxPending(g) = 0 /\ RxPending(g)' = 0
      BY <2>1, Zenon DEF RxPassed, RxPending
    <2> QED
      BY <1>1, <2>1, <2>2, RxQuiet, Zenon
  <1> QED
    BY <1>2, <1>3, <1>4, <1>5, <1>6, <1>7, <1>8, Zenon DEF Next, Run, Ended, vars, EpollWait,
       ReadClock, Sleep, Tick, Peer, Connect, Serve, Deliver, place, sockets, rxside, locals

-----------------------------------------------------------------------------
(* The end of a socket, in every step.                                       *)

\* A generator of the pool is never deleted, and a synthetic one has as many
\* callbacks left as requests.
LEMMA PutQuiet ==
    ASSUME ControlInv, BufInv, LoopInv, RefInv, RxInv, EndRunIO \/ EndSendRequest,
           setup.proto = "synthetic" \/ setup.mode # "per_request"
    PROVE  UNCHANGED status
  <1>1. PICK g \in Gens : g = gen
    BY Zenon DEF ControlInv
  <1>2. Running /\ at = "put" /\ call # "none" /\ Put
    BY Zenon DEF EndRunIO, EndSendRequest, On
  <1>3. InCall(g)
    BY <1>1, <1>2, Zenon DEF InCall
  <1>4. PICK owned \in Nat : /\ ref_cnt_[g] = owned + 1
                             /\ owned = 0 <=> setup.mode = "per_request" /\ requests_[g].used_ = 0
    BY <1>2, <1>3, RefFacts, Zenon
  <1>5. CASE setup.mode # "per_request"
    <2>1. owned + 1 > 1
      BY <1>4, <1>5, SMT
    <2> QED
      BY <1>1, <1>2, <1>4, <2>1, Zenon DEF Put
  <1>6. CASE setup.proto = "synthetic"
    <2>1. RxPassed(g) = 0 /\ RxPending(g) = 0
      BY <1>2, Zenon DEF RxPassed, RxPending
    <2>2. PICK u \in Nat, m \in Nat : u = rx_cbs_[g].used_ /\ m = requests_[g].used_
      BY UsedFacts, Zenon
    <2>3. (u - 0) + 0 = m
      BY <1>6, <2>1, <2>2, Zenon DEF RxInv, RxOf
    <2>4. Len(Slots(rx_cbs_[g])) \in 0 .. u
      <3>1. setup.queue \in Nat \ {0} /\ rx_cbs_[g] \in BufferOf(setup.queue, RxEntry)
        BY GenFacts, Zenon
      <3> QED
        BY <2>2, <3>1, LoopSlots, Zenon
    <2>5. ~(Len(Slots(rx_cbs_[g])) > m)
      BY <2>3, <2>4, SMT
    <2> QED
      BY <1>1, <1>2, <2>2, <2>5, Zenon DEF Put
  <1> QED
    BY <1>5, <1>6

\* No step ends in a destructor that throws, unless responses have bodies and connections
\* are made per request.
LEMMA QuietStep ==
    ASSUME ControlInv, BufInv, LoopInv, RefInv, RxInv, QuietUnlessBodies, [Next]_vars
    PROVE  QuietUnlessBodies'
  <1>1. setup' = setup
    BY SetupSame, Zenon
  <1>2. CASE status' = status \/ status' # "terminated"
    BY <1>1, <1>2, Zenon DEF QuietUnlessBodies, TeardownIsQuiet
  <1>3. CASE EndRunIO \/ EndSendRequest
    BY <1>1, <1>3, PutQuiet, Zenon DEF QuietUnlessBodies, TeardownIsQuiet
  <1>4. CASE HandleEvent \/ SendRequest \/ Read \/ Rx
    BY <1>2, <1>4, Zenon DEF HandleEvent, SendRequest, Read, Rx
  <1>5. CASE RxCallback
    BY <1>2, <1>5, Zenon DEF RxCallback, RxHeader, RecordSample
  <1> QED
    BY <1>2, <1>3, <1>4, <1>5, Zenon DEF Next, Run, Ended, vars, EpollWait, ReadClock, Sleep, Tx,
       TxCallback, Tick, Peer, Connect, Serve, Deliver

=============================================================================
