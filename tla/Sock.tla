-------------------------------- MODULE Sock --------------------------------
(***************************************************************************)
(* The load client's asynchronous socket (client/mutated/client/           *)
(* socket_buf.cc): the members of every Sock, one function of the          *)
(* generators each, and what its member functions do to them between two   *)
(* system calls or callbacks.  Its users never give a callback for a body, *)
(* so a body is only dropped.                                              *)
(* An IORx or IOTx holds its lengths and cbdata, the slot of a request.    *)
(***************************************************************************)
EXTENDS Buffer

VARIABLES
    rx_rdy_, rx_cbs_, rbuf_,
    tx_rdy_, tx_cbs_, wbuf_, tx_out_,
    drop, nbytes    \* the locals of rx() and tx(), whichever is running; else 0

rxside == <<rx_rdy_, rx_cbs_, rbuf_>>
txside == <<tx_rdy_, tx_cbs_, wbuf_, tx_out_>>
locals == <<drop, nbytes>>

NoRx == [hdrlen |-> 0, bodylen |-> 0, cbdata |-> 0]
NoTx == [len |-> 0, cbdata |-> 0]

\* A byte is the number of its request and its place there; Junk is one that
\* write_emplace took from beyond its object.
Junk == <<0, 0>>

\* Sock(): rsize, wsize are CHARBUF_SIZE, queue is MAX_OUTSTANDING_REQS.
NewSocks(Gens, rsize, wsize, queue) ==
    /\ rx_rdy_ = [g \in Gens |-> FALSE] /\ tx_rdy_ = [g \in Gens |-> FALSE]
    /\ rx_cbs_ = [g \in Gens |-> NewBuffer(queue, NoRx)]
    /\ tx_cbs_ = [g \in Gens |-> NewBuffer(queue, NoTx)]
    /\ rbuf_ = [g \in Gens |-> NewBuffer(rsize, Junk)]
    /\ wbuf_ = [g \in Gens |-> NewBuffer(wsize, Junk)]
    /\ tx_out_ = [g \in Gens |-> 0]
    /\ drop = 0 /\ nbytes = 0

-----------------------------------------------------------------------------
(* Writing to b, a wbuf_.                                                    *)

\* write, and write_prepare followed by a write_commit of the same length.
Write(b, data) == QueueCommit(Fill(b, data), Len(data))

\* write_emplace of an object whose bytes are data.  When it has to be split,
\* &t + n1 is n1 objects, not n1 bytes, further: the second part is not data.
WriteEmplace(b, data) ==
    LET n1 == QueuePrep(b, Len(data))
    IN  Write(b, [i \in 1 .. Len(data) |-> IF i <= n1 THEN data[i] ELSE Junk])

\* write_prepare(len) and write_commit(len), where the first has reduced len to
\* the contiguous part.
WritePrepared(b, data) == Write(b, SubSeq(data, 1, QueuePrep(b, Len(data))))

\* Slip: every callback counts from the head of wbuf_.
WriteCbPoint_Absolute(g, out, data) ==
    /\ tx_cbs_' = [tx_cbs_ EXCEPT ![g] = QueueEmplace(@, [len |-> out, cbdata |-> data])]
    /\ tx_out_' = [tx_out_ EXCEPT ![g] = out]

\* write_cb_point with out bytes in wbuf_: its len is what this callback waits for
\* beyond the one before it.
WriteCbPoint(g, out, data) ==
    LET len == out - (IF tx_cbs_[g].used_ = 0 THEN 0 ELSE tx_out_[g])
    IN  /\ tx_cbs_' = [tx_cbs_ EXCEPT ![g] = QueueEmplace(@, [len |-> len, cbdata |-> data])]
        /\ tx_out_' = [tx_out_ EXCEPT ![g] = out]

-----------------------------------------------------------------------------
(* The loops of tx() and rx() over their callbacks.                          *)

\* The iterator: drop entries are behind it.
Current(cbs) == Slots(cbs)[drop + 1]
AtEnd(cbs) == drop = Len(Slots(cbs))

\* The entry at the iterator is not done: it waits for the rest.
TxWaits(g) ==
    LET cbs == tx_cbs_[g]
        tx == cbs.buf_[Current(cbs)]
    IN  /\ ~AtEnd(cbs) /\ tx.len > nbytes
        /\ tx_cbs_' = [tx_cbs_ EXCEPT ![g] =
              Drop(SetSlot(cbs, Current(cbs), [len |-> tx.len - nbytes, cbdata |-> tx.cbdata]), drop)]
        /\ tx_out_' = [tx_out_ EXCEPT ![g] = @ - nbytes]

\* It is done, and the callback is made.
TxDone(g) ==
    LET cbs == tx_cbs_[g]
        len == cbs.buf_[Current(cbs)].len
    IN  /\ ~AtEnd(cbs) /\ len <= nbytes
        /\ nbytes' = nbytes - len
        /\ tx_out_' = [tx_out_ EXCEPT ![g] = @ - len]
        /\ drop' = drop + 1
        /\ UNCHANGED tx_cbs_

\* Slip: the finished entries stay in rx_cbs_.
RxDrop_Kept(g, cbs) == rx_cbs_' = [rx_cbs_ EXCEPT ![g] = cbs]

\* The end of the loop over cbs, which rx_cbs_ is then.
RxDrop(g, cbs) == rx_cbs_' = [rx_cbs_ EXCEPT ![g] = Drop(cbs, drop)]

\* The header at the iterator is done, and b left in rbuf_.  There is less of its
\* body than the n bytes that are missing: it is dropped, and the loop ends.
RxBodyWaits(g, b, n) ==
    LET cbs == rx_cbs_[g]
        cbdata == cbs.buf_[Current(cbs)].cbdata
    IN  /\ b.used_ < n
        /\ rbuf_' = [rbuf_ EXCEPT ![g] = Drop(b, b.used_)]
        /\ RxDrop(g, SetSlot(cbs, Current(cbs),
                             [hdrlen |-> 0, bodylen |-> n - b.used_, cbdata |-> cbdata]))

\* Slip: the body is not dropped with its header.
RxBodyDone_Kept(g, b, n) ==
    LET cbs == rx_cbs_[g]
        cbdata == cbs.buf_[Current(cbs)].cbdata
    IN  /\ b.used_ >= n
        /\ rbuf_' = [rbuf_ EXCEPT ![g] = b]
        /\ rx_cbs_' = [rx_cbs_ EXCEPT ![g] =
              SetSlot(cbs, Current(cbs), [hdrlen |-> 0, bodylen |-> 0, cbdata |-> cbdata])]
        /\ drop' = drop + 1

\* All of it is there: the entry is finished.
RxBodyDone(g, b, n) ==
    LET cbs == rx_cbs_[g]
        cbdata == cbs.buf_[Current(cbs)].cbdata
    IN  /\ b.used_ >= n
        /\ rbuf_' = [rbuf_ EXCEPT ![g] = Drop(b, n)]
        /\ rx_cbs_' = [rx_cbs_ EXCEPT ![g] =
              SetSlot(cbs, Current(cbs), [hdrlen |-> 0, bodylen |-> 0, cbdata |-> cbdata])]
        /\ drop' = drop + 1

=============================================================================
