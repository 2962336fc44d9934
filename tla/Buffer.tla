------------------------------- MODULE Buffer -------------------------------
(***************************************************************************)
(* The circular buffer of the load client (client/mutated/client/          *)
(* buffer.hh).  A buffer<T, BUFSZ> is a record: its slots, its two indices *)
(* and its counter.  The operators are the class's member functions; those *)
(* that can throw take their precondition from CanQueue and CanTake.       *)
(***************************************************************************)
EXTENDS Integers, Sequences

\* buffer(): the slots hold whatever they hold, here item.
NewBuffer(BUFSZ, item) ==
    [buf_ |-> [i \in 0 .. BUFSZ - 1 |-> item], size |-> BUFSZ,
     head_ |-> 0, tail_ |-> 0, used_ |-> 0]

Space(b) == b.size - b.used_

\* Slip: what would fill the buffer exactly is refused.
CanQueue_Strict(b, len) == len # 0 /\ len < Space(b)

\* Without it queue_prep and queue_commit throw.
CanQueue(b, len) == len # 0 /\ len <= Space(b)

\* Without it peek throws, and drop as well unless len = 0.
CanTake(b, len) == len # 0 /\ len <= b.used_

\* queue_prep: the slots asked for start at tail_, this many of them, and go on
\* at slot 0.
QueuePrep(b, len) ==
    IF b.head_ <= b.tail_ /\ len >= b.size - b.tail_ THEN b.size - b.tail_ ELSE len

\* The caller of queue_prep copies data to the two parts.
Fill(b, data) ==
    LET n1 == QueuePrep(b, Len(data))
    IN  [b EXCEPT !.buf_ = [i \in 0 .. b.size - 1 |->
            IF i >= b.tail_ /\ i < b.tail_ + n1 THEN data[i - b.tail_ + 1]
            ELSE IF i < Len(data) - n1 THEN data[n1 + i + 1]
            ELSE b.buf_[i]]]

\* Slip: the tail runs past the last slot when it should return to slot 0.
QueueCommit_NoWrap(b, len) ==
    [b EXCEPT !.used_ = @ + len,
              !.tail_ = IF b.head_ <= @ /\ len > b.size - @ THEN @ + len - b.size
                        ELSE IF @ + len = b.size THEN b.size - 1 ELSE @ + len]

QueueCommit(b, len) ==
    [b EXCEPT !.used_ = @ + len,
              !.tail_ = IF b.head_ <= @ /\ len >= b.size - @ THEN @ + len - b.size
                        ELSE @ + len]

\* queue and queue_emplace of one item; its slot is the old tail_.
QueueEmplace(b, item) == QueueCommit(Fill(b, <<item>>), 1)

\* last: the slot of the item queued last.
LastSlot(b) == IF b.tail_ = 0 THEN b.size - 1 ELSE b.tail_ - 1

\* peek: how many of the first len items are contiguous.
Peek(b, len) ==
    IF b.head_ >= b.tail_ /\ len > b.size - b.head_ THEN b.size - b.head_ ELSE len

\* The two arrays that peek returns.
Peek1(b, len) == [i \in 1 .. Peek(b, len) |-> b.buf_[b.head_ + i - 1]]
Peek2(b, len) == [i \in 1 .. len - Peek(b, len) |-> b.buf_[i - 1]]

Drop(b, len) ==
    IF len = 0 THEN b
    ELSE [b EXCEPT !.used_ = @ - len,
                   !.head_ = IF @ >= b.tail_ /\ len >= b.size - @ THEN @ + len - b.size
                             ELSE @ + len]

\* The slots from begin() to end(), in order.  The two iterators are equal when
\* head_ = tail_, be the buffer empty or full.
Visited(b) ==
    IF b.head_ <= b.tail_ THEN b.tail_ - b.head_ ELSE b.size - b.head_ + b.tail_

Slots(b) ==
    [i \in 1 .. Visited(b) |->
        IF b.head_ + i - 1 < b.size THEN b.head_ + i - 1 ELSE b.head_ + i - 1 - b.size]

\* An assignment through an iterator or a pointer to the slot.
SetSlot(b, i, item) == [b EXCEPT !.buf_ = [b.buf_ EXCEPT ![i] = item]]

-----------------------------------------------------------------------------
(* What the class promises: the items in the order they were queued.         *)

\* The slot of the i-th item.
SlotOf(b, i) == IF b.head_ + i - 1 < b.size THEN b.head_ + i - 1 ELSE b.head_ + i - 1 - b.size

Items(b) == [i \in 1 .. b.used_ |-> b.buf_[SlotOf(b, i)]]

\* The indices are slots, and the counter agrees with them.
WellFormed(b) ==
    /\ b.head_ \in 0 .. b.size - 1 /\ b.tail_ \in 0 .. b.size - 1 /\ b.used_ \in 0 .. b.size
    /\ \/ b.head_ < b.tail_ /\ b.used_ = b.tail_ - b.head_
       \/ b.head_ > b.tail_ /\ b.used_ = b.size - b.head_ + b.tail_
       \/ b.head_ = b.tail_ /\ b.used_ \in {0, b.size}

=============================================================================
