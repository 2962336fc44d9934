---------------------------- MODULE BufferProofs ----------------------------
(***************************************************************************)
(* Proofs about the circular buffer, for every size and every item: what   *)
(* is queued comes out once and in order, whether or not it wraps, and a   *)
(* loop over the buffer visits every item unless the buffer is full.       *)
(***************************************************************************)
EXTENDS Buffer, SequenceTheorems, TLAPS

\* The buffers with BUFSZ slots for items of the set T.
Record(BUFSZ, T) ==
    [buf_ : [0 .. BUFSZ - 1 -> T], size : {BUFSZ}, head_ : Int, tail_ : Int, used_ : Int]
BufferOf(BUFSZ, T) == {b \in Record(BUFSZ, T) : WellFormed(b)}

-----------------------------------------------------------------------------
(* The indices of a buffer, as facts of arithmetic.                          *)

\* What a member of BufferOf is.
LEMMA Fields ==
    ASSUME NEW N \in Nat \ {0}, NEW T, NEW b \in BufferOf(N, T)
    PROVE  /\ b \in Record(N, T)
           /\ b.buf_ \in [0 .. N - 1 -> T] /\ b.size = N
           /\ b.head_ \in 0 .. N - 1 /\ b.tail_ \in 0 .. N - 1 /\ b.used_ \in 0 .. N
           /\ b.head_ < b.tail_ => b.used_ = b.tail_ - b.head_
           /\ b.head_ > b.tail_ => b.used_ = N - b.head_ + b.tail_
           /\ b.head_ = b.tail_ => b.used_ = 0 \/ b.used_ = N
  BY SMT DEF BufferOf, Record, WellFormed

\* A buffer with other slots, as the caller of queue_prep leaves it.
LEMMA WithSlots ==
    ASSUME NEW N \in Nat \ {0}, NEW T, NEW b \in Record(N, T), NEW buf \in [0 .. N - 1 -> T]
    PROVE  [b EXCEPT !.buf_ = buf] \in Record(N, T)
  BY DEF Record

\* A buffer with another tail_ and counter, as queue_commit leaves it.
LEMMA WithTail ==
    ASSUME NEW N \in Nat \ {0}, NEW T, NEW b \in Record(N, T), NEW used \in Int, NEW tail \in Int
    PROVE  [b EXCEPT !.used_ = used, !.tail_ = tail] \in Record(N, T)
  BY Zenon DEF Record

\* A buffer with another head_ and counter, as drop leaves it.
LEMMA WithHead ==
    ASSUME NEW N \in Nat \ {0}, NEW T, NEW b \in Record(N, T), NEW used \in Int, NEW head \in Int
    PROVE  [b EXCEPT !.used_ = used, !.head_ = head] \in Record(N, T)
  BY Zenon DEF Record

\* Every item has a slot.
LEMMA SlotInRange ==
    ASSUME NEW N \in Nat \ {0}, NEW T, NEW b \in BufferOf(N, T), NEW i \in 1 .. b.used_
    PROVE  SlotOf(b, i) \in 0 .. N - 1
  <1>1. b.size = N /\ b.head_ \in 0 .. N - 1 /\ b.used_ \in 0 .. N
    BY Fields
  <1> QED
    BY <1>1, SMT DEF SlotOf

\* The items are a sequence over T.
LEMMA ItemsType ==
    ASSUME NEW N \in Nat \ {0}, NEW T, NEW b \in BufferOf(N, T)
    PROVE  Items(b) \in Seq(T) /\ Len(Items(b)) = b.used_
  <1>1. b.used_ \in Nat /\ b.buf_ \in [0 .. N - 1 -> T]
    <2>1. b.used_ \in 0 .. N /\ b.buf_ \in [0 .. N - 1 -> T]
      BY Fields
    <2> QED
      BY <2>1, SMT
  <1>2. \A i \in 1 .. b.used_ : b.buf_[SlotOf(b, i)] \in T
    BY <1>1, SlotInRange
  <1>3. Items(b) \in [1 .. b.used_ -> T]
    BY <1>2 DEF Items
  <1> QED
    BY <1>1, <1>3, SMT

-----------------------------------------------------------------------------
(* queue_prep, the copy and queue_commit.                                    *)

\* The new tail_ and used_ make a buffer again.
LEMMA QueueIndices ==
    ASSUME NEW N \in Nat \ {0}, NEW T, NEW b \in BufferOf(N, T),
           NEW data \in Seq(T), CanQueue(b, Len(data))
    PROVE  LET c == QueueCommit(Fill(b, data), Len(data)) IN
           /\ c \in BufferOf(N, T)
           /\ c.used_ = b.used_ + Len(data) /\ c.head_ = b.head_
           /\ c.buf_ = Fill(b, data).buf_
  <1> DEFINE f == Fill(b, data)
             c == QueueCommit(f, Len(data))
             n1 == QueuePrep(b, Len(data))
  <1>0. /\ b.size = N /\ b.head_ \in 0 .. N - 1 /\ b.tail_ \in 0 .. N - 1 /\ b.used_ \in 0 .. N
        /\ b.head_ > b.tail_ => b.used_ = N - b.head_ + b.tail_
    BY Fields
  <1>1. Len(data) \in Nat \ {0} /\ Len(data) <= N - b.used_
    BY <1>0, SMT DEF CanQueue, Space
  <1>2. n1 \in 1 .. Len(data) /\ b.tail_ + n1 <= N
    BY <1>0, <1>1, SMTT(30) DEF QueuePrep
  <1>3. ASSUME NEW i \in 0 .. N - 1
        PROVE  (IF i >= b.tail_ /\ i < b.tail_ + n1 THEN data[i - b.tail_ + 1]
                ELSE IF i < Len(data) - n1 THEN data[n1 + i + 1]
                ELSE b.buf_[i]) \in T
    <2>1. \A k \in 1 .. Len(data) : data[k] \in T
      BY <1>1
    <2> HIDE DEF n1
    <2>2. i >= b.tail_ /\ i < b.tail_ + n1 => i - b.tail_ + 1 \in 1 .. Len(data)
      BY <1>0, <1>1, <1>2, SMTT(30)
    <2>3. i < Len(data) - n1 => n1 + i + 1 \in 1 .. Len(data)
      BY <1>0, <1>1, <1>2, SMT
    <2>4. b.buf_[i] \in T
      BY Fields
    <2> QED
      BY <2>1, <2>2, <2>3, <2>4
  <1>4. f.buf_ \in [0 .. N - 1 -> T]
    BY <1>3, Fields DEF Fill, Record
  <1>5. f.size = N /\ f.head_ = b.head_ /\ f.tail_ = b.tail_ /\ f.used_ = b.used_
    BY Fields DEF Fill, Record
  <1>6. f \in Record(N, T)
    <2>1. f = [b EXCEPT !.buf_ = f.buf_]
      BY Fields DEF Fill, Record
    <2> QED
      BY <1>4, <2>1, Fields, WithSlots
  <1> HIDE DEF f, n1
  <1> DEFINE used == b.used_ + Len(data)
             tail == IF b.head_ <= b.tail_ /\ Len(data) >= N - b.tail_
                     THEN b.tail_ + Len(data) - N ELSE b.tail_ + Len(data)
  <1>8. c = [f EXCEPT !.used_ = used, !.tail_ = tail]
    BY <1>5 DEF QueueCommit
  <1>9. /\ tail \in 0 .. N - 1 /\ used \in 0 .. N
        /\ \/ b.head_ < tail /\ used = tail - b.head_
           \/ b.head_ > tail /\ used = N - b.head_ + tail
           \/ b.head_ = tail /\ used = N
    <2>1. /\ b.head_ \in 0 .. N - 1 /\ b.tail_ \in 0 .. N - 1 /\ b.used_ \in 0 .. N
          /\ b.head_ < b.tail_ => b.used_ = b.tail_ - b.head_
          /\ b.head_ > b.tail_ => b.used_ = N - b.head_ + b.tail_
          /\ b.head_ = b.tail_ => b.used_ = 0 \/ b.used_ = N
      BY Fields
    <2>2. PICK h \in 0 .. N - 1, t \in 0 .. N - 1, u \in 0 .. N, n \in Nat \ {0} :
             h = b.head_ /\ t = b.tail_ /\ u = b.used_ /\ n = Len(data)
      BY <1>1, <2>1, Zenon
    <2>3. /\ h < t => u = t - h
          /\ h > t => u = N - h + t
          /\ h = t => u = 0 \/ u = N
          /\ n <= N - u
      BY <1>1, <2>1, <2>2, Zenon
    <2>4. /\ used = u + n
          /\ tail = IF h <= t /\ n >= N - t THEN t + n - N ELSE t + n
      BY <2>2, Zenon
    <2> HIDE DEF used, tail
    <2>5. /\ tail \in 0 .. N - 1 /\ used \in 0 .. N
          /\ \/ h < tail /\ used = tail - h
             \/ h > tail /\ used = N - h + tail
             \/ h = tail /\ used = N
      BY <2>3, <2>4, SMT
    <2> QED
      BY <2>2, <2>5, Zenon
  <1> HIDE DEF used, tail, c
  <1>10. c \in Record(N, T)
    <2>1. used \in Int /\ tail \in Int
      BY <1>9, SMT
    <2> QED
      BY <1>6, <1>8, <2>1, WithTail, Zenon
  <1>11. c.buf_ = f.buf_ /\ c.size = N /\ c.head_ = b.head_ /\ c.used_ = used /\ c.tail_ = tail
    BY <1>5, <1>6, <1>8 DEF Record
  <1>12. WellFormed(c)
    <2>1. b.head_ \in 0 .. N - 1
      BY Fields, Zenon
    <2>2. used = N => used \in {0, N}
      OBVIOUS
    <2> QED
      BY <1>9, <1>11, <2>1, <2>2, Zenon DEF WellFormed
  <1> QED
    BY <1>10, <1>11, <1>12 DEF c, f, used, BufferOf

\* Where the i-th item is after n more: in its old slot, which the copy spares, or
\* where the copy has put it.
LEMMA SlotAfterQueue ==
    ASSUME NEW N \in Nat \ {0}, NEW h \in 0 .. N - 1, NEW t \in 0 .. N - 1, NEW u \in 0 .. N,
           h < t => u = t - h, h > t => u = N - h + t, h = t => u = 0 \/ u = N,
           NEW n \in Nat \ {0}, n <= N - u,
           NEW n1 \in Int, n1 = IF h <= t /\ n >= N - t THEN N - t ELSE n,
           NEW i \in 1 .. u + n,
           NEW s \in Int, s = IF h + i - 1 < N THEN h + i - 1 ELSE h + i - 1 - N
    PROVE  /\ s \in 0 .. N - 1
           /\ i <= u => ~(s >= t /\ s < t + n1) /\ ~(s < n - n1)
           /\ i > u => \/ s >= t /\ s < t + n1 /\ s - t + 1 = i - u
                       \/ ~(s >= t /\ s < t + n1) /\ s < n - n1 /\ n1 + s + 1 = i - u
  <1>1. CASE h <= t /\ n >= N - t
    BY <1>1, SMT
  <1>2. CASE ~(h <= t /\ n >= N - t)
    BY <1>2, SMT
  <1> QED
    BY <1>1, <1>2

\* Items go in at the end: after queue_prep, the copy and queue_commit the buffer
\* holds what it held and then data, whether or not data had to be split.
THEOREM QueueInOrder ==
    ASSUME NEW N \in Nat \ {0}, NEW T, NEW b \in BufferOf(N, T),
           NEW data \in Seq(T), CanQueue(b, Len(data))
    PROVE  LET c == QueueCommit(Fill(b, data), Len(data)) IN
           c \in BufferOf(N, T) /\ Items(c) = Items(b) \o data
  <1> DEFINE c == QueueCommit(Fill(b, data), Len(data))
             n1 == QueuePrep(b, Len(data))
  <1>1. /\ c \in BufferOf(N, T) /\ c.used_ = b.used_ + Len(data) /\ c.head_ = b.head_
        /\ c.buf_ = Fill(b, data).buf_
    BY QueueIndices
  <1>2. c.size = N /\ b.size = N
    BY <1>1, Fields, SMTT(30)
  <1>3. \A s \in 0 .. N - 1 :
           c.buf_[s] = IF s >= b.tail_ /\ s < b.tail_ + n1 THEN data[s - b.tail_ + 1]
                       ELSE IF s < Len(data) - n1 THEN data[n1 + s + 1]
                       ELSE b.buf_[s]
    BY <1>1, <1>2, Fields, SMTT(30) DEF Fill, Record
  <1>4. PICK h \in 0 .. N - 1, t \in 0 .. N - 1, u \in 0 .. N, n \in Nat \ {0} :
           h = b.head_ /\ t = b.tail_ /\ u = b.used_ /\ n = Len(data)
    <2>1. Len(data) \in Nat \ {0}
      BY SMT DEF CanQueue
    <2>2. b.head_ \in 0 .. N - 1 /\ b.tail_ \in 0 .. N - 1 /\ b.used_ \in 0 .. N
      BY Fields
    <2> QED
      BY <2>1, <2>2, Zenon
  <1>5. /\ h < t => u = t - h
        /\ h > t => u = N - h + t
        /\ h = t => u = 0 \/ u = N
    BY <1>4, Fields
  <1>6. n <= N - u /\ n1 = IF h <= t /\ n >= N - t THEN N - t ELSE n
    BY <1>2, <1>4, Zenon DEF CanQueue, Space, QueuePrep
  <1> HIDE DEF c, n1
  <1>7. n1 \in Int
    BY <1>6, SMT
  <1>8. ASSUME NEW i \in 1 .. u + n
        PROVE  c.buf_[SlotOf(c, i)] = IF i <= u THEN b.buf_[SlotOf(b, i)] ELSE data[i - u]
    <2> DEFINE s == IF h + i - 1 < N THEN h + i - 1 ELSE h + i - 1 - N
    <2>1. s = SlotOf(c, i) /\ s = SlotOf(b, i)
      BY <1>1, <1>2, <1>4, Zenon DEF SlotOf
    <2>2. s \in Int
      BY SMT
    <2>3. s = IF h + i - 1 < N THEN h + i - 1 ELSE h + i - 1 - N
      OBVIOUS
    <2> HIDE DEF s
    <2>4. /\ s \in 0 .. N - 1
          /\ i <= u => ~(s >= t /\ s < t + n1) /\ ~(s < n - n1)
          /\ i > u => \/ s >= t /\ s < t + n1 /\ s - t + 1 = i - u
                      \/ ~(s >= t /\ s < t + n1) /\ s < n - n1 /\ n1 + s + 1 = i - u
      BY <1>5, <1>6, <1>7, <2>2, <2>3, SlotAfterQueue
    <2>5. c.buf_[s] = IF s >= t /\ s < t + n1 THEN data[s - t + 1]
                      ELSE IF s < n - n1 THEN data[n1 + s + 1]
                      ELSE b.buf_[s]
      BY <1>3, <1>4, <2>4, Zenon
    <2>6. i <= u \/ i > u
      BY SMT
    <2>7. CASE i <= u
      BY <2>1, <2>4, <2>5, <2>7, Zenon
    <2>8. CASE i > u
      <3>1. ~(i <= u)
        BY <2>8, SMT
      <3>2. c.buf_[s] = data[i - u]
        BY <2>4, <2>5, <2>8, SMTT(30)
      <3> QED
        BY <2>1, <3>1, <3>2, Zenon
    <2> QED
      BY <2>6, <2>7, <2>8
  <1>9. /\ Items(c) \in Seq(T) /\ Len(Items(c)) = u + n
        /\ Items(b) \in Seq(T) /\ Len(Items(b)) = u
    BY <1>1, <1>4, ItemsType, Zenon
  <1>10. \A i \in 1 .. u + n :
            Items(c)[i] = IF i <= u THEN Items(b)[i] ELSE data[i - u]
    <2>1. \A i \in 1 .. u + n : Items(c)[i] = c.buf_[SlotOf(c, i)]
      BY <1>1, <1>4 DEF Items
    <2>2. \A i \in 1 .. u : Items(b)[i] = b.buf_[SlotOf(b, i)]
      BY <1>4 DEF Items
    <2>3. \A i \in 1 .. u + n : i <= u => i \in 1 .. u
      BY SMT
    <2> QED
      BY <1>8, <2>1, <2>2, <2>3, Zenon
  <1>11. Items(c) = Items(b) \o data
    <2>1. /\ Items(b) \o data \in Seq(T) /\ Len(Items(b) \o data) = u + n
          /\ \A i \in 1 .. u + n :
                (Items(b) \o data)[i] = IF i <= u THEN Items(b)[i] ELSE data[i - u]
      <3>1. /\ Items(b) \o data \in Seq(T) /\ Len(Items(b) \o data) = Len(Items(b)) + Len(data)
            /\ \A i \in 1 .. Len(Items(b)) + Len(data) :
                  (Items(b) \o data)[i]
                  = IF i <= Len(Items(b)) THEN Items(b)[i] ELSE data[i - Len(Items(b))]
        BY <1>9, ConcatProperties, Zenon
      <3> QED
        BY <1>4, <1>9, <3>1, Zenon
    <2>2. \A i \in 1 .. u + n : Items(c)[i] = (Items(b) \o data)[i]
      BY <1>10, <2>1, Zenon
    <2> QED
      BY <1>9, <2>1, <2>2, SeqEqual, SMTT(30)
  <1> QED
    BY <1>1, <1>11 DEF c

-----------------------------------------------------------------------------
(* drop.                                                                     *)

\* Items leave at the front: drop(n) leaves a buffer with all but the first n.
THEOREM DropInOrder ==
    ASSUME NEW N \in Nat \ {0}, NEW T, NEW b \in BufferOf(N, T), NEW n \in Nat, CanTake(b, n)
    PROVE  Drop(b, n) \in BufferOf(N, T) /\ Items(Drop(b, n)) = SubSeq(Items(b), n + 1, b.used_)
  <1> DEFINE d == Drop(b, n)
             used == b.used_ - n
             head == IF b.head_ >= b.tail_ /\ n >= N - b.head_ THEN b.head_ + n - N ELSE b.head_ + n
  <1>1. n # 0 /\ n <= b.used_
    BY DEF CanTake
  <1>2. b.size = N /\ b \in Record(N, T)
    BY Fields
  <1>3. PICK h \in 0 .. N - 1, t \in 0 .. N - 1, u \in 0 .. N :
           h = b.head_ /\ t = b.tail_ /\ u = b.used_
    <2>1. b.head_ \in 0 .. N - 1 /\ b.tail_ \in 0 .. N - 1 /\ b.used_ \in 0 .. N
      BY Fields
    <2> QED
      BY <2>1, Zenon
  <1>4. /\ h < t => u = t - h
        /\ h > t => u = N - h + t
        /\ h = t => u = 0 \/ u = N
    BY <1>3, Fields
  <1>5. d = [b EXCEPT !.used_ = used, !.head_ = head]
    BY <1>1, <1>2 DEF Drop
  <1>6. used = u - n /\ head = IF h >= t /\ n >= N - h THEN h + n - N ELSE h + n
    BY <1>3, Zenon
  <1> HIDE DEF used, head, d
  <1>7. /\ head \in 0 .. N - 1 /\ used \in 0 .. N
        /\ \/ head < t /\ used = t - head
           \/ head > t /\ used = N - head + t
           \/ head = t /\ used = 0
    BY <1>1, <1>3, <1>4, <1>6, SMT
  <1>8. d \in Record(N, T)
    <2>1. used \in Int /\ head \in Int
      BY <1>7, SMT
    <2> QED
      BY <1>2, <1>5, <2>1, WithHead, Zenon
  <1>9. d.buf_ = b.buf_ /\ d.size = N /\ d.tail_ = t /\ d.used_ = used /\ d.head_ = head
    BY <1>2, <1>3, <1>5 DEF Record
  <1>10. WellFormed(d)
    <2>1. used = 0 => used \in {0, N}
      OBVIOUS
    <2> QED
      BY <1>7, <1>9, <2>1, Zenon DEF WellFormed
  <1>11. d \in BufferOf(N, T)
    BY <1>8, <1>10, Zenon DEF BufferOf
  <1>12. /\ Items(d) \in Seq(T) /\ Len(Items(d)) = used
         /\ Items(b) \in Seq(T) /\ Len(Items(b)) = u
    BY <1>3, <1>9, <1>11, ItemsType, Zenon
  <1>13. ASSUME NEW i \in 1 .. used PROVE Items(d)[i] = Items(b)[n + i]
    <2>1. SlotOf(d, i) = IF head + i - 1 < N THEN head + i - 1 ELSE head + i - 1 - N
      BY <1>9, Zenon DEF SlotOf
    <2>2. SlotOf(b, n + i) = IF h + (n + i) - 1 < N THEN h + (n + i) - 1 ELSE h + (n + i) - 1 - N
      BY <1>2, <1>3, Zenon DEF SlotOf
    <2>3. SlotOf(d, i) = SlotOf(b, n + i)
      BY <1>1, <1>3, <1>4, <1>6, <1>7, <2>1, <2>2, SMT
    <2>4. n + i \in 1 .. u
      BY <1>1, <1>3, <1>6, SMT
    <2>5. Items(d)[i] = d.buf_[SlotOf(d, i)]
      BY <1>9 DEF Items
    <2>6. Items(b)[n + i] = b.buf_[SlotOf(b, n + i)]
      BY <1>3, <2>4 DEF Items
    <2> QED
      BY <1>9, <2>3, <2>5, <2>6, Zenon
  <1>14. Items(d) = SubSeq(Items(b), n + 1, u)
    <2> DEFINE rest == SubSeq(Items(b), n + 1, u)
    <2>1. /\ rest \in Seq(T) /\ Len(rest) = IF n + 1 <= u THEN u - (n + 1) + 1 ELSE 0
          /\ \A i \in 1 .. u - (n + 1) + 1 : rest[i] = Items(b)[(n + 1) + i - 1]
      BY <1>12, SMT
    <2> HIDE DEF rest
    <2>2. Len(rest) = used
      BY <1>1, <1>3, <1>6, <2>1, SMTT(30)
    <2>3. ASSUME NEW i \in 1 .. used PROVE Items(d)[i] = rest[i]
      <3>1. i \in 1 .. u - (n + 1) + 1 /\ (n + 1) + i - 1 = n + i
        BY <1>6, SMT
      <3> QED
        BY <1>13, <2>1, <3>1, Zenon
    <2> QED
      BY <1>12, <2>1, <2>2, <2>3, SeqEqual, Zenon DEF rest
  <1> QED
    BY <1>3, <1>11, <1>14, Zenon DEF d

-----------------------------------------------------------------------------
(* peek and the iterators.                                                   *)

\* The two arrays of peek(n), one after the other, are the first n items.
THEOREM PeekInOrder ==
    ASSUME NEW N \in Nat \ {0}, NEW T, NEW b \in BufferOf(N, T), NEW n \in Nat, CanTake(b, n)
    PROVE  Peek1(b, n) \o Peek2(b, n) = SubSeq(Items(b), 1, n)
  <1> DEFINE k == Peek(b, n)
             p1 == Peek1(b, n)
             p2 == Peek2(b, n)
  <1>1. n # 0 /\ n <= b.used_ /\ b.size = N /\ b.buf_ \in [0 .. N - 1 -> T]
    BY Fields DEF CanTake
  <1>2. PICK h \in 0 .. N - 1, t \in 0 .. N - 1, u \in 0 .. N :
           h = b.head_ /\ t = b.tail_ /\ u = b.used_
    <2>1. b.head_ \in 0 .. N - 1 /\ b.tail_ \in 0 .. N - 1 /\ b.used_ \in 0 .. N
      BY Fields
    <2> QED
      BY <2>1, Zenon
  <1>3. /\ h < t => u = t - h
        /\ h > t => u = N - h + t
        /\ h = t => u = 0 \/ u = N
    BY <1>2, Fields
  <1>4. k = IF h >= t /\ n > N - h THEN N - h ELSE n
    BY <1>1, <1>2, Zenon DEF Peek
  <1> HIDE DEF k
  <1>5. k \in 1 .. n /\ h + k <= N /\ n - k \in 0 .. N /\ n - k <= h
    <2>1. n # 0 /\ n <= u
      BY <1>1, <1>2, Zenon
    <2> QED
      BY <1>3, <1>4, <2>1, SMT
  <1>6. /\ p1 = [i \in 1 .. k |-> b.buf_[h + i - 1]]
        /\ p2 = [i \in 1 .. n - k |-> b.buf_[i - 1]]
    BY <1>2, Zenon DEF Peek1, Peek2, k
  <1> HIDE DEF p1, p2
  <1>7. /\ p1 \in Seq(T) /\ Len(p1) = k
        /\ \A i \in 1 .. k : p1[i] = b.buf_[h + i - 1]
    <2>1. \A i \in 1 .. k : h + i - 1 \in 0 .. N - 1
      BY <1>5, SMT
    <2>2. \A i \in 1 .. k : b.buf_[h + i - 1] \in T
      BY <1>1, <2>1, Zenon
    <2> QED
      BY <1>5, <1>6, <2>2, SMT
  <1>8. /\ p2 \in Seq(T) /\ Len(p2) = n - k
        /\ \A i \in 1 .. n - k : p2[i] = b.buf_[i - 1]
    <2>1. \A i \in 1 .. n - k : i - 1 \in 0 .. N - 1
      BY <1>5, SMT
    <2>2. \A i \in 1 .. n - k : b.buf_[i - 1] \in T
      BY <1>1, <2>1, Zenon
    <2> QED
      BY <1>5, <1>6, <2>2, SMT
  <1>9. /\ p1 \o p2 \in Seq(T) /\ Len(p1 \o p2) = n
        /\ \A i \in 1 .. n : (p1 \o p2)[i] = IF i <= k THEN p1[i] ELSE p2[i - k]
    <2>1. k + (n - k) = n
      BY <1>5, SMT
    <2>2. /\ p1 \o p2 \in Seq(T) /\ Len(p1 \o p2) = Len(p1) + Len(p2)
          /\ \A i \in 1 .. Len(p1) + Len(p2) :
                (p1 \o p2)[i] = IF i <= Len(p1) THEN p1[i] ELSE p2[i - Len(p1)]
      BY <1>7, <1>8, ConcatProperties, Zenon
    <2> QED
      BY <1>7, <1>8, <2>1, <2>2, Zenon
  <1>10. Items(b) \in Seq(T) /\ Len(Items(b)) = u
    BY <1>2, ItemsType, Zenon
  <1>11. ASSUME NEW i \in 1 .. n PROVE (p1 \o p2)[i] = Items(b)[i]
    <2>1. SlotOf(b, i) = IF h + i - 1 < N THEN h + i - 1 ELSE h + i - 1 - N
      BY <1>1, <1>2, Zenon DEF SlotOf
    <2>2. i \in 1 .. u
      BY <1>1, <1>2, SMT
    <2>3. Items(b)[i] = b.buf_[SlotOf(b, i)]
      BY <1>2, <2>2 DEF Items
    <2>4. CASE i <= k
      <3>1. i \in 1 .. k /\ SlotOf(b, i) = h + i - 1
        BY <1>5, <2>1, <2>4, SMT
      <3> QED
        BY <1>7, <1>9, <2>3, <2>4, <3>1, Zenon
    <2>5. CASE ~(i <= k)
      <3>1. i - k \in 1 .. n - k /\ SlotOf(b, i) = (i - k) - 1
        BY <1>4, <1>5, <2>1, <2>5, SMT
      <3> QED
        BY <1>8, <1>9, <2>3, <2>5, <3>1, Zenon
    <2> QED
      BY <2>4, <2>5, Zenon
  <1>12. /\ SubSeq(Items(b), 1, n) \in Seq(T) /\ Len(SubSeq(Items(b), 1, n)) = n
         /\ \A i \in 1 .. n : SubSeq(Items(b), 1, n)[i] = Items(b)[i]
    BY <1>1, <1>2, <1>10, SMT
  <1>13. p1 \o p2 = SubSeq(Items(b), 1, n)
    BY <1>9, <1>11, <1>12, SeqEqual, Zenon
  <1> QED
    BY <1>13 DEF p1, p2

\* A loop from begin() to end() visits the slot of every item, in order, as long as
\* one slot is free; on a full buffer it visits none.
THEOREM LoopVisitsItems ==
    ASSUME NEW N \in Nat \ {0}, NEW T, NEW b \in BufferOf(N, T)
    PROVE  Slots(b) = IF Space(b) > 0 THEN [i \in 1 .. b.used_ |-> SlotOf(b, i)] ELSE <<>>
  <1>1. /\ b.size = N /\ b.used_ \in 0 .. N /\ b.head_ \in 0 .. N - 1 /\ b.tail_ \in 0 .. N - 1
        /\ b.head_ < b.tail_ => b.used_ = b.tail_ - b.head_
        /\ b.head_ > b.tail_ => b.used_ = N - b.head_ + b.tail_
        /\ b.head_ = b.tail_ => b.used_ = 0 \/ b.used_ = N
    BY Fields
  <1>2. Slots(b) = [i \in 1 .. Visited(b) |-> SlotOf(b, i)]
    BY DEF Slots, SlotOf
  <1>3. CASE Space(b) > 0
    <2>1. Visited(b) = b.used_
      BY <1>1, <1>3, SMT DEF Visited, Space
    <2> QED
      BY <1>2, <1>3, <2>1, Zenon
  <1>4. CASE ~(Space(b) > 0)
    <2>1. Visited(b) = 0
      BY <1>1, <1>4, SMT DEF Visited, Space
    <2>2. [i \in 1 .. 0 |-> SlotOf(b, i)] = <<>>
      BY SMT
    <2> QED
      BY <1>2, <1>4, <2>1, <2>2, Zenon
  <1> QED
    BY <1>3, <1>4

-----------------------------------------------------------------------------
(* The same facts in the form that the sockets' loops use them.              *)

\* The constructor makes an empty buffer.
LEMMA NewIsBuffer ==
    ASSUME NEW N \in Nat \ {0}, NEW T, NEW item \in T
    PROVE  NewBuffer(N, item) \in BufferOf(N, T) /\ NewBuffer(N, item).used_ = 0
  BY SMT DEF NewBuffer, BufferOf, Record, WellFormed

\* queue_emplace puts one item behind the others.
LEMMA Emplaced ==
    ASSUME NEW N \in Nat \ {0}, NEW T, NEW b \in BufferOf(N, T), NEW item \in T, CanQueue(b, 1)
    PROVE  /\ QueueEmplace(b, item) \in BufferOf(N, T)
           /\ QueueEmplace(b, item).used_ = b.used_ + 1
           /\ Items(QueueEmplace(b, item)) = Items(b) \o <<item>>
  <1>1. <<item>> \in Seq(T) /\ Len(<<item>>) = 1
    BY SMT
  <1>2. PICK data \in Seq(T) : data = <<item>> /\ Len(data) = 1
    BY <1>1, Zenon
  <1>3. CanQueue(b, Len(data))
    BY <1>2, Zenon
  <1> DEFINE c == QueueCommit(Fill(b, data), Len(data))
  <1>4. c \in BufferOf(N, T) /\ c.used_ = b.used_ + Len(data)
    BY <1>3, QueueIndices
  <1>5. Items(c) = Items(b) \o data
    BY <1>3, QueueInOrder
  <1>6. QueueEmplace(b, item) = c
    BY <1>2, Zenon DEF QueueEmplace
  <1> HIDE DEF c
  <1> QED
    BY <1>2, <1>4, <1>5, <1>6, Zenon

\* drop of as many items as there are, or of fewer, or of none.
LEMMA Dropped ==
    ASSUME NEW N \in Nat \ {0}, NEW T, NEW b \in BufferOf(N, T), NEW n \in 0 .. b.used_
    PROVE  /\ Drop(b, n) \in BufferOf(N, T)
           /\ Drop(b, n).used_ = b.used_ - n
           /\ Items(Drop(b, n)) = SubSeq(Items(b), n + 1, b.used_)
  <1>1. b.used_ \in Nat /\ n \in Nat /\ n <= b.used_
    BY Fields, SMT
  <1>2. Items(b) \in Seq(T) /\ Len(Items(b)) = b.used_
    BY ItemsType, Zenon
  <1>3. CASE n = 0
    <2>1. Drop(b, n) = b
      BY <1>3, Zenon DEF Drop
    <2>2. SubSeq(Items(b), 1, Len(Items(b))) = Items(b)
      BY <1>2, SMT
    <2> QED
      BY <1>1, <1>2, <1>3, <2>1, <2>2, SMT
  <1>4. CASE n # 0
    <2>1. CanTake(b, n)
      BY <1>1, <1>4, Zenon DEF CanTake
    <2>2. Drop(b, n) \in BufferOf(N, T) /\ Items(Drop(b, n)) = SubSeq(Items(b), n + 1, b.used_)
      BY <1>1, <2>1, DropInOrder, Zenon
    <2>3. Len(Items(Drop(b, n))) = Drop(b, n).used_
      BY <2>2, ItemsType, Zenon
    <2>4. Len(SubSeq(Items(b), n + 1, b.used_)) = b.used_ - n
      BY <1>1, <1>2, SMT
    <2> QED
      BY <2>2, <2>3, <2>4, Zenon
  <1> QED
    BY <1>3, <1>4, Zenon

\* An assignment to a slot leaves the indices and the counter alone.
LEMMA SlotKept ==
    ASSUME NEW N \in Nat \ {0}, NEW T, NEW b \in BufferOf(N, T), NEW s \in 0 .. N - 1, NEW x \in T
    PROVE  /\ SetSlot(b, s, x) \in BufferOf(N, T)
           /\ SetSlot(b, s, x).used_ = b.used_ /\ SetSlot(b, s, x).head_ = b.head_
           /\ SetSlot(b, s, x).tail_ = b.tail_ /\ SetSlot(b, s, x).size = b.size
  <1> DEFINE buf == [b.buf_ EXCEPT ![s] = x]
  <1>1. b \in Record(N, T) /\ b.buf_ \in [0 .. N - 1 -> T]
    BY Fields, Zenon
  <1>2. buf \in [0 .. N - 1 -> T]
    BY <1>1, Zenon
  <1> HIDE DEF buf
  <1>3. [b EXCEPT !.buf_ = buf] \in Record(N, T)
    BY <1>1, <1>2, WithSlots, Zenon
  <1>4. LET c == [b EXCEPT !.buf_ = buf] IN
        c.used_ = b.used_ /\ c.head_ = b.head_ /\ c.tail_ = b.tail_ /\ c.size = b.size
    BY <1>1, Zenon DEF Record
  <1>5. WellFormed(b)
    BY DEF BufferOf
  <1>6. WellFormed([b EXCEPT !.buf_ = buf])
    BY <1>4, <1>5, Zenon DEF WellFormed
  <1> QED
    BY <1>3, <1>4, <1>6, Zenon DEF SetSlot, BufferOf, buf

\* It changes one slot.
LEMMA SlotSet ==
    ASSUME NEW N \in Nat \ {0}, NEW T, NEW b \in BufferOf(N, T), NEW s \in 0 .. N - 1, NEW x \in T
    PROVE  SetSlot(b, s, x).buf_ = [b.buf_ EXCEPT ![s] = x]
  <1>1. b \in Record(N, T)
    BY Fields, Zenon
  <1> QED
    BY <1>1, Zenon DEF SetSlot, Record

\* Two items have two slots.
LEMMA SlotsDiffer ==
    ASSUME NEW N \in Nat \ {0}, NEW T, NEW b \in BufferOf(N, T),
           NEW i \in 1 .. b.used_, NEW j \in 1 .. b.used_, SlotOf(b, i) = SlotOf(b, j)
    PROVE  i = j
  <1>1. b.size = N /\ b.head_ \in 0 .. N - 1 /\ b.used_ \in 0 .. N
    BY Fields
  <1> QED
    BY <1>1, SMT DEF SlotOf

\* An assignment to the slot of an item changes this item.
LEMMA ItemSet ==
    ASSUME NEW N \in Nat \ {0}, NEW T, NEW b \in BufferOf(N, T), NEW i \in 1 .. b.used_, NEW x \in T
    PROVE  Items(SetSlot(b, SlotOf(b, i), x)) = [Items(b) EXCEPT ![i] = x]
  <1> DEFINE c == SetSlot(b, SlotOf(b, i), x)
  <1>1. SlotOf(b, i) \in 0 .. N - 1
    BY SlotInRange, Zenon
  <1>2. /\ c.buf_ = [b.buf_ EXCEPT ![SlotOf(b, i)] = x] /\ c.used_ = b.used_
        /\ c.head_ = b.head_ /\ c.size = b.size
    BY <1>1, SlotSet, SlotKept
  <1> HIDE DEF c
  <1>3. \A j : SlotOf(c, j) = SlotOf(b, j)
    BY <1>2, Zenon DEF SlotOf
  <1>4. ASSUME NEW j \in 1 .. b.used_
        PROVE  c.buf_[SlotOf(b, j)] = IF j = i THEN x ELSE b.buf_[SlotOf(b, j)]
    <2>1. SlotOf(b, j) \in 0 .. N - 1 /\ b.buf_ \in [0 .. N - 1 -> T]
      BY SlotInRange, Fields, Zenon
    <2>2. j # i => SlotOf(b, j) # SlotOf(b, i)
      BY SlotsDiffer, Zenon
    <2> QED
      BY <1>1, <1>2, <2>1, <2>2, Zenon
  <1>5. Items(c) = [j \in 1 .. b.used_ |-> IF j = i THEN x ELSE b.buf_[SlotOf(b, j)]]
    BY <1>2, <1>3, <1>4, Zenon DEF Items
  <1>6. [Items(b) EXCEPT ![i] = x] = [j \in 1 .. b.used_ |-> IF j = i THEN x ELSE b.buf_[SlotOf(b, j)]]
    BY Zenon DEF Items
  <1> QED
    BY <1>5, <1>6, Zenon DEF c

\* How far a loop over the buffer gets, and where it is on the way.
LEMMA LoopSlots ==
    ASSUME NEW N \in Nat \ {0}, NEW T, NEW b \in BufferOf(N, T)
    PROVE  /\ Len(Slots(b)) \in 0 .. b.used_
           /\ Len(Slots(b)) = IF b.used_ < N THEN b.used_ ELSE 0
           /\ \A i \in 1 .. Len(Slots(b)) : Slots(b)[i] = SlotOf(b, i)
  <1>1. b.used_ \in Nat /\ b.used_ <= N /\ b.size = N
    BY Fields, SMT
  <1>2. Space(b) > 0 <=> b.used_ < N
    BY <1>1, SMT DEF Space
  <1>3. Slots(b) = IF b.used_ < N THEN [i \in 1 .. b.used_ |-> SlotOf(b, i)] ELSE <<>>
    BY <1>2, LoopVisitsItems, Zenon
  <1>4. CASE b.used_ < N
    <2>1. Len([i \in 1 .. b.used_ |-> SlotOf(b, i)]) = b.used_
      BY <1>1, SMT
    <2> QED
      BY <1>1, <1>3, <1>4, <2>1, SMT
  <1>5. CASE ~(b.used_ < N)
    BY <1>1, <1>3, <1>5, SMT
  <1> QED
    BY <1>4, <1>5, Zenon

=============================================================================
