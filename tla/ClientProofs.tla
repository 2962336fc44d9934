---------------------------- MODULE ClientProofs ----------------------------
(***************************************************************************)
(* Proofs about the load client, for every setup: the types, the reference *)
(* counts, that no generator is used after its deletion, and where ~Sock   *)
(* is quiet.  The last part of the inductive invariant, which is about     *)
(* tx_out_, is proved here too.                                            *)
(***************************************************************************)
EXTENDS ClientRefs

-----------------------------------------------------------------------------
(* tx_out_ is the sum of the lengths of the callbacks that wait.             *)

\* t is s without its first d, and with n less of the first that remains.
Shortened(s, d, n, t) ==
    /\ s[d + 1] > n /\ Len(t) = Len(s) - d
    /\ \A i \in 1 .. Len(t) : t[i] = IF i = 1 THEN s[d + 1] - n ELSE s[d + i]

\* t is s and k.
Lengthened(s, k, t) ==
    /\ Len(t) = Len(s) + 1
    /\ \A i \in 1 .. Len(t) : t[i] = IF i <= Len(s) THEN s[i] ELSE k

\* The next callback is done: it counts no longer.
LEMMA SumDone ==
    ASSUME NEW N \in Nat, NEW s \in Seq(Nat), Len(s) <= N, NEW d \in 0 .. Len(s) - 1,
           NEW sum \in [0 .. N -> Nat], NEW o \in Nat, SumsTo(s, d, sum, o)
    PROVE  SumsTo(s, d + 1, sum, o - s[d + 1]) /\ o - s[d + 1] \in Nat
  <1>1. d + 1 \in 1 .. Len(s) /\ d + 1 \in 0 .. N /\ d \in 0 .. N /\ (d + 1) - 1 = d /\ d + 1 > d
    BY SMT
  <1>2. s[d + 1] \in Nat /\ sum[d + 1] \in Nat
    BY <1>1, ElementOfSeq, Zenon
  <1>3. sum[d] = sum[d + 1] + s[d + 1] /\ sum[d] = o
    BY <1>1, Zenon DEF SumsTo
  <1>4. sum[d + 1] = o - s[d + 1]
    BY <1>2, <1>3, SMTT(60)
  <1>5. \A i \in 1 .. Len(s) : i > d + 1 => sum[i - 1] = sum[i] + s[i]
    BY SMT DEF SumsTo
  <1> QED
    BY <1>2, <1>4, <1>5, Zenon DEF SumsTo

\* Lengths and indices, when the first d are dropped.
LEMMA CutLengths ==
    ASSUME NEW len \in Nat, NEW d \in 0 .. len - 1
    PROVE  len - d \in 1 .. len - d /\ d + (len - d) = len
  BY SMT

\* The i-th that remains was the (d + i)-th.
LEMMA CutIndices ==
    ASSUME NEW N \in Nat, NEW len \in Nat, len <= N, NEW d \in 0 .. len - 1, NEW i \in 1 .. len - d
    PROVE  /\ i \in 0 .. N /\ d + i <= N /\ i # 0 /\ i - 1 \in 0 .. N
           /\ d + i \in 1 .. len /\ d + i > d
  BY SMT

\* n bytes of the next callback are written, and the ones before it dropped.
LEMMA SumWaits ==
    ASSUME NEW N \in Nat, NEW s \in Seq(Nat), Len(s) <= N, NEW d \in 0 .. Len(s) - 1,
           NEW sum \in [0 .. N -> Nat], NEW o \in Nat, SumsTo(s, d, sum, o),
           NEW n \in Nat, NEW t \in Seq(Nat), Shortened(s, d, n, t)
    PROVE  o - n \in Nat /\ \E new \in [0 .. N -> Nat] : SumsTo(t, 0, new, o - n)
  <1>1. Len(t) = Len(s) - d
    BY Zenon DEF Shortened
  <1>2. d + 1 \in 1 .. Len(s) /\ d + 1 \in 0 .. N /\ d \in 0 .. N /\ (d + 1) - 1 = d /\ d + 1 > d
    BY SMT
  <1>3. s[d + 1] \in Nat /\ sum[d + 1] \in Nat
    BY <1>2, ElementOfSeq, Zenon
  <1>4. sum[d] = sum[d + 1] + s[d + 1] /\ sum[d] = o
    BY <1>2, Zenon DEF SumsTo
  <1>5. PICK k \in Nat, m \in Nat : k = s[d + 1] /\ m = sum[d + 1]
    BY <1>3, Zenon
  <1>6. o - n \in Nat /\ o - n = m + (k - n)
    <2>1. k > n /\ o = m + k
      BY <1>4, <1>5, Zenon DEF Shortened
    <2> QED
      BY <2>1, SMT
  <1> DEFINE new == [i \in 0 .. N |-> IF i = 0 THEN o - n ELSE IF d + i <= N THEN sum[d + i] ELSE 0]
  <1>7. new \in [0 .. N -> Nat]
    <2>1. \A i \in 0 .. N : d + i <= N => sum[d + i] \in Nat
      <3>1. \A i \in 0 .. N : d + i <= N => d + i \in 0 .. N
        BY SMTT(60)
      <3> QED
        BY <3>1, Zenon
    <2>2. \A i \in 0 .. N : (IF i = 0 THEN o - n ELSE IF d + i <= N THEN sum[d + i] ELSE 0) \in Nat
      <3>1. 0 \in Nat
        BY SMT
      <3> QED
        BY <1>6, <2>1, <3>1, Zenon
    <2> QED
      BY <2>2, Zenon
  <1>8. \A i \in 0 .. N : new[i] = IF i = 0 THEN o - n ELSE IF d + i <= N THEN sum[d + i] ELSE 0
    BY Zenon
  <1> HIDE DEF new
  <1>9. new[Len(t)] = 0 /\ new[0] = o - n
    <2>1. Len(t) \in 0 .. N /\ Len(t) # 0 /\ d + Len(t) = Len(s) /\ d + Len(t) <= N /\ 0 \in 0 .. N
      <3>1. Len(s) \in Nat /\ Len(t) \in Nat
        BY LenProperties, Zenon
      <3>2. Len(s) - d \in 1 .. Len(s) - d /\ d + (Len(s) - d) = Len(s)
        BY <3>1, CutLengths, Zenon
      <3>3. Len(t) \in 1 .. Len(s) - d /\ d + Len(t) = Len(s)
        BY <1>1, <3>2, Zenon
      <3>4. Len(t) \in 0 .. N /\ Len(t) # 0 /\ d + Len(t) <= N
        BY <3>1, <3>3, CutIndices, Zenon
      <3>5. 0 \in 0 .. N
        BY SMT
      <3> QED
        BY <3>3, <3>4, <3>5, Zenon
    <2>2. sum[Len(s)] = 0
      BY Zenon DEF SumsTo
    <2> QED
      BY <1>8, <2>1, <2>2, Zenon
  <1>10. ASSUME NEW i \in 1 .. Len(t), i > 0
        PROVE  new[i - 1] = new[i] + t[i]
    <2>1. i \in 0 .. N /\ d + i <= N /\ i # 0 /\ i - 1 \in 0 .. N /\ d + i \in 1 .. Len(s) /\ d + i > d
      <3>1. Len(s) \in Nat /\ i \in 1 .. Len(s) - d
        BY <1>1, LenProperties, Zenon
      <3> QED
        BY <3>1, CutIndices, Zenon
    <2>2. new[i] = sum[d + i]
      BY <1>8, <2>1, Zenon
    <2>3. CASE i = 1
      <3>1. i - 1 = 0
        BY <2>3, SMT
      <3>2. new[i - 1] = o - n /\ t[i] = k - n /\ new[i] = m
        BY <1>8, <1>5, <2>1, <2>2, <2>3, <3>1, Zenon DEF Shortened
      <3> QED
        BY <1>6, <3>2, Zenon
    <2>4. CASE i # 1
      <3>1. d + (i - 1) <= N /\ i - 1 # 0 /\ d + (i - 1) = (d + i) - 1
        BY <2>1, <2>4, SMT
      <3>2. new[i - 1] = sum[(d + i) - 1] /\ t[i] = s[d + i]
        BY <1>8, <2>1, <2>4, <3>1, Zenon DEF Shortened
      <3>3. sum[(d + i) - 1] = sum[d + i] + s[d + i]
        BY <2>1, Zenon DEF SumsTo
      <3> QED
        BY <2>2, <3>2, <3>3, Zenon
    <2> QED
      BY <2>3, <2>4, Zenon
  <1>11. SumsTo(t, 0, new, o - n)
    BY <1>9, <1>10, Zenon DEF SumsTo
  <1> QED
    BY <1>6, <1>7, <1>11, Zenon

\* Nothing waits.
LEMMA SumNone ==
    ASSUME NEW N \in Nat, NEW t \in Seq(Nat), Len(t) = 0
    PROVE  \E new \in [0 .. N -> Nat] : SumsTo(t, 0, new, 0)
  <1> DEFINE new == [i \in 0 .. N |-> 0]
  <1>1. new \in [0 .. N -> Nat] /\ new[0] = 0
    BY SMT
  <1> HIDE DEF new
  <1>2. SumsTo(t, 0, new, 0)
    BY <1>1, SMT DEF SumsTo
  <1> QED
    BY <1>1, <1>2, Zenon

\* One callback more.
LEMMA SumAppend ==
    ASSUME NEW N \in Nat, NEW s \in Seq(Nat), Len(s) + 1 <= N,
           NEW sum \in [0 .. N -> Nat], NEW o \in Nat, SumsTo(s, 0, sum, o),
           NEW k \in Nat, NEW t \in Seq(Nat), Lengthened(s, k, t)
    PROVE  \E new \in [0 .. N -> Nat] : SumsTo(t, 0, new, o + k)
  <1>1. Len(t) = Len(s) + 1
    BY Zenon DEF Lengthened
  <1> DEFINE new == [i \in 0 .. N |-> IF i <= Len(s) THEN sum[i] + k ELSE 0]
  <1>2. new \in [0 .. N -> Nat]
    <2>1. \A i \in 0 .. N : sum[i] + k \in Nat
      BY SMT
    <2> QED
      BY <2>1, SMT
  <1>3. \A i \in 0 .. N : new[i] = IF i <= Len(s) THEN sum[i] + k ELSE 0
    BY Zenon
  <1> HIDE DEF new
  <1>4. new[Len(t)] = 0 /\ new[0] = o + k
    <2>1. sum[0] = o /\ Len(t) \in 0 .. N /\ ~(Len(t) <= Len(s)) /\ 0 \in 0 .. N /\ 0 <= Len(s)
      BY <1>1, SMT DEF SumsTo
    <2> QED
      BY <1>3, <2>1, Zenon
  <1>5. ASSUME NEW i \in 1 .. Len(t), i > 0
        PROVE  new[i - 1] = new[i] + t[i]
    <2>1. i \in 0 .. N /\ i - 1 \in 0 .. N /\ i - 1 <= Len(s)
      BY <1>1, SMT
    <2>2. new[i - 1] = sum[i - 1] + k
      BY <1>3, <2>1, Zenon
    <2>3. CASE i <= Len(s)
      <3>0. i \in 1 .. Len(s)
        BY <2>1, <2>3, SMT
      <3>1. i \in 1 .. Len(s) /\ sum[i - 1] \in Nat /\ sum[i] \in Nat /\ s[i] \in Nat
        BY <2>1, <3>0, ElementOfSeq, Zenon
      <3>2. new[i] = sum[i] + k /\ t[i] = s[i]
        BY <1>3, <2>1, <2>3, Zenon DEF Lengthened
      <3>3. sum[i - 1] = sum[i] + s[i]
        BY <1>5, <3>1, Zenon DEF SumsTo
      <3>4. \A a, b \in Nat : (a + b) + k = (a + k) + b
        BY SMT
      <3> QED
        BY <2>2, <3>1, <3>2, <3>3, <3>4, ZenonT(60)
    <2>4. CASE ~(i <= Len(s))
      <3>1. i - 1 = Len(s)
        BY <1>1, <2>1, <2>4, SMT
      <3>2. sum[Len(s)] = 0 /\ new[i] = 0 /\ t[i] = k
        BY <1>3, <2>1, <2>4, Zenon DEF SumsTo, Lengthened
      <3> QED
        BY <2>2, <3>1, <3>2, Zenon
    <2> QED
      BY <2>3, <2>4, Zenon
  <1>6. SumsTo(t, 0, new, o + k)
    BY <1>4, <1>5, Zenon DEF SumsTo
  <1> QED
    BY <1>2, <1>6, Zenon

-----------------------------------------------------------------------------
(* tx_out_, in every step.                                                   *)

\* The lengths of some callbacks.
LEMMA LensType ==
    ASSUME NEW N \in Nat \ {0}, NEW b \in BufferOf(N, TxEntry)
    PROVE  /\ Items(b) \in Seq(TxEntry) /\ Len(Items(b)) = b.used_
           /\ Lens(Items(b)) \in Seq(Nat) /\ Len(Lens(Items(b))) = b.used_
           /\ \A i \in 1 .. b.used_ : Lens(Items(b))[i] = Items(b)[i].len
  <1>1. PICK s \in Seq(TxEntry) : s = Items(b) /\ Len(s) = b.used_
    BY ItemsType, Zenon
  <1>2. Len(s) \in Nat /\ \A i \in 1 .. Len(s) : s[i].len \in Nat
    <2>1. Len(s) \in Nat /\ \A i \in 1 .. Len(s) : s[i] \in TxEntry
      BY LenProperties, ElementOfSeq, Zenon
    <2> QED
      BY <2>1, Zenon DEF TxEntry
  <1>3. Lens(s) \in [1 .. Len(s) -> Nat]
    BY <1>2, Zenon DEF Lens
  <1>4. Lens(s) \in Seq(Nat) /\ Len(Lens(s)) = Len(s)
    BY <1>2, <1>3
  <1>5. \A i \in 1 .. Len(s) : Lens(s)[i] = s[i].len
    BY Zenon DEF Lens
  <1> QED
    BY <1>1, <1>4, <1>5, Zenon

\* A generator whose writing is not concerned.
LEMMA TxOther ==
    ASSUME TxInv, setup' = setup, NEW g \in Gens,
           tx_cbs_'[g] = tx_cbs_[g], tx_out_'[g] = tx_out_[g], wbuf_'[g] = wbuf_[g],
           TxPassed(g)' = TxPassed(g), TxLeft(g)' = TxLeft(g)
    PROVE  TxOf(g)'
  BY Zenon DEF TxInv, TxOf

\* A step that writes nothing.
LEMMA TxQuiet ==
    ASSUME TxInv, setup' = setup, UNCHANGED <<tx_cbs_, tx_out_, wbuf_>>,
           UNCHANGED <<at, gen, drop, nbytes>> \/ (at # "tx_callbacks" /\ at' # "tx_callbacks")
    PROVE  TxInv'
  <1>1. Gens' = Gens
    BY SetupStays, Zenon
  <1>2. \A g \in Gens : TxPassed(g)' = TxPassed(g) /\ TxLeft(g)' = TxLeft(g)
    BY Zenon DEF TxPassed, TxLeft
  <1>3. \A g \in Gens : TxOf(g)'
    BY <1>2, TxOther, Zenon
  <1> QED
    BY <1>1, <1>3, Zenon DEF TxInv

\* The step leaves the writing of all generators but g alone.
OnlyOn(g) ==
    \A h \in Gens : h # g =>
        tx_cbs_'[h] = tx_cbs_[h] /\ tx_out_'[h] = tx_out_[h] /\ wbuf_'[h] = wbuf_[h]

\* A step on the current generator, or one that makes g the current one.
LEMMA TxOnOne ==
    ASSUME TxInv, setup' = setup, NEW g \in Gens, OnlyOn(g), tx_out_' \in [Gens -> Nat], TxOf(g)',
           gen' = g, gen = g \/ at # "tx_callbacks"
    PROVE  TxInv'
  <1>1. Gens' = Gens
    BY SetupStays, Zenon
  <1>2. ASSUME NEW h \in Gens, h # g
        PROVE  TxOf(h)'
    <2>1. TxPassed(h)' = TxPassed(h) /\ TxLeft(h)' = TxLeft(h)
      BY <1>2, Zenon DEF TxPassed, TxLeft
    <2>2. tx_cbs_'[h] = tx_cbs_[h] /\ tx_out_'[h] = tx_out_[h] /\ wbuf_'[h] = wbuf_[h]
      BY <1>2, Zenon DEF OnlyOn
    <2> QED
      BY <2>1, <2>2, TxOther, Zenon
  <1>3. \A h \in Gens : TxOf(h)'
    BY <1>2, Zenon
  <1> QED
    BY <1>1, <1>3, Zenon DEF TxInv

\* The bytes that tx() has written wait for the callbacks.
LEMMA TxTx ==
    ASSUME ControlInv, NetInv, BufInv, LoopInv, TxInv, Tx
    PROVE  TxInv'
  <1> DEFINE n == Min({wbuf_[gen].used_, setup.room - Len(net[gen].up)})
  <1>1. at = "tx" /\ gen \in Gens /\ UNCHANGED <<setup, gen, tx_cbs_, tx_out_, drop>>
    BY Zenon DEF Tx, On, ControlInv
  <1>2. \/ at' \in {"put", "read"} /\ UNCHANGED wbuf_
        \/ /\ at' = "tx_callbacks" /\ n > 0 /\ nbytes' = n
           /\ wbuf_' = [wbuf_ EXCEPT ![gen] = Drop(wbuf_[gen], n)]
    BY Zenon DEF Tx, ReturnTx
  <1>3. CASE at' \in {"put", "read"} /\ UNCHANGED wbuf_
    BY <1>1, <1>3, TxQuiet, Zenon
  <1>4. CASE /\ at' = "tx_callbacks" /\ n > 0 /\ nbytes' = n
             /\ wbuf_' = [wbuf_ EXCEPT ![gen] = Drop(wbuf_[gen], n)]
    <2>1. n \in 1 .. wbuf_[gen].used_
      BY <1>4, TxBytes, Zenon
    <2> HIDE DEF n
    <2>2. wbuf_[gen].used_ \in Nat /\ wbuf_[gen] \in BufferOf(setup.wbuf, Byte) /\ setup.wbuf \in Nat \ {0}
      BY <1>1, UsedFacts, GenFacts, Zenon
    <2>3. n \in 0 .. wbuf_[gen].used_ /\ n \in Nat
      BY <2>1, <2>2, SMT
    <2>4. wbuf_'[gen].used_ = wbuf_[gen].used_ - n
      <3>1. wbuf_'[gen] = Drop(wbuf_[gen], n)
        BY <1>1, <1>4, Zenon DEF BufInv
      <3>2. Drop(wbuf_[gen], n).used_ = wbuf_[gen].used_ - n
        BY <2>2, <2>3, Dropped, Zenon
      <3> QED
        BY <3>1, <3>2, Zenon
    <2>5. wbuf_'[gen].used_ + n = wbuf_[gen].used_ + 0
      BY <2>2, <2>3, <2>4, SMT
    <2>6. PICK g \in Gens : g = gen
      BY <1>1, Zenon
    <2>7. TxPassed(g) = 0 /\ TxLeft(g) = 0 /\ TxPassed(g)' = 0 /\ TxLeft(g)' = n
      BY <1>1, <1>4, <2>6, Zenon DEF TxPassed, TxLeft, LoopInv
    <2>8. TxOf(g)'
      BY <1>1, <2>5, <2>6, <2>7, Zenon DEF TxOf, TxInv
    <2>9. OnlyOn(g)
      BY <1>1, <1>4, <2>6, Zenon DEF OnlyOn, BufInv
    <2>10. tx_out_' \in [Gens -> Nat] /\ gen' = g
      BY <1>1, <2>6, Zenon DEF TxInv
    <2> QED
      BY <1>1, <2>6, <2>8, <2>9, <2>10, TxOnOne, Zenon
  <1> QED
    BY <1>2, <1>3, <1>4, Zenon

\* There is a length for each callback.
LEMMA LensOf ==
    ASSUME NEW s, NEW l \in Nat, Len(s) = l
    PROVE  Len(Lens(s)) = l /\ \A i \in 1 .. l : Lens(s)[i] = s[i].len
  <1>1. Lens(s) = [i \in 1 .. l |-> s[i].len]
    BY Zenon DEF Lens
  <1>2. Len([i \in 1 .. l |-> s[i].len]) = l
    OBVIOUS
  <1> QED
    BY <1>1, <1>2, Zenon

\* What remains of the callbacks when one waits for n bytes less.
LEMMA LensShortened ==
    ASSUME NEW s \in Seq(TxEntry), NEW d \in 0 .. Len(s) - 1, NEW n \in Nat, NEW x \in TxEntry,
           x.len = s[d + 1].len - n, s[d + 1].len > n
    PROVE  Shortened(Lens(s), d, n, Lens(SubSeq([s EXCEPT ![d + 1] = x], d + 1, Len(s))))
  <1>1. PICK l \in Nat : l = Len(s)
    BY LenProperties, Zenon
  <1>2. d \in 0 .. l - 1
    BY <1>1, Zenon
  <1>3. d + 1 \in 1 .. l /\ d \in Nat
    BY <1>2, SMT
  <1>4. PICK e : e = [s EXCEPT ![d + 1] = x]
    BY Zenon
  <1>5. e \in Seq(TxEntry) /\ Len(e) = l
    <2>1. s \in [1 .. l -> TxEntry]
      BY <1>1, LenProperties, Zenon
    <2>2. e \in [1 .. l -> TxEntry]
      BY <1>3, <1>4, <2>1, Zenon
    <2> HIDE <1>4
    <2> QED
      BY <2>2
  <1>6. \A i \in 1 .. l : e[i] = IF i = d + 1 THEN x ELSE s[i]
    BY <1>1, <1>4, LenProperties, Zenon
  <1>7. PICK t : t = SubSeq(e, d + 1, l)
    BY Zenon
  <1>8. Len(t) = l - d /\ \A i \in 1 .. l - d : t[i] = e[d + i]
    BY <1>3, <1>5, <1>7
  <1>9. PICK a : a = Lens(s)
    BY Zenon
  <1>10. Len(a) = l /\ \A i \in 1 .. l : a[i] = s[i].len
    BY <1>1, <1>9, LensOf, Zenon
  <1>11. PICK c : c = Lens(t)
    BY Zenon
  <1>12. Len(c) = l - d /\ \A i \in 1 .. l - d : c[i] = t[i].len
    <2>1. l - d \in Nat
      BY <1>2, SMT
    <2> QED
      BY <1>8, <1>11, <2>1, LensOf, Zenon
  <1>13. ASSUME NEW i \in 1 .. l - d
         PROVE  c[i] = IF i = 1 THEN a[d + 1] - n ELSE a[d + i]
    <2>1. d + i \in 1 .. l /\ (i = 1 <=> d + i = d + 1)
      BY <1>2, SMT
    <2>2. c[i] = (IF d + i = d + 1 THEN x ELSE s[d + i]).len
      BY <1>6, <1>8, <1>12, <2>1, Zenon
    <2> QED
      BY <1>3, <1>10, <2>1, <2>2, Zenon
  <1>14. a[d + 1] > n
    BY <1>3, <1>10, Zenon
  <1>15. Shortened(a, d, n, c)
    BY <1>10, <1>12, <1>13, <1>14, Zenon DEF Shortened
  <1> QED
    BY <1>1, <1>4, <1>7, <1>9, <1>11, <1>15, Zenon

\* The callbacks count as they are made, and what they do not take is left to the next.
LEMMA TxCallbackTx ==
    ASSUME ControlInv, BufInv, LoopInv, TxInv, TxCallback
    PROVE  TxInv'
  <1>1. PICK g \in Gens : g = gen
    BY Zenon DEF ControlInv
  <1>2. at = "tx_callbacks" /\ setup' = setup /\ gen' = g /\ UNCHANGED wbuf_
    BY <1>1, Zenon DEF TxCallback, On
  <1>3. PICK N \in Nat \ {0} : N = setup.queue /\ tx_cbs_[g] \in BufferOf(N, TxEntry)
    BY GenFacts, Zenon
  <1>4. PICK cbs \in BufferOf(N, TxEntry) : N = setup.queue /\ cbs = tx_cbs_[g]
    BY <1>3, Zenon
  <1>5. PICK d \in Nat, n \in Nat : d = drop /\ n = nbytes /\ d <= Len(Slots(cbs))
    BY <1>1, <1>2, <1>4, Zenon DEF LoopInv
  <1>6. PICK o \in Nat, w \in Nat : o = tx_out_[g] /\ w = wbuf_[g].used_
    BY UsedFacts, Zenon DEF TxInv
  <1>7. TxPassed(g) = d /\ TxLeft(g) = n
    BY <1>1, <1>2, <1>5, Zenon DEF TxPassed, TxLeft
  <1>8. PICK s \in Seq(Nat) : s = Lens(Items(cbs)) /\ Len(s) = cbs.used_
    BY LensType, Zenon
  <1>9. PICK sum \in [0 .. N -> Nat] : SumsTo(s, d, sum, o)
    BY <1>4, <1>6, <1>7, <1>8, Zenon DEF TxInv, TxOf
  <1>10. cbs.used_ < N => o <= w + n
    BY <1>4, <1>6, <1>7, Zenon DEF TxInv, TxOf
  <1>11. cbs.used_ \in Nat /\ cbs.used_ <= N
    BY <1>4, UsedFacts, Zenon
  <1>12. ASSUME ~AtEnd(cbs)
         PROVE  /\ d \in 0 .. Len(s) - 1 /\ Len(s) <= N /\ d # Len(Slots(cbs))
                /\ Current(cbs) = Slots(cbs)[d + 1]
                /\ cbs.buf_[Current(cbs)] \in TxEntry /\ cbs.buf_[Current(cbs)] = Items(cbs)[d + 1]
                /\ cbs.buf_[Current(cbs)].len = s[d + 1] /\ cbs.used_ < N
    <2>1. /\ d + 1 \in 1 .. cbs.used_ /\ cbs.used_ < N /\ d # Len(Slots(cbs))
          /\ Current(cbs) = Slots(cbs)[d + 1]
          /\ cbs.buf_[Current(cbs)] \in TxEntry /\ cbs.buf_[Current(cbs)] = Items(cbs)[d + 1]
      BY <1>5, <1>12, AtCurrent, Zenon
    <2>2. s[d + 1] = Items(cbs)[d + 1].len
      BY <1>8, <2>1, LensType, Zenon
    <2>3. d \in 0 .. cbs.used_ - 1
      BY <1>11, <2>1, SMT
    <2> QED
      BY <1>8, <1>11, <2>1, <2>2, <2>3, Zenon
  <1>13. CASE TxDone(gen) /\ UNCHANGED at
    <2> DEFINE len == cbs.buf_[Current(cbs)].len
    <2>1. /\ ~AtEnd(cbs) /\ len <= nbytes /\ nbytes' = nbytes - len /\ drop' = drop + 1
          /\ UNCHANGED tx_cbs_ /\ tx_out_' = [tx_out_ EXCEPT ![gen] = @ - len]
      BY <1>1, <1>4, <1>13, Zenon DEF TxDone
    <2>2. len = s[d + 1] /\ d \in 0 .. Len(s) - 1 /\ Len(s) <= N
      BY <1>12, <2>1, Zenon
    <2>3. SumsTo(s, d + 1, sum, o - s[d + 1]) /\ o - s[d + 1] \in Nat
      BY <1>9, <2>2, SumDone, Zenon
    <2>4. tx_out_' = [tx_out_ EXCEPT ![g] = o - s[d + 1]] /\ nbytes' = n - s[d + 1] /\ drop' = d + 1
      BY <1>1, <1>5, <1>6, <2>1, <2>2, Zenon
    <2>5. tx_out_' \in [Gens -> Nat] /\ tx_out_'[g] = o - s[d + 1]
      BY <2>3, <2>4, Zenon DEF TxInv
    <2>6. TxPassed(g)' = d + 1 /\ TxLeft(g)' = n - s[d + 1]
      BY <1>2, <1>13, <2>4, Zenon DEF TxPassed, TxLeft
    <2>7. o - s[d + 1] <= w + (n - s[d + 1])
      <3>1. PICK k \in Nat : k = s[d + 1]
        <4>1. cbs.buf_[Current(cbs)] \in TxEntry
          BY <1>12, <2>1, Zenon
        <4> QED
          BY <2>2, <4>1, Zenon DEF TxEntry
      <3>2. o <= w + n
        BY <1>10, <1>12, <2>1, Zenon
      <3>3. o - k <= w + (n - k)
        BY <3>2, SMT
      <3> QED
        BY <3>1, <3>3, Zenon
    <2>8. TxOf(g)'
      BY <1>2, <1>4, <1>6, <1>8, <2>1, <2>3, <2>5, <2>6, <2>7, Zenon DEF TxOf
    <2>9. OnlyOn(g)
      BY <1>2, <2>1, <2>4, Zenon DEF OnlyOn, TxInv
    <2> QED
      BY <1>1, <1>2, <2>5, <2>8, <2>9, TxOnOne, Zenon
  <1>14. CASE TxWaits(gen) /\ EndLoop /\ at' = "tx"
    <2> DEFINE tx == cbs.buf_[Current(cbs)]
               x == [len |-> tx.len - nbytes, cbdata |-> tx.cbdata]
               c == Drop(SetSlot(cbs, Current(cbs), x), d)
    <2>1. /\ ~AtEnd(cbs) /\ tx.len > n /\ tx_out_' = [tx_out_ EXCEPT ![g] = o - n]
          /\ tx_cbs_' = [tx_cbs_ EXCEPT ![g] = c]
      BY <1>1, <1>4, <1>5, <1>6, <1>14, Zenon DEF TxWaits
    <2>2. /\ d \in 0 .. Len(s) - 1 /\ Len(s) <= N /\ d # Len(Slots(cbs)) /\ cbs.used_ < N
          /\ Current(cbs) = Slots(cbs)[d + 1] /\ tx \in TxEntry /\ tx = Items(cbs)[d + 1]
      BY <1>12, <2>1, Zenon
    <2>3. x \in TxEntry /\ x.len = Items(cbs)[d + 1].len - n
      <3>1. tx.len \in Nat /\ tx.cbdata \in Slot
        BY <2>2, Zenon DEF TxEntry
      <3>2. \A k \in Nat : k > n => k - n \in Nat
        BY SMT
      <3>3. tx.len - nbytes \in Nat
        BY <1>5, <2>1, <3>1, <3>2, Zenon
      <3> QED
        BY <1>5, <2>2, <3>1, <3>3, Zenon DEF TxEntry
    <2> HIDE DEF x, tx
    <2>4. /\ c \in BufferOf(N, TxEntry) /\ c.used_ = cbs.used_ - d
          /\ Items(c) = SubSeq([Items(cbs) EXCEPT ![d + 1] = x], d + 1, cbs.used_)
      <3>1. c = Drop(SetSlot(cbs, Slots(cbs)[d + 1], x), d)
        BY <2>2, Zenon
      <3>2. PICK y \in TxEntry : y = x
        BY <2>3, Zenon
      <3>3. /\ Drop(SetSlot(cbs, Slots(cbs)[d + 1], y), d) \in BufferOf(N, TxEntry)
            /\ Drop(SetSlot(cbs, Slots(cbs)[d + 1], y), d).used_ = cbs.used_ - d
            /\ Items(Drop(SetSlot(cbs, Slots(cbs)[d + 1], y), d))
                 = SubSeq([Items(cbs) EXCEPT ![d + 1] = y], d + 1, cbs.used_)
        BY <1>5, <2>2, AtLoopStop
      <3> HIDE DEF c
      <3> QED
        BY <3>1, <3>2, <3>3, Zenon
    <2> HIDE DEF c
    <2>5. PICK t \in Seq(Nat) : t = Lens(Items(c))
      BY <2>4, LensType, Zenon
    <2>6. Shortened(s, d, n, t)
      <3>1. Items(cbs) \in Seq(TxEntry) /\ Len(Items(cbs)) = cbs.used_
        BY LensType, Zenon
      <3>2. d \in 0 .. Len(Items(cbs)) - 1
        BY <1>8, <2>2, <3>1, Zenon
      <3>3. Items(cbs)[d + 1].len > n
        BY <2>1, <2>2, Zenon
      <3>4. Shortened(Lens(Items(cbs)), d, n,
                      Lens(SubSeq([Items(cbs) EXCEPT ![d + 1] = x], d + 1, Len(Items(cbs)))))
        BY <2>3, <3>1, <3>2, <3>3, LensShortened, Zenon
      <3> QED
        BY <1>8, <2>4, <2>5, <3>1, <3>4, Zenon
    <2>7. o - n \in Nat /\ \E new \in [0 .. N -> Nat] : SumsTo(t, 0, new, o - n)
      BY <1>9, <2>2, <2>6, SumWaits, Zenon
    <2>8. o - n <= w + 0
      <3>1. o <= w + n
        BY <1>10, <2>2, Zenon
      <3> QED
        BY <3>1, SMT
    <2>9. tx_out_' \in [Gens -> Nat] /\ tx_out_'[g] = o - n /\ tx_cbs_'[g] = c
      BY <2>1, <2>7, Zenon DEF TxInv, BufInv
    <2>10. TxPassed(g)' = 0 /\ TxLeft(g)' = 0
      BY <1>14, Zenon DEF TxPassed, TxLeft
    <2>11. TxOf(g)'
      BY <1>2, <1>4, <1>6, <2>5, <2>7, <2>8, <2>9, <2>10, Zenon DEF TxOf
    <2>12. OnlyOn(g)
      BY <1>2, <2>1, Zenon DEF OnlyOn, TxInv, BufInv
    <2> QED
      BY <1>1, <1>2, <2>9, <2>11, <2>12, TxOnOne, Zenon
  <1>15. CASE AtEnd(cbs) /\ at' = "tx" /\ UNCHANGED tx_out_ /\ tx_cbs_' = [tx_cbs_ EXCEPT ![gen] = Drop(cbs, drop)]
    <2> DEFINE c == Drop(cbs, d)
    <2>1. tx_cbs_'[g] = c
      BY <1>1, <1>5, <1>15, Zenon DEF BufInv
    <2>2. c \in BufferOf(N, TxEntry) /\ c.used_ = cbs.used_ - d
      BY <1>5, AtLoopEnd
    <2>3. d = Len(Slots(cbs)) /\ d = IF cbs.used_ < N THEN cbs.used_ ELSE 0
      BY <1>5, <1>15, LoopSlots, Zenon DEF AtEnd
    <2>4. TxPassed(g)' = 0 /\ TxLeft(g)' = 0
      BY <1>15, Zenon DEF TxPassed, TxLeft
    <2>5. TxOf(g)'
      <3>1. CASE cbs.used_ < N
        <4>1. c.used_ = 0 /\ d = Len(s)
          BY <1>8, <1>11, <2>2, <2>3, <3>1, SMT
        <4>2. o = 0
          BY <1>9, <4>1, Zenon DEF SumsTo
        <4> HIDE DEF c
        <4>3. PICK t \in Seq(Nat) : t = Lens(Items(c)) /\ Len(t) = 0
          BY <2>2, <4>1, LensType, Zenon
        <4>4. \E new \in [0 .. N -> Nat] : SumsTo(t, 0, new, 0)
          BY <4>3, SumNone, Zenon
        <4>5. 0 <= w + 0
          BY SMT
        <4> QED
          BY <1>2, <1>4, <1>6, <1>15, <2>1, <2>4, <4>2, <4>3, <4>4, <4>5, Zenon DEF TxOf
      <3>2. CASE ~(cbs.used_ < N)
        <4>1. d = 0 /\ c = cbs
          BY <2>3, <3>2, Zenon DEF Drop
        <4> QED
          BY <1>2, <1>4, <1>6, <1>8, <1>9, <1>15, <2>1, <2>4, <3>2, <4>1, Zenon DEF TxOf
      <3> QED
        BY <3>1, <3>2, Zenon
    <2>6. OnlyOn(g)
      BY <1>1, <1>2, <1>15, Zenon DEF OnlyOn, BufInv
    <2>7. tx_out_' \in [Gens -> Nat]
      BY <1>15, Zenon DEF TxInv
    <2> QED
      BY <1>1, <1>2, <2>5, <2>6, <2>7, TxOnOne, Zenon
  <1> QED
    BY <1>1, <1>4, <1>13, <1>14, <1>15, Zenon DEF TxCallback


\* One callback more.
LEMMA LensAppend ==
    ASSUME NEW s \in Seq(TxEntry), NEW x \in TxEntry
    PROVE  Lengthened(Lens(s), x.len, Lens(s \o <<x>>))
  <1>1. PICK l \in Nat : l = Len(s)
    BY LenProperties, Zenon
  <1>2. /\ Len(s \o <<x>>) = l + 1
        /\ \A i \in 1 .. l + 1 : (s \o <<x>>)[i] = IF i <= l THEN s[i] ELSE x
    BY <1>1, SMT
  <1>3. /\ Len(Lens(s)) = l /\ \A i \in 1 .. l : Lens(s)[i] = s[i].len
    BY <1>1, LensOf, Zenon
  <1>4. l + 1 \in Nat /\ \A i \in 1 .. l + 1 : i <= l => i \in 1 .. l
    BY SMT
  <1> DEFINE t == s \o <<x>>
  <1>5. Len(t) = l + 1 /\ \A i \in 1 .. l + 1 : t[i] = IF i <= l THEN s[i] ELSE x
    BY <1>2, Zenon
  <1> HIDE DEF t
  <1>6. Len(Lens(t)) = l + 1 /\ \A i \in 1 .. l + 1 : Lens(t)[i] = t[i].len
    BY <1>4, <1>5, LensOf, Zenon
  <1>7. \A i \in 1 .. l + 1 : Lens(t)[i] = IF i <= l THEN Lens(s)[i] ELSE x.len
    BY <1>3, <1>4, <1>5, <1>6, Zenon
  <1>8. Lengthened(Lens(s), x.len, Lens(t))
    BY <1>3, <1>6, <1>7, Zenon DEF Lengthened
  <1> QED
    BY <1>8, Zenon DEF t

\* A request counts with all that is in front of it.
LEMMA SendTx ==
    ASSUME ControlInv, BufInv, LoopInv, TxInv, SendRequest
    PROVE  TxInv'
  <1>1. call = "none" /\ at = "none" /\ setup' = setup /\ UNCHANGED locals
    BY Zenon DEF SendRequest, In, ControlInv
  <1>2. CASE UNCHANGED <<place, wbuf_, tx_cbs_, tx_out_>>
    BY <1>1, <1>2, TxQuiet, Zenon DEF place, locals
  <1>3. CASE \E g \in Gens, request \in Request, tx \in TxEntry : Sends(g, request, tx)
    <2>1. PICK g \in Gens, request \in Request, tx \in TxEntry : Sends(g, request, tx)
      BY <1>3, Zenon
    <2>2. PICK N \in Nat \ {0} : N = setup.queue /\ tx_cbs_[g] \in BufferOf(N, TxEntry)
      BY GenFacts, Zenon
    <2>3. PICK cbs \in BufferOf(N, TxEntry) : N = setup.queue /\ cbs = tx_cbs_[g]
      BY <2>2, Zenon
    <2>4. PICK c \in BufferOf(N, TxEntry) :
             c = QueueEmplace(cbs, tx) /\ c.used_ = cbs.used_ + 1 /\ Items(c) = Items(cbs) \o <<tx>>
      <3>1. CanQueue(cbs, 1)
        BY <2>1, <2>3, Zenon DEF Sends
      <3>2. /\ QueueEmplace(cbs, tx) \in BufferOf(N, TxEntry)
            /\ QueueEmplace(cbs, tx).used_ = cbs.used_ + 1
            /\ Items(QueueEmplace(cbs, tx)) = Items(cbs) \o <<tx>>
        BY <3>1, Emplaced
      <3> QED
        BY <3>2, Zenon
    <2>5. PICK o \in Nat, k \in Nat : o = tx_out_[g] /\ k = tx.len
      BY Zenon DEF TxInv, TxEntry
    <2>6. TxPassed(g) = 0
      BY <1>1, Zenon DEF TxPassed
    <2>7. PICK s \in Seq(Nat) : s = Lens(Items(cbs)) /\ Len(s) = cbs.used_
      BY LensType, Zenon
    <2>8. PICK t \in Seq(Nat) : t = Lens(Items(c)) /\ Len(t) = c.used_
      BY LensType, Zenon
    <2>9. Lengthened(s, k, t)
      <3>1. Items(cbs) \in Seq(TxEntry)
        BY LensType, Zenon
      <3>2. Lengthened(Lens(Items(cbs)), tx.len, Lens(Items(cbs) \o <<tx>>))
        BY <3>1, LensAppend, Zenon
      <3> QED
        BY <2>4, <2>5, <2>7, <2>8, <3>2, Zenon
    <2>10. Len(s) + 1 <= N
      <3>1. c.used_ \in 0 .. N
        BY Fields, Zenon
      <3>2. c.used_ <= N
        BY <3>1, SMT
      <3> QED
        BY <2>4, <2>7, <3>2, Zenon
    <2>11. PICK sum \in [0 .. N -> Nat] : SumsTo(s, 0, sum, o)
      BY <2>3, <2>5, <2>6, <2>7, Zenon DEF TxInv, TxOf
    <2>12. \E new \in [0 .. N -> Nat] : SumsTo(t, 0, new, o + k)
      BY <2>9, <2>10, <2>11, SumAppend, Zenon
    <2>13. tx_cbs_'[g] = c /\ tx_cbs_' = [tx_cbs_ EXCEPT ![g] = c]
      BY <2>1, <2>3, <2>4, Zenon DEF Sends, BufInv
    <2>14. o + k \in Nat
      BY SMT
    <2>15. tx_out_' = [tx_out_ EXCEPT ![g] = o + k] /\ tx_out_' \in [Gens -> Nat] /\ tx_out_'[g] = o + k
      BY <2>1, <2>5, <2>14, Zenon DEF Sends, TxInv
    <2>16. wbuf_'[g].used_ = o + k
      BY <2>1, <2>5, Zenon DEF Sends, BufInv
    <2>17. gen' = g /\ at' # "tx_callbacks"
      BY <2>1, Zenon DEF Sends
    <2>18. TxPassed(g)' = 0 /\ TxLeft(g)' = 0
      BY <2>17, Zenon DEF TxPassed, TxLeft
    <2>19. o + k <= (o + k) + 0
      BY SMT
    <2>20. TxOf(g)'
      BY <1>1, <2>3, <2>8, <2>12, <2>13, <2>15, <2>16, <2>18, <2>19, Zenon DEF TxOf
    <2>21. OnlyOn(g)
      BY <2>1, <2>13, <2>15, Zenon DEF OnlyOn, Sends, TxInv, BufInv
    <2> QED
      BY <1>1, <2>15, <2>17, <2>20, <2>21, TxOnOne, Zenon
  <1> QED
    BY <1>2, <1>3, SendCases, Zenon

\* Every step of the client keeps the accounts of the unwritten bytes: what tx_cbs_ waits
\* for is what wbuf_ holds.
LEMMA TxStep ==
    ASSUME ControlInv, NetInv, BufInv, LoopInv, TxInv, [Next]_vars
    PROVE  TxInv'
  <1>1. setup' = setup
    BY SetupSame, Zenon
  <1>2. CASE UNCHANGED <<place, locals, txside>>
    BY <1>1, <1>2, TxQuiet, Zenon DEF place, locals, txside
  <1>3. CASE UNCHANGED <<tx_cbs_, tx_out_, wbuf_>> /\ at # "tx_callbacks" /\ at' # "tx_callbacks"
    BY <1>1, <1>3, TxQuiet, Zenon
  <1>4. CASE SendRequest \/ Tx \/ TxCallback
    BY <1>4, SendTx, TxTx, TxCallbackTx, Zenon
  <1>5. CASE HandleEvent
    <2>1. at = "none" /\ UNCHANGED <<tx_cbs_, tx_out_, wbuf_>>
      BY <1>5, Zenon DEF HandleEvent, In, ControlInv
    <2>2. at' # "tx_callbacks"
      BY <1>5, <2>1, Zenon DEF HandleEvent, RunIO, place
    <2> QED
      BY <1>3, <2>1, <2>2, Zenon
  <1>6. CASE Read \/ Rx \/ EndRunIO \/ EndSendRequest
    BY <1>3, <1>6, Zenon DEF Read, Rx, ReturnRx, EndRunIO, EndSendRequest, Leave, On, txside, sockets
  <1>7. CASE RxCallback
    BY <1>3, <1>7, Zenon DEF RxCallback, RxHeader, On, txside
  <1> QED
    BY <1>2, <1>4, <1>5, <1>6, <1>7, Zenon DEF Next, Run, Ended, vars, sockets, EpollWait,
       ReadClock, Sleep, Tick, Peer, Connect, Serve, Deliver

-----------------------------------------------------------------------------
(* The inductive invariant and what follows from it.                         *)

\* Each of its parts needs those before it.
Inv ==
    /\ ControlInv /\ NetInv /\ BufInv /\ LoopInv /\ TxInv /\ CountInv /\ RefInv /\ RxInv
    /\ QuietUnlessBodies

\* The sockets of setup_experiment are empty.
LEMMA BufInit ==
    ASSUME Init
    PROVE  /\ BufInv /\ \A g \in Gens : /\ requests_[g].used_ = 0 /\ rx_cbs_[g].used_ = 0
                                        /\ tx_cbs_[g].used_ = 0
  <1>1. setup \in Setups
    BY Zenon DEF Init
  <1>2. setup.queue \in Nat \ {0} /\ setup.rbuf \in Nat \ {0} /\ setup.wbuf \in Nat \ {0}
    BY <1>1, SetupFacts, Zenon
  <1>3. NoRequest \in Request /\ NoRx \in RxEntry /\ NoTx \in TxEntry /\ Junk \in Byte
    <2>1. 0 \in Nat /\ 0 \in Slot
      BY <1>2, SMT DEF Slot
    <2> QED
      BY <2>1, Zenon DEF NoRequest, NoRx, NoTx, Junk, Request, RxEntry, TxEntry, Byte
  <1>4. /\ NewBuffer(setup.queue, NoRequest) \in BufferOf(setup.queue, Request)
        /\ NewBuffer(setup.queue, NoRequest).used_ = 0
    BY <1>2, <1>3, NewIsBuffer, Zenon
  <1>5. /\ NewBuffer(setup.queue, NoRx) \in BufferOf(setup.queue, RxEntry)
        /\ NewBuffer(setup.queue, NoRx).used_ = 0
    BY <1>2, <1>3, NewIsBuffer, Zenon
  <1>6. /\ NewBuffer(setup.queue, NoTx) \in BufferOf(setup.queue, TxEntry)
        /\ NewBuffer(setup.queue, NoTx).used_ = 0
    BY <1>2, <1>3, NewIsBuffer, Zenon
  <1>7. /\ NewBuffer(setup.rbuf, Junk) \in BufferOf(setup.rbuf, Byte)
        /\ NewBuffer(setup.wbuf, Junk) \in BufferOf(setup.wbuf, Byte)
    BY <1>2, <1>3, NewIsBuffer, Zenon
  <1>8. /\ requests_ = [g \in Gens |-> NewBuffer(setup.queue, NoRequest)]
        /\ rx_cbs_ = [g \in Gens |-> NewBuffer(setup.queue, NoRx)]
        /\ tx_cbs_ = [g \in Gens |-> NewBuffer(setup.queue, NoTx)]
        /\ rbuf_ = [g \in Gens |-> NewBuffer(setup.rbuf, Junk)]
        /\ wbuf_ = [g \in Gens |-> NewBuffer(setup.wbuf, Junk)]
    BY Zenon DEF Init, NewSocks
  <1> QED
    BY <1>4, <1>5, <1>6, <1>7, <1>8, Zenon DEF BufInv

\* No callback waits.
LEMMA TxInit ==
    ASSUME Init
    PROVE  TxInv
  <1>1. tx_out_ = [g \in Gens |-> 0] /\ at = "none"
    BY Zenon DEF Init, NewSocks
  <1>2. tx_out_ \in [Gens -> Nat] /\ \A g \in Gens : tx_out_[g] = 0
    <2>1. 0 \in Nat
      BY SMT
    <2> QED
      BY <1>1, <2>1, Zenon
  <1>3. ControlInv /\ BufInv
    BY ControlInit, BufInit, Zenon
  <1>4. ASSUME NEW g \in Gens
        PROVE  TxOf(g)
    <2>1. TxPassed(g) = 0 /\ TxLeft(g) = 0
      BY <1>1, Zenon DEF TxPassed, TxLeft
    <2>2. PICK N \in Nat \ {0} : N = setup.queue /\ tx_cbs_[g] \in BufferOf(N, TxEntry)
      BY <1>3, GenFacts, Zenon
    <2>3. PICK b \in BufferOf(N, TxEntry) : b = tx_cbs_[g] /\ b.used_ = 0
      BY <2>2, BufInit, Zenon
    <2>4. PICK s \in Seq(Nat) : s = Lens(Items(b)) /\ Len(s) = 0
      BY <2>3, LensType, Zenon
    <2>5. \E sum \in [0 .. N -> Nat] : SumsTo(s, 0, sum, 0)
      BY <2>4, SumNone, Zenon
    <2>6. PICK w \in Nat : w = wbuf_[g].used_
      BY <1>3, UsedFacts, Zenon
    <2>7. 0 <= w + 0
      BY SMT
    <2> QED
      BY <1>2, <2>1, <2>2, <2>3, <2>4, <2>5, <2>6, <2>7, Zenon DEF TxOf
  <1> QED
    BY <1>2, <1>4, Zenon DEF TxInv

\* setup_experiment leaves the client in a state of the invariant.
LEMMA InvInit == Init => Inv
  <1> SUFFICES ASSUME Init PROVE Inv
    OBVIOUS
  <1>1. ControlInv /\ BufInv /\ TxInv
    BY ControlInit, BufInit, TxInit, Zenon
  <1>2. /\ status = "running" /\ Running /\ at = "none" /\ call = "none" /\ events = {}
        /\ drop = 0 /\ nbytes = 0 /\ rcvd_count_ = 0 /\ measure_count_ = 0
        /\ net = [g \in Gens |-> NotConnected]
        /\ ref_cnt_ = [g \in Gens |-> IF setup.mode = "per_request" THEN 0 ELSE 1]
    BY Zenon DEF Init, NewSocks, Running
  <1>3. NetInv
    <2>1. NotConnected \in Line
      BY SMT DEF NotConnected, Line
    <2> QED
      BY <1>2, <2>1, Zenon DEF NetInv
  <1>4. LoopInv
    <2>1. 0 \in Nat
      BY SMT
    <2> QED
      BY <1>2, <2>1, Zenon DEF LoopInv
  <1>5. CountInv
    <2>1. total_samples_ \in Nat \ {0}
      BY <1>1, TotalFacts, Zenon DEF ControlInv
    <2>2. 0 \in 0 .. total_samples_ /\ 0 \in 0 .. 0 /\ 0 < total_samples_
      BY <2>1, SMT
    <2> QED
      BY <1>2, <2>2, Zenon DEF CountInv
  <1>6. \A g \in Gens : requests_[g].used_ = 0 /\ rx_cbs_[g].used_ = 0
    BY BufInit, Zenon
  <1>7. RefInv
    <2>1. ref_cnt_ \in [Gens -> Nat]
      <3>1. 0 \in Nat /\ 1 \in Nat
        BY SMT
      <3> QED
        BY <1>2, <3>1, Zenon
    <2>2. (0 + 0) + 0 = 0 /\ (1 + 0) + 0 = 1 /\ ~(0 > 0)
      BY SMT
    <2>3. ReferencesCounted
      BY <1>2, <1>6, <2>2, Zenon DEF ReferencesCounted, InCall
    <2>4. UsedIsAlive
      BY <1>2, Zenon DEF UsedIsAlive
    <2> QED
      BY <1>2, <1>6, <2>1, <2>2, <2>3, <2>4, Zenon DEF RefInv
  <1>8. RxInv
    <2>1. \A g : RxPassed(g) = 0 /\ RxPending(g) = 0
      BY <1>2, Zenon DEF RxPassed, RxPending
    <2>2. (0 - 0) + 0 = 0 /\ ~\E i \in 1 .. 0 : TRUE
      BY SMT
    <2> QED
      BY <1>6, <2>1, <2>2, Zenon DEF RxInv, RxOf
  <1>9. QuietUnlessBodies
    BY <1>2, Zenon DEF QuietUnlessBodies, TeardownIsQuiet
  <1> QED
    BY <1>1, <1>3, <1>4, <1>5, <1>7, <1>8, <1>9, Zenon DEF Inv

\* Every step of the client, of the network and of the server keeps the invariant.
LEMMA InvStep == Inv /\ [Next]_vars => Inv'
  BY ControlStep, NetStep, BufStep, LoopStep, TxStep, CountStep, RefStep, RxStep, QuietStep, Zenon DEF Inv

\* The inductive invariant holds in every reachable state of the client, for all
\* setups, packet sizes, buffer sizes and numbers of requests.
THEOREM ClientInvariant == Spec => []Inv
  BY InvInit, InvStep, PTL DEF Spec

\* Every variable keeps its type: in particular the circular buffers' indices agree
\* with their counters, and tx_out_ and ref_cnt_, which the code subtracts from,
\* never become negative.
THEOREM ClientTypes == Spec => []TypeOK
  <1>1. Inv => TypeOK
    <2> SUFFICES ASSUME Inv PROVE TypeOK
      OBVIOUS
    <2>1. \A g \in Gens : /\ WellFormed(requests_[g]) /\ WellFormed(rx_cbs_[g])
                          /\ WellFormed(tx_cbs_[g]) /\ WellFormed(rbuf_[g]) /\ WellFormed(wbuf_[g])
      BY GenFacts, Zenon DEF Inv, BufferOf
    <2>2. {due, now, sent_count_, rcvd_count_, measure_count_} \subseteq 0 .. total_samples_
      <3>1. total_samples_ \in Nat
        BY TotalFacts, Zenon DEF Inv, ControlInv
      <3>2. /\ due \in 0 .. total_samples_ /\ now \in 0 .. due /\ sent_count_ \in 0 .. total_samples_
            /\ rcvd_count_ \in 0 .. total_samples_ /\ measure_count_ \in 0 .. rcvd_count_
        BY Zenon DEF Inv, ControlInv, CountInv
      <3>3. now \in 0 .. total_samples_ /\ measure_count_ \in 0 .. total_samples_
        BY <3>1, <3>2, SMT
      <3> QED
        BY <3>2, <3>3, Zenon
    <2>3. DOMAIN net = Gens
      BY Zenon DEF Inv, NetInv
    <2> QED
      BY <2>1, <2>2, <2>3, Zenon DEF Inv, TypeOK, ControlInv, LoopInv, TxInv, CountInv, RefInv, Calls, Places
  <1> QED
    BY <1>1, ClientInvariant, PTL

\* A generator always has exactly the references that its pool, its outstanding
\* requests and the call in progress hold.
THEOREM ClientReferences == Spec => []ReferencesCounted
  <1>1. Inv => ReferencesCounted
    BY Zenon DEF Inv, RefInv
  <1> QED
    BY <1>1, ClientInvariant, PTL

\* No generator is used after its deletion: a response never gives back the last
\* reference, and no event that epoll_wait has reported outlives its generator.
THEOREM ClientAlive == Spec => []UsedIsAlive
  <1>1. Inv => UsedIsAlive
    BY Zenon DEF Inv, RefInv
  <1> QED
    BY <1>1, ClientInvariant, PTL

\* ~Sock is quiet if connections are pooled, or if responses have no bodies: only
\* a memcache client with a connection for each request can still terminate.
THEOREM ClientTeardown ==
    Spec => [](setup.proto = "synthetic" \/ setup.mode # "per_request" => TeardownIsQuiet)
  <1>1. Inv => (setup.proto = "synthetic" \/ setup.mode # "per_request" => TeardownIsQuiet)
    BY Zenon DEF Inv, QuietUnlessBodies
  <1> QED
    BY <1>1, ClientInvariant, PTL

=============================================================================
