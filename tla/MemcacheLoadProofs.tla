------------------------- MODULE MemcacheLoadProofs -------------------------
(***************************************************************************)
(* Proofs about the loader, for every number of keys, every batch and      *)
(* every notify window: LoadInv is an invariant, and AnswerDue, WindowKept *)
(* and LoadedWhenDone follow from it.                                      *)
(***************************************************************************)
EXTENDS MemcacheLoad, TLAPS

-----------------------------------------------------------------------------
(* Multiples of notify_.                                                     *)

\* A positive multiple of n is at least n.
LEMMA MultipleAtLeast ==
    ASSUME NEW n \in Nat \ {0}, NEW k \in Int, k >= 1
    PROVE  n * k >= n
  <1>1. PICK j \in Nat : k = j + 1
    BY SMT
  <1>2. n * k = n * j + n
    BY <1>1, SMT
  <1>3. n * j >= 0
    BY SMT
  <1> QED
    BY <1>2, <1>3, SMT

\* Two multiples of n less than n apart are the same.
LEMMA CloseMultiples ==
    ASSUME NEW n \in Nat \ {0}, NEW i \in Int, NEW j \in Int,
           n * i <= n * j, n * j < n * i + n
    PROVE  i = j
  <1>1. CASE j - i >= 1
    <2>1. n * (j - i) >= n
      BY <1>1, MultipleAtLeast
    <2>2. n * (j - i) = n * j - n * i
      BY SMT
    <2> QED
      BY <2>1, <2>2, SMT
  <1>2. CASE i - j >= 1
    <2>1. n * (i - j) >= n
      BY <1>2, MultipleAtLeast
    <2>2. n * (i - j) = n * i - n * j
      BY SMT
    <2> QED
      BY <2>1, <2>2, SMT
  <1> QED
    BY <1>1, <1>2, SMT

\* What % 0 means.
LEMMA ModZero ==
    ASSUME NEW n \in Nat \ {0}, NEW p \in Nat, p % n = 0
    PROVE  \E q \in Int : p = n * q
  <1>1. p \div n \in Int /\ p = n * (p \div n) + (p % n)
    BY SMT
  <1> QED
    BY <1>1, SMT

\* A multiple of n leaves no remainder: Loud's test of the request number.
LEMMA ZeroMod ==
    ASSUME NEW n \in Nat \ {0}, NEW q \in Int, n * q \in Nat
    PROVE  (n * q) % n = 0
  <1> DEFINE p == n * q
             d == p \div n
             r == p % n
  <1>1. d \in Int /\ r \in 0 .. n - 1 /\ p = n * d + r
    BY SMT
  <1>2. n * d <= n * q /\ n * q < n * d + n
    BY <1>1, SMT
  <1>3. d = q
    BY <1>1, <1>2, CloseMultiples
  <1> QED
    BY <1>1, <1>3, SMT

\* The multiple after p.
LEMMA NextMultiple ==
    ASSUME NEW n \in Nat \ {0}, NEW p \in Nat, p % n = 0
    PROVE  (p + n) % n = 0
  <1>1. PICK q \in Int : p = n * q
    BY ModZero
  <1>2. p + n = n * (q + 1) /\ q + 1 \in Int /\ p + n \in Nat
    BY <1>1, SMT
  <1>3. (n * (q + 1)) % n = 0
    BY <1>2, ZeroMod, Zenon
  <1> QED
    BY <1>2, <1>3

\* It is the first one.
LEMMA FirstMultiple ==
    ASSUME NEW n \in Nat \ {0}, NEW p \in Nat, NEW s \in Nat,
           p % n = 0, s % n = 0, p < s, s <= p + n
    PROVE  s = p + n
  <1>1. PICK i \in Int : p = n * i
    BY ModZero, Zenon
  <1>2. PICK j \in Int : s = n * j
    BY ModZero, Zenon
  <1>3. CASE s < p + n
    BY <1>1, <1>2, <1>3, CloseMultiples, SMT
  <1> QED
    BY <1>3, SMT

-----------------------------------------------------------------------------
(* The invariant.                                                            *)

\* What the assumptions say of the parameters of a run.
LEMMA Parameters ==
    ASSUME setup \in Setups
    PROVE  /\ toload_ \in Nat /\ batch_ \in Nat \ {0} /\ notify_ \in Nat \ {0}
           /\ notify_ <= batch_ /\ toload_ + batch_ < Wrap /\ Wrap \in Nat
  <1>1. setup \in [toload : Nat, batch : Nat \ {0}, notify : Nat \ {0}]
    BY LoadAssumption
  <1>2. setup.toload \in Nat /\ setup.batch \in Nat \ {0} /\ setup.notify \in Nat \ {0}
    BY <1>1
  <1> QED
    BY <1>2, LoadAssumption, SMT DEF toload_, batch_, notify_

\* Responses on their way only add to recv_.
LEMMA PromisedIsMore ==
    ASSUME TypeOK
    PROVE  /\ Promised \in Nat /\ recv_ <= Promised
           /\ answers = 0 => Promised = recv_
           /\ answers > 0 => recv_ + notify_ <= Promised
  <1>1. notify_ \in Nat \ {0} /\ recv_ \in Nat /\ answers \in Nat
    BY Parameters DEF TypeOK
  <1>2. notify_ * answers \in Nat /\ (answers = 0 => notify_ * answers = 0)
    BY <1>1, SMT
  <1>3. answers > 0 => notify_ * answers >= notify_
    BY <1>1, MultipleAtLeast, SMT
  <1> QED
    BY <1>1, <1>2, <1>3, SMT DEF Promised

\* The loader starts in LoadInv.
LEMMA LoadInit == Init => LoadInv
  <1> SUFFICES ASSUME Init PROVE LoadInv
    OBVIOUS
  <1>1. setup \in Setups
    BY DEF Init
  <1>2. TypeOK
    BY <1>1, Parameters, SMT DEF Init, TypeOK
  <1>3. Promised = 0
    BY <1>2, PromisedIsMore DEF Init
  <1>4. 0 % notify_ = 0
    BY <1>1, Parameters, SMT
  <1> QED
    BY <1>1, <1>2, <1>3, <1>4, Parameters, SMT DEF Init, LoadInv, Written

\* Every step of the loader and of the server preserves LoadInv.
LEMMA LoadStep == LoadInv /\ [Next]_vars => LoadInv'
  <1> SUFFICES ASSUME LoadInv, [Next]_vars PROVE LoadInv'
    OBVIOUS
  <1>0. /\ TypeOK /\ setup' = setup
        /\ toload_' = toload_ /\ batch_' = batch_ /\ notify_' = notify_
    BY DEF LoadInv, Next, Run, vars, SendQuiet, SendLoud, EndSend, Serve, Wait, RecvResponse,
           EndRunIO, Finish, toload_, batch_, notify_
  <1>1. /\ toload_ \in Nat /\ batch_ \in Nat \ {0} /\ notify_ \in Nat \ {0}
        /\ notify_ <= batch_ /\ toload_ + batch_ < Wrap /\ Wrap \in Nat
    BY <1>0, Parameters DEF TypeOK
  <1>2. /\ Promised \in Nat /\ recv_ <= Promised
        /\ answers > 0 => recv_ + notify_ <= Promised
    BY <1>0, PromisedIsMore
  <1>3. ASSUME UNCHANGED <<recv_, answers>> PROVE Promised' = Promised
    BY <1>0, <1>3 DEF Promised
  <1>4. CASE SendQuiet
    BY <1>0, <1>1, <1>2, <1>3, <1>4, SMT DEF SendQuiet, LoadInv, TypeOK, Written, Fills, Inc
  <1>5. CASE SendLoud
    BY <1>0, <1>1, <1>2, <1>3, <1>5, SMT DEF SendLoud, LoadInv, TypeOK, Written, Fills
  <1>6. CASE EndSend
    BY <1>0, <1>1, <1>2, <1>3, <1>6, SMT DEF EndSend, LoadInv, TypeOK, Written, Inc
  <1>7. CASE Serve
    <2>1. /\ served \in Nat /\ served < toload_ /\ served' = served + 1
          /\ Promised % notify_ = 0 /\ Promised <= served /\ served < Promised + notify_
      BY <1>1, <1>7, SMT DEF Serve, LoadInv, TypeOK, Written
    <2>2. (Promised + notify_) % notify_ = 0
      BY <1>1, <1>2, <2>1, NextMultiple, Zenon
    <2>3. CASE Loud(served + 1)
      <3>1. answers' = answers + 1 /\ recv_' = recv_ /\ recv_ \in Nat /\ answers \in Nat
        BY <1>7, <2>3 DEF Serve, LoadInv, TypeOK
      <3>2. Promised' = Promised + notify_
        BY <1>0, <1>1, <3>1, SMT DEF Promised
      <3>3. served + 1 < toload_ => served + 1 = Promised + notify_
        <4>1. ASSUME served + 1 < toload_ PROVE (served + 1) % notify_ = 0
          BY <2>1, <2>3, <4>1, <1>1, SMT DEF Loud
        <4>2. served + 1 \in Nat /\ Promised < served + 1 /\ served + 1 <= Promised + notify_
          BY <1>1, <1>2, <2>1, SMT
        <4> QED
          BY <1>1, <1>2, <2>1, <4>1, <4>2, FirstMultiple, Zenon
      <3> QED
        BY <1>0, <1>1, <1>2, <1>7, <2>1, <2>2, <3>1, <3>2, <3>3, SMT
        DEF Serve, LoadInv, TypeOK, Written, Fills
    <2>4. CASE ~Loud(served + 1)
      <3>1. answers' = answers /\ recv_' = recv_
        BY <1>7, <2>4 DEF Serve
      <3>2. served + 1 # toload_ /\ served + 1 # Promised + notify_
        BY <2>2, <2>4 DEF Loud
      <3> QED
        BY <1>0, <1>1, <1>2, <1>3, <1>7, <2>1, <3>1, <3>2, SMT
        DEF Serve, LoadInv, TypeOK, Written, Fills
    <2> QED
      BY <2>3, <2>4
  <1>8. CASE Wait
    BY <1>0, <1>1, <1>2, <1>3, <1>8, SMT DEF Wait, LoadInv, TypeOK, Written, Fills
  <1>9. CASE RecvResponse
    <2>1. /\ answers' = answers - 1 /\ recv_' = recv_ + notify_
          /\ recv_ \in Nat /\ answers \in Nat /\ answers > 0
      BY <1>9 DEF RecvResponse, LoadInv, TypeOK
    <2>2. Promised' = Promised
      BY <1>0, <1>1, <2>1, SMT DEF Promised
    <2>3. recv_ + notify_ < toload_ + notify_ /\ recv_ < toload_
      BY <1>1, <1>2, <2>1, SMT DEF LoadInv, TypeOK
    <2> QED
      BY <1>0, <1>1, <1>2, <1>9, <2>1, <2>2, <2>3, SMT
      DEF RecvResponse, LoadInv, TypeOK, Written, Fills, Dec
  <1>10. CASE EndRunIO
    BY <1>0, <1>1, <1>2, <1>3, <1>10, SMT DEF EndRunIO, LoadInv, TypeOK, Written, Fills
  <1>11. CASE Finish
    BY <1>0, <1>1, <1>2, <1>3, <1>11, SMT DEF Finish, LoadInv, TypeOK, Written, Fills
  <1>12. CASE UNCHANGED vars
    BY <1>0, <1>3, <1>12 DEF vars, LoadInv, TypeOK, Written, Fills
  <1> QED
    BY <1>4, <1>5, <1>6, <1>7, <1>8, <1>9, <1>10, <1>11, <1>12 DEF Next, Run

\* LoadInv holds throughout every run of the loader.
THEOREM LoadInvariant == Spec => []LoadInv
  <1>1. Init => LoadInv
    BY LoadInit
  <1>2. LoadInv /\ [Next]_vars => LoadInv'
    BY LoadStep
  <1> QED
    BY <1>1, <1>2, PTL DEF Spec

\* Whatever the windows, the loader never waits for a response that nobody owes it:
\* notify_ <= batch_ makes a full window hold a loud request, and the last is loud.
THEOREM NeverInVain == Spec => []AnswerDue
  <1>1. ASSUME LoadInv PROVE AnswerDue
    <2> SUFFICES ASSUME pc = "wait", answers = 0
                 PROVE  \E n \in served + 1 .. sent_ : Loud(n)
      BY <1>1, SMT DEF AnswerDue, LoadInv, TypeOK
    <2>1. /\ toload_ \in Nat /\ batch_ \in Nat \ {0} /\ notify_ \in Nat \ {0}
          /\ notify_ <= batch_
      BY <1>1, Parameters DEF LoadInv, TypeOK
    <2>2. Promised = recv_ /\ recv_ \in Nat /\ recv_ < toload_ /\ recv_ % notify_ = 0
      BY <1>1, PromisedIsMore DEF LoadInv, TypeOK
    <2>3. served \in Nat /\ served < toload_ /\ recv_ <= served /\ served < recv_ + notify_
      BY <1>1, <2>1, <2>2, SMT DEF LoadInv, TypeOK
    <2>4. served <= sent_ /\ sent_ \in Nat /\ sent_ <= toload_
      BY <1>1, <2>1, SMT DEF LoadInv, TypeOK, Written
    <2>5. CASE sent_ = toload_
      <3>1. toload_ \in served + 1 .. sent_
        BY <2>1, <2>3, <2>4, <2>5, SMT
      <3> QED
        BY <3>1 DEF Loud
    <2>6. CASE sent_ < toload_
      <3>1. onwire_ = sent_ - recv_ /\ batch_ <= onwire_
        BY <1>1, <2>1, <2>2, <2>3, <2>4, <2>6, SMT DEF LoadInv, TypeOK, Fills
      <3>2. recv_ + notify_ \in served + 1 .. sent_
        BY <2>1, <2>2, <2>3, <2>4, <3>1, SMT
      <3>3. (recv_ + notify_) % notify_ = 0
        BY <2>1, <2>2, NextMultiple, Zenon
      <3> QED
        BY <3>2, <3>3 DEF Loud
    <2> QED
      BY <2>1, <2>4, <2>5, <2>6, SMT
  <1> QED
    BY <1>1, LoadInvariant, PTL

\* The window is kept, and onwire_ is exact whenever the loop looks at it.
THEOREM WindowIsKept == Spec => []WindowKept
  <1>1. ASSUME LoadInv PROVE WindowKept
    <2>1. /\ toload_ \in Nat /\ batch_ \in Nat \ {0} /\ notify_ \in Nat \ {0}
          /\ Promised \in Nat /\ recv_ <= Promised
      BY <1>1, Parameters, PromisedIsMore DEF LoadInv, TypeOK
    <2> QED
      BY <1>1, <2>1, SMT DEF LoadInv, TypeOK, WindowKept, Written
  <1> QED
    BY <1>1, LoadInvariant, PTL

\* The loader exits only after the server has carried out all the Sets.
THEOREM ExitsLoaded == Spec => []LoadedWhenDone
  <1>1. ASSUME LoadInv PROVE LoadedWhenDone
    <2>1. /\ toload_ \in Nat /\ notify_ \in Nat \ {0}
          /\ Promised \in Nat /\ recv_ <= Promised
      BY <1>1, Parameters, PromisedIsMore DEF LoadInv, TypeOK
    <2> QED
      BY <1>1, <2>1, SMT DEF LoadInv, TypeOK, LoadedWhenDone
  <1> QED
    BY <1>1, LoadInvariant, PTL

=============================================================================
