--------------------------- MODULE SkeletonSteps ----------------------------
(* Two inductions over Skeleton's steps.  TypeOK, in every build; and the     *)
(* first half of EventLoopInv's in the builds without NETWORKDISPATCH: the    *)
(* initial state, the clients, and the steps of a thread that opens and      *)
(* closes no descriptor.                                                     *)
EXTENDS Skeleton, TLAPS

\* Without NETWORKDISPATCH the threads are the acceptors.
LEMMA NoNetThreads == ASSUME Undisturbed PROVE Threads = Acceptors
BY Zenon DEF Undisturbed, Threads, NetThreads

\* No two threads watch one descriptor, and what a thread works on is its own.
LEMMA Disjoint ==
    ASSUME TypeOK, EventLoopInv, NEW t \in Threads, NEW u \in Threads, t # u, NEW f \in monitored[t]
    PROVE  f \notin monitored[u] /\ f \in Fds /\ fdtab[f] \in Conns /\ (pc[u] \notin {"start", "loop"} => cur[u] # f)
<1>1. f \notin monitored[u] /\ f \in Fds /\ fdtab[f] \in Conns
    BY DEF TypeOK, EventLoopInv, MonitoredIsUsable
<1>2. pc[u] \notin {"start", "loop"} => cur[u] # f
    BY <1>1 DEF TypeOK, EventLoopInv, PcInv, PcValues
<1>3. QED BY Zenon, <1>1, <1>2

\* A connection is behind one descriptor.
LEMMA Injective ==
    ASSUME EventLoopInv, NEW f \in Fds, fdtab[f] \in Conns
    PROVE  \A g \in Fds : fdtab[g] = fdtab[f] => g = f
BY Zenon, ConstantsAssumption DEF EventLoopInv, OnePlace

\* The invariant holds when the server has started.
LEMMA InitInv == ASSUME Undisturbed PROVE Init => EventLoopInv
<1> SUFFICES ASSUME Init PROVE EventLoopInv
    OBVIOUS
<1>1. MonitoredIsUsable /\ FdsInv
    BY Zenon DEF Init, MonitoredIsUsable, FdsInv, Initialising, Fds
<1>2. OnePlace
    BY Zenon, ConstantsAssumption DEF Init, OnePlace, Accepted
<1>3. ASSUME NEW t \in Threads PROVE EventsInv(t) /\ IdleInv(t)
    BY Zenon DEF Init, EventsInv, IdleInv
<1>4. ASSUME NEW t \in Threads PROVE PcInv(t)
    <2>1. pc[t] = "loop"
        BY Zenon, NoNetThreads DEF Init
    <2>2. QED BY Zenon, <2>1 DEF PcInv
<1>5. QED BY Zenon, <1>1, <1>2, <1>3, <1>4 DEF EventLoopInv

\* What clients do while the server runs keeps the invariant.
LEMMA ClientInv ==
    ASSUME Undisturbed, TypeOK, EventLoopInv, NEW c \in Conns, Client(c)
    PROVE  EventLoopInv'
<1> USE DEF serverVars, kernelVars, connVars, readVars, initVars, events
<1>0. UNCHANGED <<serverVars, fdtab, monitored, taken, answered>>
    BY Zenon DEF Client, Connect, Send, Close, Abort, Resume
<1>1. \A d \in Conns : queue[d] \in Nat /\ queue'[d] \in Nat /\ queue[d] <= queue'[d]
    BY DEF TypeOK, Client, Connect, Send, Close, Abort, Resume
<1>2. MonitoredIsUsable'
    BY Zenon, <1>0 DEF EventLoopInv, MonitoredIsUsable
<1>3. OnePlace'
    <2> USE DEF EventLoopInv, OnePlace, Accepted, TypeOK
    <2>1. ASSUME NEW a \in Acceptors, Connect(c, a) PROVE OnePlace'
        <3>1. \A b \in Acceptors : c \notin backlog[b]
            BY Zenon, <2>1 DEF Connect
        <3>2. QED BY <1>0, <2>1, <3>1 DEF Connect
    <2>2. CASE Send(c) \/ Resume(c)
        BY Zenon, <1>0, <2>2 DEF Send, Resume
    <2>3. CASE Close(c)
        BY <1>0, <2>3 DEF Close
    <2>4. CASE Abort(c)
        BY <1>0, <2>4 DEF Abort
    <2>5. QED BY Zenon, <2>1, <2>2, <2>3, <2>4 DEF Client
<1>4. FdsInv'
    BY Zenon, <1>0 DEF EventLoopInv, FdsInv, Initialising
<1>5. ASSUME NEW u \in Threads PROVE EventsInv(u)'
    <2>1. EventsInv(u)
        BY Zenon DEF EventLoopInv
    <2>2. ASSUME NEW f \in Fds, f \in ins[u] PROVE fdtab[f] \in Conns
        BY <2>1, <2>2 DEF EventsInv, EventLoopInv, MonitoredIsUsable, TypeOK
    <2>3. QED BY <1>0, <1>1, <2>1, <2>2 DEF EventsInv
<1>6. ASSUME NEW u \in Threads PROVE IdleInv(u)'
    BY Zenon, <1>0 DEF EventLoopInv, IdleInv, Serving, Initialising
<1>7. ASSUME NEW u \in Threads PROVE PcInv(u)'
    BY Zenon, <1>0 DEF EventLoopInv, PcInv
<1>8. QED BY Zenon, <1>2, <1>3, <1>4, <1>5, <1>6, <1>7 DEF EventLoopInv


\* The locals of a thread that another thread's step does not touch.
Asleep(u) ==
    /\ pc'[u] = pc[u] /\ hups'[u] = hups[u] /\ ins'[u] = ins[u] /\ cur'[u] = cur[u]
    /\ target'[u] = target[u] /\ bytes_read'[u] = bytes_read[u] /\ old_idx'[u] = old_idx[u]
    /\ left'[u] = left[u] /\ owner'[u] = owner[u]

\* A step of thread t that keeps what is open, watched and recorded in the
\* TCPConns' descriptors, leaves the other threads' locals alone, and changes
\* data only of the connections that t watches.
OwnStep(t) ==
    /\ UNCHANGED <<peer, fdtab, monitored, backlog, epoll_fd_, socket_fd_>>
    /\ \A u \in Threads \ {t} : Asleep(u)
    /\ \A g \in Fds \ monitored[t] : read_idx_'[g] = read_idx_[g]
    /\ \A c \in Conns : (\A g \in monitored[t] : fdtab[g] # c) =>
          queue'[c] = queue[c] /\ taken'[c] = taken[c] /\ answered'[c] = answered[c]
    /\ \A f \in Fds : Initialising(t, f) => f \in monitored[t]
    /\ pc'[t] \notin {"assign", "register", "reset"}

\* Which sets the state that a serving step changes is indexed by.
Shape ==
    /\ pc = [u \in Threads |-> pc[u]] /\ cur = [u \in Threads |-> cur[u]]
    /\ ins = [u \in Threads |-> ins[u]] /\ left = [u \in Threads |-> left[u]]
    /\ bytes_read = [u \in Threads |-> bytes_read[u]] /\ old_idx = [u \in Threads |-> old_idx[u]]
    /\ owner = [u \in Threads |-> owner[u]] /\ read_idx_ = [g \in Fds |-> read_idx_[g]]
    /\ queue = [d \in Conns |-> queue[d]] /\ taken = [d \in Conns |-> taken[d]]
    /\ answered = [d \in Conns |-> answered[d]]

\* The type invariant says so.
LEMMA TypeShape == TypeOK => Shape
BY Zenon DEF TypeOK, Shape

\* Such a step keeps the other threads' part of the invariant ...
LEMMA OwnStepOthers ==
    ASSUME TypeOK, EventLoopInv, NEW t \in Threads, NEW u \in Threads, u # t, OwnStep(t)
    PROVE  EventsInv(u)' /\ IdleInv(u)' /\ PcInv(u)'
<1>1. ASSUME NEW f \in monitored[u]
      PROVE  /\ f \in Fds /\ f \notin monitored[t] /\ fdtab[f] \in Conns
             /\ read_idx_'[f] = read_idx_[f]
             /\ queue'[fdtab[f]] = queue[fdtab[f]] /\ taken'[fdtab[f]] = taken[fdtab[f]]
             /\ answered'[fdtab[f]] = answered[fdtab[f]]
    <2>1. f \in Fds /\ f \notin monitored[t] /\ fdtab[f] \in Conns
        BY Zenon, Disjoint
    <2>2. \A g \in monitored[t] : fdtab[g] # fdtab[f]
        BY Zenon, <2>1, Injective DEF TypeOK
    <2>3. QED BY Zenon, <2>1, <2>2 DEF OwnStep, Asleep
<1>2. EventsInv(u)'
    BY SMTT(30), <1>1 DEF EventLoopInv, EventsInv, OwnStep, Asleep
<1>3. IdleInv(u)'
    BY <1>1 DEF EventLoopInv, IdleInv, OwnStep, Asleep, Serving, Initialising
<1>4. PcInv(u)'
    <2>1. ASSUME pc[u] \in {"assign", "register", "reset"}
          PROVE  /\ read_idx_'[cur[u]] = read_idx_[cur[u]] \/ cur[u] \in monitored[t]
                 /\ taken'[fdtab[cur[u]]] = taken[fdtab[cur[u]]]
                 /\ answered'[fdtab[cur[u]]] = answered[fdtab[cur[u]]]
        <3>1. cur[u] \in Fds /\ fdtab[cur[u]] \in Conns /\ cur[u] \notin monitored[t]
            BY SMTT(60), <1>1, <2>1 DEF TypeOK, EventLoopInv, PcInv
        <3>2. \A g \in monitored[t] : fdtab[g] # fdtab[cur[u]]
            BY Zenon, <3>1, Injective DEF TypeOK
        <3>3. QED BY Zenon, <3>1, <3>2 DEF OwnStep, Asleep
    <2>2. PcInv(u)
        BY Zenon DEF EventLoopInv
    <2>3. UNCHANGED <<fdtab, monitored, epoll_fd_, socket_fd_>> /\ pc'[u] = pc[u] /\ cur'[u] = cur[u]
          /\ target'[u] = target[u] /\ bytes_read'[u] = bytes_read[u] /\ old_idx'[u] = old_idx[u]
          /\ left'[u] = left[u] /\ owner'[u] = owner[u]
        BY Zenon DEF OwnStep, Asleep
    <2>4. pc[u] \in PcValues
        BY Zenon DEF TypeOK
    <2>5. QED BY ZenonT(60), <1>1, <2>1, <2>2, <2>3, <2>4 DEF PcInv, PcValues
<1>5. QED BY Zenon, <1>2, <1>3, <1>4

\* ... so only the thread's own part is left to show.
LEMMA OwnStepInv ==
    ASSUME TypeOK, TypeOK', EventLoopInv, NEW t \in Threads, OwnStep(t),
           EventsInv(t)', IdleInv(t)', PcInv(t)'
    PROVE  EventLoopInv'
<1>1. MonitoredIsUsable'
    BY ZenonT(60) DEF EventLoopInv, MonitoredIsUsable, OwnStep, Asleep
<1>2. OnePlace'
    <2>1. \A c \in Conns : ~Accepted(c) => taken'[c] = taken[c] /\ answered'[c] = answered[c]
        BY Zenon DEF TypeOK, OwnStep, Asleep, Accepted
    <2>2. \A c \in Conns : Accepted(c)' <=> Accepted(c)
        BY Zenon DEF OwnStep, Asleep, Accepted
    <2>3. QED BY <2>1, <2>2 DEF TypeOK, EventLoopInv, OnePlace, OwnStep, Asleep
<1>3. FdsInv'
    <2>1. \A f \in Fds : ~Initialising(t, f)'
        BY Zenon DEF OwnStep, Asleep, Initialising
    <2>2. \A u \in Threads \ {t} : \A f \in Fds : Initialising(u, f)' <=> Initialising(u, f)
        BY Zenon DEF OwnStep, Asleep, Initialising
    <2>3. QED BY Zenon, <2>1, <2>2 DEF EventLoopInv, FdsInv, OwnStep, Asleep
<1>4. \A u \in Threads : EventsInv(u)' /\ IdleInv(u)' /\ PcInv(u)'
    BY Zenon, OwnStepOthers
<1>5. QED BY Zenon, <1>1, <1>2, <1>3, <1>4 DEF EventLoopInv


\* A batch of events names descriptors the thread watches, with data to read.
LEMMA EpollWaitInv ==
    ASSUME TypeOK, TypeOK', EventLoopInv, NEW t \in Threads, EpollWait(t)
    PROVE  EventLoopInv'
<1> USE DEF EpollWait, Goto, clientVars, kernelVars, connVars, readVars, initVars
<1>1. OwnStep(t)
    <2>1. pc \in [Threads -> PcValues] /\ hups \in [Threads -> SUBSET Fds]
          /\ ins \in [Threads -> SUBSET (Fds \cup {Listen})]
        BY Zenon DEF TypeOK
    <2>2. QED BY Zenon, <2>1 DEF OwnStep, Asleep, Initialising
<1>2. EventsInv(t)'
    <2>1. HupFds(t) \subseteq monitored[t] /\ HupFds(t) \cap InFds(t) = {}
        <3>1. Listen \notin Fds /\ monitored[t] \subseteq Fds
            <4>1. Listen \notin Fds
                BY SMT DEF Listen, Fds
            <4>2. QED BY Zenon, <4>1 DEF TypeOK
        <3>2. QED BY Zenon, <3>1 DEF HupFds, InFds
    <2>2. \A f \in Fds : f \in InFds(t) => f \in monitored[t] /\ queue[fdtab[f]] > 0
        BY SMTT(30), ZenonT(60) DEF InFds, Listen, Fds
    <2>3. hups = [u \in Threads |-> hups[u]] /\ ins = [u \in Threads |-> ins[u]]
        BY Zenon DEF TypeOK
    <2>4. hups'[t] = HupFds(t) /\ ins'[t] = InFds(t) /\ pc'[t] = "loop"
          /\ UNCHANGED <<monitored, queue, fdtab>>
        BY Zenon, <2>3, TypeShape DEF Shape
    <2>5. QED BY Zenon, <2>1, <2>2, <2>4 DEF EventsInv
<1>3. pc' = pc
    BY DEF TypeOK
<1>4. IdleInv(t)'
    BY Zenon, <1>3 DEF EventLoopInv, IdleInv, Serving, Initialising
<1>5. PcInv(t)'
    BY Zenon, <1>3 DEF EventLoopInv, PcInv
<1>6. QED BY Zenon, <1>1, <1>2, <1>4, <1>5, OwnStepInv

\* ReadOnce finds data, and the thread owes an answer to each request it took.
LEMMA ReadOnceInv ==
    ASSUME TypeOK, TypeOK', EventLoopInv, NEW t \in Threads, NEW f \in Fds, ReadOnce(t, f)
    PROVE  EventLoopInv'
<1> DEFINE c == fdtab[f]
           n == ReadResult(f, 0)
<1> USE DEF Goto, kernelVars, connVars, readVars, initVars
<1>1. f \in monitored[t] /\ c \in Conns /\ socket_fd_[f] = f /\ queue[c] > 0 /\ f \notin hups[t]
    <2>1. f \in ins[t]
        BY Zenon DEF ReadOnce
    <2>2. EventsInv(t) /\ MonitoredIsUsable
        BY Zenon DEF EventLoopInv
    <2>3. f \in monitored[t] /\ queue[c] > 0 /\ f \notin hups[t]
        BY Zenon, <2>1, <2>2 DEF EventsInv
    <2>4. socket_fd_[f] = f /\ c # NoConn
        BY Zenon, <2>2, <2>3 DEF MonitoredIsUsable
    <2>5. c \in Conns \cup {NoConn}
        BY Zenon DEF TypeOK
    <2>6. QED BY Zenon, <2>3, <2>4, <2>5
<1>2. taken[c] = answered[c] /\ read_idx_[f] = 0
    BY Zenon, <1>1 DEF ReadOnce, EventLoopInv, IdleInv, Serving, Initialising
<1>3. n \in Int /\ n > 0
    BY SMTT(30), <1>1, ConstantsAssumption DEF ReadResult, TypeOK
<1>4. /\ bytes_read' = [bytes_read EXCEPT ![t] = n] /\ old_idx' = [old_idx EXCEPT ![t] = 0]
      /\ owner' = [owner EXCEPT ![t] = c]
      /\ queue' = [queue EXCEPT ![c] = @ - n] /\ taken' = [taken EXCEPT ![c] = @ + n]
      /\ pc[t] = "loop" /\ pc' = [pc EXCEPT ![t] = "store"]
      /\ cur' = [cur EXCEPT ![t] = f] /\ ins' = [ins EXCEPT ![t] = @ \ {f}] /\ hups' = hups
      /\ UNCHANGED <<peer, answered, fdtab, monitored, backlog, connVars, left, target>>
    BY <1>1, <1>2, <1>3 DEF ReadOnce
<1> HIDE DEF n
<1>5. OwnStep(t)
    BY ZenonT(60), <1>1, <1>4, TypeShape DEF OwnStep, Asleep, Shape, Initialising
<1>6. EventsInv(t)'
    <2>1. ASSUME NEW g \in Fds, g \in ins[t], g # f PROVE queue'[fdtab[g]] = queue[fdtab[g]]
        <3>1. g \in monitored[t]
            BY Zenon, <2>1 DEF EventLoopInv, EventsInv
        <3>2. fdtab[g] # NoConn /\ fdtab[g] \in Conns \cup {NoConn}
            BY Zenon, <3>1 DEF EventLoopInv, MonitoredIsUsable, TypeOK
        <3>3. fdtab[g] # c
            BY Zenon, <1>1, <2>1, <3>2, Injective
        <3>4. queue = [d \in Conns |-> queue[d]]
            BY Zenon DEF TypeOK
        <3>5. QED BY Zenon, <1>4, <3>2, <3>3, <3>4
    <2>2. EventsInv(t) /\ ins'[t] = ins[t] \ {f} /\ cur'[t] = f
          /\ f \notin hups[t] /\ UNCHANGED <<hups, fdtab, monitored>>
        <3>1. EventsInv(t)
            BY Zenon DEF EventLoopInv
        <3>2. ins'[t] = ins[t] \ {f} /\ cur'[t] = f
            BY ZenonT(60), <1>4, TypeShape DEF Shape
        <3>3. f \notin hups[t]
            BY Zenon, <1>1, <3>1 DEF EventsInv
        <3>4. QED BY Zenon, <1>4, <3>1, <3>2, <3>3
    <2>3. ASSUME NEW g \in Fds PROVE g \in ins'[t] => queue'[fdtab'[g]] > 0
        BY Zenon, <2>1, <2>2 DEF EventsInv
    <2>4. ASSUME NEW g \in Fds, g \in hups'[t] \cup ins'[t]
          PROVE  g \in monitored'[t] /\ cur'[t] # g /\ (g \in hups'[t] => g \notin ins'[t])
        BY Zenon, <2>2, <2>4 DEF EventsInv
    <2>5. QED BY Zenon, <2>3, <2>4 DEF EventsInv
<1>7. IdleInv(t)'
    <2>1. ASSUME NEW g \in monitored[t], g # f PROVE fdtab[g] # c
        BY Zenon, <1>1, <2>1, Injective DEF TypeOK
    <2>2. ASSUME NEW g \in monitored[t], g # f PROVE taken'[fdtab[g]] = taken[fdtab[g]]
        <3>1. fdtab[g] # NoConn /\ fdtab[g] \in Conns \cup {NoConn} /\ fdtab[g] # c
            <4>1. g \in Fds
                BY Zenon DEF TypeOK
            <4>2. QED BY Zenon, <2>1, <2>2, <4>1 DEF EventLoopInv, MonitoredIsUsable, TypeOK
        <3>2. taken = [d \in Conns |-> taken[d]]
            BY Zenon DEF TypeOK
        <3>3. QED BY Zenon, <1>4, <3>1, <3>2
    <2>3. IdleInv(t) /\ Serving(t, f)' /\ UNCHANGED <<answered, fdtab, monitored, read_idx_>>
          /\ pc[t] = "loop"
        <3>1. IdleInv(t)
            BY Zenon DEF EventLoopInv
        <3>2. pc'[t] = "store" /\ cur'[t] = f
            BY ZenonT(60), <1>4, TypeShape DEF Shape
        <3>3. QED BY Zenon, <1>4, <3>1, <3>2 DEF Serving
    <2>4. QED BY Zenon, <2>2, <2>3 DEF IdleInv, Serving, Initialising
<1>8. PcInv(t)'
    <2>1. taken'[c] = answered'[c] + n
        BY Zenon, <1>1, <1>2, <1>3, <1>4 DEF TypeOK
    <2>2. pc'[t] = "store" /\ cur'[t] = f /\ owner'[t] = c /\ bytes_read'[t] = n /\ old_idx'[t] = 0
        BY ZenonT(60), <1>4, TypeShape DEF Shape
    <2>3. QED BY Zenon, <1>1, <1>2, <1>3, <1>4, <2>1, <2>2 DEF PcInv
<1>9. QED BY Zenon, <1>5, <1>6, <1>7, <1>8, OwnStepInv


\* read_idx_ += bytes_read finds read_idx_ = 0: nobody else resets this TCPConn.
LEMMA StoreReadIdxInv ==
    ASSUME TypeOK, TypeOK', EventLoopInv, NEW t \in Threads, StoreReadIdx(t)
    PROVE  EventLoopInv'
<1> DEFINE f == cur[t]
<1> USE DEF Goto, clientVars, kernelVars, connVars, readVars, initVars, events
<1>1. /\ f \in monitored[t] /\ f \in Fds /\ owner[t] = fdtab[f] /\ bytes_read[t] > 0
      /\ taken[fdtab[f]] = answered[fdtab[f]] + bytes_read[t]
      /\ old_idx[t] = 0 /\ read_idx_[f] = 0 /\ pc[t] = "store"
    BY Zenon DEF StoreReadIdx, EventLoopInv, PcInv, TypeOK
<1>2. /\ pc' = [pc EXCEPT ![t] = "parse"] /\ read_idx_' = [read_idx_ EXCEPT ![f] = bytes_read[t]]
      /\ UNCHANGED <<clientVars, kernelVars, epoll_fd_, socket_fd_, events, cur, readVars, initVars>>
    <2>1. 0 + bytes_read[t] = bytes_read[t]
        BY DEF TypeOK
    <2>2. read_idx_' = [read_idx_ EXCEPT ![f] = 0 + bytes_read[t]]
        BY Zenon, <1>1 DEF StoreReadIdx
    <2>3. QED BY Zenon, <1>1, <2>1, <2>2 DEF StoreReadIdx
<1>3. OwnStep(t)
    BY ZenonT(60), <1>1, <1>2, TypeShape DEF OwnStep, Asleep, Shape, Initialising
<1>4. EventsInv(t)'
    BY Zenon, <1>1, <1>2 DEF EventLoopInv, EventsInv
<1>5. IdleInv(t)'
    <2>1. IdleInv(t) /\ Serving(t, f)' /\ \A g \in Fds \ {f} : read_idx_'[g] = read_idx_[g]
        BY ZenonT(60), <1>1, <1>2 DEF EventLoopInv, Serving, TypeOK
    <2>2. QED BY Zenon, <1>1, <1>2, <2>1 DEF IdleInv, Serving, Initialising, TypeOK
<1>6. PcInv(t)'
    <2>1. pc'[t] = "parse" /\ read_idx_'[f] = bytes_read[t]
        BY Zenon, <1>1, <1>2 DEF TypeOK
    <2>2. QED BY Zenon, <1>1, <1>2, <2>1 DEF PcInv
<1>7. QED BY Zenon, <1>3, <1>4, <1>5, <1>6, OwnStepInv

\* Process counts as many requests as were read.
LEMMA StartProcessInv ==
    ASSUME TypeOK, TypeOK', EventLoopInv, NEW t \in Threads, StartProcess(t)
    PROVE  EventLoopInv'
<1> DEFINE f == cur[t]
<1> USE DEF Goto, clientVars, kernelVars, connVars, readVars, initVars, events
<1>1. /\ f \in monitored[t] /\ f \in Fds /\ owner[t] = fdtab[f] /\ bytes_read[t] > 0
      /\ taken[fdtab[f]] = answered[fdtab[f]] + bytes_read[t]
      /\ read_idx_[f] = bytes_read[t] /\ pc[t] = "parse"
    BY Zenon DEF StartProcess, EventLoopInv, PcInv, TypeOK
<1>2. /\ pc' = [pc EXCEPT ![t] = "write"] /\ left' = [left EXCEPT ![t] = bytes_read[t]]
      /\ UNCHANGED <<clientVars, kernelVars, epoll_fd_, socket_fd_, read_idx_, events, cur,
                     bytes_read, old_idx, owner, initVars>>
    BY Zenon, <1>1 DEF StartProcess, ParseMultiRequest, TypeOK
<1>3. OwnStep(t)
    BY ZenonT(60), <1>1, <1>2, TypeShape DEF OwnStep, Asleep, Shape, Initialising
<1>4. EventsInv(t)'
    BY Zenon, <1>1, <1>2 DEF EventLoopInv, EventsInv
<1>5. IdleInv(t)'
    <2>1. IdleInv(t) /\ Serving(t, f)'
        BY Zenon, <1>1, <1>2 DEF EventLoopInv, Serving, TypeOK
    <2>2. QED BY Zenon, <1>1, <1>2, <2>1 DEF IdleInv, Serving, Initialising, TypeOK
<1>6. PcInv(t)'
    <2>1. pc'[t] = "write" /\ left'[t] = bytes_read[t]
        BY ZenonT(60), <1>1, <1>2, TypeShape DEF Shape
    <2>2. QED BY Zenon, <1>1, <1>2, <2>1 DEF PcInv
<1>7. QED BY Zenon, <1>3, <1>4, <1>5, <1>6, OwnStepInv


\* A thread in WriteOnce serves a descriptor of its own, or has closed it and
\* goes through the rest of Process's loop.
LEMMA Writing ==
    ASSUME TypeOK, EventLoopInv, NEW t \in Threads, pc[t] = "write"
    PROVE  LET f == cur[t] c == fdtab[f]
           IN  /\ f \in Fds
               /\ \/ /\ f \in monitored[t] /\ c \in Conns /\ socket_fd_[f] = f /\ Receiver(t) = c
                     /\ owner[t] = c /\ left[t] \in Nat \ {0} /\ taken[c] = answered[c] + left[t]
                  \/ /\ socket_fd_[f] = -1 /\ c = NoConn /\ \A u \in Threads : u = t
                     /\ \A u \in Threads : f \notin monitored[u]
<1>1. cur[t] \in Fds /\ PcInv(t) /\ left[t] \in Int
    BY Zenon DEF TypeOK, EventLoopInv
<1>2. CASE cur[t] \in monitored[t]
    <2>1. fdtab[cur[t]] \in Conns /\ socket_fd_[cur[t]] = cur[t]
        BY <1>1, <1>2 DEF TypeOK, EventLoopInv, MonitoredIsUsable
    <2>2. Receiver(t) = fdtab[cur[t]]
        BY Zenon, <1>1, <2>1 DEF Receiver
    <2>3. QED BY <1>1, <1>2, <2>1, <2>2 DEF PcInv
<1>3. CASE cur[t] \notin monitored[t]
    BY Zenon, <1>1, <1>3 DEF PcInv
<1>4. QED BY Zenon, <1>2, <1>3

\* One response fewer is owed.
LEMMA OneFewer ==
    ASSUME NEW a \in Nat, NEW l \in Nat \ {0}
    PROVE  /\ a + l = (a + 1) + (l - 1) /\ (l = 1 => a + l = a + 1)
           /\ (l > 1 /\ l - 1 > 0) \/ (l = 1 /\ ~(l > 1))
BY SMT

\* A response goes to the client that is owed it, and the last one ends the debt.
LEMMA WriteResponseInv ==
    ASSUME TypeOK, TypeOK', EventLoopInv, NEW t \in Threads, WriteResponse(t)
    PROVE  EventLoopInv'
<1> DEFINE f == cur[t]
           c == fdtab[f]
<1> USE DEF Goto, NextRequest, kernelVars, connVars, readVars, initVars, events
<1>0. pc[t] = "write" /\ Receiver(t) # NoConn
    BY Zenon DEF WriteResponse
<1>1. /\ f \in Fds /\ f \in monitored[t] /\ c \in Conns /\ Receiver(t) = c
      /\ owner[t] = c /\ left[t] \in Nat \ {0} /\ taken[c] = answered[c] + left[t]
    <2>1. f \in Fds /\ socket_fd_[f] = -1 => Receiver(t) = NoConn
        BY DEF Receiver, Fds
    <2>2. QED BY Zenon, <1>0, <2>1, Writing
<1>2. /\ pc' = [pc EXCEPT ![t] = IF left[t] > 1 THEN "write" ELSE "loop"]
      /\ left' = [left EXCEPT ![t] = @ - 1] /\ answered' = [answered EXCEPT ![c] = @ + 1]
      /\ read_idx_' = [read_idx_ EXCEPT ![f] = 0]
      /\ UNCHANGED <<peer, queue, taken, kernelVars, epoll_fd_, socket_fd_, events, cur,
                     bytes_read, old_idx, owner, initVars>>
    BY Zenon, <1>1 DEF WriteResponse
<1>3. OwnStep(t)
    BY ZenonT(60), <1>0, <1>1, <1>2, TypeShape DEF OwnStep, Asleep, Shape, Initialising
<1>4. EventsInv(t)'
    BY Zenon, <1>0, <1>1, <1>2 DEF EventLoopInv, EventsInv
<1>5. taken'[c] = answered'[c] + left'[t] /\ (left[t] = 1 => taken'[c] = answered'[c])
      /\ read_idx_'[f] = 0 /\ left'[t] = left[t] - 1
      /\ ((pc'[t] = "write" /\ left[t] > 1) \/ (pc'[t] = "loop" /\ left[t] = 1))
    <2>1. /\ read_idx_'[f] = 0 /\ left'[t] = left[t] - 1
          /\ answered'[c] = answered[c] + 1 /\ taken'[c] = taken[c]
        BY ZenonT(60), <1>1, <1>2, TypeShape DEF Shape
    <2>2. answered[c] \in Nat
        BY Zenon, <1>1 DEF TypeOK
    <2>3. pc'[t] = IF left[t] > 1 THEN "write" ELSE "loop"
        BY Zenon, <1>2 DEF TypeOK
    <2>4. /\ answered[c] + left[t] = (answered[c] + 1) + (left[t] - 1)
          /\ left[t] = 1 => answered[c] + left[t] = answered[c] + 1
          /\ left[t] > 1 \/ (left[t] = 1 /\ ~(left[t] > 1))
        BY Zenon, <1>1, <2>2, OneFewer
    <2>5. QED BY Zenon, <1>1, <2>1, <2>3, <2>4
<1>6. IdleInv(t)'
    <2>1. ASSUME NEW g \in monitored[t], g # f
          PROVE  answered'[fdtab[g]] = answered[fdtab[g]] /\ read_idx_'[g] = read_idx_[g]
        <3>1. g \in Fds /\ fdtab[g] # c
            BY Zenon, <1>1, <2>1, Injective DEF TypeOK
        <3>2. fdtab[g] \in Conns
            <4>1. fdtab[g] # NoConn
                BY Zenon, <2>1 DEF EventLoopInv, MonitoredIsUsable
            <4>2. fdtab[g] \in Conns \cup {NoConn}
                BY Zenon, <3>1 DEF TypeOK
            <4>3. QED BY Zenon, <4>1, <4>2
        <3>3. answered = [x \in Conns |-> answered[x]] /\ read_idx_ = [h \in Fds |-> read_idx_[h]]
            BY Zenon DEF TypeOK
        <3>4. QED BY Zenon, <1>1, <1>2, <2>1, <3>1, <3>2, <3>3
    <2>2. IdleInv(t)
        BY Zenon DEF EventLoopInv
    <2>3. QED BY SMTT(90), <1>0, <1>1, <1>2, <1>5, <2>1, <2>2 DEF IdleInv, Serving, Initialising
<1>7. PcInv(t)'
    <2>1. pc'[t] = "loop" \/ (pc'[t] = "write" /\ left'[t] > 0)
        <3>1. answered[c] \in Nat
            BY Zenon, <1>1 DEF TypeOK
        <3>2. (left[t] > 1 /\ left[t] - 1 > 0) \/ (left[t] = 1 /\ ~(left[t] > 1))
            BY Zenon, <1>1, <3>1, OneFewer
        <3>3. QED BY Zenon, <1>5, <3>2
    <2>2. QED BY Zenon, <1>1, <1>2, <1>5, <2>1 DEF PcInv
<1>8. QED BY Zenon, <1>3, <1>4, <1>6, <1>7, OwnStepInv


\* The responses Process writes after CloseConn go nowhere.
LEMMA WriteToClosedInv ==
    ASSUME TypeOK, TypeOK', EventLoopInv, NEW t \in Threads, WriteToClosed(t)
    PROVE  EventLoopInv'
<1> DEFINE f == cur[t]
<1> USE DEF Goto, NextRequest, kernelVars, connVars, readVars, initVars, events
<1>1. /\ pc[t] = "write" /\ f \in Fds /\ socket_fd_[f] = -1 /\ fdtab[f] = NoConn
      /\ (\A u \in Threads : u = t) /\ (\A u \in Threads : f \notin monitored[u])
    <2>1. -1 \notin Fds
        BY DEF Fds
    <2>2. pc[t] = "write" /\ socket_fd_[f] = -1
        BY Zenon DEF WriteToClosed
    <2>3. f \in Fds /\ (socket_fd_[f] = f \/ (fdtab[f] = NoConn /\ (\A u \in Threads : u = t)
                                            /\ \A u \in Threads : f \notin monitored[u]))
        BY Zenon, <2>2, Writing
    <2>4. QED BY Zenon, <2>1, <2>2, <2>3
<1>2. /\ pc' = [pc EXCEPT ![t] = IF left[t] > 1 THEN "write" ELSE "loop"]
      /\ left' = [left EXCEPT ![t] = @ - 1]
      /\ UNCHANGED <<peer, queue, taken, answered, kernelVars, epoll_fd_, socket_fd_, read_idx_,
                     events, cur, bytes_read, old_idx, owner, initVars>>
    BY Zenon DEF WriteToClosed
<1>3. OwnStep(t)
    BY ZenonT(60), <1>1, <1>2, TypeShape DEF OwnStep, Asleep, Shape, Initialising
<1>4. EventsInv(t)'
    BY Zenon, <1>1, <1>2 DEF EventLoopInv, EventsInv
<1>5. pc'[t] \in {"write", "loop"}
    BY Zenon, <1>2 DEF TypeOK
<1>6. IdleInv(t)'
    BY Zenon, <1>1, <1>2, <1>5 DEF EventLoopInv, IdleInv, Serving, Initialising
<1>7. PcInv(t)'
    BY Zenon, <1>1, <1>2, <1>5 DEF PcInv
<1>8. QED BY Zenon, <1>3, <1>4, <1>6, <1>7, OwnStepInv

\* Only a client that may reset makes a write fail, so no other thread is there.
LEMMA WriteFailsInv ==
    ASSUME Undisturbed, TypeOK, TypeOK', EventLoopInv, NEW t \in Threads, WriteFails(t)
    PROVE  EventLoopInv'
<1> DEFINE f == cur[t]
<1> USE DEF Goto, clientVars, kernelVars, connVars, readVars, initVars, events
<1>1. pc[t] = "write" /\ f \in monitored[t] /\ f \in Fds /\ fdtab[f] \in Conns /\ peer[fdtab[f]] = "reset"
    <2>1. pc[t] = "write" /\ socket_fd_[f] # -1 /\ (Receiver(t) = NoConn \/ peer[Receiver(t)] = "reset")
        BY Zenon DEF WriteFails
    <2>2. NoConn \notin Conns
        BY Zenon, ConstantsAssumption
    <2>3. \/ f \in monitored[t] /\ f \in Fds /\ fdtab[f] \in Conns /\ Receiver(t) = fdtab[f]
          \/ socket_fd_[f] = -1
        BY Zenon, <2>1, Writing
    <2>4. QED BY Zenon, <2>1, <2>2, <2>3
<1>2. \A u \in Threads : u = t
    BY Zenon, <1>1 DEF Undisturbed, EventLoopInv, OnePlace
<1>3. /\ pc' = [pc EXCEPT ![t] = "close"] /\ pc'[t] = "close"
      /\ UNCHANGED <<clientVars, kernelVars, connVars, events, cur, readVars, initVars>>
    BY Zenon DEF WriteFails, TypeOK
<1>4. OwnStep(t)
    BY ZenonT(60), <1>1, <1>3, TypeShape DEF OwnStep, Asleep, Shape, Initialising
<1>5. EventsInv(t)'
    BY Zenon, <1>1, <1>3 DEF EventLoopInv, EventsInv
<1>6. IdleInv(t)'
    BY Zenon, <1>1, <1>3 DEF EventLoopInv, IdleInv, Serving, Initialising
<1>7. PcInv(t)'
    BY Zenon, <1>1, <1>2, <1>3 DEF PcInv
<1>8. QED BY Zenon, <1>4, <1>5, <1>6, <1>7, OwnStepInv

\* SIGPIPE stops every thread where it is.
LEMMA WriteKilledInv ==
    ASSUME TypeOK, TypeOK', EventLoopInv, NEW t \in Threads, WriteKilled(t)
    PROVE  EventLoopInv'
<1> USE DEF Goto, clientVars, kernelVars, connVars, readVars, initVars, events
<1>1. /\ pc[t] = "write" /\ pc' = pc
      /\ UNCHANGED <<clientVars, kernelVars, connVars, events, cur, readVars, initVars>>
    <2>1. pc \in [Threads -> PcValues]
        BY Zenon DEF TypeOK
    <2>2. QED BY Zenon, <2>1 DEF WriteKilled
<1>2. OwnStep(t)
    BY Zenon, <1>1 DEF OwnStep, Asleep, Initialising
<1>3. EventsInv(t)'
    BY Zenon, <1>1 DEF EventLoopInv, EventsInv
<1>4. IdleInv(t)'
    BY Zenon, <1>1 DEF EventLoopInv, IdleInv, Serving, Initialising
<1>5. PcInv(t)'
    BY Zenon, <1>1 DEF EventLoopInv, PcInv
<1>6. QED BY Zenon, <1>2, <1>3, <1>4, <1>5, OwnStepInv

\* A failed accept() changes no connection.
LEMMA AcceptFailsInv ==
    ASSUME TypeOK, TypeOK', EventLoopInv, NEW t \in Threads, AcceptFails(t)
    PROVE  EventLoopInv'
<1> USE DEF Goto, TakeTurn, clientVars, kernelVars, connVars, readVars
<1>1. /\ pc[t] = "loop" /\ pc' = pc /\ ins' = [ins EXCEPT ![t] = @ \ {Listen}]
      /\ UNCHANGED <<clientVars, kernelVars, connVars, hups, cur, readVars, target>>
    <2>1. pc[t] = "loop" /\ pc' = [pc EXCEPT ![t] = "loop"]
        BY Zenon DEF AcceptFails
    <2>2. pc' = pc
        BY Zenon, <2>1, TypeShape DEF Shape
    <2>3. QED BY Zenon, <2>1, <2>2 DEF AcceptFails
<1>2. OwnStep(t)
    BY Zenon, <1>1 DEF OwnStep, Asleep, Initialising, TypeOK
<1>3. EventsInv(t)'
    <2>1. EventsInv(t) /\ ins'[t] = ins[t] \ {Listen}
        BY Zenon, <1>1 DEF EventLoopInv, TypeOK
    <2>2. QED BY Zenon, <1>1, <2>1 DEF EventsInv
<1>4. IdleInv(t)'
    BY Zenon, <1>1 DEF EventLoopInv, IdleInv, Serving, Initialising
<1>5. PcInv(t)'
    BY Zenon, <1>1 DEF EventLoopInv, PcInv
<1>6. QED BY Zenon, <1>2, <1>3, <1>4, <1>5, OwnStepInv

\* Reset ends TCPConn::Init before anything has been read.
LEMMA InitResetInv ==
    ASSUME TypeOK, TypeOK', EventLoopInv, NEW t \in Threads, InitReset(t)
    PROVE  EventLoopInv'
<1> DEFINE f == cur[t]
<1> USE DEF Goto, clientVars, kernelVars, connVars, readVars, initVars, events
<1>1. /\ pc[t] = "reset" /\ f \in Fds /\ f \in monitored[t]
      /\ taken[fdtab[f]] = 0 /\ answered[fdtab[f]] = 0
    BY Zenon DEF InitReset, EventLoopInv, PcInv, TypeOK
<1>2. /\ pc' = [pc EXCEPT ![t] = "loop"] /\ pc'[t] = "loop" /\ read_idx_' = [read_idx_ EXCEPT ![f] = 0]
      /\ UNCHANGED <<clientVars, kernelVars, epoll_fd_, socket_fd_, events, cur, readVars, initVars>>
    BY Zenon DEF InitReset, TypeOK
<1>3. OwnStep(t)
    BY ZenonT(60), <1>1, <1>2, TypeShape DEF OwnStep, Asleep, Shape, Initialising
<1>4. EventsInv(t)'
    BY Zenon, <1>1, <1>2 DEF EventLoopInv, EventsInv
<1>5. IdleInv(t)'
    <2>1. read_idx_'[f] = 0 /\ \A g \in Fds \ {f} : read_idx_'[g] = read_idx_[g]
        BY Zenon, <1>1, <1>2 DEF TypeOK
    <2>2. IdleInv(t) /\ monitored[t] \subseteq Fds
        BY Zenon DEF EventLoopInv, TypeOK
    <2>3. QED BY Zenon, <1>1, <1>2, <2>1, <2>2 DEF IdleInv, Serving, Initialising
<1>6. PcInv(t)'
    BY Zenon, <1>2 DEF PcInv
<1>7. QED BY Zenon, <1>3, <1>4, <1>5, <1>6, OwnStepInv

-----------------------------------------------------------------------------
(* Type correctness, for every set of clients, threads and descriptors and    *)
(* every number of requests.                                                 *)

\* The type invariant holds when the server has started.
LEMMA InitType == Init => TypeOK
BY ConstantsAssumption DEF Init, TypeOK, PeerStates, PcValues, Threads, NetThreads, Fds

\* Whatever a client does keeps the types.
LEMMA ClientType == \A c \in Conns : TypeOK /\ Client(c) => TypeOK'
<1> SUFFICES ASSUME NEW c \in Conns, TypeOK, Client(c) PROVE TypeOK'
    OBVIOUS
<1> USE DEF TypeOK, PeerStates, serverVars, kernelVars, connVars, readVars, initVars, events
<1>0. UNCHANGED serverVars
    BY Zenon DEF Client
<1>1. ASSUME NEW a \in Acceptors, Connect(c, a) PROVE TypeOK'
    BY Zenon, <1>0, <1>1 DEF Connect
<1>2. CASE Send(c)
    BY <1>0, <1>2 DEF Send
<1>3. CASE Close(c)
    BY Zenon, <1>0, <1>3 DEF Close
<1>4. CASE Abort(c)
    BY Zenon, <1>0, <1>4 DEF Abort
<1>5. CASE Resume(c)
    BY Zenon, <1>0, <1>5 DEF Resume
<1>6. QED
    BY Zenon, <1>1, <1>2, <1>3, <1>4, <1>5 DEF Client

\* read() returns an integer, and data only from an open descriptor that has it.
LEMMA ReadResultType ==
    ASSUME TypeOK, NEW s, NEW idx \in Int
    PROVE  /\ ReadResult(s, idx) \in Int
           /\ ReadResult(s, idx) > 0 => /\ s \in Fds /\ fdtab[s] \in Conns
                                        /\ ReadResult(s, idx) <= queue[fdtab[s]]
BY ConstantsAssumption DEF TypeOK, ReadResult

\* The end of an iteration of Process's loop keeps the types, and the next one
\* is about the same descriptor.
LEMMA NextRequestType ==
    ASSUME TypeOK, NEW t \in Threads, NEW from \in {"write", "clear"},
           NEW rest \in {0, bytes_to_send_[cur[t]]}, NextRequest(t, from, rest)
    PROVE  /\ pc' \in [Threads -> PcValues] /\ left' \in [Threads -> Int]
           /\ bytes_to_send_' \in [Fds -> {0, 1}]
           /\ \A u \in Threads : pc'[u] \notin {"start", "loop"} => cur'[u] \in Fds
           /\ UNCHANGED <<queue, taken, backlog, network_epoll_fds_, events, cur, bytes_read,
                          old_idx, owner, initVars>>
<1>1. cur[t] \in Fds /\ UNCHANGED <<queue, taken, backlog, network_epoll_fds_, events, cur,
                                   bytes_read, old_idx, owner, initVars>>
    BY Zenon DEF TypeOK, NextRequest, Goto
<1>2. pc' \in [Threads -> PcValues] /\ \A u \in Threads \ {t} : pc'[u] = pc[u]
    BY Zenon DEF TypeOK, PcValues, NextRequest, Goto
<1>3. left' \in [Threads -> Int]
    BY DEF TypeOK, NextRequest
<1>4. bytes_to_send_' \in [Fds -> {0, 1}]
    <2>1. bytes_to_send_ \in [Fds -> {0, 1}] /\ rest \in {0, 1}
        BY Zenon, <1>1 DEF TypeOK
    <2>2. QED BY Zenon, <2>1 DEF NextRequest, MakeResponse
<1>5. QED BY Zenon, <1>1, <1>2, <1>3, <1>4 DEF TypeOK

\* Every step of the event loop, ReadOnce, Process, WriteOnce and CloseConn keeps the types.
LEMMA ServeType == \A t \in Threads : TypeOK /\ ServeStep(t) => TypeOK'
<1> SUFFICES ASSUME NEW t \in Threads, TypeOK, ServeStep(t) PROVE TypeOK'
    OBVIOUS
<1> USE DEF TypeOK, PcValues, Goto, clientVars, kernelVars, connVars, readVars, initVars, events
<1>1. CASE EpollWait(t)
    <2>1. HupFds(t) \subseteq Fds /\ InFds(t) \subseteq Fds \cup {Listen}
        BY Zenon DEF HupFds, InFds
    <2>2. QED BY Zenon, <1>1, <2>1 DEF EpollWait
<1>2. ASSUME NEW f \in Fds, HandleHup(t, f) PROVE TypeOK'
    BY Zenon, <1>2 DEF HandleHup, CloseFd
<1>3. ASSUME NEW f \in Fds, ReadOnce(t, f) PROVE TypeOK'
    <2> DEFINE s == socket_fd_[f]
               n == ReadResult(s, read_idx_[f])
    <2>1. n \in Int /\ (n > 0 => s \in Fds /\ fdtab[s] \in Conns /\ n <= queue[fdtab[s]])
        BY Zenon, ReadResultType
    <2> HIDE DEF n, s
    <2>2. bytes_read' = [bytes_read EXCEPT ![t] = n] /\ old_idx' = [old_idx EXCEPT ![t] = read_idx_[f]]
        BY Zenon, <1>3 DEF ReadOnce, n, s
    <2>3. bytes_read' \in [Threads -> Int] /\ old_idx' \in [Threads -> Int]
        BY Zenon, <2>1, <2>2
    <2>4. CASE n > 0
        <3>1. /\ owner' = [owner EXCEPT ![t] = fdtab[s]]
              /\ queue' = [queue EXCEPT ![fdtab[s]] = @ - n]
              /\ taken' = [taken EXCEPT ![fdtab[s]] = @ + n]
            BY SMTT(60), <1>3, <2>4, <2>1 DEF ReadOnce, n, s
        <3>2. owner' \in [Threads -> Conns \cup {NoConn}]
            BY Zenon, <2>1, <2>4, <3>1
        <3>3. queue[fdtab[s]] - n \in Nat /\ taken[fdtab[s]] + n \in Nat
            BY SMTT(60), <2>1, <2>4
        <3>4. queue' \in [Conns -> Nat] /\ taken' \in [Conns -> Nat]
            BY Zenon, <3>1, <3>3
        <3>5. QED BY ZenonT(60), <1>3, <2>3, <3>2, <3>4 DEF ReadOnce
    <2>5. CASE ~(n > 0)
        <3>1. UNCHANGED <<owner, queue, taken>>
            BY Zenon, <1>3, <2>5, <2>1 DEF ReadOnce, n, s
        <3>2. QED BY ZenonT(60), <1>3, <2>3, <3>1 DEF ReadOnce
    <2>6. QED BY Zenon, <2>4, <2>5
<1>4. CASE StoreReadIdx(t)
    BY SMTT(30), <1>4 DEF StoreReadIdx
<1>5. CASE StartProcess(t)
    <2>1. bytes_to_send_[cur[t]] \in {0, 1}
        BY Zenon, <1>5 DEF StartProcess
    <2>2. bytes_to_send_' \in [Fds -> {0, 1}]
        BY Zenon, <1>5, <2>1 DEF StartProcess, MakeResponse
    <2>3. QED BY Zenon, <1>5, <2>2 DEF StartProcess, ParseMultiRequest
<1>6. CASE WriteOnce(t)
    <2>0. 0 \in Int /\ \A n \in Nat : n + 1 \in Nat
        BY SMT
    <2>1. CASE WriteNothing(t)
        <3>1. read_idx_' \in [Fds -> Int]
            BY Zenon, <2>0, <2>1 DEF WriteNothing
        <3>2. QED BY ZenonT(60), <2>1, <3>1, NextRequestType DEF WriteNothing
    <2>2. CASE WriteResponse(t)
        <3>1. answered' \in [Conns -> Nat]
            BY Zenon, <2>0, <2>2 DEF WriteResponse
        <3>2. stalled' \subseteq Slow /\ read_idx_' \in [Fds -> Int]
            BY Zenon, <2>0, <2>2 DEF WriteResponse
        <3>3. QED BY Zenon, <2>2, <3>1, <3>2, NextRequestType DEF WriteResponse
    <2>3. CASE WriteToClosed(t)
        BY Zenon, <2>3, NextRequestType DEF WriteToClosed
    <2>4. CASE WriteFails(t)
        BY Zenon, <2>4 DEF WriteFails
    <2>5. CASE WriteKilled(t)
        BY Zenon, <2>5 DEF WriteKilled
    <2>6. QED BY Zenon, <1>6, <2>1, <2>2, <2>3, <2>4, <2>5 DEF WriteOnce
<1>7. CASE CloseConnRemove(t)
    BY Zenon, <1>7 DEF CloseConnRemove, CloseFd
<1>8. CASE CloseConnClear(t)
    BY Zenon, <1>8, NextRequestType DEF CloseConnClear
<1>9. QED
    BY Zenon, <1>1, <1>2, <1>3, <1>4, <1>5, <1>6, <1>7, <1>8 DEF ServeStep

\* Every step of handleNewConn and TCPConn::Init keeps the types.
LEMMA AcceptType == \A a \in Acceptors : TypeOK /\ AcceptStep(a) => TypeOK'
<1> SUFFICES ASSUME NEW a \in Acceptors, TypeOK, AcceptStep(a) PROVE TypeOK'
    OBVIOUS
<1> USE DEF TypeOK, PcValues, Goto, clientVars, kernelVars, connVars, readVars, initVars, events
<1>0. a \in Threads
    BY Zenon DEF Threads
<1>1. ASSUME TakeTurn(a) PROVE /\ network_turn' \in [Threads -> NetThreads \cup {0}]
                              /\ ins' \in [Threads -> SUBSET (Fds \cup {Listen})]
                              /\ hups' = hups
    <2>1. ins' \in [Threads -> SUBSET (Fds \cup {Listen})] /\ hups' = hups
        BY Zenon, <1>0, <1>1 DEF TakeTurn
    <2>2. CASE NETWORKDISPATCH
        <3>1. network_turn[a] \in Nat /\ NetworkThreadNumber \in Nat \ {0}
            BY <1>0, <2>2, ConstantsAssumption DEF NetThreads
        <3>2. (network_turn[a] + 1) % NetworkThreadNumber \in 0 .. NetworkThreadNumber - 1
            BY <3>1
        <3>3. NetThreads = 0 .. NetworkThreadNumber - 1
            BY Zenon, <2>2 DEF NetThreads
        <3>4. QED BY Zenon, <1>0, <1>1, <2>1, <2>2, <3>2, <3>3 DEF TakeTurn
    <2>3. CASE ~NETWORKDISPATCH
        BY Zenon, <1>1, <2>1, <2>3 DEF TakeTurn
    <2>4. QED BY Zenon, <2>2, <2>3
<1>2. CASE Accept(a)
    <2>1. Assigned(a) \subseteq Threads \cup {NoEpoll}
        BY <1>0, ConstantsAssumption DEF Assigned, Threads, NetThreads
    <2>2. QED BY <1>0, <1>1, <1>2, <2>1 DEF Accept, FreeFds
<1>3. CASE AcceptFails(a)
    BY Zenon, <1>0, <1>1, <1>3 DEF AcceptFails
<1>4. CASE InitAssign(a)
    BY Zenon, <1>0, <1>4 DEF InitAssign
<1>5. CASE InitRegister(a)
    BY Zenon, <1>0, <1>5 DEF InitRegister, FreeFds
<1>6. CASE InitReset(a)
    BY <1>0, <1>6 DEF InitReset
<1>7. QED
    BY Zenon, <1>2, <1>3, <1>4, <1>5, <1>6 DEF AcceptStep

\* Every step of the system keeps the types.
LEMMA NextType == TypeOK /\ [Next]_vars => TypeOK'
<1> SUFFICES ASSUME TypeOK, [Next]_vars PROVE TypeOK'
    OBVIOUS
<1>1. ASSUME NEW n \in NetThreads, PublishEpoll(n) PROVE TypeOK'
    BY Zenon, <1>1 DEF TypeOK, PublishEpoll, Goto, PcValues, Threads,
                clientVars, kernelVars, connVars, readVars, initVars, events
<1>2. CASE UNCHANGED vars
    BY Zenon, <1>2 DEF TypeOK, vars, clientVars, kernelVars, connVars, readVars, initVars, events
<1>3. QED
    BY Zenon, <1>1, <1>2, ClientType, ServeType, AcceptType DEF Next, ThreadStep

\* The variables of the server keep their types in every build, every thread in
\* the middle of an event has a descriptor, and network_turn never leaves the
\* array network_epoll_fds_, however clients, threads and resets interleave.
THEOREM TypeCorrect == Spec => []TypeOK
BY InitType, NextType, PTL DEF Spec

=============================================================================
