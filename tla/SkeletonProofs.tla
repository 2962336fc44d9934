--------------------------- MODULE SkeletonProofs ---------------------------
(* The steps that open and close descriptors keep EventLoopInv, and the       *)
(* theorems about Skeleton that follow.                                       *)
EXTENDS SkeletonSteps

\* Closing a descriptor that t watches, with t's own part of the invariant.
LEMMA CloseFdInv ==
    ASSUME TypeOK, TypeOK', EventLoopInv, NEW t \in Threads, NEW f \in monitored[t], CloseFd(f),
           UNCHANGED <<peer, queue, taken, answered, backlog, connVars>>,
           \A u \in Threads \ {t} : Asleep(u),
           {pc[t], pc'[t]} \cap {"assign", "register", "reset"} = {},
           EventsInv(t)', IdleInv(t)', PcInv(t)'
    PROVE  EventLoopInv'
<1> USE DEF connVars
<1>1. /\ f \in Fds /\ fdtab'[f] = NoConn /\ \A g \in Fds \ {f} : fdtab'[g] = fdtab[g]
      /\ \A u \in Threads : monitored'[u] = monitored[u] \ {f} /\ monitored[u] \subseteq Fds
    BY Zenon DEF CloseFd, TypeOK
<1>2. MonitoredIsUsable'
    BY SMTT(30), <1>1 DEF EventLoopInv, MonitoredIsUsable
<1>3. OnePlace'
    <2>1. \A c \in Conns : Accepted(c)' => Accepted(c)
        BY Zenon, <1>1, ConstantsAssumption DEF Accepted
    <2>2. \A g, h \in Fds : fdtab'[g] = fdtab'[h] /\ fdtab'[g] # NoConn => g = h
        BY <1>1 DEF EventLoopInv, OnePlace
    <2>3. QED BY Zenon, <2>1, <2>2 DEF TypeOK, EventLoopInv, OnePlace
<1>4. FdsInv'
    <2>1. \A u \in Threads, g \in Fds : Initialising(u, g)' <=> Initialising(u, g)
        BY Zenon DEF Initialising, Asleep
    <2>2. QED BY Zenon, <1>1, <2>1 DEF EventLoopInv, FdsInv
<1>5. ASSUME NEW u \in Threads, u # t PROVE EventsInv(u)' /\ IdleInv(u)' /\ PcInv(u)'
    <2>1. Asleep(u) /\ f \notin monitored[u] /\ (pc[u] \notin {"start", "loop"} => cur[u] # f)
        BY Zenon, <1>5, Disjoint
    <2>2. monitored'[u] = monitored[u] /\ \A g \in monitored[u] : fdtab'[g] = fdtab[g]
        BY Zenon, <1>1, <2>1
    <2>3. EventsInv(u)'
        BY Zenon, <2>1, <2>2 DEF EventLoopInv, EventsInv, Asleep
    <2>4. IdleInv(u)'
        BY <2>1, <2>2 DEF EventLoopInv, IdleInv, Asleep, Serving, Initialising
    <2>5. PcInv(u)'
        <3>1. pc[u] \in PcValues /\ PcInv(u) /\ (pc[u] \notin {"start", "loop"} => cur[u] \in Fds \ {f})
            BY Zenon, <2>1 DEF EventLoopInv, TypeOK
        <3>2. pc[u] \notin {"start", "loop"} => fdtab'[cur[u]] = fdtab[cur[u]]
            BY Zenon, <1>1, <3>1
        <3>3. \A v \in Threads : cur[u] \notin monitored[v] => cur[u] \notin monitored'[v]
            BY Zenon, <1>1
        <3>4. cur[u] \in monitored[u] => cur[u] \in monitored'[u]
            BY Zenon, <2>2
        <3>5. CASE pc[u] \in {"start", "loop"}
            BY Zenon, <2>1, <3>1, <3>5 DEF PcInv, Asleep
        <3>6. CASE pc[u] \notin {"start", "loop"}
            <4>1. /\ pc'[u] = pc[u] /\ cur'[u] = cur[u] /\ target'[u] = target[u] /\ left'[u] = left[u]
                  /\ bytes_read'[u] = bytes_read[u] /\ old_idx'[u] = old_idx[u] /\ owner'[u] = owner[u]
                BY Zenon, <2>1 DEF Asleep
            <4>2. fdtab'[cur[u]] = fdtab[cur[u]]
                BY Zenon, <3>2, <3>6
            <4>3. QED BY Zenon, <3>1, <3>3, <3>4, <4>1, <4>2 DEF PcInv
        <3>7. QED BY Zenon, <3>5, <3>6
    <2>6. QED BY Zenon, <2>3, <2>4, <2>5
<1>6. QED BY Zenon, <1>2, <1>3, <1>4, <1>5 DEF EventLoopInv

\* A hang-up closes a descriptor that the thread watches and nobody works on.
LEMMA HandleHupInv ==
    ASSUME TypeOK, TypeOK', EventLoopInv, NEW t \in Threads, NEW f \in Fds, HandleHup(t, f)
    PROVE  EventLoopInv'
<1> USE DEF Goto, clientVars, connVars, readVars, initVars
<1>1. /\ f \in monitored[t] /\ pc[t] = "loop" /\ pc' = pc /\ hups' = [hups EXCEPT ![t] = @ \ {f}]
      /\ CloseFd(f) /\ UNCHANGED <<clientVars, backlog, connVars, ins, cur, readVars, initVars>>
    BY DEF HandleHup, EventLoopInv, EventsInv, TypeOK
<1>2. /\ hups'[t] = hups[t] \ {f} /\ f \in hups[t] /\ monitored'[t] = monitored[t] \ {f}
      /\ \A g \in monitored[t] : g # f => g \in Fds /\ fdtab'[g] = fdtab[g]
    BY Zenon, <1>1 DEF HandleHup, CloseFd, TypeOK
<1>3. \A u \in Threads \ {t} : Asleep(u)
    BY Zenon, <1>1 DEF Asleep, TypeOK
<1>4. EventsInv(t)'
    BY Zenon, <1>1, <1>2 DEF EventLoopInv, EventsInv
<1>5. IdleInv(t)'
    BY Zenon, <1>1, <1>2 DEF EventLoopInv, IdleInv, Serving, Initialising
<1>6. PcInv(t)'
    BY Zenon, <1>1 DEF PcInv
<1>7. QED BY Zenon, <1>1, <1>3, <1>4, <1>5, <1>6, CloseFdInv

\* CloseConn closes the descriptor its thread works on.
LEMMA CloseConnRemoveInv ==
    ASSUME TypeOK, TypeOK', EventLoopInv, NEW t \in Threads, CloseConnRemove(t)
    PROVE  EventLoopInv'
<1> DEFINE f == cur[t]
<1> USE DEF Goto, clientVars, connVars, readVars, initVars, events
<1>1. pc[t] = "close" /\ f \in Fds /\ f \in monitored[t] /\ socket_fd_[f] = f /\ \A u \in Threads : u = t
    <2>1. pc[t] = "close" /\ PcInv(t)
        BY Zenon DEF CloseConnRemove, EventLoopInv
    <2>2. f \in monitored[t] /\ \A u \in Threads : u = t
        BY Zenon, <2>1 DEF PcInv
    <2>3. QED BY Zenon, <2>1, <2>2 DEF EventLoopInv, MonitoredIsUsable, TypeOK
<1>2. /\ pc' = [pc EXCEPT ![t] = "clear"] /\ pc'[t] = "clear" /\ CloseFd(f)
      /\ UNCHANGED <<clientVars, backlog, connVars, events, cur, readVars, initVars>>
    BY Zenon, <1>1 DEF CloseConnRemove, TypeOK
<1>3. /\ monitored'[t] = monitored[t] \ {f} /\ fdtab'[f] = NoConn
      /\ \A g \in monitored[t] : g # f => g \in Fds /\ fdtab'[g] = fdtab[g]
    BY Zenon, <1>1, <1>2 DEF CloseFd, TypeOK
<1>4. EventsInv(t)'
    <2>1. EventsInv(t)
        BY Zenon DEF EventLoopInv
    <2>2. QED BY Zenon, <1>1, <1>2, <1>3, <2>1 DEF EventsInv
<1>5. IdleInv(t)'
    BY Zenon, <1>1, <1>2, <1>3 DEF EventLoopInv, IdleInv, Serving, Initialising
<1>6. PcInv(t)'
    BY Zenon, <1>1, <1>2, <1>3 DEF PcInv
<1>7. QED BY Zenon, <1>1, <1>2, <1>4, <1>5, <1>6, CloseFdInv DEF Asleep

\* socket_fd_ = -1 comes before any other use of the number: there is one thread.
LEMMA CloseConnClearInv ==
    ASSUME TypeOK, TypeOK', EventLoopInv, NEW t \in Threads, CloseConnClear(t)
    PROVE  EventLoopInv'
<1> DEFINE f == cur[t]
<1> USE DEF Goto, NextRequest, connVars, readVars, initVars, events
<1>1. /\ pc[t] = "clear" /\ f \in Fds /\ fdtab[f] = NoConn /\ (\A u \in Threads : f \notin monitored[u])
      /\ (\A u \in Threads : u = t)
    BY Zenon DEF CloseConnClear, EventLoopInv, PcInv
<1>2. /\ pc'[t] \in {"write", "loop"} /\ socket_fd_' = [socket_fd_ EXCEPT ![f] = -1]
      /\ UNCHANGED <<peer, queue, taken, answered, fdtab, monitored, backlog, epoll_fd_, read_idx_,
                     events, cur, bytes_read, old_idx, owner, initVars>>
    BY Zenon DEF CloseConnClear, TypeOK
<1>3. socket_fd_'[f] = -1 /\ \A g \in Fds \ {f} : socket_fd_'[g] = socket_fd_[g]
    BY Zenon, <1>1, <1>2 DEF TypeOK
<1>4. MonitoredIsUsable'
    BY <1>1, <1>2, <1>3 DEF EventLoopInv, MonitoredIsUsable, TypeOK
<1>5. OnePlace'
    BY Zenon, <1>2 DEF EventLoopInv, OnePlace, Accepted
<1>6. FdsInv'
    BY SMTT(30), <1>1, <1>2 DEF EventLoopInv, FdsInv, Initialising
<1>7. EventsInv(t)'
    BY Zenon, <1>1, <1>2 DEF EventLoopInv, EventsInv
<1>8. IdleInv(t)'
    BY Zenon, <1>1, <1>2 DEF EventLoopInv, IdleInv, Serving, Initialising
<1>9. PcInv(t)'
    BY Zenon, <1>1, <1>2, <1>3 DEF PcInv
<1>10. QED BY Zenon, <1>1, <1>4, <1>5, <1>6, <1>7, <1>8, <1>9 DEF EventLoopInv


\* A thread in TCPConn::Init is alone with its descriptor.
LEMMA InitAlone ==
    ASSUME TypeOK, EventLoopInv, NEW a \in Threads, pc[a] \in {"assign", "register"}
    PROVE  /\ cur[a] \in Fds /\ fdtab[cur[a]] \in Conns
           /\ taken[fdtab[cur[a]]] = 0 /\ answered[fdtab[cur[a]]] = 0
           /\ \A u \in Threads : cur[a] \notin monitored[u]
           /\ \A u \in Threads \ {a} : pc[u] # "loop" => cur[u] # cur[a]
<1>1. /\ cur[a] \in Fds /\ fdtab[cur[a]] \in Conns /\ \A u \in Threads : cur[a] \notin monitored[u]
      /\ taken[fdtab[cur[a]]] = 0 /\ answered[fdtab[cur[a]]] = 0
    BY DEF TypeOK, EventLoopInv, PcInv
<1>2. ASSUME NEW u \in Threads \ {a}, pc[u] # "loop", cur[u] = cur[a] PROVE FALSE
    <2>1. PcInv(u) /\ pc[u] \in PcValues /\ FdsInv
        BY Zenon DEF TypeOK, EventLoopInv
    <2>2. CASE pc[u] \in {"assign", "register", "reset"}
        BY Zenon, <1>1, <1>2, <2>1, <2>2 DEF FdsInv, Initialising
    <2>3. CASE pc[u] \notin {"assign", "register", "reset"}
        BY Zenon, <1>1, <1>2, <2>1, <2>3 DEF PcInv, PcValues
    <2>4. QED BY Zenon, <2>2, <2>3
<1>3. QED BY Zenon, <1>1, <1>2

\* TCPConn::Init writes a TCPConn that no thread uses.
LEMMA InitAssignInv ==
    ASSUME TypeOK, TypeOK', EventLoopInv, NEW a \in Threads, InitAssign(a)
    PROVE  EventLoopInv'
<1> DEFINE f == cur[a]
<1> USE DEF Goto, clientVars, kernelVars, connVars, readVars, initVars, events
<1>1. /\ pc[a] = "assign" /\ pc' = [pc EXCEPT ![a] = "register"] /\ pc'[a] = "register"
      /\ epoll_fd_' = [epoll_fd_ EXCEPT ![f] = a] /\ socket_fd_' = [socket_fd_ EXCEPT ![f] = f]
      /\ UNCHANGED <<clientVars, kernelVars, read_idx_, events, cur, readVars, initVars>>
    <2>1. pc[a] = "assign" /\ PcInv(a)
        BY Zenon DEF InitAssign, EventLoopInv
    <2>2. target[a] = a
        BY Zenon, <2>1 DEF PcInv
    <2>3. QED BY Zenon, <2>1, <2>2 DEF InitAssign, TypeOK
<1>2. /\ f \in Fds /\ fdtab[f] \in Conns /\ taken[fdtab[f]] = 0 /\ answered[fdtab[f]] = 0
      /\ \A u \in Threads : f \notin monitored[u]
      /\ \A u \in Threads \ {a} : pc[u] # "loop" => cur[u] # f
    BY Zenon, <1>1, InitAlone
<1>3. /\ epoll_fd_'[f] = a /\ socket_fd_'[f] = f
      /\ \A g \in Fds \ {f} : epoll_fd_'[g] = epoll_fd_[g] /\ socket_fd_'[g] = socket_fd_[g]
    BY Zenon, <1>1, <1>2 DEF TypeOK
<1>4. MonitoredIsUsable'
    BY <1>1, <1>2, <1>3 DEF EventLoopInv, MonitoredIsUsable, TypeOK
<1>5. OnePlace'
    BY Zenon, <1>1 DEF EventLoopInv, OnePlace, Accepted
<1>6. \A u \in Threads \ {a} : pc'[u] = pc[u]
    BY Zenon, <1>1 DEF TypeOK
<1>7. FdsInv'
    <2>1. \A u \in Threads, g \in Fds : Initialising(u, g)' <=> Initialising(u, g)
        BY Zenon, <1>1, <1>6 DEF Initialising
    <2>2. QED BY Zenon, <1>1, <2>1 DEF EventLoopInv, FdsInv
<1>8. ASSUME NEW u \in Threads PROVE EventsInv(u)' /\ IdleInv(u)' /\ PcInv(u)'
    <2>1. EventsInv(u) /\ IdleInv(u) /\ PcInv(u) /\ (pc[u] # "loop" => cur[u] \in Fds) /\ pc[u] \in PcValues
        BY Zenon DEF EventLoopInv, TypeOK, PcInv
    <2>2. EventsInv(u)'
        BY Zenon, <1>1, <1>6, <2>1 DEF EventsInv
    <2>3. IdleInv(u)'
        BY Zenon, <1>1, <1>2, <1>6, <2>1 DEF IdleInv, Serving, Initialising
    <2>4. PcInv(u)'
        <3>1. CASE u = a
            BY Zenon, <1>1, <1>2, <1>3, <3>1, ConstantsAssumption DEF PcInv
        <3>2. CASE u # a /\ pc[u] # "loop"
            <4>1. cur[u] \in Fds /\ epoll_fd_'[cur[u]] = epoll_fd_[cur[u]]
                  /\ socket_fd_'[cur[u]] = socket_fd_[cur[u]]
                BY Zenon, <1>2, <1>3, <2>1, <3>2
            <4>2. QED BY Zenon, <1>1, <1>6, <2>1, <3>2, <4>1 DEF PcInv
        <3>3. CASE u # a /\ pc[u] = "loop"
            BY Zenon, <1>6, <3>3 DEF PcInv
        <3>4. QED BY Zenon, <3>1, <3>2, <3>3
    <2>5. QED BY Zenon, <2>2, <2>3, <2>4
<1>9. QED BY Zenon, <1>4, <1>5, <1>7, <1>8 DEF EventLoopInv

\* addfd registers a descriptor that was nowhere registered.
LEMMA InitRegisterInv ==
    ASSUME TypeOK, TypeOK', EventLoopInv, NEW a \in Threads, InitRegister(a)
    PROVE  EventLoopInv'
<1> DEFINE f == cur[a]
<1> USE DEF Goto, clientVars, connVars, readVars, initVars, events
<1>1. /\ pc[a] = "register" /\ pc' = [pc EXCEPT ![a] = "reset"] /\ pc'[a] = "reset"
      /\ UNCHANGED <<clientVars, fdtab, backlog, connVars, events, cur, readVars, initVars>>
    BY Zenon DEF InitRegister, TypeOK
<1>2. /\ f \in Fds /\ fdtab[f] \in Conns /\ taken[fdtab[f]] = 0 /\ answered[fdtab[f]] = 0
      /\ \A u \in Threads : f \notin monitored[u]
      /\ \A u \in Threads \ {a} : pc[u] # "loop" => cur[u] # f
    BY Zenon, <1>1, InitAlone
<1>3. epoll_fd_[f] = a /\ socket_fd_[f] = f
    BY Zenon, <1>1 DEF EventLoopInv, PcInv
<1>4. monitored' = [monitored EXCEPT ![a] = @ \cup {f}]
    <2>1. a # NoEpoll /\ f \in Fds \ FreeFds
        BY Zenon, <1>2, ConstantsAssumption DEF FreeFds
    <2>2. QED BY Zenon, <1>3, <2>1 DEF InitRegister
<1>5. /\ monitored'[a] = monitored[a] \cup {f} /\ monitored[a] \subseteq Fds
      /\ \A u \in Threads \ {a} : monitored'[u] = monitored[u] /\ pc'[u] = pc[u]
    BY Zenon, <1>1, <1>4 DEF TypeOK
<1>6. MonitoredIsUsable'
    <2>1. fdtab[f] # NoConn /\ socket_fd_[f] = f /\ epoll_fd_[f] = a
        BY Zenon, <1>2, <1>3, ConstantsAssumption
    <2>2. \A u \in Threads : \A g \in monitored[u] :
              fdtab[g] # NoConn /\ socket_fd_[g] = g /\ epoll_fd_[g] = u
        BY Zenon DEF EventLoopInv, MonitoredIsUsable
    <2>3. \A u \in Threads : \A g \in monitored'[u] : g \in monitored[u] \/ (u = a /\ g = f)
        BY Zenon, <1>5
    <2>4. fdtab' = fdtab /\ socket_fd_' = socket_fd_ /\ epoll_fd_' = epoll_fd_
        BY Zenon, <1>1
    <2>5. ASSUME NEW u \in Threads, NEW g \in monitored'[u]
          PROVE  fdtab[g] # NoConn /\ socket_fd_[g] = g /\ epoll_fd_[g] = u
        <3>1. CASE g \in monitored[u]
            BY Zenon, <2>2, <3>1
        <3>2. CASE u = a /\ g = f
            BY Zenon, <2>1, <3>2
        <3>3. QED BY Zenon, <2>3, <3>1, <3>2
    <2>6. QED BY Zenon, <2>4, <2>5 DEF MonitoredIsUsable
<1>7. OnePlace'
    BY Zenon, <1>1 DEF EventLoopInv, OnePlace, Accepted
<1>8. FdsInv'
    <2>1. \A u \in Threads, g \in Fds : Initialising(u, g)' <=> Initialising(u, g)
        BY Zenon, <1>1, <1>5 DEF Initialising
    <2>2. QED BY Zenon, <1>1, <1>5, <2>1 DEF EventLoopInv, FdsInv
<1>9. ASSUME NEW u \in Threads PROVE EventsInv(u)' /\ IdleInv(u)' /\ PcInv(u)'
    <2>1. EventsInv(u) /\ IdleInv(u) /\ PcInv(u)
        BY Zenon DEF EventLoopInv
    <2>2. CASE u = a
        <3>1. EventsInv(a)'
            BY Zenon, <1>1, <1>5, <2>1, <2>2 DEF EventsInv
        <3>2. IdleInv(a)'
            BY Zenon, <1>1, <1>2, <1>5, <2>1, <2>2 DEF IdleInv, Serving, Initialising
        <3>3. PcInv(a)'
            BY Zenon, <1>1, <1>2, <1>5, ConstantsAssumption DEF PcInv
        <3>4. QED BY Zenon, <2>2, <3>1, <3>2, <3>3
    <2>3. CASE u # a
        <3>1. EventsInv(u)'
            BY Zenon, <1>1, <1>5, <2>1, <2>3 DEF EventsInv
        <3>2. IdleInv(u)'
            BY Zenon, <1>1, <1>5, <2>1, <2>3 DEF IdleInv, Serving, Initialising
        <3>3. pc[u] # "loop" => \A v \in Threads : cur[u] \in monitored'[v] <=> cur[u] \in monitored[v]
            BY Zenon, <1>2, <1>5, <2>3
        <3>4. PcInv(u)'
            BY Zenon, <1>1, <1>5, <2>1, <2>3, <3>3 DEF PcInv
        <3>5. QED BY Zenon, <3>1, <3>2, <3>4
    <2>4. QED BY Zenon, <2>2, <2>3
<1>10. QED BY Zenon, <1>6, <1>7, <1>8, <1>9 DEF EventLoopInv


\* accept() returns a number that no thread watches or works on.
LEMMA AcceptInv ==
    ASSUME Undisturbed, TypeOK, TypeOK', EventLoopInv, NEW a \in Acceptors, Accept(a)
    PROVE  EventLoopInv'
<1> USE DEF Goto, TakeTurn, clientVars, connVars, readVars
<1>0. a \in Threads
    BY Zenon DEF Threads
<1>1. PICK c \in backlog[a], f \in FreeFds :
          /\ backlog' = [backlog EXCEPT ![a] = @ \ {c}] /\ fdtab' = [fdtab EXCEPT ![f] = c]
          /\ cur' = [cur EXCEPT ![a] = f]
    BY Zenon DEF Accept
<1>2. /\ pc[a] = "loop" /\ pc' = [pc EXCEPT ![a] = "assign"] /\ target' = [target EXCEPT ![a] = a]
      /\ ins' = [ins EXCEPT ![a] = @ \ {Listen}] /\ UNCHANGED <<clientVars, monitored, connVars, hups, readVars>>
    BY Zenon DEF Accept, Assigned, Undisturbed
<1>3. c \in Conns /\ f \in Fds /\ fdtab[f] = NoConn /\ fdtab'[f] = c
      /\ \A g \in Fds \ {f} : fdtab'[g] = fdtab[g]
    BY Zenon, <1>1 DEF FreeFds, TypeOK
<1>4. /\ peer[c] # "none" /\ ~Accepted(c) /\ taken[c] = 0 /\ answered[c] = 0
      /\ \A b \in Acceptors \ {a} : c \notin backlog[b]
    BY Zenon, <1>1 DEF EventLoopInv, OnePlace
<1>5. /\ pc'[a] = "assign" /\ cur'[a] = f /\ target'[a] = a /\ ins'[a] = ins[a] \ {Listen}
      /\ \A u \in Threads \ {a} : /\ pc'[u] = pc[u] /\ cur'[u] = cur[u] /\ target'[u] = target[u]
                                  /\ ins'[u] = ins[u]
    BY <1>0, <1>1, <1>2 DEF TypeOK
<1>6. \A u \in Threads : f \notin monitored[u] /\ monitored[u] \subseteq Fds
    BY Zenon, <1>3 DEF EventLoopInv, MonitoredIsUsable, TypeOK
<1>7. \A u \in Threads \ {a} : pc[u] # "loop" => cur[u] \in Fds /\ cur[u] # f
    <2>1. SUFFICES ASSUME NEW u \in Threads \ {a}, pc[u] # "loop" PROVE cur[u] \in Fds /\ cur[u] # f
        OBVIOUS
    <2>2. PcInv(u) /\ pc[u] \in PcValues
        BY Zenon DEF EventLoopInv, TypeOK
    <2>3. cur[u] \in Fds
        BY Zenon, <2>1, <2>2 DEF TypeOK, PcInv
    <2>4. cur[u] # f
        BY Zenon, <1>0, <1>3, <1>6, <2>1, <2>2 DEF PcInv, PcValues
    <2>5. QED BY Zenon, <2>3, <2>4
<1>8. MonitoredIsUsable'
    BY Zenon, <1>2, <1>3, <1>6 DEF EventLoopInv, MonitoredIsUsable
<1>9. OnePlace'
    <2>1. \A d \in Conns : Accepted(d)' <=> Accepted(d) \/ d = c
        BY Zenon, <1>3, ConstantsAssumption DEF Accepted
    <2>2. \A g, h \in Fds : fdtab'[g] = fdtab'[h] /\ fdtab'[g] # NoConn => g = h
        BY <1>3, <1>4 DEF EventLoopInv, OnePlace, Accepted
    <2>3. backlog'[a] = backlog[a] \ {c} /\ \A b \in Acceptors \ {a} : backlog'[b] = backlog[b]
        BY Zenon, <1>1 DEF TypeOK
    <2>4. \A b \in Acceptors : \A d \in backlog'[b] : d \in backlog[b] /\ d # c /\ d \in Conns
        <3>1. \A b \in Acceptors : backlog[b] \subseteq Conns
            BY Zenon DEF TypeOK
        <3>2. QED BY Zenon, <1>4, <2>3, <3>1
    <2>5. QED BY Zenon, <1>2, <1>4, <2>1, <2>2, <2>4 DEF EventLoopInv, OnePlace
<1>10. FdsInv'
    <2>1. \A u \in Threads \ {a}, g \in Fds : Initialising(u, g)' <=> Initialising(u, g)
        BY Zenon, <1>5 DEF Initialising
    <2>2. \A g \in Fds : (Initialising(a, g)' <=> g = f) /\ ~Initialising(a, g)
        BY Zenon, <1>2, <1>5 DEF Initialising
    <2>3. \A u \in Threads \ {a} : ~Initialising(u, f)
        BY Zenon, <1>7 DEF Initialising
    <2>4. QED BY <1>0, <1>2, <1>3, <2>1, <2>2, <2>3 DEF EventLoopInv, FdsInv
<1>11. ASSUME NEW u \in Threads PROVE EventsInv(u)' /\ IdleInv(u)' /\ PcInv(u)'
    <2>1. EventsInv(u) /\ IdleInv(u) /\ PcInv(u)
        BY Zenon DEF EventLoopInv
    <2>2. \A g \in monitored[u] : g # f /\ g \in Fds /\ fdtab'[g] = fdtab[g]
        BY Zenon, <1>3, <1>6
    <2>3. EventsInv(u)'
        <3>1. ins'[u] \subseteq ins[u] /\ UNCHANGED <<hups, queue, monitored>>
            BY Zenon, <1>2, <1>5
        <3>2. ASSUME NEW g \in Fds, g \in hups[u] \cup ins[u] PROVE pc'[u] # "loop" => cur'[u] # g
            BY Zenon, <1>5, <2>1, <2>2, <3>2 DEF EventsInv
        <3>3. QED BY Zenon, <2>1, <2>2, <3>1, <3>2 DEF EventsInv
    <2>4. IdleInv(u)'
        BY <1>2, <1>5, <2>1, <2>2 DEF IdleInv, Serving, Initialising
    <2>5. PcInv(u)'
        <3>1. CASE u = a
            BY Zenon, <1>2, <1>3, <1>4, <1>5, <1>6, <3>1, ConstantsAssumption DEF PcInv
        <3>2. CASE u # a /\ pc[u] # "loop"
            <4>1. fdtab'[cur[u]] = fdtab[cur[u]]
                BY Zenon, <1>3, <1>7, <3>2
            <4>2. QED BY ZenonT(60), <1>2, <1>5, <2>1, <3>2, <4>1 DEF PcInv
        <3>3. CASE u # a /\ pc[u] = "loop"
            BY Zenon, <1>5, <3>3 DEF PcInv
        <3>4. QED BY Zenon, <3>1, <3>2, <3>3
    <2>6. QED BY Zenon, <2>3, <2>4, <2>5
<1>12. QED BY Zenon, <1>8, <1>9, <1>10, <1>11 DEF EventLoopInv


\* Every step of the system keeps the invariant.
LEMMA NextInv ==
    ASSUME Undisturbed
    PROVE  TypeOK /\ TypeOK' /\ EventLoopInv /\ [Next]_vars => EventLoopInv'
<1> SUFFICES ASSUME TypeOK, TypeOK', EventLoopInv, [Next]_vars PROVE EventLoopInv'
    OBVIOUS
<1>1. ASSUME NEW c \in Conns, Client(c) PROVE EventLoopInv'
    BY Zenon, <1>1, ClientInv
<1>2. ASSUME NEW a \in Acceptors, AcceptStep(a) PROVE EventLoopInv'
    <2>1. a \in Threads
        BY Zenon DEF Threads
    <2>2. QED BY Zenon, <1>2, <2>1, AcceptInv, AcceptFailsInv, InitAssignInv, InitRegisterInv, InitResetInv
              DEF AcceptStep
<1>3. ASSUME NEW t \in Threads, ServeStep(t) PROVE EventLoopInv'
    <2>1. ~WriteNothing(t)
        BY Zenon DEF WriteNothing, Wiped, Undisturbed
    <2>2. QED
        BY Zenon, <1>3, <2>1, EpollWaitInv, HandleHupInv, ReadOnceInv, StoreReadIdxInv,
           StartProcessInv, WriteResponseInv, WriteToClosedInv, WriteFailsInv, WriteKilledInv,
           CloseConnRemoveInv, CloseConnClearInv
           DEF ServeStep, WriteOnce
<1>4. NetThreads = {}
    BY Zenon DEF Undisturbed, NetThreads
<1>5. CASE UNCHANGED vars
    <2> USE <1>5 DEF vars, clientVars, kernelVars, connVars, readVars, initVars, events
    <2>1. MonitoredIsUsable' /\ OnePlace' /\ FdsInv'
        BY DEF EventLoopInv, MonitoredIsUsable, OnePlace, Accepted, FdsInv, Initialising
    <2>2. ASSUME NEW t \in Threads PROVE EventsInv(t)' /\ IdleInv(t)'
        BY Zenon DEF EventLoopInv, EventsInv, IdleInv, Serving, Initialising
    <2>3. ASSUME NEW t \in Threads PROVE PcInv(t)'
        BY Zenon DEF EventLoopInv, PcInv
    <2>4. QED BY Zenon, <2>1, <2>2, <2>3 DEF EventLoopInv
<1>6. QED BY Zenon, <1>1, <1>2, <1>3, <1>4, <1>5 DEF Next, ThreadStep

\* In the builds where a thread serves what it accepts, and with one thread or
\* clients that close in good order, every descriptor belongs to one thread and
\* what a thread has read and answered differ by what it is working on: for any
\* number of connections, threads, descriptors and requests.
THEOREM EventLoopCorrect == ASSUME Undisturbed PROVE Spec => []EventLoopInv
<1>1. Init => EventLoopInv
    BY Zenon, InitInv
<1>2. TypeOK /\ TypeOK' /\ EventLoopInv /\ [Next]_vars => EventLoopInv'
    BY Zenon, NextInv
<1>3. QED BY <1>1, <1>2, TypeCorrect, PTL DEF Spec

\* The invariant implies the properties of the runs.
LEMMA EventLoopImplies ==
    ASSUME TypeOK, EventLoopInv
    PROVE  NoLostRequest /\ RightReceiver /\ ReadInBuffer /\ AcceptedIsMonitored
<1>1. ASSUME NEW f \in Fds, fdtab[f] # NoConn, \A t \in Threads : ~Initialising(t, f)
      PROVE  \E t \in Threads : f \in monitored[t]
    BY Zenon, <1>1 DEF EventLoopInv, FdsInv
<1>2. NoLostRequest
    <2> SUFFICES ASSUME NEW f \in Fds, fdtab[f] # NoConn, \A t \in Threads : ~Serving(t, f)
                 PROVE  answered[fdtab[f]] = taken[fdtab[f]]
        BY Zenon DEF NoLostRequest
    <2>1. CASE \E t \in Threads : Initialising(t, f)
        <3>1. PICK t \in Threads : Initialising(t, f)
            BY Zenon, <2>1
        <3>2. QED BY <3>1 DEF EventLoopInv, PcInv, Initialising
    <2>2. CASE \A t \in Threads : ~Initialising(t, f)
        <3>1. PICK t \in Threads : f \in monitored[t]
            BY Zenon, <1>1, <2>2
        <3>2. QED BY Zenon, <2>2, <3>1 DEF EventLoopInv, IdleInv
    <2>3. QED BY Zenon, <2>1, <2>2
<1>3. RightReceiver
    <2> SUFFICES ASSUME NEW t \in Threads, pc[t] = "write", Receiver(t) # NoConn
                 PROVE  Receiver(t) = owner[t]
        BY Zenon DEF RightReceiver
    <2>1. socket_fd_[cur[t]] = -1 => Receiver(t) = NoConn
        BY DEF Receiver, Fds
    <2>2. QED BY Zenon, <2>1, Writing
<1>4. ReadInBuffer
    <2> SUFFICES ASSUME NEW t \in Threads, NEW f \in Fds, pc[t] = "loop", f \in ins[t]
                 PROVE  read_idx_[f] = 0
        BY ConstantsAssumption DEF ReadInBuffer
    <2>1. f \in monitored[t] /\ IdleInv(t)
        BY Zenon DEF EventLoopInv, EventsInv
    <2>2. QED BY Zenon, <2>1 DEF IdleInv, Serving, Initialising
<1>5. AcceptedIsMonitored
    BY Zenon, <1>1 DEF AcceptedIsMonitored
<1>6. QED BY Zenon, <1>2, <1>3, <1>4, <1>5

\* In those builds ReadOnce, Process and WriteOnce lose no request that was read.
THEOREM NothingLost == ASSUME Undisturbed PROVE Spec => []NoLostRequest
BY TypeCorrect, EventLoopCorrect, EventLoopImplies, PTL

\* In those builds no response goes to another client, although descriptor
\* numbers are reused.
THEOREM Delivery == ASSUME Undisturbed PROVE Spec => []RightReceiver
<1>1. TypeOK /\ EventLoopInv => RightReceiver
    BY Zenon, EventLoopImplies
<1>2. QED BY <1>1, TypeCorrect, EventLoopCorrect, PTL

\* In those builds what epoll watches is what the TCPConns say.
THEOREM Watched == ASSUME Undisturbed PROVE Spec => []MonitoredIsUsable
<1>1. EventLoopInv => MonitoredIsUsable
    BY Zenon DEF EventLoopInv
<1>2. QED BY <1>1, EventLoopCorrect, PTL

\* In those builds ReadOnce always has room in read_buf_.
THEOREM Readiness == ASSUME Undisturbed PROVE Spec => []ReadInBuffer
<1>1. TypeOK /\ EventLoopInv => ReadInBuffer
    BY Zenon, EventLoopImplies
<1>2. QED BY <1>1, TypeCorrect, EventLoopCorrect, PTL

\* In those builds TCPConn::Init leaves no open connection unwatched.
THEOREM Registration == ASSUME Undisturbed PROVE Spec => []AcceptedIsMonitored
<1>1. TypeOK /\ EventLoopInv => AcceptedIsMonitored
    BY Zenon, EventLoopImplies
<1>2. QED BY <1>1, TypeCorrect, EventLoopCorrect, PTL

=============================================================================
