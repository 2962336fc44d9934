------------------------------ MODULE Skeleton ------------------------------
(***************************************************************************)
(* The epoll server of network_skeleton (NETWORKEPOLL builds) and of the   *)
(* synthetic applications made from it: threads that accept connections,   *)
(* threads that serve them, the table conns_ of TCPConn objects indexed by *)
(* descriptor, and the part of the kernel they meet (descriptor table,     *)
(* epoll interest lists, listen queues, socket receive queues).            *)
(*                                                                         *)
(*   NETWORKDISPATCH = TRUE   synthetic_memcached: the acceptor hands each *)
(*                            connection to a network thread.              *)
(*   NETWORKDISPATCH = FALSE  synthetic_redis (one acceptor, the main      *)
(*                            thread) and synthetic_nginx (ACCEPTDISPATCH, *)
(*                            several acceptors): a thread serves what it  *)
(*                            accepts.                                     *)
(*                                                                         *)
(* A step is what one thread does between two accesses to state another    *)
(* thread may touch.  Bytes are counted in whole requests, and the -1 of a *)
(* failed read() as one request, which it leaves incomplete; fragments and *)
(* partial writes are in module TCPConn.                                   *)
(*                                                                         *)
(* An operator named Op_Slip is Op with a plausible mistake, kept to show  *)
(* that the properties notice it; no specification uses it.                *)
(***************************************************************************)
EXTENDS Integers, FiniteSets

CONSTANTS
    Conns,               \* client connections; each one connects at most once
    Disorderly,          \* the clients that may close or reset at any time
    Slow,                \* the clients that may stop reading responses
    Acceptors,           \* threads with a listening socket
    NetworkThreadNumber, \* config.network_thread_number
    NETWORKDISPATCH,     \* the macro
    FdLimit,             \* descriptors the process may use for connections
    ReadBufferSize,      \* READ_BUFFER_SIZE, in requests
    MaxRequests,         \* bound: requests a client sends
    IdxFloor,            \* bound: how far below zero read_idx_ is followed
    NoConn, NoEpoll

Fds == 1 .. FdLimit
NetThreads == IF NETWORKDISPATCH THEN 0 .. NetworkThreadNumber - 1 ELSE {}
Threads == Acceptors \cup NetThreads
Listen == 0  \* the listening socket, among the descriptors of a batch of events

ASSUME ConstantsAssumption ==
    /\ Disorderly \subseteq Conns /\ Slow \subseteq Conns
    /\ NetworkThreadNumber \in Nat /\ FdLimit \in Nat
    /\ ReadBufferSize \in Nat \ {0} /\ MaxRequests \in Nat /\ IdxFloor \in Nat
    /\ NETWORKDISPATCH \in BOOLEAN
    /\ NETWORKDISPATCH => NetworkThreadNumber > 0  \* EpollNetworkThreadPool throws otherwise
    /\ Acceptors \cap NetThreads = {}
    /\ NoConn \notin Conns /\ NoEpoll \notin Threads

VARIABLES
    \* the clients
    peer,       \* what the server's kernel knows of each client
    stalled,    \* clients whose socket accepts no more response data
    queue,      \* requests in each socket's receive queue
    taken,      \* history: requests read() has handed to the server
    answered,   \* history: responses written to each client
    \* the kernel
    fdtab,      \* the connection behind each descriptor
    monitored,  \* the interest list of each thread's epoll instance
    backlog,    \* established connections no accept() has returned yet
    alive,      \* FALSE once SIGPIPE has killed the process
    \* shared memory of the server
    epoll_fd_, socket_fd_, read_idx_,  \* the TCPConn of each descriptor
    bytes_to_send_,                    \* 1 for a whole response
    network_epoll_fds_,                \* NoEpoll stands for the uninitialised slot
    \* each thread
    pc,
    hups, ins,  \* the events of the batch still to be handled: hang-ups, and EPOLLIN
    cur, target, bytes_read, old_idx, left, network_turn,
    owner       \* history: the client whose requests the thread is processing

clientVars == <<peer, stalled, queue, taken, answered>>
kernelVars == <<fdtab, monitored, backlog>>
connVars   == <<epoll_fd_, socket_fd_, read_idx_, bytes_to_send_>>
readVars   == <<bytes_read, old_idx, left, owner>>
initVars   == <<target, network_turn>>
events     == <<hups, ins>>
vars == <<clientVars, kernelVars, alive, connVars, network_epoll_fds_,
          pc, events, cur, readVars, initVars>>

PeerStates == {"none", "open", "fin", "reset", "broken"}
PcValues == {"start", "loop", "store", "parse", "write", "close", "clear",
             "assign", "register", "reset"}

Init ==
    /\ peer = [c \in Conns |-> "none"]
    /\ stalled = {}
    /\ queue = [c \in Conns |-> 0]
    /\ taken = [c \in Conns |-> 0]
    /\ answered = [c \in Conns |-> 0]
    /\ fdtab = [f \in Fds |-> NoConn]
    /\ monitored = [t \in Threads |-> {}]
    /\ backlog = [a \in Acceptors |-> {}]
    /\ alive = TRUE
    \* TCPConn() {} assigns nothing; new TCPConn[MAX_FD] is fresh, zeroed memory.
    \* Only read_idx_ can be read before TCPConn::Init has written it.
    /\ epoll_fd_ = [f \in Fds |-> NoEpoll]
    /\ socket_fd_ = [f \in Fds |-> 0]
    /\ read_idx_ = [f \in Fds |-> 0]
    /\ bytes_to_send_ = [f \in Fds |-> 0]
    /\ network_epoll_fds_ = [n \in NetThreads |-> NoEpoll]
    /\ pc = [t \in Threads |-> IF t \in Acceptors THEN "loop" ELSE "start"]
    /\ hups = [t \in Threads |-> {}]
    /\ ins = [t \in Threads |-> {}]
    /\ cur = [t \in Threads |-> 0]
    /\ target = [t \in Threads |-> NoEpoll]
    /\ bytes_read = [t \in Threads |-> 0]
    /\ old_idx = [t \in Threads |-> 0]
    /\ left = [t \in Threads |-> 0]
    /\ network_turn = [t \in Threads |-> 0]
    /\ owner = [t \in Threads |-> NoConn]

Goto(t, from, to) ==
    /\ alive
    /\ pc[t] = from
    /\ pc' = [pc EXCEPT ![t] = to]

-----------------------------------------------------------------------------
(* The clients.  A FIN followed by a RST is "broken": the next write fails   *)
(* with EPIPE.  A RST alone is "reset": the next write fails with ECONNRESET.*)

Connect(c, a) ==
    /\ peer[c] = "none"
    /\ peer' = [peer EXCEPT ![c] = "open"]
    /\ backlog' = [backlog EXCEPT ![a] = @ \cup {c}]
    /\ UNCHANGED <<stalled, queue, taken, answered, fdtab, monitored>>

Send(c) ==
    /\ peer[c] = "open"
    /\ queue[c] + taken[c] < MaxRequests
    /\ queue' = [queue EXCEPT ![c] = @ + 1]
    /\ UNCHANGED <<peer, stalled, taken, answered, kernelVars>>

\* An orderly client closes once everything it asked for has been answered.
Close(c) ==
    /\ peer[c] = "open"
    /\ c \in Disorderly \/ answered[c] = queue[c] + taken[c]
    /\ peer' = [peer EXCEPT ![c] = "fin"]
    /\ UNCHANGED <<stalled, queue, taken, answered, kernelVars>>

Abort(c) ==
    /\ c \in Disorderly
    /\ peer[c] \in {"open", "fin"}
    /\ peer' = [peer EXCEPT ![c] = IF @ = "open" THEN "reset" ELSE "broken"]
    /\ UNCHANGED <<stalled, queue, taken, answered, kernelVars>>

\* A slow client reads again, and its socket's send buffer has room.
Resume(c) ==
    /\ c \in stalled
    /\ stalled' = stalled \ {c}
    /\ UNCHANGED <<peer, queue, taken, answered, kernelVars>>

serverVars == <<alive, connVars, network_epoll_fds_, pc, events, cur, readVars, initVars>>

Client(c) ==
    /\ \/ \E a \in Acceptors : Connect(c, a)
       \/ Send(c) \/ Close(c) \/ Abort(c)
       \/ Resume(c)
    /\ UNCHANGED serverVars

-----------------------------------------------------------------------------
(* The event loops: EpollNetworkThread::Run, EpollAcceptThread::Run and      *)
(* Service::EventLoop.                                                       *)

\* Epoll is level-triggered: a monitored socket is ready while it holds data
\* or its peer is gone, a listening socket while its queue is not empty.
\* A socket with data and a hang-up counts as a hang-up: the loops test that first.
HupFds(t) == {f \in monitored[t] : peer[fdtab[f]] # "open"}
InFds(t) ==
    {f \in monitored[t] : peer[fdtab[f]] = "open" /\ queue[fdtab[f]] > 0}
    \cup {l \in {Listen} : t \in Acceptors /\ backlog[t] # {}}

PublishEpoll(n) ==
    /\ Goto(n, "start", "loop")
    /\ network_epoll_fds_' = [network_epoll_fds_ EXCEPT ![n] = n]
    /\ UNCHANGED <<clientVars, kernelVars, alive, connVars, events, cur, readVars, initVars>>

EpollWait(t) ==
    /\ Goto(t, "loop", "loop")
    /\ hups[t] = {} /\ ins[t] = {}
    /\ HupFds(t) # {} \/ InFds(t) # {}
    /\ hups' = [hups EXCEPT ![t] = HupFds(t)]
    /\ ins' = [ins EXCEPT ![t] = InFds(t)]
    /\ UNCHANGED <<clientVars, kernelVars, alive, connVars, network_epoll_fds_, cur, readVars, initVars>>

\* close(f) frees the descriptor and takes it out of every interest list; on
\* a number that is not open it fails.
CloseFd(f) ==
    /\ fdtab' = [g \in Fds |-> IF g = f THEN NoConn ELSE fdtab[g]]
    /\ monitored' = [t \in Threads |-> monitored[t] \ {f}]

\* Slip: EPOLL_CTL_DEL without close().
HandleHup_NoClose(t, f) ==
    /\ Goto(t, "loop", "loop")
    /\ f \in hups[t]
    /\ hups' = [hups EXCEPT ![t] = @ \ {f}]
    /\ monitored' = [monitored EXCEPT ![t] = @ \ {f}]
    /\ UNCHANGED <<clientVars, fdtab, backlog, alive, connVars, network_epoll_fds_, ins, cur, readVars, initVars>>

\* EPOLLRDHUP, EPOLLHUP or EPOLLERR: the TCPConn itself is not touched.
HandleHup(t, f) ==
    /\ Goto(t, "loop", "loop")
    /\ f \in hups[t]
    /\ hups' = [hups EXCEPT ![t] = @ \ {f}]
    /\ CloseFd(f)
    /\ UNCHANGED <<clientVars, backlog, alive, connVars, network_epoll_fds_, ins, cur, readVars, initVars>>

-----------------------------------------------------------------------------
(* TCPConn::ReadOnce, ParseMultiRequest and Process.                         *)

\* What read() returns on descriptor s, given read_idx_ = idx: data first, then
\* end of file, or an error (EBADF, ECONNRESET, EAGAIN).
ReadResult(s, idx) ==
    LET c == IF s \in Fds THEN fdtab[s] ELSE NoConn
        room == ReadBufferSize - idx
    IN  IF c = NoConn THEN -1
        ELSE IF queue[c] > 0 THEN (IF queue[c] < room THEN queue[c] ELSE room)
        ELSE IF peer[c] = "fin" THEN 0
        ELSE -1

ReadOnce(t, f) ==
    LET s == socket_fd_[f]
        n == ReadResult(s, read_idx_[f])
    IN  /\ Goto(t, "loop", "store")
        /\ f \in ins[t]
        /\ ins' = [ins EXCEPT ![t] = @ \ {f}]
        /\ cur' = [cur EXCEPT ![t] = f]
        /\ bytes_read' = [bytes_read EXCEPT ![t] = n]
        /\ old_idx' = [old_idx EXCEPT ![t] = read_idx_[f]]
        /\ \/ /\ n > 0
              /\ owner' = [owner EXCEPT ![t] = fdtab[s]]
              /\ queue' = [queue EXCEPT ![fdtab[s]] = @ - n]
              /\ taken' = [taken EXCEPT ![fdtab[s]] = @ + n]
           \/ n <= 0 /\ UNCHANGED <<owner, queue, taken>>
        /\ UNCHANGED <<peer, stalled, answered, kernelVars, alive, connVars,
                       network_epoll_fds_, hups, left, initVars>>

\* read_idx_ += bytes_read is a plain load and store: a Reset of another thread
\* since the read() may fall before or after the load.
StoreReadIdx(t) ==
    /\ Goto(t, "store", IF bytes_read[t] > 0 THEN "parse" ELSE "loop")
    /\ \E loaded \in {old_idx[t], read_idx_[cur[t]]} :
          /\ loaded + bytes_read[t] >= -IdxFloor
          /\ read_idx_' = [read_idx_ EXCEPT ![cur[t]] = loaded + bytes_read[t]]
    /\ UNCHANGED <<clientVars, kernelVars, alive, epoll_fd_, socket_fd_, bytes_to_send_,
                   network_epoll_fds_, events, cur, readVars, initVars>>

\* Slip: one request per read, as in network_skeleton before it is adapted to a client.
ParseMultiRequest_One(f) == 1

\* The number of requests in read_buf_: read_idx_ / 54 in synthetic_memcached,
\* the newlines in synthetic_nginx and synthetic_redis.
ParseMultiRequest(f) == read_idx_[f]

\* Process has n requests left.  It makes a response for the next one; after the
\* last, bytes_to_send_ stays as WriteOnce leaves it.
MakeResponse(t, n, rest) ==
    bytes_to_send_' = [bytes_to_send_ EXCEPT ![cur[t]] = IF n > 0 THEN 1 ELSE rest]

StartProcess(t) ==
    LET request_number == ParseMultiRequest(cur[t])
    IN  /\ Goto(t, "parse", IF request_number > 0 THEN "write" ELSE "loop")
        /\ left' = [left EXCEPT ![t] = request_number]
        /\ MakeResponse(t, request_number, bytes_to_send_[cur[t]])
        /\ UNCHANGED <<clientVars, kernelVars, alive, epoll_fd_, socket_fd_, read_idx_,
                       network_epoll_fds_, events, cur, bytes_read, old_idx, owner, initVars>>

\* The end of an iteration of Process's loop.
NextRequest(t, from, rest) ==
    /\ Goto(t, from, IF left[t] > 1 THEN "write" ELSE "loop")
    /\ left' = [left EXCEPT ![t] = @ - 1]
    /\ MakeResponse(t, left[t] - 1, rest)
    /\ UNCHANGED <<queue, taken, backlog, network_epoll_fds_,
                   events, cur, bytes_read, old_idx, owner, initVars>>

-----------------------------------------------------------------------------
(* TCPConn::WriteOnce and CloseConn.  While the socket accepts no data writev *)
(* fails with EAGAIN and WriteOnce tries again: the thread makes no step.     *)

\* The client behind the TCPConn thread t is writing to, if its descriptor is open.
Receiver(t) ==
    LET s == socket_fd_[cur[t]] IN IF s \in Fds THEN fdtab[s] ELSE NoConn

\* Slip: WriteOnce returns without Reset.
WriteResponse_NoReset(t) ==
    LET c == Receiver(t)
    IN  /\ NextRequest(t, "write", 0)
        /\ c # NoConn /\ peer[c] \in {"open", "fin"} /\ c \notin stalled
        /\ answered' = [answered EXCEPT ![c] = @ + 1]
        /\ stalled' \in {stalled, stalled \cup (Slow \cap {c})}
        /\ UNCHANGED <<peer, fdtab, monitored, alive, epoll_fd_, socket_fd_, read_idx_>>

\* The response is written and Reset ends WriteOnce.  It may have been the one
\* that fills the send buffer towards a client that does not read.
WriteResponse(t) ==
    LET c == Receiver(t)
    IN  /\ NextRequest(t, "write", 0)
        /\ c # NoConn /\ peer[c] \in {"open", "fin"} /\ c \notin stalled
        /\ answered' = [answered EXCEPT ![c] = @ + 1]
        /\ stalled' \in {stalled, stalled \cup (Slow \cap {c})}
        /\ read_idx_' = [read_idx_ EXCEPT ![cur[t]] = 0]
        /\ UNCHANGED <<peer, fdtab, monitored, alive, epoll_fd_, socket_fd_>>

\* synthetic_memcached looks at bytes_to_send_ before every sendmsg: another
\* thread's Reset since Process has set it, and WriteOnce returns with nothing sent.
Wiped(t) == NETWORKDISPATCH /\ bytes_to_send_[cur[t]] = 0

WriteNothing(t) ==
    /\ NextRequest(t, "write", 0)
    /\ Wiped(t)
    /\ read_idx_' = [read_idx_ EXCEPT ![cur[t]] = 0]
    /\ UNCHANGED <<peer, stalled, answered, fdtab, monitored, alive, epoll_fd_, socket_fd_>>

\* EBADF on -1: CloseConn does nothing, and Process goes on.
WriteToClosed(t) ==
    /\ NextRequest(t, "write", bytes_to_send_[cur[t]])
    /\ socket_fd_[cur[t]] = -1
    /\ UNCHANGED <<peer, stalled, answered, fdtab, monitored, alive,
                   epoll_fd_, socket_fd_, read_idx_>>

\* ECONNRESET, or EBADF on a descriptor that someone has closed: CloseConn is entered.
WriteFails(t) ==
    /\ Goto(t, "write", "close")
    /\ socket_fd_[cur[t]] # -1
    /\ Receiver(t) = NoConn \/ peer[Receiver(t)] = "reset"
    /\ UNCHANGED <<clientVars, kernelVars, alive, connVars, network_epoll_fds_,
                   events, cur, readVars, initVars>>

\* EPIPE: nothing handles SIGPIPE, whose default action ends the process.
WriteKilled(t) ==
    /\ Goto(t, "write", "write")
    /\ Receiver(t) # NoConn /\ peer[Receiver(t)] = "broken"
    /\ alive' = FALSE
    /\ UNCHANGED <<clientVars, kernelVars, connVars, network_epoll_fds_,
                   events, cur, readVars, initVars>>

WriteOnce(t) ==
    /\ pc[t] = "write"
    /\ \/ WriteNothing(t)
       \/ ~Wiped(t) /\ (WriteResponse(t) \/ WriteToClosed(t) \/ WriteFails(t) \/ WriteKilled(t))

\* Slip: CloseConn forgets removefd.
CloseConnRemove_Kept(t) ==
    /\ Goto(t, "close", "clear")
    /\ UNCHANGED <<clientVars, kernelVars, alive, connVars, network_epoll_fds_,
                   events, cur, readVars, initVars>>

\* removefd(epoll_fd_, socket_fd_) ...
CloseConnRemove(t) ==
    /\ Goto(t, "close", "clear")
    /\ CloseFd(socket_fd_[cur[t]])
    /\ UNCHANGED <<clientVars, backlog, alive, connVars, network_epoll_fds_,
                   events, cur, readVars, initVars>>

\* ... then socket_fd_ = -1.  No Reset: read_idx_ keeps its value.
CloseConnClear(t) ==
    /\ NextRequest(t, "clear", bytes_to_send_[cur[t]])
    /\ socket_fd_' = [socket_fd_ EXCEPT ![cur[t]] = -1]
    /\ UNCHANGED <<peer, stalled, answered, fdtab, monitored, alive, epoll_fd_, read_idx_>>

-----------------------------------------------------------------------------
(* handleNewConn and TCPConn::Init.                                          *)

FreeFds == {f \in Fds : fdtab[f] = NoConn}

\* The epoll instance a new connection is meant for.  The slot of a network
\* thread that has not run yet holds whatever new int[] left there: a number
\* that is no epoll instance, or by accident that of a thread that does run.
Assigned(a) ==
    LET slot == network_epoll_fds_[network_turn[a]]
    IN  IF ~NETWORKDISPATCH THEN {a}
        ELSE IF slot # NoEpoll THEN {slot}
        ELSE {network_epoll_fds_[n] : n \in NetThreads} \cup {NoEpoll}

\* The turn is taken before accept(), so a failed accept() uses it up.
TakeTurn(a) ==
    /\ Listen \in ins[a]
    /\ ins' = [ins EXCEPT ![a] = @ \ {Listen}]
    /\ UNCHANGED hups
    /\ network_turn' = IF NETWORKDISPATCH
                       THEN [network_turn EXCEPT ![a] = (@ + 1) % NetworkThreadNumber]
                       ELSE network_turn

\* accept() returns the lowest free descriptor.
Accept(a) ==
    /\ Goto(a, "loop", "assign")
    /\ \E e \in Assigned(a) : target' = [target EXCEPT ![a] = e]
    /\ TakeTurn(a)
    /\ \E c \in backlog[a], f \in FreeFds :
          /\ \A g \in FreeFds : f <= g
          /\ backlog' = [backlog EXCEPT ![a] = @ \ {c}]
          /\ fdtab' = [fdtab EXCEPT ![f] = c]
          /\ cur' = [cur EXCEPT ![a] = f]
    /\ UNCHANGED <<clientVars, monitored, alive, connVars, network_epoll_fds_, readVars>>

\* EMFILE.
AcceptFails(a) ==
    /\ Goto(a, "loop", "loop")
    /\ FreeFds = {}
    /\ TakeTurn(a)
    /\ UNCHANGED <<clientVars, kernelVars, alive, connVars, network_epoll_fds_,
                   cur, readVars, target>>

\* Slip: the arguments of Init are swapped.
InitAssign_Swapped(a) ==
    /\ Goto(a, "assign", "register")
    /\ epoll_fd_' = [epoll_fd_ EXCEPT ![cur[a]] = cur[a]]
    /\ socket_fd_' = [socket_fd_ EXCEPT ![cur[a]] = target[a]]
    /\ UNCHANGED <<clientVars, kernelVars, alive, read_idx_, bytes_to_send_,
                   network_epoll_fds_, events, cur, readVars, initVars>>

\* Slip: conns[connfd - 1] is initialised too.
InitAssign_OffByOne(a) ==
    /\ Goto(a, "assign", "register")
    /\ epoll_fd_' = [f \in Fds |-> IF f \in {cur[a], cur[a] - 1} THEN target[a] ELSE epoll_fd_[f]]
    /\ socket_fd_' = [f \in Fds |-> IF f \in {cur[a], cur[a] - 1} THEN cur[a] ELSE socket_fd_[f]]
    /\ UNCHANGED <<clientVars, kernelVars, alive, read_idx_, bytes_to_send_,
                   network_epoll_fds_, events, cur, readVars, initVars>>

InitAssign(a) ==
    /\ Goto(a, "assign", "register")
    /\ epoll_fd_' = [epoll_fd_ EXCEPT ![cur[a]] = target[a]]
    /\ socket_fd_' = [socket_fd_ EXCEPT ![cur[a]] = cur[a]]
    /\ UNCHANGED <<clientVars, kernelVars, alive, read_idx_, bytes_to_send_,
                   network_epoll_fds_, events, cur, readVars, initVars>>

\* Slip: NETWORKEPOLL is not defined where TCPConn::Init is compiled, so addfd is left out.
InitRegister_NoEpoll(a) ==
    /\ Goto(a, "register", "reset")
    /\ UNCHANGED <<clientVars, kernelVars, alive, connVars, network_epoll_fds_,
                   events, cur, readVars, initVars>>

\* addfd ignores a failed epoll_ctl (no such epoll instance, or no such descriptor).
InitRegister(a) ==
    LET e == epoll_fd_[cur[a]]
        s == socket_fd_[cur[a]]
        valid == e # NoEpoll /\ s \in Fds \ FreeFds
    IN  /\ Goto(a, "register", "reset")
        /\ monitored' = IF valid THEN [monitored EXCEPT ![e] = @ \cup {s}] ELSE monitored
        /\ UNCHANGED <<clientVars, fdtab, backlog, alive, connVars, network_epoll_fds_,
                       events, cur, readVars, initVars>>

\* Reset, perhaps of a TCPConn that a network thread is already using.
InitReset(a) ==
    /\ Goto(a, "reset", "loop")
    /\ read_idx_' = [read_idx_ EXCEPT ![cur[a]] = 0]
    /\ bytes_to_send_' = [bytes_to_send_ EXCEPT ![cur[a]] = 0]
    /\ UNCHANGED <<clientVars, kernelVars, alive, epoll_fd_, socket_fd_, network_epoll_fds_,
                   events, cur, readVars, initVars>>

AcceptStep(a) ==
    Accept(a) \/ AcceptFails(a) \/ InitAssign(a) \/ InitRegister(a) \/ InitReset(a)

ServeStep(t) ==
    \/ EpollWait(t)
    \/ \E f \in Fds : HandleHup(t, f) \/ ReadOnce(t, f)
    \/ StoreReadIdx(t) \/ StartProcess(t)
    \/ WriteOnce(t) \/ CloseConnRemove(t) \/ CloseConnClear(t)

ThreadStep(t) ==
    \/ t \in NetThreads /\ PublishEpoll(t)
    \/ t \in Acceptors /\ AcceptStep(t)
    \/ ServeStep(t)

Next == (\E c \in Conns : Client(c)) \/ (\E t \in Threads : ThreadStep(t))

Spec == Init /\ [][Next]_vars

\* The scheduler runs every thread that can run, and nothing obliges a client
\* to do anything, except that a stalled one reads again some day.
FairSpec ==
    /\ Spec
    /\ \A t \in Threads : WF_vars(ThreadStep(t))
    /\ \A c \in Conns : WF_vars(Resume(c) /\ UNCHANGED serverVars)

-----------------------------------------------------------------------------
(* Properties.                                                               *)

\* Every variable has its type; a thread in the middle of an event has a
\* descriptor, and network_turn is an index of network_epoll_fds_.
TypeOK ==
    /\ peer \in [Conns -> PeerStates] /\ stalled \subseteq Slow
    /\ queue \in [Conns -> Nat] /\ taken \in [Conns -> Nat] /\ answered \in [Conns -> Nat]
    /\ fdtab \in [Fds -> Conns \cup {NoConn}]
    /\ monitored \in [Threads -> SUBSET Fds]
    /\ backlog \in [Acceptors -> SUBSET Conns]
    /\ alive \in BOOLEAN
    /\ epoll_fd_ \in [Fds -> Threads \cup {NoEpoll}]
    /\ socket_fd_ \in [Fds -> Fds \cup {-1, 0}]
    /\ read_idx_ \in [Fds -> Int] /\ bytes_to_send_ \in [Fds -> {0, 1}]
    /\ network_epoll_fds_ \in [NetThreads -> NetThreads \cup {NoEpoll}]
    /\ pc \in [Threads -> PcValues]
    /\ hups \in [Threads -> SUBSET Fds] /\ ins \in [Threads -> SUBSET (Fds \cup {Listen})]
    /\ cur \in [Threads -> Fds \cup {0}]
    /\ \A t \in Threads : pc[t] \notin {"start", "loop"} => cur[t] \in Fds
    /\ target \in [Threads -> Threads \cup {NoEpoll}]
    /\ bytes_read \in [Threads -> Int] /\ old_idx \in [Threads -> Int] /\ left \in [Threads -> Int]
    /\ network_turn \in [Threads -> NetThreads \cup {0}]
    /\ owner \in [Threads -> Conns \cup {NoConn}]

Serving(t, f) == cur[t] = f /\ pc[t] \in {"store", "parse", "write", "close", "clear"}
Initialising(t, f) == cur[t] = f /\ pc[t] \in {"assign", "register", "reset"}

\* Once a thread is done with an event of a connection whose client is still
\* there, every request that ReadOnce took from it has had its response from
\* Process: nothing read is forgotten in read_buf_ or wiped by a Reset.
NoLostRequest ==
    \A f \in Fds :
        LET c == fdtab[f]
        IN  /\ c # NoConn /\ peer[c] = "open"
            /\ \A t \in Threads : ~Serving(t, f)
            => answered[c] = taken[c]

\* Process writes its responses to the client that sent the requests, although
\* it finds the socket through conns_[fd].socket_fd_ anew at every writev and
\* descriptor numbers are reused.
RightReceiver ==
    \A t \in Threads :
        pc[t] = "write" /\ Receiver(t) # NoConn => Receiver(t) = owner[t]

\* When a thread is about to serve EPOLLIN, read_idx_ is a position of read_buf_
\* with room behind it, whatever closes without Reset the TCPConn went through
\* before, and however a Reset of another thread falls into read_idx_ += bytes_read.
ReadInBuffer ==
    \A t \in Threads, f \in Fds :
        pc[t] = "loop" /\ f \in ins[t] => read_idx_[f] \in 0 .. ReadBufferSize - 1

\* A socket in some epoll interest list is open, its TCPConn leads back to it and
\* to that epoll instance: CloseConn and Init of two threads that use the same
\* descriptor number in turn do not mix, and no two threads watch one socket.
MonitoredIsUsable ==
    \A t \in Threads : \A f \in monitored[t] :
        /\ fdtab[f] # NoConn
        /\ socket_fd_[f] = f
        /\ epoll_fd_[f] = t

\* When TCPConn::Init has returned, the socket is registered with an epoll
\* instance, and stays so until it is closed.
AcceptedIsMonitored ==
    \A f \in Fds :
        fdtab[f] # NoConn /\ (\A t \in Threads : ~Initialising(t, f)) =>
            \E t \in Threads : f \in monitored[t]

Accepted(c) == \E f \in Fds : fdtab[f] = c

\* A connection whose client stays is answered completely, even when other
\* clients stop reading for a while: no event is missed and no thread stays
\* busy for ever (unless SIGPIPE ends the process).
EventuallyAnswered ==
    \A c \in Conns :
        Accepted(c) /\ peer[c] = "open" ~>
            \/ peer[c] # "open" \/ ~alive
            \/ answered[c] = queue[c] + taken[c]

\* The descriptor of a client that has gone is closed: event loops and CloseConn
\* between them leak none.
EventuallyReleased ==
    \A c \in Conns : Accepted(c) /\ peer[c] # "open" ~> ~Accepted(c) \/ ~alive

Published == \A n \in NetThreads : network_epoll_fds_[n] # NoEpoll

\* Once all network threads run, what a new client sends is read by the thread
\* that round-robin chose for it, and its descriptor is released in the end.
DispatchedIsServed ==
    \A c \in Conns :
        [](Published /\ peer[c] = "none" =>
              [](Accepted(c) /\ (queue[c] > 0 \/ peer[c] # "open") =>
                     <>(~alive \/ ~Accepted(c) \/ (queue[c] = 0 /\ peer[c] = "open"))))

-----------------------------------------------------------------------------
(* The invariant behind the builds without NETWORKDISPATCH.  It is inductive *)
(* when no thread can meet another one's CloseConn: there is one thread, or  *)
(* every client closes in good order.                                        *)

Undisturbed ==
    ~NETWORKDISPATCH /\ (Disorderly = {} \/ \A t, u \in Threads : t = u)

\* A connection is in one place: not begun, in one listen queue, or behind one
\* descriptor; until it is accepted, nothing has been read or written.
OnePlace ==
    /\ \A f, g \in Fds : fdtab[f] = fdtab[g] /\ fdtab[f] # NoConn => f = g
    /\ \A a \in Acceptors : \A c \in backlog[a] :
          /\ peer[c] # "none" /\ ~Accepted(c)
          /\ \A b \in Acceptors \ {a} : c \notin backlog[b]
          /\ taken[c] = 0 /\ answered[c] = 0
    /\ \A c \in Conns :
          /\ peer[c] = "none" => ~Accepted(c) /\ taken[c] = 0 /\ answered[c] = 0
          /\ peer[c] \in {"reset", "broken"} => c \in Disorderly

\* What thread t knows of the descriptors in its batch of events.
EventsInv(t) ==
    \A f \in Fds :
        /\ f \in hups[t] \cup ins[t] =>
              /\ f \in monitored[t]
              /\ pc[t] # "loop" => cur[t] # f
        /\ f \in hups[t] => f \notin ins[t]
        /\ f \in ins[t] => queue[fdtab[f]] > 0

\* A watched connection no thread is working on owes nothing and has an empty
\* read_buf_.
IdleInv(t) ==
    \A f \in monitored[t] :
        ~Serving(t, f) /\ ~Initialising(t, f) =>
            taken[fdtab[f]] = answered[fdtab[f]] /\ read_idx_[f] = 0

\* Where thread t stands with the connection it is working on.
PcInv(t) ==
    LET f == cur[t]
        c == fdtab[f]
        owes(n) == f \in monitored[t] /\ owner[t] = c /\ n > 0 /\ taken[c] = answered[c] + n
        fresh == f \in Fds /\ c # NoConn /\ taken[c] = 0 /\ answered[c] = 0
        unwatched == \A u \in Threads : f \notin monitored[u]
        alone == \A u \in Threads : u = t
    IN  /\ pc[t] # "start"
        /\ pc[t] = "assign" => fresh /\ unwatched /\ target[t] = t
        /\ pc[t] = "register" => fresh /\ unwatched /\ socket_fd_[f] = f /\ epoll_fd_[f] = t
        /\ pc[t] = "reset" => fresh /\ f \in monitored[t]
        /\ pc[t] = "store" => owes(bytes_read[t]) /\ old_idx[t] = 0 /\ read_idx_[f] = 0
        /\ pc[t] = "parse" => owes(bytes_read[t]) /\ read_idx_[f] = bytes_read[t]
        /\ pc[t] = "write" => \/ owes(left[t])
                              \/ f \in Fds /\ socket_fd_[f] = -1 /\ c = NoConn
                                 /\ unwatched /\ alone
        /\ pc[t] = "close" => f \in monitored[t] /\ alone
        /\ pc[t] = "clear" => f \in Fds /\ c = NoConn /\ unwatched /\ alone

\* No two threads initialise one descriptor, and an open one is watched or
\* about to be.
FdsInv ==
    /\ \A t, u \in Threads : \A f \in Fds : Initialising(t, f) /\ Initialising(u, f) => t = u
    /\ \A f \in Fds : fdtab[f] # NoConn =>
          \E t \in Threads : f \in monitored[t] \/ Initialising(t, f)

\* Every descriptor belongs to one thread, which alone touches its TCPConn; what
\* it has read and what it has answered differ by what it is working on.
EventLoopInv ==
    /\ MonitoredIsUsable /\ OnePlace /\ FdsInv
    /\ \A t \in Threads : EventsInv(t) /\ IdleInv(t) /\ PcInv(t)

=============================================================================
