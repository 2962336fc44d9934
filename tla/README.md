# Ditto: a TLA+ verification project

Ditto clones networked services. It profiles a real service, writes down its
network and thread model, and produces a synthetic server with the same
behaviour. This directory holds TLA+ specifications of the parts of Ditto with
interesting control, TLC configurations that check small instances, and proofs
checked by TLAPS.

## The system

| Part | Where | What it does | Here |
|---|---|---|---|
| backbone analysis | `src/backbone_analysis` | traces a service with SystemTap and perf, clusters its threads, names its network model | not modelled |
| network skeleton | `src/network_skeleton` | the server template: macros select acceptor, dispatch and I/O mode | `Skeleton` (NETWORKEPOLL builds), `TCPConn` (the others) |
| synthetic applications | `src/applications/synthetic_*`, `src/synthetic_memcached_skeleton` | the skeleton with a framing of requests, a layout of responses and generated work | `Skeleton`, `TCPConn` |
| assembly analysis | `src/assembly_analysis` | profiles instructions and caches, generates the body `runAssembly` | not modelled |
| load client | `src/client/mutated` | an open-loop client over buffered sockets, and a loader for memcached | `Client`, `Sock`, `Buffer`, `MemcacheLoad` |
| other programs | valgrind, memcached, nginx, redis, tcpkali, YCSB, ... | imported, not Ditto's own code | not modelled |

The analyses run before the server is built, and only numbers pass between
them. What runs concurrently is the server with its clients, so that is the core:
the server in `Skeleton` and `TCPConn`, the repository's own client in `Client`.

`service`, `threadpool`, `utils`, `config` and `main` are the same text in the
skeleton and in every synthetic application; the applications differ in macros
(synthetic_memcached: NETWORKDISPATCH; synthetic_nginx: ACCEPTDISPATCH;
synthetic_redis: neither; all NETWORKEPOLL) and in `connection/tcp_conn.cpp`.

## The modules

| Module | Contents |
|---|---|
| `Skeleton` | threads, event loops, the table `conns_`, and the part of the kernel they use |
| `SkeletonSteps` | type correctness of `Skeleton`, proved; lemmas: the steps that open and close no descriptor keep `EventLoopInv` |
| `SkeletonProofs` | lemmas: the other steps keep it; the theorems that follow |
| `MCSkeleton` | instances of `Skeleton` |
| `RequestReply` | abstract: requests are sent, each is answered once, after it was sent, in the end |
| `TCPConn` | one connection at byte level, in each synthetic application and build; implements `RequestReply` |
| `TCPConnProofs` | the reading of requests, the writing of responses, and that `TCPConn` implements `RequestReply` but for liveness, proved |
| `MCTCPConn` | instances of `TCPConn` |
| `Buffer` | the load client's ring buffer: a record, and its member functions as operators |
| `BufferProofs` | the ring buffer is a FIFO queue, proved |
| `Sock` | the load client's asynchronous socket, on four `Buffer`s |
| `OpenLoop` | abstract: requests go out by the clock, each is answered once, the experiment ends |
| `Client` | the load client with its generators and sockets; implements `OpenLoop` |
| `ClientBuffers` | lemmas: where the thread is, and what the buffers and the network hold |
| `ClientRefs` | lemmas: counters, references, callbacks for responses |
| `ClientProofs` | types, reference counts, deletion and teardown of `Client`, proved |
| `MCClient` | instances of `Client` |
| `MemcacheLoad` | the memcached loader: window, notifications, unsigned counters |
| `MemcacheLoadProofs` | its inductive invariant and the theorems that follow |
| `MCMemcacheLoad` | instances of `MemcacheLoad` |

`Skeleton` counts requests and interleaves threads; `TCPConn` counts bytes and
has one thread. They divide `tcp_conn.cpp` between them: what `Skeleton` assumes
of a connection (a response is written whole, `ParseMultiRequest` finds the
requests) is what `TCPConn` checks.

### Skeleton

A step is what a thread does between two accesses to state that another thread
may touch.

| State | Code |
|---|---|
| `peer`, `stalled`, `queue` | the clients as the kernel sees them: connection state, full send buffer, unread requests |
| `fdtab`, `monitored`, `backlog` | descriptor table, epoll interest lists, listen queues |
| `epoll_fd_`, `socket_fd_`, `read_idx_`, `bytes_to_send_` | the members of `conns_[fd]`; `bytes_to_send_` in responses |
| `network_epoll_fds_` | the array through which network threads publish their epoll descriptors |
| `pc`, `hups`, `ins`, `cur`, `target`, `bytes_read`, `old_idx`, `left`, `network_turn` | a thread's position, the rest of its batch of events, and its locals |
| `taken`, `answered`, `owner` | history variables, read by properties only |

| Actions | Code |
|---|---|
| `EpollWait`, `HandleHup` | the loops of `Service::EventLoop`, `EpollNetworkThread::Run`, `EpollAcceptThread::Run` |
| `PublishEpoll` | the start of a network thread |
| `Accept`, `AcceptFails`, `InitAssign`, `InitRegister`, `InitReset` | `handleNewConn` and `TCPConn::Init` |
| `ReadOnce`, `StoreReadIdx`, `StartProcess` | `TCPConn::ReadOnce`, `ParseMultiRequest`, the head of `Process` |
| `WriteNothing`, `WriteResponse`, `WriteToClosed`, `WriteFails`, `WriteKilled` | the outcomes of `TCPConn::WriteOnce` |
| `CloseConnRemove`, `CloseConnClear` | `TCPConn::CloseConn` |
| `Connect`, `Send`, `Close`, `Abort`, `Resume` | the clients (external) |

Undefined behaviour is a choice. `network_epoll_fds_` is not initialised, so an
unpublished slot yields any published descriptor or an invalid one.
`read_idx_ += bytes_read` is not atomic, so the value loaded may be from before
or after another thread's `Reset`. That `Reset` also clears `bytes_to_send_`, at
which synthetic_memcached looks before it sends: the response is then not sent
(`WriteNothing`). A response is written in one step here, so `bytes_have_send_`
and a `Reset` in the middle of a partial write are below this grain.

### TCPConn

A byte of a request is its place in the request, the last one being the newline;
a byte of a response is its place in `write_buf_`. `setup` fixes the application,
the layout of its responses, the room of the socket and how far the client sends
ahead, whether the connection may break, and `build` which of NETWORKEPOLL,
NONBLOCKING and BLOCKING is defined. The last two have a thread per connection, whose loop `handleNetwork` is `ReadOnce`
and `ReadEnd`: its `read()` waits or spins until there is data, and it closes the
connection at the end of the stream. BLOCKING has a `WriteOnce` of its own,
`WriteBlocking`, for the applications that fill in `iv_`. A write that fails, or
that blocks and returns with part of the response, ends in `CloseConn`
(`WriteFails`). `read()` returns any non-empty prefix of what has arrived that fits.
`iov_len` is a `size_t` and wraps modulo `SizeMod`. Contents are not modelled:
`write_buf_` is taken to hold every byte that `iv_` names, although
synthetic_memcached names 4124 bytes of a buffer of 540.

The template's own `ParseMultiRequest` returns 1 and asks the user to adapt it;
it appears as the slip `ParseMultiRequest_One`.

### Client, Sock and Buffer

The client has one thread and no locks; what makes it hard is that callbacks run
deep inside the socket code while the kernel, the server and the clock go on.
A step of `Run` is what the thread does up to its next system call or callback.
`todo` is the stack of calls of the client that are not finished. A generator is
only ever in one call, `run_io` or `send_request`, which `call` names; `gen` is the
generator, and `at` the place in its socket: at the head of the loop of `tx` or `rx`,
in the loop over the callbacks, in `read`, or at the final `put()`. The iterator of
a loop over callbacks is `drop`, the entries it has passed, and one turn of the loop
is one step.

| State | Code |
|---|---|
| `ref_cnt_`, `requests_` | the generators |
| `rx_cbs_`, `tx_cbs_`, `rbuf_`, `wbuf_`, `tx_out_`, `rx_rdy_`, `tx_rdy_` | their sockets |
| `todo`, `call`, `gen`, `at`, `out`, `drop`, `nbytes` | where the thread is, and the locals of `run_io`, `rx` and `tx` |
| `sent_count_`, `rcvd_count_`, `measure_count_`, `now`, `armed`, `events` | members and locals of `Client` |
| `due`, `net` | the clock, and the kernel's and the server's side of each socket |
| `status`, `matched` | how the program ended; which response each request was given |

| Actions | Code |
|---|---|
| `EpollWait`, `HandleEvent` | the loop of `Client::run`, edge-triggered |
| `ReadClock`, `Sleep`, `SendRequest`, `EndSendRequest` | `timer_handler`, `busy_timer`, `send_request` and both `_send_request` |
| `Tx`, `Read`, `Rx` | `Sock::tx`, `Sock::read`, `Sock::rx` up to one system call |
| `TxCallback`, `RxCallback` | a turn of the loops over `tx_cbs_` and `rx_cbs_`, with `sent_request`, `recv_response` and `record_sample` |
| `EndRunIO` | the end of `Generator::run_io`; its `put()` may delete the generator, `~Sock` included |
| `Tick`, `Connect`, `Serve`, `Deliver` | the clock, the kernel, the server and the network (external) |

Time is the number of deadlines passed. A byte is its request and its place
there, so that the model tells which bytes a header was made of. A
`Buffer` is a record, its member functions are operators on it; three places where the code copies from or to
the wrong address when an object wraps (`write_emplace`, the header in
`Memcache::recv_response`, the truncated packet in `Synthetic::_send_request`) are
modelled as they are, and the instances keep objects from wrapping there. What
throws an exception ends the program with a status of its own.

The server (`Serve`) is one that keeps the client's protocol: to a synthetic request
it answers with `RespSize` bytes, the `sizeof(resp_pkt)` of 8 that `gen_synthetic.cc`
reads, to a memcache request with a header and, for a Get, a value. The
synthetic_memcached that `src/applications/README.md` (line 32) pairs with
`mutated_synthetic` sends 4124 bytes for every request, which that client would take
for many responses; nothing here is about that pair.

### MemcacheLoad

The loader sends quiet Sets and, every `notify_`-th time and at the end, a loud
one. `read` is the part of `send_request` in which `Sock::read` may already find
responses, before the request itself is counted: there `onwire_`, a `uint64_t`,
runs below zero. The socket is two reliable channels, which is what the runs of
`Client` show of `Sock`; a window that does not fit `wbuf_`, which would throw, is
left out.

### Slips

An operator `Op_Something` marked "Slip" is `Op` with a plausible mistake: a
forgotten `Reset`, a swapped argument, a loop left out. No specification uses
it. For each property checked, putting one in the place of its original makes
TLC report a violation, which shows that the property depends on that code.

## What is checked

| Run | Instance | Shows |
|---|---|---|
| `single_loop` | synthetic_redis; 2 clients that may close or reset at any time, 1 that stops reading, 1 descriptor, 3 requests | no request read is lost, `read_idx_` stays inside the buffer, every accepted socket is watched, every patient client is answered, every descriptor released |
| `accept_pool` | synthetic_nginx; 2 accept threads, 2 orderly clients, 2 descriptors | threads that share `conns_` and reuse numbers keep to their own connections; every client is answered |
| `dispatch` | synthetic_memcached; main thread, 2 network threads, startup included, 2 orderly clients | responses go to the right client although `Init` and a network thread may be in one TCPConn at once; connections accepted once all threads run are served |
| `connection` | each application in each build, 11 setups: with room in the socket and without, pipelined and not, two that break | requests cut anywhere are answered once each, responses arrive whole, nobody is closed before being answered; refinement of `RequestReply`, liveness included, wherever the application copes (`Copes`); everywhere, no response counts as written too early and `read_buf_` has room |
| `client` | per-request, round-robin and random connections, timer and busy loop, both protocols, a queue that fills up; 2 or 3 requests | references are counted, no generator is used after its deletion, the generators' own checks never fire, sent means written, every response goes to its request; refinement of `OpenLoop`, liveness included but for the hang below |
| `loader` | every command line with up to 9 keys, batch up to 4, notify up to 5 | it never waits in vain, keeps its window, exits when all is loaded, and does exit |

Six runs show where the code does not do what its comments say.

| Run | What happens |
|---|---|
| `dispatch_startup` | a connection accepted before its network thread has published its epoll descriptor is watched by nobody |
| `dispatch_lost` | `TCPConn::Init` registers the socket before `Reset`: a request read in between is wiped |
| `accept_pool_reset` | `CloseConn` frees the descriptor before it writes `socket_fd_ = -1`, and hits the TCPConn of another thread's new connection |
| `nginx_resend` | after a partial `writev` the response is sent from its first byte again |
| `memcached_stuck` | after a partial `sendmsg` `iv_` is moved by the wrong amounts: the response is never completed, or the connection is closed |
| `client_teardown` | with a connection per memcached Get, a header that arrives before its body finishes the request and deletes the generator; `~Sock` calls back for the pending body, and the callback throws in a destructor |

The first three delimit the proofs: they are the reason for the condition
`Undisturbed` below and for the orderly clients of `accept_pool` and `dispatch`.
The next two are the reason for `Copes`, and the last for leaving per-request Gets
out of `client`.

**A hang that `OpenLoop` excludes.** In a full `Buffer` `begin() == end()`
(`buffer.hh:371`), so while `MAX_OUTSTANDING_REQS` requests are unanswered the loop of
`rx()` (`socket_buf.cc:167`) visits no callback: responses stay in `rbuf_`, and `read`
ends in EAGAIN. As long as there is a request to send, the next one finds the queue
full and the client gives up, which `OpenLoop` allows (`GiveUp`). If the request that
filled the queue was the last, the client sleeps in `epoll_wait` for ever.
`OpenLoop!Stuck` is that state, and fairness of `Answer` is asked only outside it.
The run `client` gets there (`SmallQueue`: three requests, a queue of 2, and an
`rbuf_` with room for all their responses, as in `limits.hh`), and `ImplementsOpenLoop`
with unconditional fairness of `Answer` fails in it.

**Bounds.** `MaxRequests`, the number of connections and `FdLimit` keep the
state space finite. Two clients suffice for every property that relates two
connections, and one or two descriptors force reuse and the EMFILE path. In
`single_loop`, `ReadBufferSize` 2 below `MaxRequests` 3 makes reads incomplete.
`IdxFloor` cuts off behaviours in which failed reads push `read_idx_` ever
further below zero; it is needed in `accept_pool_reset` only, as no `read()` fails in
the runs that pass. In `TCPConn` responses have 3 to 7 bytes, so a socket with room for
2 to 10 cuts them at every place. `SizeMod` 32 exceeds twice any length, like
2^64. In `Client` three requests cover warm-up, measurement and cool-down, two
connections force choice, and a queue of 2 is filled by three requests; the room
of 3 bytes in the kernel and an `rbuf` of 3 or 5 cut packets and responses of 2 bytes at every
place and make `rbuf_` and `wbuf_` wrap. Where the queue can fill, `rbuf` holds the
responses of a full queue, like 200 MB against a million responses of 8 bytes. In `MemcacheLoad` `Wrap` 16 exceeds every
sum of keys and batch, like 2^64. No symmetry is used, since most runs check
liveness. Deadlock is not checked for the servers, where it is right to wait for
ever when all clients have gone, nor for the loader, which exits, nor for `Client`,
which may hang: there `ImplementsOpenLoop` says that it stops nowhere else.

**Fairness.** Weak fairness of each thread's steps: the operating system runs
every runnable thread. Nothing obliges clients to act, except that a client with
a full receive buffer reads some day (`Resume`, `Receive`); without that,
`WriteOnce` retries EAGAIN for ever, by design of the code. For the load client
and the loader: the thread runs, the clock advances, and the network and the
server go on. `Client` states the first as `ThreadRuns`, which is weak fairness of
`Run` in a form that TLC evaluates faster.

## What is proved

**Event loops.** `SkeletonSteps` (the first theorem) and `SkeletonProofs` (the
others, with the lemmas of `SkeletonSteps`) prove, for all values of the constants that satisfy
`ConstantsAssumption` (any number of clients, threads, descriptors and requests):

| Theorem | Statement |
|---|---|
| `TypeCorrect` | `Spec => []TypeOK`, in all builds |
| `EventLoopCorrect` | `Undisturbed => (Spec => []EventLoopInv)` |
| `NothingLost` | under `Undisturbed`, no request read is lost |
| `Delivery` | under `Undisturbed`, responses go to their clients |
| `Watched` | under `Undisturbed`, epoll watches only usable sockets |
| `Readiness` | under `Undisturbed`, `read_idx_` leaves room when a read begins |
| `Registration` | under `Undisturbed`, every accepted socket is watched |

`Undisturbed` says that a thread serves what it accepts, and either there is one
thread or every client closes in good order. `accept_pool_reset` shows that the
second half is needed, `dispatch_lost` the first. With two accept threads and a client
that resets, `RightReceiver` and `ReadInBuffer` fail too: between two responses of one
`Process`, or between `close` and `socket_fd_ = -1`, the number is given to another
thread's connection.

None of the last five properties is inductive. `NoLostRequest`, for one, says
nothing while a thread is working, and depends on `read_idx_` being 0 when it
began. `EventLoopInv` adds what is needed: a connection is in one place
(`OnePlace`); an event of a batch refers to a socket its thread still watches
(`EventsInv`); an idle TCPConn owes nothing and has an empty buffer
(`IdleInv`); at each program point the requests taken exceed those answered by
what the thread holds (`PcInv`); an open descriptor is watched or being
initialised by one thread (`FdsInv`). The proof has a lemma per action, and
under it a step per conjunct the action can disturb. The properties then
follow from the invariant without another induction. TLC checks the invariant
in `single_loop` and `accept_pool`.

**Byte stream.** `TCPConnProofs` proves, from
`TCPConnAssumption` alone (any sizes of requests, responses, buffers and sockets, any
number of requests, any build):

| Theorem | Statement |
|---|---|
| `ReadInvariant` | `Spec => []ReadInv` |
| `AlwaysRoom` | `read_buf_` has room between two reads, in all three applications |
| `ConnectionInvariant` | `Spec => [](ReadInv /\ WriteInv /\ SingleInv /\ CopeInv)` |
| `ConnectionTypes` | `Spec => []TypeOK` |
| `WrittenFirst` | no response counts as written before all its bytes are |
| `AllAnswered` | where `Counts` holds, an idle connection has answered every request it has read |
| `Intact` | where `Copes` holds, responses arrive whole and in order |
| `ClosedLast` | where `Copes` holds, nobody is closed before being answered |
| `Implements` | where `Copes` holds, every step is one of `RequestReply` or a stutter |

None of them is inductive. That a tail thrown away by `Reset` costs no request holds
because a newline has yet to come for it. `ReadInv` says so: what waits in
`read_buf_` and in the socket is a stream of requests in order that stops at the
end of one, `read_buf_` holds less than a request and no newline when the thread is
idle, and answered, left and unread requests add up to those sent. The stream
being in order is what bounds a tail without a newline by the size of a request.
`WriteInv` ties `bytes_have_send_`, `bytes_to_send_` and `iv_` to what is on the
wire: the counters add up to a response, and `iv_` never asks for more than is left
of it, unless a length has wrapped, which no `writev` takes. Synthetic_memcached
counts bytes rather than newlines, so that it answers every request only if
clients wait for each response; `SingleInv` is that case. `CopeInv` adds, for the
applications and builds that cope with a partial write or never meet one, that a
response which could not be continued is written by one call.

**Ring buffer.** `BufferProofs` proves, for any size and items, that `QueueCommit`
of filled slots appends to the items and keeps indices and counter in agreement
(`QueueInOrder`), `Drop` takes from the front (`DropInOrder`), the two arrays of
`peek` are the first items (`PeekInOrder`), and a loop from `begin()` to `end()`
visits the items in order, or none when the buffer is full (`LoopVisitsItems`).
Lemmas after them say the same of the single operations of the client: queueing
one entry, dropping a prefix, changing an entry in place, advancing an iterator.

**Load client.** `ClientProofs` proves, from `ClientAssumption` (any setups with a
command to choose and, if pooled, a connection; any sizes of packets, of the
three queues and of the two byte buffers; any number of requests):

| Theorem | Statement |
|---|---|
| `ClientInvariant` | `Spec => []Inv` |
| `ClientTypes` | `Spec => []TypeOK`; indices agree with counters, `tx_out_` and `ref_cnt_` are never below zero |
| `ClientReferences` | `Spec => []ReferencesCounted` |
| `ClientAlive` | `Spec => []UsedIsAlive` |
| `ClientTeardown` | `~Sock` is quiet if the protocol has no bodies or connections are pooled |

`client_teardown` shows that the condition of the last one cannot be dropped.
`Inv` has nine parts, each of which needs some of those before it:

- `ControlInv`, where the thread may be: `run_io` never gets to `read`, and
  `send_request` runs for a deadline that has passed, on the generator made for it.
- `NetInv`, `BufInv` and `LoopInv`, types: the buffers hold requests, callbacks and
  bytes, a callback names a slot of `requests_`, and an iterator stays in its loop.
- `TxInv`: `tx_out_` is the sum of the lengths in `tx_cbs_` that are still to come,
  and at most what `wbuf_` holds. It is why `tx_out_ -= nbytes` does not wrap. The
  sum is stated by a function of partial sums, which needs no induction over data:
  each step gives the function for the next state. When `tx_cbs_` is full its loop
  visits nothing, and the second half is lost with it.
- `CountInv`: responses are counted up to the last, which ends the program.
- `RefInv`: the references, that epoll has at most one event for a generator, none
  for the one that `run_io` is in, and none for one that does not exist. Without
  this an event reported earlier in the same round could outlive its generator.
- `RxInv`, without bodies: one callback in `rx_cbs_` for every request, but for the
  one `send_request` has not reached `read` for. It is why `~Sock` finds a request
  for each callback, and fails with bodies, when a callback waits on alone.
- `QuietUnlessBodies`, the claim of the last theorem.

**Loader.** `MemcacheLoadProofs` proves, from `LoadAssumption` (any keys, batch and
notify that are not zero, and do not add up to 2^64), that `LoadInv` is an
invariant, and from it that the loader never waits in vain (`NeverInVain`), keeps
its window (`WindowIsKept`) and has loaded everything when it exits
(`ExitsLoaded`). The heart of `LoadInv` is `Promised`, what `recv_` will be when the
responses on their way have come: always a multiple of `notify_`, and within one
notify window of what the server has carried out.

**Only model-checked.** All liveness, with the fair halves of both refinements: the
prover handles neither fairness nor ENABLED. The NETWORKDISPATCH properties of
`Skeleton`, whose invariant would have to follow a TCPConn that two threads are in.
Of `Client`: `ChecksHold`, `OwnResponses` and `SentWhenWritten`, which need the order of
the bytes in every buffer, in the kernel and in the server at once, and
`ImplementsOpenLoop`, which rests on `ChecksHold`. What a fold or a recursive function
computes for every input is out of reach, as that is induction over data.

## What is not modelled

- `epoll_wait` errors other than EINTR, failed allocations, signals other than
  SIGPIPE, and `Service::~Service`, which `main` never reaches.
- The work of a request (`runAssembly`): generated code that changes nothing the
  server reads.
- `lock/locker.h`, which nothing uses.
- The words `Service::Init` links into cycles for pointer chasing, which only
  `runAssembly` follows, and the log descriptors that synthetic_nginx opens.
- The assembly generator, thread clustering, profile statistics, the decision
  on the network model and the SystemTap script: sequential numeric work and text
  parsing over the output of external tools, without a state that faults or
  interleavings could reach.
- The profiling drivers: the other side of their handshakes is not in the repository.
- Of the load client: `send_only`, errors of system calls (each throws and ends
  the program), latencies and statistics, option parsing, and `socket_vec.cc`,
  which is not compiled.
- Of the loader: the status of responses, which it ignores.
- Third-party programs.

`PROJECT.json` lists every component with its status, and every hazard with the
properties that cover it or the reason why none does.
