---------------------------- MODULE MCTCPConn -------------------------------
(* Instances of TCPConn: response layouts scaled down from the sources.      *)
EXTENDS TCPConn

RedisParts == <<3, 0, 0>>      \* synthetic_redis: 1205 bytes
NginxParts == <<1, 2, 0>>      \* synthetic_nginx: 238 and 612 bytes
MemcachedParts == <<2, 1, 4>>  \* synthetic_memcached: 24, 4 and 4096 bytes

On(app, build, segments, sendBuffer, depth) ==
    [app |-> app, build |-> build, segments |-> segments,
     sendBuffer |-> sendBuffer, depth |-> depth, breaks |-> FALSE]

\* What each application copes with: synthetic_redis pipelines and partial
\* writes, synthetic_nginx pipelines while the socket has room for every response
\* asked for, synthetic_memcached one request at a time and as much room; and
\* any room in the builds that block.
Served == {On("redis", "epoll", RedisParts, 2, 3), On("redis", "nonblocking", RedisParts, 2, 2),
           On("nginx", "epoll", NginxParts, 9, 3), On("nginx", "nonblocking", NginxParts, 6, 2),
           On("nginx", "blocking", NginxParts, 2, 2),
           On("memcached", "epoll", MemcachedParts, 7, 1),
           On("memcached", "blocking", MemcachedParts, 5, 1)}

\* The same clients and less room, and a client of synthetic_memcached that pipelines.
Cramped == {On("nginx", "epoll", NginxParts, 4, 3),
            On("memcached", "nonblocking", MemcachedParts, 10, 2)}

\* Connections that fail in the middle of a response, or between two.
Broken == {[s EXCEPT !.breaks = TRUE] : s \in {On("redis", "epoll", RedisParts, 2, 2),
                                               On("nginx", "blocking", NginxParts, 2, 2)}}

AllSetups == Served \cup Cramped \cup Broken

CrampedNginx == {On("nginx", "epoll", NginxParts, 2, 1)}
CrampedMemcached == {On("memcached", "epoll", MemcachedParts, 5, 1)}

=============================================================================
