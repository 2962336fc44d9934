----------------------------- MODULE MCClient -------------------------------
(* Instances of Client: packets and buffers scaled down from the sources.    *)
EXTENDS Client

Base == [proto |-> "synthetic", mode |-> "round_robin", busy |-> FALSE, conn_cnt |-> 1,
         cmds |-> {"Get"}, pre |-> 1, measure |-> 1, post |-> 1,
         rbuf |-> 3, wbuf |-> 8, queue |-> 4, room |-> 3]

PerRequest == [Base EXCEPT !.mode = "per_request", !.conn_cnt = 0]
Pool == [Base EXCEPT !.mode = "random", !.conn_cnt = 2, !.pre = 0]
Busy == [Base EXCEPT !.busy = TRUE, !.conn_cnt = 2]
\* As in limits.hh, rbuf_ holds the responses of a full queue.
SmallQueue == [Base EXCEPT !.queue = 2, !.rbuf = 5]
Memcache == [Base EXCEPT !.proto = "memcache", !.cmds = {"Get", "Set"}, !.wbuf = 10, !.rbuf = 6]
OneGet == [Memcache EXCEPT !.mode = "per_request", !.conn_cnt = 0, !.cmds = {"Get"}]

Healthy == {PerRequest, Pool, Busy, SmallQueue, Memcache}
GetPerRequest == {OneGet}
=============================================================================
