---------------------------- MODULE MemcacheLoad ----------------------------
(***************************************************************************)
(* The memcached data loader (client/mutated/client/load_memcache.cc): it  *)
(* sets toload_ keys with at most about batch_ of them on the wire, and    *)
(* asks for a response (a loud Set) only on every notify_-th one and on    *)
(* the last.  Its Sock is here two reliable channels, as the runs of       *)
(* Client show it: requests reach the server in order, and responses come  *)
(* back once each.  Every Set succeeds; keys and values are left out.      *)
(***************************************************************************)
EXTENDS Integers

CONSTANTS
    Setups,   \* the -z, -b and -e of the command line: keys, batch and notify
    Wrap      \* 2^64, the range of a uint64_t

ASSUME LoadAssumption ==
    /\ Wrap \in Nat
    /\ Setups \subseteq [toload : Nat, batch : Nat \ {0}, notify : Nat \ {0}]
    /\ \A s \in Setups : s.toload + s.batch < Wrap

VARIABLES
    setup,                   \* a member of Setups that no step changes
    sent_, recv_, onwire_,
    pc,                      \* "fill", "read" (in send_request), "wait", "io" or "done"
    served,                  \* requests the server has carried out
    answers                  \* responses on their way back

vars == <<setup, sent_, recv_, onwire_, pc, served, answers>>

toload_ == setup.toload
batch_ == setup.batch
notify_ == IF setup.notify <= setup.batch THEN setup.notify ELSE setup.batch

Init ==
    /\ setup \in Setups
    /\ sent_ = 0 /\ recv_ = 0 /\ onwire_ = 0 /\ pc = "fill"
    /\ served = 0 /\ answers = 0

\* Unsigned arithmetic: a step over the end of the range goes on at the other end.
Inc(n) == IF n + 1 < Wrap THEN n + 1 ELSE n + 1 - Wrap

\* Slip: the counter is signed.
Dec_Signed(n, by) == n - by

Dec(n, by) == IF n >= by THEN n - by ELSE n - by + Wrap

\* Slip: the last request is not loud unless it is a notify_-th one.
Loud_NotLast(n) == n % notify_ = 0

\* The n-th request, counted from 1, asks for a response.
Loud(n) == n % notify_ = 0 \/ n = toload_

\* Slip: the window counts what was sent before this request.
Fills_OneMore == sent_ < toload_ /\ onwire_ <= batch_

Fills == sent_ < toload_ /\ onwire_ < batch_

\* One turn of the loop that fills the window, for a quiet request.
SendQuiet ==
    /\ pc = "fill" /\ Fills /\ ~Loud(sent_ + 1)
    /\ sent_' = sent_ + 1 /\ onwire_' = Inc(onwire_)
    /\ UNCHANGED <<setup, recv_, pc, served, answers>>

\* A loud one is on the wire before read() looks for responses ...
SendLoud ==
    /\ pc = "fill" /\ Fills /\ Loud(sent_ + 1)
    /\ pc' = "read"
    /\ UNCHANGED <<setup, sent_, recv_, onwire_, served, answers>>

\* ... and is counted after it.
EndSend ==
    /\ pc = "read"
    /\ pc' = "fill" /\ sent_' = sent_ + 1 /\ onwire_' = Inc(onwire_)
    /\ UNCHANGED <<setup, recv_, served, answers>>

\* The requests given to the socket.
Written == IF pc = "read" THEN sent_ + 1 ELSE sent_

\* The server carries out the next request.
Serve ==
    /\ served < Written
    /\ served' = served + 1
    /\ answers' = (IF Loud(served + 1) THEN answers + 1 ELSE answers)
    /\ UNCHANGED <<setup, sent_, recv_, onwire_, pc>>

\* epoll_wait, when the window is full or all is sent.
Wait ==
    /\ pc = "fill" /\ ~Fills /\ recv_ < toload_
    /\ pc' = "wait"
    /\ UNCHANGED <<setup, sent_, recv_, onwire_, served, answers>>

\* Slip: responses are taken in read() only.
RecvResponse_InRead ==
    /\ pc = "read" /\ answers > 0
    /\ answers' = answers - 1
    /\ recv_' = recv_ + notify_ /\ onwire_' = Dec(onwire_, notify_)
    /\ UNCHANGED <<setup, sent_, served, pc>>

\* Called by rx() for every response, in read() or when epoll_wait has returned.
RecvResponse ==
    /\ pc \in {"read", "wait", "io"} /\ answers > 0
    /\ answers' = answers - 1
    /\ recv_' = recv_ + notify_ /\ onwire_' = Dec(onwire_, notify_)
    /\ pc' = (IF pc = "wait" THEN "io" ELSE pc)
    /\ UNCHANGED <<setup, sent_, served>>

EndRunIO ==
    /\ pc = "io" /\ pc' = "fill"
    /\ UNCHANGED <<setup, sent_, recv_, onwire_, served, answers>>

\* Slip: the loader exits when it has sent everything.
Finish_AllSent ==
    /\ pc = "fill" /\ ~Fills /\ sent_ >= toload_
    /\ pc' = "done"
    /\ UNCHANGED <<setup, sent_, recv_, onwire_, served, answers>>

Finish ==
    /\ pc = "fill" /\ ~Fills /\ recv_ >= toload_
    /\ pc' = "done"
    /\ UNCHANGED <<setup, sent_, recv_, onwire_, served, answers>>

Run == SendQuiet \/ SendLoud \/ EndSend \/ Wait \/ RecvResponse \/ EndRunIO \/ Finish

Next == Run \/ Serve

Spec == Init /\ [][Next]_vars

\* The loader's thread and the server run.
FairSpec == Spec /\ WF_vars(Run) /\ WF_vars(Serve)

-----------------------------------------------------------------------------
(* Properties.                                                               *)

\* Every variable has its type; the counter on the wire is a uint64_t.
TypeOK ==
    /\ setup \in Setups
    /\ sent_ \in 0 .. toload_ /\ recv_ \in Nat /\ onwire_ \in 0 .. Wrap - 1
    /\ pc \in {"fill", "read", "wait", "io", "done"}
    /\ served \in 0 .. toload_ /\ answers \in Nat

\* The loader never waits in vain: in epoll_wait, a response is on its way or a
\* request that asks for one is.
AnswerDue ==
    pc = "wait" => answers > 0 \/ \E n \in served + 1 .. sent_ : Loud(n)

\* While there are keys to send, no more than batch_ of them are on the wire without
\* the response that covers them, although onwire_ runs below zero in read().
WindowKept ==
    sent_ < toload_ => /\ Written - recv_ <= batch_
                       /\ pc # "read" => onwire_ = sent_ - recv_

\* When the loader exits the server has carried out every Set, the quiet ones too.
LoadedWhenDone == pc = "done" => served = toload_

\* What recv_ will be when the responses on their way have come.
Promised == recv_ + notify_ * answers

\* The inductive invariant: what is promised is a multiple of notify_, the last one
\* the server has reached, or past toload_ once the server has reached that; and
\* onwire_ is sent_ - recv_, modulo Wrap.
LoadInv ==
    /\ TypeOK
    /\ served <= Written
    /\ pc = "read" => sent_ < toload_
    /\ pc = "wait" => ~Fills /\ recv_ < toload_
    /\ pc = "done" => recv_ >= toload_
    /\ Promised % notify_ = 0
    /\ served < toload_ => Promised <= served /\ served < Promised + notify_
    /\ served = toload_ => toload_ <= Promised /\ Promised < toload_ + notify_
    /\ onwire_ = IF recv_ <= sent_ THEN sent_ - recv_ ELSE sent_ - recv_ + Wrap
    /\ sent_ < toload_ => Written - recv_ <= batch_

\* The loader comes to its end.
Finishes == <>(pc = "done")

=============================================================================
