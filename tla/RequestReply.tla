---------------------------- MODULE RequestReply ----------------------------
(***************************************************************************)
(* What a synthetic application promises each of its connections: a client *)
(* sends requests, and each one is answered once, after it was sent.       *)
(***************************************************************************)
EXTENDS Naturals

CONSTANT MaxRequests  \* bound: requests a client sends

VARIABLES sent, answered

Init == sent = 0 /\ answered = 0

Request ==
    /\ sent < MaxRequests
    /\ sent' = sent + 1
    /\ UNCHANGED answered

Reply ==
    /\ answered < sent
    /\ answered' = answered + 1
    /\ UNCHANGED sent

Next == Request \/ Reply

Spec == Init /\ [][Next]_<<sent, answered>>

FairSpec == Spec /\ WF_<<sent, answered>>(Reply)

=============================================================================
