------------------------------ MODULE OpenLoop ------------------------------
(***************************************************************************)
(* What the load client promises: requests go out by the clock and never   *)
(* wait for an answer, each is answered once, and the experiment ends with *)
(* the last answer.  It may only give up while limit requests or more are  *)
(* unanswered, and it may wait for ever only when all are sent and most of *)
(* them, a full queue, are unanswered.                                     *)
(***************************************************************************)
EXTENDS Naturals

VARIABLES
    total, limit, most,      \* the experiment's parameters; no step changes them
    due, issued, answered,   \* requests whose time has come, sent, answered
    over                     \* "running", "exited" or "full"

vars == <<total, limit, most, due, issued, answered, over>>

Init ==
    /\ total \in Nat \ {0} /\ limit \in Nat \ {0} /\ most \in Nat \ {0}
    /\ due = 0 /\ issued = 0 /\ answered = 0 /\ over = "running"

Tick ==
    /\ over = "running" /\ due < total
    /\ due' = due + 1
    /\ UNCHANGED <<total, limit, most, issued, answered, over>>

Issue ==
    /\ over = "running" /\ issued < due
    /\ issued' = issued + 1
    /\ UNCHANGED <<total, limit, most, due, answered, over>>

\* One read may bring several answers.
Answer ==
    /\ over = "running"
    /\ answered' \in answered + 1 .. issued
    /\ over' = IF answered' = total THEN "exited" ELSE "running"
    /\ UNCHANGED <<total, limit, most, due, issued>>

GiveUp ==
    /\ over = "running" /\ issued - answered >= limit
    /\ over' = "full"
    /\ UNCHANGED <<total, limit, most, due, issued, answered>>

Next == Tick \/ Issue \/ Answer \/ GiveUp

Stuck == issued = total /\ issued - answered >= most

FairSpec ==
    Init /\ [][Next]_vars /\ WF_vars(Tick) /\ WF_vars(Issue) /\ WF_vars(Answer /\ ~Stuck)

=============================================================================
