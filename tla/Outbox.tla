------------------------------- MODULE Outbox -------------------------------
(***************************************************************************)
(* What a client promises about the requests its callers hand to it: each  *)
(* is written to a connection at most once.  A request that was accepted   *)
(* may be lost, since the clients have no acknowledgements; it is never    *)
(* written twice, and never after it was lost or refused.                  *)
(***************************************************************************)
EXTENDS Naturals

CONSTANT MaxRequests

VARIABLES
    offered,    \* requests offered so far; they are 1 .. offered
    held,       \* those the client has accepted and not yet written or lost
    written     \* how many times each request was written

vars == <<offered, held, written>>

TypeOK ==
    /\ offered \in 0 .. MaxRequests
    /\ held \in SUBSET (1 .. offered)
    /\ written \in [1 .. MaxRequests -> Nat]

Init == offered = 0 /\ held = {} /\ written = [i \in 1 .. MaxRequests |-> 0]

Offer ==
    /\ offered < MaxRequests
    /\ offered' = offered + 1
    /\ held' \in {held, held \cup {offered'}}
    /\ UNCHANGED written

\* The write may be the last of the client's writer, and lose what waits.
Write(i) ==
    /\ i \in held
    /\ held' \in SUBSET (held \ {i})
    /\ written' = [written EXCEPT ![i] = @ + 1]
    /\ UNCHANGED offered

Lose ==
    /\ held' \in SUBSET held
    /\ UNCHANGED <<offered, written>>

Next == Offer \/ Lose \/ \E i \in held : Write(i)

Spec == Init /\ [][Next]_vars

\* No request is written twice, and one that is still held is not written.
AtMostOnce ==
    \A i \in 1 .. MaxRequests :
        written[i] + (IF i \in held THEN 1 ELSE 0) <= 1
=============================================================================
