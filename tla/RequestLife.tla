---------------------------- MODULE RequestLife -----------------------------
(***************************************************************************)
(* What a client is promised of its chat request, whatever happens to      *)
(* Workers and connections: it is refused or accepted; an accepted request *)
(* is tried any number of times, one try after the other, and answered     *)
(* once, after which nothing is tried any more; each try is billed at most *)
(* once; and an answer with a completion is one of the try made last,      *)
(* which has been billed by then.  A bill may come late.                   *)
(***************************************************************************)
EXTENDS Naturals

CONSTANT Requests

VARIABLES
    answer,   \* "none" until the client is told something
    stage,    \* "new", "open" or "closed"
    tries,    \* how often the request was given to a Worker
    billed    \* the numbers of the tries that were billed

vars == <<answer, stage, tries, billed>>

Init ==
    /\ answer = [r \in Requests |-> "none"]
    /\ stage = [r \in Requests |-> "new"]
    /\ tries = [r \in Requests |-> 0]
    /\ billed = [r \in Requests |-> {}]

Accept(r) ==
    /\ stage[r] = "new"
    /\ stage' = [stage EXCEPT ![r] = "open"]
    /\ UNCHANGED <<answer, tries, billed>>

Close(r, what) ==
    /\ stage' = [stage EXCEPT ![r] = "closed"]
    /\ answer' = [answer EXCEPT ![r] = what]
    /\ UNCHANGED <<tries, billed>>

Refuse(r) == stage[r] = "new" /\ Close(r, "busy")

Try(r) ==
    /\ stage[r] = "open"
    /\ tries' = [tries EXCEPT ![r] = @ + 1]
    /\ UNCHANGED <<answer, stage, billed>>

Bill(r, k) ==
    /\ k \in (1..tries[r]) \ billed[r]
    /\ billed' = [billed EXCEPT ![r] = @ \cup {k}]
    /\ UNCHANGED <<answer, stage, tries>>

Complete(r) == stage[r] = "open" /\ tries[r] \in billed[r] /\ Close(r, "ok")
GiveUp(r) == stage[r] = "open" /\ \E what \in {"error", "cancelled"} : Close(r, what)

Next ==
    \E r \in Requests :
        \/ Accept(r) \/ Refuse(r) \/ Try(r) \/ Complete(r) \/ GiveUp(r)
        \/ \E k \in 1..tries[r] : Bill(r, k)

Spec == Init /\ [][Next]_vars
=============================================================================
