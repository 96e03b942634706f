-------------------------- MODULE MCComputeLedger ---------------------------
(* A small instance of ComputeLedger: a client whose work another client's    *)
(* node does, two tasks, a top-up and a correction.                            *)
EXTENDS ComputeLedger

CONSTANTS u1, u2, k1, k2, t1, t2

TaskSymmetry == Permutations(Tasks)

MCKeyUser == (k1 :> u1) @@ (k2 :> u2)
MCAdjustments == {[user |-> u1, amount |-> 2], [user |-> u1, amount |-> -1]}
MCSetUps == {[users |-> {}, keys |-> {}, owner |-> NoUser],
             [users |-> {u1, u2}, keys |-> {k2}, owner |-> u2]}
MCCosts == {-1, 2}
=============================================================================
