---------------------------- MODULE MCWorkerHost ----------------------------
(* One slot, two profiles of the same model file, one task. *)
EXTENDS WorkerHost, TLC

CONSTANTS s1, p1, p2, a1, t1

MCModelOf == [p \in {p1, p2} |-> a1]
ProfileSymmetry == Permutations({p1, p2})
=============================================================================
