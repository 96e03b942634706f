--------------------------- MODULE MCTaskDispatch ---------------------------
EXTENDS TaskDispatch
CONSTANTS t1, t2, t3, s1, s2, n1, n2, p1, p2

MCOneNode == [s \in Slots |-> n1]
MCTwoNodes == [s \in Slots |-> IF s = s1 THEN n1 ELSE n2]
MCOneProfile == [t \in Tasks |-> p1]
MCHome == [s \in Slots |-> p1]
MCWarmAll == {Slots}
MCWarmAny == {Slots, {}}
=============================================================================
