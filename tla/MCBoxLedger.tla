----------------------------- MODULE MCBoxLedger -----------------------------
EXTENDS BoxLedger, TLC

CONSTANTS p1, p2, p3, v1, cpu, jmag, k1, person, nobody

SymPids == Permutations(Pid \ Vendors)

Amounts(A) == {[r \in Resource |-> n] : n \in A}
One == Amounts({1})
OneOrTwo == Amounts({1, 2})

Size1 == [r \in Resource |-> 1]
Size2 == [r \in Resource |-> 2]

NoReserve == [d \in Share |-> 0]
KeepOne == [d \in Share |-> 1]
NoForeign == {[d \in Share |-> 0]}
MoreForeign == [Share -> {0, 1}]
=============================================================================
