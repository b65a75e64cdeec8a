--------------------------- MODULE MCRegistration ---------------------------
EXTENDS Registration, TLC

CONSTANTS p1, p2

Pair == {p1, p2}
Alone == {p1}

Interchangeable == Permutations(Pair)
=============================================================================
