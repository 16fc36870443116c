------------------------------- MODULE MCKeyFiles -------------------------------
EXTENDS KeyFiles, TLC

CONSTANTS live, b1, p1, p2, k1, k2

\* Neither the processes nor the keys have an order.
Interchangeable == Permutations({p1, p2}) \cup Permutations({k1, k2})
=============================================================================
