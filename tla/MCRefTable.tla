----------------------------- MODULE MCRefTable -----------------------------
\* RefTable for TLC: ids and borrowers are interchangeable.
EXTENDS RefTable, TLC

Symmetry == Permutations(Ids) \cup Permutations(Borrowers)
=============================================================================
