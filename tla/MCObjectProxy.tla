---------------------------- MODULE MCObjectProxy ----------------------------
\* ObjectProxy with two objects whose addresses are interchangeable, and three
\* IDs, so that IDs and addresses are reused all the time.
EXTENDS ObjectProxy

Symmetry == Permutations(Addr)
=============================================================================
