-------------------------------- MODULE MCRpc --------------------------------
\* Rpc with three calls of different shapes, so that a call nests twice, and
\* with pipes of two blocks, fewer than a call with its arguments needs.
EXTENDS Rpc

CONSTANTS c1, c2, c3

MCNumArgs    == [c \in Call |-> CASE c = c1 -> 1 [] c = c2 -> 2 [] OTHER -> 0]
MCNumResults == [c \in Call |-> CASE c = c1 -> 2 [] c = c2 -> 0 [] OTHER -> 1]
=============================================================================
