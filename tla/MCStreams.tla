------------------------------- MODULE MCStreams -------------------------------
(***************************************************************************)
(* Streams on a small instance.  Streams and notify data are alike.        *)
(***************************************************************************)
EXTENDS Streams

Alike == Permutations(Stream) \cup Permutations(Data)
=============================================================================
