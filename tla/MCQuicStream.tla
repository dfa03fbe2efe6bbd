---------------------------- MODULE MCQuicStream ----------------------------
(* Small instances of QuicStream for TLC. *)
EXTENDS QuicStream, TLC

CONSTANTS s1, s2

One   == [s \in Streams |-> 1]
Two   == [s \in Streams |-> 2]
Three == [s \in Streams |-> 3]

StreamSymmetry == Permutations({s1, s2})
=============================================================================
