----------------------------- MODULE MCQuicConn -----------------------------
(* Small instances of QuicConn for TLC. *)
EXTENDS QuicConn

CONSTANTS w1, w2
=============================================================================
