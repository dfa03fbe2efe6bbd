---------------------------- MODULE MCHttpServer ----------------------------
(* Small instances of HttpServer for TLC. *)
EXTENDS HttpServer, TLC

CONSTANTS c1, c2, h1, h2

ServerSymmetry == Permutations({c1, c2}) \cup Permutations({h1, h2})
=============================================================================
