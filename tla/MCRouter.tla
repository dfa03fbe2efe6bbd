------------------------------ MODULE MCRouter ------------------------------
(* A small instance of Router for TLC: two methods, literals, a regex for any *)
(* segment, one for segments that begin with v, and one of two groups.        *)
EXTENDS Router

Whole  == "(.+)"
Pair == "(.+)-(.+)"
Vers == "v(.+)"

MCShapes == <<Whole, Pair, Vers>>
MCCaptures ==
  (Whole  :> [a |-> <<"a">>,  b |-> <<"b">>,  v1 |-> <<"v1">>, p |-> <<"x-y">>]) @@
  (Pair :> [a |-> <<>>,     b |-> <<>>,     v1 |-> <<>>,     p |-> <<"x", "y">>]) @@
  (Vers :> [a |-> <<>>,     b |-> <<>>,     v1 |-> <<"1">>,  p |-> <<>>])

A == Literal("a")
X == Regex(Whole, <<"x">>)
Y == Regex(Whole, <<"y">>)
V == Regex(Vers, <<"x">>)
P == Regex(Pair, <<"x", "y">>)

MCRoutes ==
  {Route("GET", u, "handlers") : u \in {<<A>>, <<X>>, <<V>>, <<X, A>>, <<A, Y>>, <<Y, V>>, <<Y, P>>}}
  \cup {Route("GET", u, "layers") : u \in {<<>>, <<A>>, <<Y, A>>}}
  \cup {Route("GET", u, "errors") : u \in {<<>>, <<X>>, <<A, V>>}}
  \cup {Route("POST", <<X, X>>, "handlers"), Folder("GET", <<A>>, "handlers"), Folder("GET", <<V>>, "layers")}

MCRequests ==
  [method : {"GET"}, path : {<<>>} \cup [1..1 -> {"a", "v1", "p"}] \cup [1..2 -> {"a", "v1", "p"}]]
  \cup {[method |-> "POST", path |-> <<"a", "b">>]}
=============================================================================
