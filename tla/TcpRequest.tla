----------------------------- MODULE TcpRequest -----------------------------
(* How a request comes over a TCP connection (src/ManapiTaskHttp.cpp): blocks *)
(* of at most "size of buff" bytes arrive, cut anywhere, the head is parsed   *)
(* out of them and what follows it is the start of the body.  A byte is a     *)
(* token; so are a method, the key and the value of a header.                 *)
EXTENDS Integers, SequencesExt, FiniteSetsExt

CONSTANTS MaxHeader,     \* max_header_block_size
          Sizes,         \* the sizes that a read may have, a bound of the model
          Width,         \* the numbers of a size_t
          Hex(_),        \* the byte that two digits stand for, whatever they are
          Number(_),     \* the number a value begins with
          None           \* no hexadecimal digits are awaited; no length

ASSUME RequestAssumption == MaxHeader \in Nat /\ Sizes \subseteq Nat /\ Width \in Nat \ {0} /\ None \notin Nat

VARIABLES stream,        \* what of the client's bytes has not been read
          buff,          \* the block buffer; a read overwrites its beginning
          got,           \* history: the bytes the last read brought
          reads,         \* history: the reads that brought any
          head,          \* request_data, where the parser of the head stands, and maxsize as limit
          index,         \* body_index
          data,          \* body_size, body_left, body_part and body_ptr
          stage

read_vars == <<stream, buff, got, reads>>
request_vars == <<read_vars, head, index, data, stage>>

NoHead == [phase |-> "method", i |-> 0, method |-> <<>>, path |-> <<>>, divided |-> -1, hex |-> None,
           key |-> <<>>, headers |-> <<>>, dbl |-> FALSE, limit |-> MaxHeader]

\* The buffer is not initialised: "?" is a byte nobody sent.
RequestInit(bytes, block) ==
  /\ stream = bytes /\ buff = [k \in 1..block |-> "?"] /\ got = 0 /\ reads = 0
  /\ head = NoHead /\ index = 0
  /\ data = [size |-> 0, left |-> 0, part |-> 0, ptr |-> 0]
  /\ stage = "accepted"

-----------------------------------------------------------------------------
(* read_next: a block; nothing when the client has closed; -1 or an exception *)
(* when the connection is broken or the rest comes too late.                  *)

Blocks == {SubSeq(stream, 1, n) : n \in Sizes \cap (1..Min({Len(buff), Len(stream)}))}
Arrives(b) ==
  /\ stream' = SubSeq(stream, Len(b) + 1, Len(stream))
  /\ buff' = [k \in DOMAIN buff |-> IF k <= Len(b) THEN b[k] ELSE buff[k]]
  /\ got' = Len(b) /\ reads' = reads + 1
Closed == stream = <<>>

Ends(s) == stage' = s /\ UNCHANGED <<read_vars, head, index, data>>

-----------------------------------------------------------------------------
(* tcp_parse_request_response and parse_uri_path_dynamic, byte by byte.       *)

\* An empty part of the path is looked for from its end on; the last part is
\* dropped for it, whichever was empty.
Shortened(path) ==
  FoldLeft(LAMBDA p, j : IF p[j] = <<>> THEN Front(p) ELSE p, path, [k \in DOMAIN path |-> Len(path) + 1 - k])

InMethod(h, c) == IF c = " " THEN [h EXCEPT !.phase = "uri"] ELSE [h EXCEPT !.method = Append(@, c)]

InPath(h, c) == IF h.path = <<>> THEN h ELSE [h EXCEPT !.path[Len(h.path)] = Append(@, c)]
InUri(h, c) ==
  CASE c = " " -> [h EXCEPT !.phase = "http", !.path = Shortened(@)]
    [] c # " " /\ h.hex # None ->
         IF h.hex = <<>> THEN [h EXCEPT !.hex = <<c>>]
         ELSE InPath([h EXCEPT !.hex = None], Hex(Append(h.hex, c)))
    [] c = "%" /\ h.hex = None /\ h.path # <<>> -> [h EXCEPT !.hex = <<>>]
    [] c = "/" /\ h.hex = None /\ h.divided = -1 -> [h EXCEPT !.path = Append(@, <<>>)]
    [] c = "?" /\ h.hex = None /\ h.divided = -1 ->
         [h EXCEPT !.divided = Len(h.path), !.path = Append(@, <<>>)]
    [] OTHER -> InPath(h, c)

InHttp(h, c) == IF c = "\n" THEN [h EXCEPT !.phase = "key"] ELSE h

InHeaders(h, c) ==
  CASE c = "\n" -> IF h.dbl THEN [h EXCEPT !.phase = "done"]
                   ELSE [h EXCEPT !.phase = "key", !.key = <<>>, !.dbl = TRUE]
    [] c = "\r" -> h
    [] c = ":" /\ h.phase = "key" ->
         [h EXCEPT !.phase = "value", !.headers = IF h.key \in DOMAIN @ THEN @ ELSE (h.key :> <<>>) @@ @]
    [] OTHER ->
         IF h.phase = "key" THEN [h EXCEPT !.dbl = FALSE, !.key = Append(@, c)]
         ELSE IF c = " " /\ h.headers[h.key] = <<>> THEN [h EXCEPT !.dbl = FALSE]
         ELSE [h EXCEPT !.dbl = FALSE, !.headers[h.key] = Append(@, c)]

\* The limit ends the loop that is running: at the method the URI is read all
\* the same, at the version the head is taken as it is.
HeadByte(h, c) ==
  LET g == [h EXCEPT !.i = @ + 1]
  IN CASE h.phase \in {"done", "too large"} -> h
       [] h.phase = "method" -> IF h.i >= h.limit THEN [g EXCEPT !.phase = "uri"] ELSE InMethod(g, c)
       [] h.phase = "uri"    -> InUri(g, c)
       [] h.phase = "http"   -> IF h.i >= h.limit THEN [g EXCEPT !.phase = "done"] ELSE InHttp(g, c)
       [] OTHER -> IF h.i = h.limit THEN [h EXCEPT !.phase = "too large"] ELSE InHeaders(g, c)

\* tcp_doit: the first block, then the head up to the end of the buffer, not of
\* what was read into it.
Accept ==
  /\ stage = "accepted"
  /\ \/ \E b \in Blocks : Arrives(b) /\ data' = [data EXCEPT !.size = Len(b)] /\ stage' = "head"
                          /\ UNCHANGED <<head, index>>
     \/ Closed /\ Ends("head")
     \/ Ends("closed")

ParseHead ==
  /\ stage = "head"
  /\ head' = FoldLeft(HeadByte, head, SubSeq(buff, head.i + 1, Len(buff)))
  /\ stage' = CASE head'.phase = "done" /\ head'.i # head'.limit -> "parsed"
                [] head'.phase = "too large" \/ (head'.phase \in {"key", "value", "done"} /\ head'.i = head'.limit) -> "closed"
                [] OTHER -> "more"
  /\ UNCHANGED <<read_vars, index, data>>

\* read_next_part(maxsize, i): a block may not be longer than the first one.
\* When the client has closed the parser returns what it has; within a URI only
\* the function called from it returns, and the byte after the buffer is read.
MoreHead ==
  /\ stage = "more"
  /\ \/ \E b \in Blocks :
          /\ Arrives(b)
          /\ IF Len(b) > data.size THEN stage' = "closed" /\ UNCHANGED head
             ELSE stage' = "head" /\ head' = [head EXCEPT !.i = 0, !.limit = (@ - head.i) % Width]
          /\ UNCHANGED <<index, data>>
     \/ Closed /\ Ends(IF head.phase = "uri" THEN "undefined" ELSE "parsed")
     \/ Ends("closed")

-----------------------------------------------------------------------------
(* tcp_doit: what of the last block is body.                                  *)

\* The length announced: 0 if there is none, None if it is no number of a size_t.
Length == LET key == <<"length">>
              n == IF key \in DOMAIN head.headers THEN Number(head.headers[key]) ELSE 0
          IN IF n \in 0..Width - 1 THEN n ELSE None

\* The part is what the first read brought, less the bytes of the head in the
\* last one.
Body(part, ptr) == data' = [size |-> Length, left |-> Length, part |-> part % Width, ptr |-> ptr]

StartBody ==
  /\ stage = "parsed" /\ UNCHANGED head
  /\ index' = 0
  /\ CASE Length = None -> stage' = "closed" /\ UNCHANGED <<read_vars, data>>
       [] Length = 0 -> Body(0, 0) /\ stage' = "request" /\ UNCHANGED read_vars
       [] Length \notin {None, 0} /\ head.i # data.size ->
            Body(data.size - head.i, head.i) /\ stage' = "request" /\ UNCHANGED read_vars
       [] OTHER ->
            \/ \E b \in Blocks : Arrives(b) /\ Body(Len(b), 0) /\ stage' = "request"
            \/ Closed /\ Body(0, 0) /\ stage' = "request" /\ UNCHANGED read_vars
            \/ Body(-1, 0) /\ stage' = "request" /\ UNCHANGED read_vars
            \/ stage' = "closed" /\ UNCHANGED <<read_vars, data>>

RequestNext == Accept \/ ParseHead \/ MoreHead \/ StartBody
=============================================================================
