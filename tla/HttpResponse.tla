---------------------------- MODULE HttpResponse ----------------------------
(* How a request is answered (src/ManapiTaskHttp.cpp from handle_request on,  *)
(* src/ManapiHttpResponse.cpp): layers, handler or static file, error pages,  *)
(* and the body written block by block, with keys replaced on the way.  A     *)
(* page is a record of layers, handler, statics and error; what a handler or  *)
(* a layer does is a sequence of calls <<name, argument>>.                    *)
EXTENDS Integers, SequencesExt, FiniteSetsExt

CONSTANTS Files,         \* path -> content
          Compressors,   \* the names of the compressors of the site
          Packed(_),        \* what a compressor makes of bytes
          PartialMin,    \* partial_data_min_size
          Taken,         \* what a write that does not take all may take, a bound of the model
          NoPage,        \* no handler, no statics, no error page
          Pages          \* the pages there are

\* What a text or a file holds are bytes, packed or not; so say the calls of the
\* layers and the handler of a page.
ByteString(b) == b \in Seq(Range(b)) /\ Packed(b) \in Seq(Range(Packed(b)))
Calls(s)      == s \in Seq(Range(s)) /\ \A c \in Range(s) : c[1] = "text" => ByteString(c[2])
ASSUME PagesAssumption ==
  /\ \A path \in DOMAIN Files : ByteString(Files[path])
  /\ \A p \in Pages : /\ p.error \in Pages \cup {NoPage}
                      /\ p.handler = NoPage \/ Calls(p.handler)
                      /\ p.layer \in Seq(Range(p.layer)) /\ \A l \in Range(p.layer) : Calls(l)

VARIABLES page,          \* the page that is handled
          asked,         \* of the request: ranges as <<from, to>>, -1 if absent, whether one is bad,
                         \* the encodings accepted, the path under statics
          block,         \* socket_block_size
          res,           \* the http_response
          plan,          \* what send_response decided: mode, bytes, length announced
          rep,           \* the locals of send_file with replacers
          sent,          \* the bytes written after the last head
          heads,         \* history: the heads written, or begun: status and length
          failed,        \* history: a write failed
          short,         \* history: a write of a file with keys did not take all
          cut,           \* history: a write of a head did not take all of it
          phase

response_vars == <<page, asked, block, res, plan, rep, sent, heads, failed, short, cut, phase>>
\* What nothing changes, but for Send_head.
fixed == <<asked, block, cut>>

NoPlan == [mode |-> "none", bytes |-> <<>>, at |-> 0, size |-> 0, length |-> -1, keys |-> <<>>]
NoRep  == [block |-> <<>>, size |-> 0, current |-> 0, pos |-> 0, fail |-> FALSE, key |-> 1, done |-> 0,
           from |-> 0, shift |-> 0, at |-> "top"]

-----------------------------------------------------------------------------
(* http_response.                                                             *)

\* detect_ranges: the end of a range is read from the "-" on.
Ranges == [k \in DOMAIN asked.ranges |->
             <<asked.ranges[k][1], IF asked.ranges[k][2] = -1 THEN -1 ELSE -asked.ranges[k][2]>>]
Response(status) ==
  [type |-> "none", data |-> <<>>, status |-> status, compress_enabled |-> FALSE, compress |-> "",
   partial |-> FALSE, replacers |-> <<>>, has_replacers |-> FALSE, ranges |-> Ranges]

Call(r, c) ==
  CASE c[1] \in {"text", "file"} -> [r EXCEPT !.type = c[1], !.data = c[2]]
    [] c[1] = "status"    -> [r EXCEPT !.status = c[2]]
    [] c[1] = "compress enabled" -> [r EXCEPT !.compress_enabled = c[2], !.compress = ""]
    [] c[1] = "compress"  -> IF r.compress_enabled THEN [r EXCEPT !.compress = c[2]] ELSE r
    [] c[1] = "partial"   -> IF r.ranges = <<>> THEN r ELSE [r EXCEPT !.partial = c[2]]
    [] c[1] = "replacers" -> [r EXCEPT !.compress_enabled = FALSE, !.compress = "", !.has_replacers = TRUE,
                                       !.replacers = c[2], !.partial = IF r.ranges = <<>> THEN @ ELSE FALSE]
    [] OTHER -> r

\* get_compress: what was set, else the first the client accepts and there is.
Get_compress(r) ==
  LET fit == SelectSeq(asked.accepts, LAMBDA a : a \in Compressors)
  IN IF r.compress_enabled /\ r.compress = "" /\ fit # <<>> THEN fit[1] ELSE r.compress

-----------------------------------------------------------------------------
(* handle_request.                                                            *)

\* The calls up to the first that throws, the layers up to the first that stops.
MadeOne(z, c) ==
  IF z.threw THEN z ELSE IF c[1] = "throw" THEN [z EXCEPT !.threw = TRUE]
  ELSE [z EXCEPT !.r = Call(@, c), !.stop = @ \/ c[1] = "stop"]
Made(r, calls) == FoldLeft(MadeOne, [r |-> r, stop |-> FALSE, threw |-> FALSE], calls)
LayerOne(z, l) == IF z.stop \/ z.threw THEN z ELSE Made(z.r, l)
Layers(r)      == FoldLeft(LayerOne, [r |-> r, stop |-> FALSE, threw |-> FALSE], page.layer)

\* send_error_response: without an error page nothing is sent.
Send_error(status) ==
  /\ IF page.error = NoPage THEN phase' = "over" /\ UNCHANGED <<page, res>>
     ELSE phase' = "handle" /\ page' = page.error /\ res' = Response(status)
  /\ UNCHANGED <<fixed, plan, rep, sent, heads>>

\* A handler whose body could not be read throws.  A range without a "-" is
\* thrown out of the constructor of the response, and the connection closed.
Handle(readable) ==
  /\ phase = "handle"
  /\ LET layers == Layers(res)
         path   == page.statics \o asked.path
         static == << <<"compress enabled", TRUE>>, <<"partial", TRUE>>, <<"file", path>> >>
         answer == IF page.handler = NoPage THEN Made(layers.r, static)
                   ELSE IF readable THEN Made(layers.r, page.handler) ELSE [layers EXCEPT !.threw = TRUE]
     IN CASE asked.bad -> phase' = "over" /\ UNCHANGED <<page, res, fixed, plan, rep, sent, heads>>
          [] ~asked.bad /\ layers.threw -> Send_error(503)
          [] ~asked.bad /\ ~layers.threw /\ layers.stop ->
               res' = layers.r /\ phase' = "send" /\ UNCHANGED <<page, fixed, plan, rep, sent, heads>>
          [] ~asked.bad /\ ~layers.threw /\ ~layers.stop /\ page.handler = NoPage
             /\ (page.statics = NoPage \/ path \notin DOMAIN Files) -> Send_error(404)
          [] OTHER -> IF answer.threw THEN Send_error(503)
                      ELSE res' = answer.r /\ phase' = "send" /\ UNCHANGED <<page, fixed, plan, rep, sent, heads>>
  /\ UNCHANGED <<failed, short>>

-----------------------------------------------------------------------------
(* found_replacers_in_file: the places of {{key}} for the keys known.         *)

FoundByte(f, c) ==
  LET shut == [f EXCEPT !.opened = FALSE, !.special = FALSE, !.key = <<>>, !.j = @ + 1]
      g    == [f EXCEPT !.j = @ + 1]
  IN CASE f.opened /\ f.special /\ c = "}" ->
            IF f.key \in DOMAIN f.known
            THEN [shut EXCEPT !.found = Append(@, [first |-> f.first, last |-> f.j, value |-> f.known[f.key]])]
            ELSE shut
       [] f.opened /\ f.special /\ c # "}" -> [g EXCEPT !.key = @ \o <<"}", c>>]
       [] f.opened /\ ~f.special -> IF c = "}" THEN [g EXCEPT !.special = TRUE] ELSE [g EXCEPT !.key = Append(@, c)]
       [] ~f.opened /\ f.special -> [g EXCEPT !.special = FALSE, !.opened = (c = "{")]
       [] OTHER -> IF c = "{" THEN [g EXCEPT !.special = TRUE, !.first = f.j] ELSE g
Found(bytes, replacers) ==
  FoldLeft(FoundByte, [opened |-> FALSE, special |-> FALSE, key |-> <<>>, first |-> 0, j |-> 0,
                       found |-> <<>>, known |-> replacers], bytes).found

KeySize(k) == k.last - k.first + 1
Resized(n, k) == n - KeySize(k) + Len(k.value)
DynamicSize(size, keys) == FoldLeft(Resized, size, keys)

-----------------------------------------------------------------------------
(* send_response: what is sent, and the head.                                 *)

Compressor(r) ==
  LET c == Get_compress(r)
  IN IF /\ c \in Compressors
        /\ r.type # "file" \/ ~r.partial \/ r.data \notin DOMAIN Files \/ Len(Files[r.data]) < PartialMin
     THEN c ELSE ""

PlanOf(r) ==
  LET zipped == Compressor(r) # ""
      bytes  == IF r.type = "text" THEN r.data ELSE Files[r.data]
      body   == IF zipped THEN Packed(bytes) ELSE bytes
      keys   == IF r.has_replacers THEN Found(body, r.replacers) ELSE <<>>
      start  == IF r.ranges = <<>> \/ r.ranges[1][1] = -1 THEN 0 ELSE r.ranges[1][1]
      back   == IF r.ranges = <<>> THEN PartialMin - 1
                ELSE IF r.ranges[1][2] # -1 THEN r.ranges[1][2] ELSE Len(body) - 1
      With(mode, at, size, length) == [NoPlan EXCEPT !.mode = mode, !.bytes = body, !.at = at, !.size = size,
                                                     !.length = length, !.keys = keys]
  IN CASE r.type = "none" -> NoPlan
       [] r.type = "text" -> With("text", 0, Len(body), Len(body))
       [] r.type = "file" /\ r.partial /\ PartialMin <= Len(body) -> With("part", start, back - start + 1, back - start + 1)
       [] OTHER -> With(IF keys = <<>> THEN "file" ELSE "keys", 0, Len(body), DynamicSize(Len(body), keys))

Refused(r) == /\ r.type = "file"
              /\ \/ r.data \notin DOMAIN Files
                 \/ r.has_replacers /\ Compressor(r) # ""
                 \/ /\ r.partial /\ PartialMin <= Len(PlanOf(r).bytes)
                    /\ Compressor(r) # "" \/ r.has_replacers \/ Len(r.ranges) > 1

Send_response ==
  /\ phase = "send"
  /\ IF Refused(res) THEN Send_error(503)
     ELSE /\ plan' = PlanOf(res)
          /\ res' = IF plan'.mode = "part" THEN [res EXCEPT !.status = 206] ELSE res
          /\ phase' = "head" /\ UNCHANGED <<page, fixed, rep, sent, heads>>
  /\ UNCHANGED <<failed, short>>

\* tcp_send_response: one write; when it fails no body follows.  What it took is
\* returned, and any number is a success: the body follows a head that was cut.
Send_head ==
  /\ phase = "head"
  /\ \/ /\ heads' = Append(heads, [status |-> res.status, length |-> plan.length]) /\ sent' = <<>>
        /\ phase' = IF plan.mode = "none" THEN "over" ELSE plan.mode
        /\ rep' = [NoRep EXCEPT !.block = [k \in 1..block |-> "?"], !.size = block]
        /\ cut' \in {cut, TRUE} /\ UNCHANGED failed
     \/ phase' = "over" /\ failed' = TRUE /\ UNCHANGED <<heads, sent, rep, cut>>
  /\ UNCHANGED <<page, asked, block, res, plan, short>>

-----------------------------------------------------------------------------
(* send_text and send_file.                                                   *)

Send_text ==
  /\ phase = "text"
  /\ \/ plan.size = 0 /\ phase' = "over" /\ UNCHANGED <<plan, sent>>
     \/ \E n \in 1..plan.size :
          /\ sent' = sent \o SubSeq(plan.bytes, plan.at + 1, plan.at + n)
          /\ plan' = [plan EXCEPT !.at = @ + n, !.size = @ - n] /\ UNCHANGED phase
  /\ UNCHANGED <<page, fixed, res, rep, heads, failed, short>>
Send_text_fails ==
  /\ phase = "text" /\ plan.size > 0
  /\ failed' = TRUE /\ UNCHANGED short
  /\ Send_error(503)

\* Mutant: the file is read on from where the last block ended, not what was written of it.
SendFileOn ==
  /\ phase \in {"file", "part"}
  /\ \/ plan.size = 0 /\ phase' = "over" /\ UNCHANGED <<plan, sent, failed>>
     \/ \E n \in 0..Min({block, plan.size}) :
          /\ plan.size > 0
          /\ sent' = sent \o SubSeq(plan.bytes, plan.at + 1, Min({plan.at + n, Len(plan.bytes)}))
          /\ plan' = [plan EXCEPT !.at = @ + Min({block, plan.size}), !.size = @ - n] /\ UNCHANGED <<phase, failed>>
     \/ plan.size # 0 /\ phase' = "over" /\ failed' = TRUE /\ UNCHANGED <<plan, sent>>
  /\ UNCHANGED <<page, fixed, res, rep, heads, short>>

\* The file is left when size meets current; a size below zero, or a start
\* behind the end, never does or reads what is not there.
Send_file ==
  /\ phase \in {"file", "part"}
  /\ \/ plan.size = 0 /\ phase' = "over" /\ UNCHANGED <<plan, sent, failed>>
     \/ /\ plan.size < 0 \/ plan.at + Min({block, plan.size}) > Len(plan.bytes)
        /\ plan.size # 0 /\ phase' = "undefined" /\ UNCHANGED <<plan, sent, failed>>
     \/ \E n \in 0..Min({block, plan.size}) :
          /\ plan.size > 0 /\ plan.at + Min({block, plan.size}) <= Len(plan.bytes)
          /\ sent' = sent \o SubSeq(plan.bytes, plan.at + 1, plan.at + n)
          /\ plan' = [plan EXCEPT !.at = @ + n, !.size = @ - n] /\ UNCHANGED <<phase, failed>>
     \/ plan.size # 0 /\ phase' = "over" /\ failed' = TRUE /\ UNCHANGED <<plan, sent>>
  /\ UNCHANGED <<page, fixed, res, rep, heads, short>>

-----------------------------------------------------------------------------
(* send_file with replacers.  "pos" and "fail" are the file's, "size" is the  *)
(* size the block has, "key" the replacer at hand and "done" how much of its  *)
(* value stands in a block already.                                           *)

Tell(r)      == IF r.fail THEN -1 ELSE r.pos
Seek(r, p)   == IF r.fail THEN r ELSE IF p < 0 THEN [r EXCEPT !.fail = TRUE] ELSE [r EXCEPT !.pos = p]
Put_at(r, at, bytes) ==
  IF at < 0 \/ at + Len(bytes) > block THEN [r EXCEPT !.at = "undefined"]
  ELSE [r EXCEPT !.block = [k \in DOMAIN @ |-> IF k - at \in DOMAIN bytes THEN bytes[k - at] ELSE @[k]]]
Read_at(r, at, n) ==
  LET bytes == IF r.fail THEN <<>> ELSE SubSeq(plan.bytes, r.pos + 1, Min({r.pos + n, Len(plan.bytes)}))
  IN Put_at([r EXCEPT !.pos = @ + Len(bytes), !.fail = @ \/ Len(bytes) < n], at, bytes)
Next_key(r)  == IF r.at = "undefined" THEN r ELSE [r EXCEPT !.key = @ + 1, !.done = 0, !.at = "keys"]

Key_here(r)  == r.key <= Len(plan.keys) /\ Tell(r) > plan.keys[r.key].first + r.shift

\* Mutant: a key that began in the block before is looked for from its start.
KeyStartAnew(r) == r.size - (Tell(r) - (plan.keys[r.key].first + r.shift))

\* As much of the value as the place of the key and the block hold.
Key_start(r) == r.size - (Tell(r) - (plan.keys[r.key].first + r.shift + r.done))
Key_part(r)  ==
  LET k == plan.keys[r.key]
      n == Max({0, Min({r.size - Key_start(r), KeySize(k) - r.done, Len(k.value) - r.done})})
  IN [Put_at(r, Key_start(r), SubSeq(k.value, r.done + 1, r.done + n)) EXCEPT !.done = @ + n, !.from = Key_start(r) + n]

\* The value is not longer than the key: what follows is moved up, and the
\* block filled again.
Shrunk(r, start) ==
  LET ks    == KeySize(plan.keys[r.key])
      moved == SubSeq(r.block, start + ks + 1, r.size)
      to    == r.from + Len(moved)
      g     == Put_at(r, r.from, moved)
      again == Tell(r) - r.size + Max({start + ks, r.size})
      full  == IF Tell(r) < plan.size THEN Read_at(Seek(g, again), to, r.size - to)
               ELSE [g EXCEPT !.size = @ - (ks - r.done)]
  IN IF to < r.size THEN Next_key([full EXCEPT !.current = Tell(full) - full.size])
     ELSE Next_key(Seek([g EXCEPT !.current = @ + ks - r.done], r.current + ks - r.done))

\* The value is longer: the rest of it is put in, the block sent when it is
\* full, and then filled up with what follows.
Grown_block(r) ==
  LET value == plan.keys[r.key].value
      left  == Len(value) - r.done
      flush == r.size - r.from < left /\ r.from + left >= block
      size  == IF flush THEN block ELSE Max({r.size, r.from + left})
      n     == Min({size - r.from, left})
      g     == Put_at([r EXCEPT !.size = size, !.done = @ + n], r.from, SubSeq(value, r.done + 1, r.done + n))
      i     == r.from + n
      s     == Seek(g, r.current + r.from - r.shift)
      some  == Max({0, Min({block - i, Len(plan.bytes) - s.pos})})
      full  == [Read_at(s, i, some) EXCEPT !.size = size + some - (size - i)]
  IN IF g.at = "undefined" THEN g
     ELSE IF flush THEN [g EXCEPT !.at = "flush"]
     ELSE Next_key([full EXCEPT !.current = Tell(full) - full.size, !.shift = 0])

Keys_top ==
  /\ phase = "keys" /\ rep.at = "top"
  /\ IF rep.current >= plan.size THEN phase' = "over" /\ UNCHANGED rep
     ELSE /\ LET n == Min({rep.size, plan.size - rep.current})
             IN rep' = Read_at([rep EXCEPT !.size = n, !.shift = 0, !.at = "keys"], 0, n)
          /\ UNCHANGED phase
  /\ UNCHANGED <<page, fixed, res, plan, sent, heads, failed, short>>

Keys_replace ==
  /\ phase = "keys" /\ rep.at \in {"keys", "more"}
  /\ LET r == Key_part(rep)
         k == plan.keys[rep.key]
     IN rep' = IF rep.at = "more" THEN Grown_block(rep)
               ELSE IF ~Key_here(rep) THEN [rep EXCEPT !.at = "write"]
               ELSE IF r.at = "undefined" THEN r
               ELSE IF r.done = Len(k.value) THEN Shrunk(r, Key_start(rep))
               ELSE IF r.done = KeySize(k) THEN [r EXCEPT !.at = "more"]
               ELSE [r EXCEPT !.at = "write"]
  /\ UNCHANGED <<page, fixed, res, plan, sent, heads, failed, short, phase>>

\* One write of a file with keys may take less than the block, a bound.
Keys_write ==
  /\ phase = "keys" /\ rep.at \in {"write", "flush"}
  /\ \/ \E n \in {rep.size} \cup (IF short THEN {} ELSE {k \in Taken : k < rep.size}) :
          /\ sent' = sent \o SubSeq(rep.block, 1, n)
          /\ short' = (short \/ n < rep.size)
          /\ rep' = IF rep.at = "write" THEN [Seek(rep, rep.current + n) EXCEPT !.current = @ + n, !.at = "top"]
                    ELSE [rep EXCEPT !.current = @ + n, !.shift = @ + rep.size - rep.from, !.from = 0, !.at = "more"]
          /\ UNCHANGED <<phase, failed>>
     \/ phase' = "over" /\ failed' = TRUE /\ UNCHANGED <<sent, short, rep>>
  /\ UNCHANGED <<page, fixed, res, plan, heads>>

Keys_undefined ==
  /\ phase = "keys" /\ rep.at = "undefined"
  /\ phase' = "undefined"
  /\ UNCHANGED <<page, fixed, res, plan, rep, sent, heads, failed, short>>

ResponseNext == \/ Send_response \/ Send_head \/ Send_text \/ Send_text_fails \/ Send_file
                \/ Keys_top \/ Keys_replace \/ Keys_write \/ Keys_undefined
=============================================================================
