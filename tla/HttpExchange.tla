---------------------------- MODULE HttpExchange ----------------------------
(* One request and its answer (src/ManapiTaskHttp.cpp): the head is read and  *)
(* parsed, the page of the router is handled, its handler reads the body, and *)
(* the response is written; then the connection is closed.                    *)
EXTENDS RequestBody, HttpResponse

CONSTANT Exchanges       \* what clients send, what is registered for it, and what is to come of it

\* A block may be as long as a size_t tells, but for one byte.
ASSUME ExchangesAssumption ==
  \A x \in Exchanges : x.bytes \in Seq(Range(x.bytes)) /\ x.block \in Nat /\ x.block + 1 < Width
                      /\ x.reader \in {"none", "text", "form", "pairs"}
                      /\ x.page \in Pages /\ x.asked.ranges \in Seq((Nat \cup {-1}) \X (Nat \cup {-1}))

VARIABLES exchange,      \* the exchange at hand, a member of Exchanges
          whole          \* history: the first read brought the whole head, and no read of the first part failed

vars == <<request_vars, body_vars, response_vars, exchange, whole>>

Init ==
  \E x \in Exchanges :
    /\ exchange = x /\ whole = FALSE
    /\ RequestInit(x.bytes, x.block) /\ BodyInit
    /\ page = x.page /\ asked = x.asked /\ block = x.block /\ res = Response(200)
    /\ plan = NoPlan /\ rep = NoRep /\ sent = <<>> /\ heads = <<>> /\ failed = FALSE /\ short = FALSE
    /\ cut = FALSE
    /\ phase = "handle"

\* tcp_doit up to handle_request.
Receive ==
  /\ RequestNext
  /\ whole' = IF stage = "parsed" THEN reads = 1 /\ head.i <= got /\ data'.part <= got' ELSE whole
  /\ UNCHANGED <<body_vars, response_vars, exchange>>

\* The handler of the page reads the body; layers may keep it from being
\* called, and error pages do not read.
Reads == /\ exchange.reader # "none" /\ page = exchange.page /\ ~asked.bad
         /\ ~Layers(res).stop /\ ~Layers(res).threw

Read == /\ phase = "handle" /\ Reads
        /\ Read_body(exchange.reader) \/ BodyNext
        /\ UNCHANGED <<response_vars, exchange, whole>>

Answer == /\ stage \in (IF Reads THEN {"read", "threw"} ELSE {"request", "read", "threw"})
          /\ Handle(stage # "threw")
          /\ UNCHANGED <<request_vars, body_vars, exchange, whole>>

Respond == ResponseNext /\ UNCHANGED <<request_vars, body_vars, exchange, whole>>

Next == Receive \/ Read \/ Answer \/ Respond

Spec == Init /\ [][Next]_vars

-----------------------------------------------------------------------------
(* Properties.                                                                *)

\* A value that looks like the end of a boundary.
Dashed == \E f \in Range(exchange.params) : f # <<>> /\ f[1] = "-"

\* What the handler reads of a body (text, the params of a form of either type,
\* its files) is what the client sent, however the body is cut into blocks:
\* a boundary, a line, an escape or a pair may lie across two or more of them.
\* A param that outgrows buff_extra over several blocks is not read to its end
\* (stage "overflow").
\* The head must have come whole in the first read, or the part is not counted
\* right (PartIsLastBlock); a value that begins with a dash, like the end of the
\* boundary, may be lost when the cut is between its dashes.
BodyAsSent ==
  stage = "read" /\ whole /\ ~Dashed =>
    out.text = exchange.text /\ out.params = exchange.params /\ out.files = exchange.files

\* What comes after the head, and as much of it as was announced.
Rest == SubSeq(exchange.bytes, head.i + 1, Len(exchange.bytes))
Came == SubSeq(Rest, 1, Min({data.size, Len(Rest)}))

\* The pairs of a form that came in one piece.
PairsOf(bytes) ==
  LET z == PairBytes(NoPair, <<>>, bytes)
  IN IF z.local.key = <<>> /\ z.local.value = <<>> THEN z.params ELSE Put(z.params, z.local.key, z.local.value)

\* Before the reader are, in the buffer, the bytes of the body that follow those
\* it took.
InPlace ==
  LET taken == data.size - data.left + index
      end   == data.size - data.left + data.part
  IN /\ data.ptr + data.part <= Len(buff)
     /\ index < data.part => end <= Len(Came) /\ Within(index, data.part) = SubSeq(Came, taken + 1, end)

\* A body is read as if what came of it, as far as it was announced and no
\* further, had come in one block, for any bytes and any cuts, up to where what
\* is kept of a param or of a line of its head outgrows buff_extra, which is not
\* checked.  Whoever reads over the blocks of read_next_part (text, json, a form
\* of either type, the files of set_file) always stands in the body where it
\* should: from block to block nothing is lost or met twice, also when a boundary
\* broke off and bytes are read once more, and nothing behind the block buffer is
\* looked at.  A text is what came, with zeros up to the length that was
\* announced, and a form of pairs has the pairs of the whole.  A body that with
\* one boundary more has room in buff_extra is never copied behind its end.
BodyAsOne ==
  whole =>
    /\ stage # "undefined"
    /\ stage = "overflow" => data.size + Len(body_boundary) > Extra_size
    /\ stage \in {"text", "pairs", "param"} => InPlace
    /\ stage = "read" /\ caller = "text"  => out.text = Came \o Zeros(data.size - Len(Came))
    /\ stage = "read" /\ caller = "pairs" => out.params = PairsOf(Came)

\* "calculate how much space contains headers in the last block": the part of
\* the body in the buffer is what the last read brought after the head.
PartIsLastBlock ==
  [][stage = "parsed" /\ stage' = "request" /\ data'.ptr > 0 => data'.part = got - data'.ptr]_vars

\* The part of a file that is asked for begins in it and has no end.
Open == plan.mode = "part" => \A r \in Range(res.ranges) : r[2] = -1 /\ r[1] < Len(plan.bytes)
From == IF plan.mode = "part" /\ res.ranges[1][1] # -1 THEN res.ranges[1][1] ELSE 0

\* Whatever the layers and the handler call, and however the writes of the body
\* fall short: when an answer is over and no write failed, a text, a file and a
\* part of a file were sent once, from the first byte to the last, and the loops
\* of send_text and send_file read nothing but them; and, unless the write of a
\* head was cut, which counts as a success, there was one head before them and it
\* announced their length.
AnswerInFull ==
  phase \in {"over", "undefined"} /\ heads # <<>> /\ ~failed /\ plan.mode # "keys" /\ Open =>
    /\ phase = "over"
    /\ sent = SubSeq(plan.bytes, From + 1, Len(plan.bytes))
    /\ ~cut => /\ Len(heads) = 1
               /\ heads[1].length = IF plan.mode = "none" THEN -1 ELSE Len(sent)

\* The values with which the loop of send_file gives the whole file.
Replaceable ==
  \/ \A k \in DOMAIN plan.keys : Len(plan.keys[k].value) > KeySize(plan.keys[k])
  \/ Len(plan.bytes) <= block /\ \A k \in DOMAIN plan.keys : Len(plan.keys[k].value) < KeySize(plan.keys[k])

\* The client gets one head, the length it announced, and what the page makes of
\* the file: all of it, the part asked for, or the file with its keys replaced,
\* whatever the blocks they lie across; no loop that sends it reads or writes
\* outside the file and its block.  This is so when the write of the head takes
\* all of it, and none fails.  Of the file with keys it is so when every value is
\* longer than its key, or when the file is one block and every value is shorter,
\* and no write takes less than the block; of a part, when it begins in the file
\* and no end is asked for, which is read as a negative number.
AnswerAsAnnounced ==
  /\ phase \in {"over", "undefined"} /\ heads # <<>> /\ ~failed /\ ~short /\ ~cut /\ Replaceable
  /\ \A r \in Range(asked.ranges) : r[2] = -1 /\ r[1] < Len(plan.bytes)
  => /\ phase = "over" /\ Len(heads) = 1 /\ heads[1].length \in {Len(sent), -1}
     /\ heads[1].status \in {200, 206} => sent = exchange.content
=============================================================================
