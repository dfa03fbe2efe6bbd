----------------------------- MODULE RequestBody -----------------------------
(* How a handler reads the body of a request (src/ManapiHttpRequest.cpp): as  *)
(* text or JSON, as a form of either type, and the files of a form one after  *)
(* the other.  All of them read over the blocks of TcpRequest.  A line of the *)
(* head of a part is a token: what it says is in Disposition.                 *)
EXTENDS TcpRequest

CONSTANTS Boundary,      \* the boundary of a multipart form
          Disposition,   \* line -> [name, file]: a content-disposition
          MaxPlain,      \* max_plain_body_size
          ExtraMin       \* the least size of buff_extra, 4096 in the code

ASSUME BodyAssumption == ExtraMin \in Nat /\ Boundary \in Seq(Range(Boundary))

VARIABLES out,           \* what was read: text, params, files
          first_line,    \* no boundary has been looked for
          file,          \* file_data.exists
          caller,        \* who reads a param: "form", "file", "next file"
          local,         \* the locals of multipart_read_param, or of the urlencoded form
          fresh          \* form: the last call of multipart_read_param found a param

body_vars == <<out, first_line, file, caller, local, fresh>>

NoOut   == [text |-> <<>>, params |-> <<>>, files |-> <<>>, value |-> <<>>]
NoLocal == [value |-> FALSE, line |-> FALSE, closing |-> FALSE, name |-> <<>>, from |-> 0, bi |-> 0,
            extra |-> <<>>]
NoPair  == [key |-> <<>>, value |-> <<>>, is_key |-> TRUE, hex |-> None]

BodyInit == /\ out = NoOut /\ first_line = TRUE /\ file = FALSE /\ caller = "form"
            /\ local = NoLocal /\ fresh = FALSE

-----------------------------------------------------------------------------
(* read_next_part: the next block when the part is used up.                   *)

Within(first, last) == SubSeq(buff, data.ptr + first + 1, data.ptr + last)
Used_up == index < data.left /\ index >= data.part
Clamped == [data EXCEPT !.part = Min({data.part, data.left})]

\* Mutant: what the block brings after the body is taken for body.
NextPartWhole ==
  \/ \E b \in Blocks :
       /\ Arrives(b)
       /\ IF Len(b) > data.size THEN stage' = "threw" /\ UNCHANGED <<index, data>>
          ELSE /\ data' = [data EXCEPT !.left = @ - index, !.part = Len(b), !.ptr = 0]
               /\ index' = 0 /\ UNCHANGED stage
  \/ Closed /\ data' = [data EXCEPT !.part = 0] /\ stage' = "ended" /\ UNCHANGED <<read_vars, index>>
  \/ stage' = "threw" /\ UNCHANGED <<read_vars, index, data>>

Next_part ==
  \/ \E b \in Blocks :
       /\ Arrives(b)
       /\ IF Len(b) > data.size THEN stage' = "threw" /\ UNCHANGED <<index, data>>
          ELSE /\ data' = [data EXCEPT !.left = @ - index, !.part = Min({Len(b), data.left - index}), !.ptr = 0]
               /\ index' = 0 /\ UNCHANGED stage
  \/ Closed /\ data' = [data EXCEPT !.part = 0] /\ stage' = "ended" /\ UNCHANGED <<read_vars, index>>
  \/ stage' = "threw" /\ UNCHANGED <<read_vars, index, data>>

\* A part longer than the buffer is read beyond it.
Beyond == data.ptr + Clamped.part > Len(buff)
Begin(s) == /\ data' = Clamped
            /\ stage' = IF Beyond THEN "undefined" ELSE s
            /\ UNCHANGED <<read_vars, head, index>>

-----------------------------------------------------------------------------
(* text(), json() and _read_body: part by part, each from where it begins.    *)

Text == /\ stage = "text called"
        /\ IF Length \in {0, None} \/ data.size > MaxPlain THEN Ends("threw") ELSE Begin("text")
        /\ UNCHANGED body_vars
Text_block == stage = "text" /\ Used_up /\ Next_part /\ UNCHANGED <<head, body_vars>>
Text_part ==
  /\ stage = "text" /\ index < data.part
  /\ out' = [out EXCEPT !.text = @ \o Within(0, data.part - index)]
  /\ index' = data.part
  /\ UNCHANGED <<read_vars, head, data, stage, first_line, file, caller, local, fresh>>

\* The string was made as long as the body: what did not come is zero.
Zeros(n) == [k \in 1..n |-> "\\0"]
Text_end ==
  /\ caller = "text" /\ (stage = "ended" \/ (stage = "text" /\ index >= data.left))
  /\ out' = [out EXCEPT !.text = @ \o Zeros(data.size - Len(@))]
  /\ stage' = "read"
  /\ UNCHANGED <<read_vars, head, index, data, first_line, file, caller, local, fresh>>

-----------------------------------------------------------------------------
(* form() of application/x-www-form-urlencoded.                               *)

Put(params, key, value) == IF key \in DOMAIN params THEN params ELSE (key :> value) @@ params
Into(l, c) == IF l.is_key THEN [l EXCEPT !.key = Append(@, c)] ELSE [l EXCEPT !.value = Append(@, c)]

\* An escape of a byte above 127 is kept as it was written: not told apart.
PairByte(z, c) ==
  LET l == z.local
      With(m) == [z EXCEPT !.local = m]
  IN CASE l.hex # None -> IF l.hex = <<>> THEN With([l EXCEPT !.hex = <<c>>])
                          ELSE With(Into([l EXCEPT !.hex = None], Hex(Append(l.hex, c))))
       [] l.hex = None /\ c = "%" -> With([l EXCEPT !.hex = <<>>])
       [] l.hex = None /\ c = "=" -> With([l EXCEPT !.is_key = FALSE])
       [] l.hex = None /\ c = "&" -> [local |-> NoPair, params |-> Put(z.params, l.key, l.value)]
       [] l.hex = None /\ c = "+" -> With(Into(l, " "))
       [] OTHER -> With(Into(l, c))

\* The state of a pair is kept from part to part.
PairBytes(l, params, bytes) == FoldLeft(PairByte, [local |-> l, params |-> params], bytes)

Pairs_block == stage = "pairs" /\ Used_up /\ Next_part /\ UNCHANGED <<head, body_vars>>
Pairs_part ==
  /\ stage = "pairs" /\ index < data.part
  /\ LET z == PairBytes(local, out.params, Within(index, data.part))
     IN local' = z.local /\ out' = [out EXCEPT !.params = z.params]
  /\ index' = data.part
  /\ UNCHANGED <<read_vars, head, data, stage, first_line, file, caller, fresh>>
Pairs_end ==
  /\ caller = "pairs" /\ (stage = "ended" \/ (stage = "pairs" /\ index >= data.left))
  /\ out' = IF local.key = <<>> /\ local.value = <<>> THEN out
            ELSE [out EXCEPT !.params = Put(@, local.key, local.value)]
  /\ stage' = "read"
  /\ UNCHANGED <<read_vars, head, index, data, first_line, file, caller, local, fresh>>

-----------------------------------------------------------------------------
(* multipart_read_param: one param, its head and its value, up to the two     *)
(* bytes after the boundary that follows it; of a file only the head.         *)

body_boundary == <<"\r", "\n", "-", "-">> \o Boundary

Param_begin ==
  /\ stage = "param called"
  /\ local' = [NoLocal EXCEPT !.value = file, !.from = index, !.bi = IF first_line THEN 2 ELSE 0]
  /\ first_line' = FALSE /\ fresh' = FALSE
  /\ Begin("param") /\ UNCHANGED <<out, file, caller>>

\* send_line: to the value of the param, or to the file.
Sent(o, bytes) == IF caller = "form" THEN [o EXCEPT !.params[o.value] = @ \o bytes]
                  ELSE [o EXCEPT !.files[Len(o.files)].content = @ \o bytes]

\* buff_extra has four blocks, or ExtraMin bytes; what is copied behind it is
\* not checked, and the model goes no further.
Extra_size == Max({ExtraMin, 4 * Len(buff)})
Outgrows(bytes) == Len(bytes) > Extra_size

\* Mutant: of the bytes that are kept, those of the part before are forgotten.
ParamBlockForgets ==
  /\ stage = "param" /\ Used_up /\ Next_part
  /\ out' = IF file /\ local.name = <<>> /\ local.bi = 0 THEN Sent(out, local.extra \o Within(local.from, index)) ELSE out
  /\ local' = [local EXCEPT !.from = 0, !.extra = IF out' # out THEN <<>> ELSE Within(local.from, index)]
  /\ UNCHANGED <<head, first_line, file, caller, fresh>>

\* At the end of a part what is not known to be the file's is kept.
Kept == local.extra \o Within(local.from, index)
Param_block ==
  /\ stage = "param" /\ Used_up
  /\ IF file /\ local.name = <<>> /\ local.bi = 0
     THEN Next_part /\ out' = Sent(out, Kept) /\ local' = [local EXCEPT !.from = 0, !.extra = <<>>]
     ELSE ~Outgrows(Kept) /\ Next_part /\ out' = out /\ local' = [local EXCEPT !.from = 0, !.extra = Kept]
  /\ UNCHANGED <<head, first_line, file, caller, fresh>>

Goes_on(l, n) == /\ local' = l /\ index' = n /\ UNCHANGED <<read_vars, head, data, stage, first_line, caller>>
Returns == /\ stage' = "param read" /\ UNCHANGED <<read_vars, head, index, data, first_line, caller, local>>
In_param == stage = "param" /\ index < data.part

\* Two bytes after the boundary the value is complete, or the head begins.
Param_boundary ==
  /\ In_param /\ local.closing
  /\ IF local.bi > 0 THEN Goes_on([local EXCEPT !.bi = @ - 1], index + 1) /\ UNCHANGED <<out, file, fresh>>
     ELSE IF local.value
     THEN /\ local.extra = <<>> \/ ~Outgrows(Kept)
          /\ out' = Sent(out, SubSeq(Kept, 1, Len(Kept) - Len(body_boundary) - 2)) /\ Returns /\ UNCHANGED <<file, fresh>>
     ELSE /\ Goes_on([local EXCEPT !.closing = FALSE, !.from = index, !.extra = <<>>],
                     IF data.size - 2 = index THEN index + 3 ELSE index + 1)
          /\ UNCHANGED <<out, file, fresh>>

\* The line that ends before the bytes at hand: some of its last two may have
\* been in the last part.
Line_size == index + Len(local.extra) - local.from - 2
Line ==
  LET before == Cardinality({k \in {1, 2} : index < k})
  IN SubSeq(local.extra, 1, Len(local.extra) - before) \o Within(local.from, index + before - 2)

Param_line ==
  /\ In_param /\ ~local.closing /\ local.line
  /\ LET next == [local EXCEPT !.line = FALSE, !.from = index, !.extra = <<>>]
         said == Disposition[Line]
     IN CASE Line_size < 0 -> Ends("threw") /\ UNCHANGED body_vars
          [] Line_size >= 0 /\ local.name # <<>> /\ Line_size = 0 /\ ~local.value ->
               IF file THEN Returns /\ UNCHANGED <<out, file, fresh>>
               ELSE Goes_on([next EXCEPT !.value = TRUE], index) /\ UNCHANGED <<out, file, fresh>>
          [] OTHER ->
               IF Line \notin DOMAIN Disposition THEN Goes_on(next, index) /\ UNCHANGED <<out, file, fresh>>
               ELSE IF said.file
               THEN /\ file' = TRUE /\ Goes_on([next EXCEPT !.name = said.name], index)
                    /\ out' = [out EXCEPT !.files = Append(@, [name |-> said.name, content |-> <<>>])]
                    /\ UNCHANGED fresh
               ELSE IF caller # "form" THEN Ends("threw") /\ UNCHANGED body_vars
               ELSE /\ Goes_on([next EXCEPT !.name = said.name], index)
                    /\ out' = [out EXCEPT !.params = Put(@, said.name, <<>>), !.value = said.name]
                    /\ fresh' = TRUE /\ UNCHANGED file

\* The boundary goes on, is complete, or breaks off; then in a head the line
\* before it is complete, and the bytes after it are read once more.
Back(l) ==
  LET again == l.bi - 2
      back  == Min({index, again})
  IN [local |-> [l EXCEPT !.bi = 0, !.line = TRUE, !.extra = @ \o SubSeq(body_boundary, 3, 2 + again - back)],
      index |-> index - back]

Param_byte ==
  /\ In_param /\ ~local.closing /\ ~local.line
  /\ CASE Within(index, index + 1) = <<body_boundary[local.bi + 1]>> ->
            IF local.bi + 1 = Len(body_boundary)
            THEN /\ Goes_on([local EXCEPT !.bi = 2, !.closing = TRUE], index + 1)
                 /\ file' = FALSE /\ UNCHANGED <<out, fresh>>
            ELSE Goes_on([local EXCEPT !.bi = @ + 1], index + 1) /\ UNCHANGED <<out, file, fresh>>
       [] OTHER ->
            /\ IF local.bi = 0 THEN Goes_on(local, index + 1)
               ELSE IF local.bi >= 2 /\ ~local.value
               THEN ~Outgrows(Back(local).local.extra) /\ Goes_on(Back(local).local, Back(local).index)
               ELSE Goes_on([local EXCEPT !.bi = 0], index)
            /\ UNCHANGED <<out, file, fresh>>

\* What is copied at the end of a part, before the value is sent, or when a
\* boundary breaks off is longer than what is left of buff_extra.
Param_overflow ==
  /\ \/ stage = "param" /\ Used_up /\ Outgrows(Kept) /\ ~(file /\ local.name = <<>> /\ local.bi = 0)
     \/ In_param /\ local.closing /\ local.bi = 0 /\ local.value /\ local.extra # <<>> /\ Outgrows(Kept)
     \/ /\ In_param /\ ~local.closing /\ ~local.line /\ local.bi >= 2 /\ ~local.value
        /\ Within(index, index + 1) # <<body_boundary[local.bi + 1]>> /\ Outgrows(Back(local).local.extra)
  /\ Ends("overflow") /\ UNCHANGED body_vars

Param_end ==
  /\ caller \in {"form", "file", "next file"}
  /\ stage = "ended" \/ (stage = "param" /\ index >= data.left)
  /\ stage' = "param read"
  /\ UNCHANGED <<read_vars, head, index, data, body_vars>>

\* form() reads params until there is none or a file; set_file reads the file
\* and the head of the next part.
Param_read ==
  /\ stage = "param read"
  /\ CASE caller = "form" /\ fresh -> stage' = "param called" /\ UNCHANGED <<file, caller>>
       [] caller = "file" -> stage' = "param called" /\ caller' = "next file" /\ file' = FALSE
       [] OTHER -> IF file THEN stage' = "param called" /\ caller' = "file" /\ UNCHANGED file
                   ELSE stage' = "read" /\ UNCHANGED <<file, caller>>
  /\ UNCHANGED <<read_vars, head, index, data, out, first_line, local, fresh>>

\* The reader that the handler calls; no body is no text and no form.
Read_body(how) ==
  /\ stage = "request"
  /\ IF Length \in {0, None} THEN stage' = "threw" /\ UNCHANGED <<data, caller, local>>
     ELSE CASE how = "text"  -> stage' = "text called" /\ caller' = "text" /\ UNCHANGED <<data, local>>
            [] how = "form"  -> stage' = "param called" /\ UNCHANGED <<data, caller, local>>
            [] how = "pairs" -> /\ stage' = IF Beyond THEN "undefined" ELSE "pairs"
                                /\ caller' = "pairs" /\ data' = Clamped /\ local' = NoPair
  /\ UNCHANGED <<read_vars, head, index, out, first_line, file, fresh>>

BodyNext == \/ Text \/ Text_block \/ Text_part \/ Text_end
            \/ Pairs_block \/ Pairs_part \/ Pairs_end
            \/ Param_begin \/ Param_block \/ Param_boundary \/ Param_line \/ Param_byte \/ Param_overflow
            \/ Param_end \/ Param_read
=============================================================================
