-------------------------- MODULE HttpExchangeProofs --------------------------
(***************************************************************************)
(* What is proved of HttpExchange.                                         *)
(*                                                                         *)
(* BodyIsReadAsOne, by the invariant BodyInv.  After one read the buffer   *)
(* begins with the first bytes of the client (HeadRead), so what is found  *)
(* behind the head is the beginning of the body (BodyFound, FirstPart).    *)
(* From then on the part at hand is the next of the body and the stream    *)
(* goes on after it: for text and pairs, which take parts whole (Fetched), *)
(* and for params, whose reader stands within a part and goes back in it   *)
(* (Placed).  What was made of the bytes so far is what one block of them  *)
(* would give (BodyRead), since the fold of the pairs over two parts is    *)
(* the fold over both of them together (Folding).  What a reader of params *)
(* keeps came before its part, but for the beginning of a boundary that    *)
(* broke off; so buff_extra is too small only for a body that is as long   *)
(* as it, less one boundary (Room).                                        *)
(*                                                                         *)
(* AnswerIsInFull, by the invariant AnswerInv.  Layers and handlers are    *)
(* folds over calls of which each keeps the response in order              *)
(* (ResponseOK); so the plan that is made of it begins where the range     *)
(* begins and has as much left as it announces (PlanMade), and while it is *)
(* sent what was sent and what is left are together what was announced     *)
(* (PlanSent).                                                             *)
(***************************************************************************)
EXTENDS HttpExchange, SequenceTheorems, TLAPS

-----------------------------------------------------------------------------
(* Sequences.                                                              *)

LEMMA MinOfTwo ==
  ASSUME NEW a \in Int, NEW b \in Int
  PROVE  Min({a, b}) = IF a <= b THEN a ELSE b
<1> DEFINE m == IF a <= b THEN a ELSE b
<1>1. m \in {a, b} /\ \A y \in {a, b} : m <= y
  OBVIOUS
<1>2. \A x \in {a, b} : (\A y \in {a, b} : x <= y) => x = m
  OBVIOUS
<1>3. (CHOOSE x \in {a, b} : \A y \in {a, b} : x <= y) = m
  <2> HIDE DEF m
  <2> QED BY <1>1, <1>2
<1> QED BY <1>3 DEF Min

LEMMA TakeIs ==
  ASSUME NEW S, NEW s \in Seq(S), NEW n \in Nat, n <= Len(s)
  PROVE  /\ SubSeq(s, 1, n) \in Seq(S) /\ Len(SubSeq(s, 1, n)) = n
         /\ \A i \in 1 .. n : SubSeq(s, 1, n)[i] = s[i]
<1>1. \A i \in 1 .. n : s[i] \in S
  BY ElementOfSeq, LenProperties
<1>2. n - 1 + 1 = n /\ (1 <= n \/ n = 0)
  OBVIOUS
<1> QED BY <1>1, <1>2, SubSeqProperties

LEMMA MidIs ==
  ASSUME NEW S, NEW s \in Seq(S), NEW m \in Nat, NEW n \in Nat, m + n <= Len(s)
  PROVE  /\ SubSeq(s, m + 1, m + n) \in Seq(S) /\ Len(SubSeq(s, m + 1, m + n)) = n
         /\ \A i \in 1 .. n : SubSeq(s, m + 1, m + n)[i] = s[m + i]
<1>1. Len(s) \in Nat /\ \A i \in m + 1 .. m + n : s[i] \in S
  BY ElementOfSeq, LenProperties
<1>2. m + n - (m + 1) + 1 = n /\ (m + 1 <= m + n \/ n = 0)
  OBVIOUS
<1>3. /\ SubSeq(s, m + 1, m + n) \in Seq(S)
      /\ Len(SubSeq(s, m + 1, m + n)) = n
      /\ \A i \in 1 .. n : SubSeq(s, m + 1, m + n)[i] = s[m + 1 + i - 1]
  BY <1>1, <1>2, SubSeqProperties
<1>4. \A i \in 1 .. n : m + 1 + i - 1 = m + i
  OBVIOUS
<1> QED BY <1>3, <1>4

LEMMA DropIs ==
  ASSUME NEW S, NEW s \in Seq(S), NEW m \in Nat, m <= Len(s)
  PROVE  /\ SubSeq(s, m + 1, Len(s)) \in Seq(S) /\ Len(SubSeq(s, m + 1, Len(s))) = Len(s) - m
         /\ \A i \in 1 .. Len(s) - m : SubSeq(s, m + 1, Len(s))[i] = s[m + i]
<1> DEFINE n == Len(s) - m
<1>1. n \in Nat /\ m + n = Len(s)
  BY LenProperties
<1> HIDE DEF n
<1>2. /\ SubSeq(s, m + 1, m + n) \in Seq(S) /\ Len(SubSeq(s, m + 1, m + n)) = n
      /\ \A i \in 1 .. n : SubSeq(s, m + 1, m + n)[i] = s[m + i]
  BY <1>1, MidIs
<1> QED BY <1>1, <1>2 DEF n

LEMMA DropMore ==
  ASSUME NEW S, NEW s \in Seq(S), NEW m \in Nat, NEW n \in Nat, m + n <= Len(s),
         NEW t, t = SubSeq(s, m + 1, Len(s))
  PROVE  SubSeq(t, n + 1, Len(t)) = SubSeq(s, m + n + 1, Len(s))
<1>1. Len(s) \in Nat /\ m <= Len(s) /\ m + n \in Nat
  BY LenProperties
<1>2. t \in Seq(S) /\ Len(t) = Len(s) - m /\ \A i \in 1 .. Len(s) - m : t[i] = s[m + i]
  BY <1>1, DropIs
<1>3. n <= Len(t)
  BY <1>1, <1>2
<1>4. /\ SubSeq(t, n + 1, Len(t)) \in Seq(S) /\ Len(SubSeq(t, n + 1, Len(t))) = Len(t) - n
      /\ \A i \in 1 .. Len(t) - n : SubSeq(t, n + 1, Len(t))[i] = t[n + i]
  <2>1. t \in Seq(S)
    BY <1>2
  <2> QED BY <1>3, <2>1, DropIs
<1>5. /\ SubSeq(s, m + n + 1, Len(s)) \in Seq(S) /\ Len(SubSeq(s, m + n + 1, Len(s))) = Len(s) - (m + n)
      /\ \A i \in 1 .. Len(s) - (m + n) : SubSeq(s, m + n + 1, Len(s))[i] = s[m + n + i]
  BY <1>1, DropIs
<1>6. Len(t) - n = Len(s) - (m + n) /\ \A i \in 1 .. Len(t) - n : t[n + i] = s[m + n + i]
  <2>1. \A i \in 1 .. Len(t) - n : n + i \in 1 .. Len(s) - m /\ m + (n + i) = m + n + i
    BY <1>1, <1>2
  <2> QED BY <1>1, <1>2, <2>1
<1> QED BY <1>4, <1>5, <1>6, SeqEqual

-----------------------------------------------------------------------------
(* The folds of the model.                                                 *)

HeadOK(h) == "i" \in DOMAIN h /\ h.i \in Nat
HeadAt(s, n, h) == HeadOK(h)
HeadFold == INSTANCE Folding WITH Op <- HeadByte, Keeps <- HeadAt

(* The operators of an instance have names of their own.                   *)
LEMMA HeadFoldIs ==
  ASSUME NEW h, NEW s
  PROVE  FoldLeft(HeadByte, h, s) = HeadFold!FoldLeft(HeadByte, h, s)
BY DEF HeadFold!FoldLeft, HeadFold!MapThenFoldSet, HeadFold!Max, FoldLeft, MapThenFoldSet, Max

LEMMA HeadByteOK ==
  ASSUME NEW h, NEW c, HeadOK(h)
  PROVE  HeadOK(HeadByte(h, c))
<1> DEFINE g == [h EXCEPT !.i = @ + 1]
<1>1. "i" \in DOMAIN g /\ g.i \in Nat
  BY DEF HeadOK
<1> HIDE DEF g
<1>2. HeadOK(InMethod(g, c))
  BY <1>1 DEF HeadOK, InMethod
<1>3. HeadOK(InUri(g, c))
  BY <1>1 DEF HeadOK, InUri, InPath
<1>4. HeadOK(InHttp(g, c))
  BY <1>1 DEF HeadOK, InHttp
<1>5. HeadOK(InHeaders(g, c))
  BY <1>1 DEF HeadOK, InHeaders
<1>6. \A q : HeadOK([g EXCEPT !.phase = q]) /\ HeadOK([h EXCEPT !.phase = q])
  BY <1>1 DEF HeadOK
<1>7. \/ HeadByte(h, c) \in {h, InMethod(g, c), InUri(g, c), InHttp(g, c), InHeaders(g, c)}
      \/ \E q : HeadByte(h, c) = [g EXCEPT !.phase = q] \/ HeadByte(h, c) = [h EXCEPT !.phase = q]
  BY DEF HeadByte, g
<1> QED BY <1>2, <1>3, <1>4, <1>5, <1>6, <1>7

LEMMA HeadBytesOK ==
  ASSUME NEW S, NEW s \in Seq(S), NEW h, HeadOK(h)
  PROVE  HeadOK(FoldLeft(HeadByte, h, s))
<1>1. HeadFold!Kept(s)
  BY HeadByteOK DEF HeadAt, HeadFold!Kept
<1>2. HeadAt(s, 0, h)
  BY DEF HeadAt
<1>3. HeadAt(s, Len(s), HeadFold!FoldLeft(HeadByte, h, s))
  BY <1>1, <1>2, HeadFold!FoldKeeps
<1> QED BY <1>3, HeadFoldIs DEF HeadAt

PairAt(s, n, z) == z = [local |-> z.local, params |-> z.params]
PairFold == INSTANCE Folding WITH Op <- PairByte, Keeps <- PairAt

LEMMA PairFoldIs ==
  ASSUME NEW z, NEW s
  PROVE  FoldLeft(PairByte, z, s) = PairFold!FoldLeft(PairByte, z, s)
BY DEF PairFold!FoldLeft, PairFold!MapThenFoldSet, PairFold!Max, FoldLeft, MapThenFoldSet, Max

LEMMA PairByteOK ==
  ASSUME NEW z, NEW c, z = [local |-> z.local, params |-> z.params]
  PROVE  PairByte(z, c) = [local |-> PairByte(z, c).local, params |-> PairByte(z, c).params]
<1>1. \A m : [z EXCEPT !.local = m] = [local |-> m, params |-> z.params]
  OBVIOUS
<1>2. \E m, p : PairByte(z, c) = [local |-> m, params |-> p]
  BY <1>1, Zenon DEF PairByte
<1> QED BY <1>2

(* The pairs of some bytes and then of others are the pairs of all.        *)
LEMMA PairsOfBoth ==
  ASSUME NEW S, NEW s \in Seq(S), NEW t \in Seq(S), NEW l, NEW params
  PROVE  LET z == PairBytes(l, params, s) IN PairBytes(z.local, z.params, t) = PairBytes(l, params, s \o t)
<1> DEFINE base == [local |-> l, params |-> params]
           z == FoldLeft(PairByte, base, s)
<1>1. PairFold!Kept(s)
  BY PairByteOK DEF PairAt, PairFold!Kept
<1>2. PairAt(s, 0, base)
  BY DEF PairAt
<1>3. PairAt(s, Len(s), z)
  <2>1. PairAt(s, Len(s), PairFold!FoldLeft(PairByte, base, s))
    BY <1>1, <1>2, PairFold!FoldKeeps
  <2> QED BY <2>1, PairFoldIs
<1>4. FoldLeft(PairByte, base, s \o t) = FoldLeft(PairByte, z, t)
  <2>1. PairFold!FoldLeft(PairByte, base, s \o t) = PairFold!FoldLeft(PairByte, PairFold!FoldLeft(PairByte, base, s), t)
    BY PairFold!FoldConcat
  <2> QED BY <2>1, PairFoldIs
<1>5. z = [local |-> z.local, params |-> z.params]
  BY <1>3 DEF PairAt
<1> HIDE DEF base
<1>6. PairBytes(l, params, s) = z /\ PairBytes(l, params, s \o t) = FoldLeft(PairByte, base, s \o t)
  BY DEF PairBytes, base
<1>7. PairBytes(z.local, z.params, t) = FoldLeft(PairByte, z, t)
  <2> HIDE DEF z
  <2> QED BY <1>5 DEF PairBytes
<1> QED BY <1>4, <1>6, <1>7

LEMMA PairsOfNone ==
  ASSUME NEW l, NEW params
  PROVE  LET z == PairBytes(l, params, <<>>) IN z.local = l /\ z.params = params
<1> DEFINE base == [local |-> l, params |-> params]
<1>1. PairFold!FoldLeft(PairByte, base, <<>>) = base
  BY PairFold!FoldEmpty
<1>2. FoldLeft(PairByte, base, <<>>) = base
  BY <1>1, PairFoldIs
<1> QED BY <1>2 DEF PairBytes

-----------------------------------------------------------------------------
(* What is known of the bytes, the block buffer and the parser at any time.   *)
Bytes   == Range(exchange.bytes)
Numbers == [size : Nat, left : Nat, part : Nat, ptr : Nat]

ReadOK ==
  /\ exchange \in Exchanges
  /\ stream \in Seq(Bytes)
  /\ buff \in Seq(Bytes \cup {"?"}) /\ Len(buff) = exchange.block
  /\ got \in Nat /\ reads \in Nat
  /\ HeadOK(head)
  /\ whole \in BOOLEAN

(* Until the body is looked for nothing of it was read; after one read the    *)
(* buffer begins with the first bytes, and the others are still to come.      *)
InHead == stage \in {"accepted", "head", "more", "parsed"}
FirstRead ==
  /\ data.size = got /\ got <= Len(buff) /\ got <= Len(exchange.bytes)
  /\ \A k \in 1 .. got : buff[k] = exchange.bytes[k]
  /\ stream = SubSeq(exchange.bytes, got + 1, Len(exchange.bytes))
HeadRead ==
  InHead =>
    /\ ~whole /\ out = NoOut /\ caller = "form" /\ "size" \in DOMAIN data
    /\ stage = "accepted" => reads = 0 /\ stream = exchange.bytes
    /\ stage # "accepted" /\ reads = 0 => stream = <<>>
    /\ stage # "accepted" /\ reads = 1 => FirstRead

(* The part that is found in the buffer is the beginning of the body.         *)
FirstPart ==
  /\ data \in Numbers /\ data.left = data.size /\ index = 0
  /\ data.ptr + data.part <= Len(buff) /\ data.part <= Len(Rest)
  /\ \A k \in 1 .. data.part : buff[data.ptr + k] = Rest[k]
  /\ stream = SubSeq(Rest, data.part + 1, Len(Rest))
BodyFound ==
  stage \in {"request", "text called"} =>
    /\ out = NoOut /\ caller = (IF stage = "request" THEN "form" ELSE "text")
    /\ whole /\ Length # 0 => FirstPart

(* The part at hand follows what was consumed, and the stream follows it.     *)
Consumed == data.size - (data.left - index)
Ahead    == data.part - index
Fetched ==
  /\ data \in Numbers /\ index \in {0, data.part}
  /\ data.part <= data.left /\ data.left <= data.size
  /\ data.ptr + data.part <= Len(buff) /\ Consumed + Ahead <= Len(Rest)
  /\ \A k \in 1 .. Ahead : buff[data.ptr + index + k] = Rest[Consumed + k]
  /\ data.part < data.left => stream = SubSeq(Rest, Consumed + Ahead + 1, Len(Rest))

TextIs(bytes)  == out = [NoOut EXCEPT !.text = bytes]
PairsAre(bytes) ==
  LET z == PairBytes(NoPair, <<>>, bytes) IN local = z.local /\ out = [NoOut EXCEPT !.params = z.params]

BodyRead ==
  /\ stage \in {"text", "pairs"} => caller = stage
  /\ whole /\ stage = "text"  => Fetched /\ TextIs(SubSeq(Rest, 1, Consumed))
  /\ whole /\ stage = "pairs" => Fetched /\ PairsAre(SubSeq(Rest, 1, Consumed))
  /\ whole /\ stage = "ended" /\ caller = "text"  => data.size \in Nat /\ TextIs(Came)
  /\ whole /\ stage = "ended" /\ caller = "pairs" => data.size \in Nat /\ PairsAre(Came)
  /\ stage \in {"param called", "param", "param read"} => caller \notin {"text", "pairs"}

(* A reader of params stands anywhere in the part at hand, or behind the      *)
(* body; when the client has closed, a part may be gone of which it took some.*)
Base   == data.size - data.left
Placed ==
  /\ data \in Numbers /\ index \in Nat
  /\ data.part <= data.left /\ data.left <= data.size
  /\ data.ptr + data.part <= Len(buff) /\ Base + data.part <= Len(Rest)
  /\ \A k \in 1 .. data.part : buff[data.ptr + k] = Rest[Base + k]
  /\ \/ stream = <<>> /\ data.part = 0
     \/ /\ index <= data.part \/ index >= data.left
        /\ data.part < data.left => stream = SubSeq(Rest, Base + data.part + 1, Len(Rest))

LocalOK == "bi" \in DOMAIN local /\ local.bi \in Nat
ParamRead ==
  whole =>
    /\ stage = "param called" => Placed \/ FirstPart
    /\ stage = "param" => Placed /\ LocalOK
    /\ stage = "param read" => Placed
    /\ stage = "ended" /\ caller \notin {"text", "pairs"} => Placed

(* What is kept came before the part at hand, but for the beginning of a      *)
(* boundary that was put to it when the boundary broke off.                   *)
IsSeq(s) == s \in Seq(Range(s))
LocalFields == {"from", "bi", "extra", "line", "closing"}
LocalIs(l) == LocalFields \subseteq DOMAIN l /\ IsSeq(l.extra) /\ l.line \in BOOLEAN /\ l.closing \in BOOLEAN
LocalAt(l, n) ==
  /\ LocalIs(l)
  /\ l.from \in Nat /\ l.bi \in Nat /\ l.bi < Len(body_boundary)
  /\ l.line = TRUE => l.closing = FALSE /\ n < data.part
  /\ l.line = FALSE => Len(l.extra) <= Base
  /\ l.line = TRUE => Len(l.extra) <= Base + Len(body_boundary)
TooLong == data.size + Len(body_boundary) > Extra_size
Room ==
  whole => /\ stage = "param" => LocalAt(local, index)
           /\ stage = "overflow" => TooLong

(* What BodyAsOne says but for the place of the reader, which follows.        *)
Defined  == whole => stage # "undefined"
OutAsOne ==
  whole /\ stage = "read" =>
    /\ caller = "text"  => out.text = Came \o Zeros(data.size - Len(Came))
    /\ caller = "pairs" => out.params = PairsOf(Came)

BodyInv == ReadOK /\ HeadRead /\ BodyFound /\ BodyRead /\ ParamRead /\ Room /\ Defined /\ OutAsOne

-----------------------------------------------------------------------------
(* A read.                                                                   *)

LEMMA ExchangeIs ==
  ASSUME exchange \in Exchanges
  PROVE  /\ exchange.bytes \in Seq(Bytes) /\ exchange.block \in Nat /\ exchange.block + 1 < Width
         /\ exchange.reader \in {"none", "text", "form", "pairs"}
BY ExchangesAssumption DEF Bytes

LEMMA ArrivesGives ==
  ASSUME ReadOK, NEW b \in Blocks, Arrives(b)
  PROVE  /\ Len(b) \in Nat /\ Len(b) > 0 /\ Len(b) <= Len(buff) /\ Len(b) <= Len(stream)
         /\ stream' = SubSeq(stream, Len(b) + 1, Len(stream)) /\ stream' \in Seq(Bytes)
         /\ buff' \in Seq(Bytes \cup {"?"}) /\ Len(buff') = Len(buff)
         /\ \A k \in 1 .. Len(b) : buff'[k] = stream[k]
         /\ got' = Len(b) /\ reads' = reads + 1
<1>1. /\ stream \in Seq(Bytes) /\ buff \in Seq(Bytes \cup {"?"}) /\ Len(stream) \in Nat /\ Len(buff) \in Nat
      /\ DOMAIN buff = 1 .. Len(buff) /\ \A k \in 1 .. Len(buff) : buff[k] \in Bytes \cup {"?"}
      /\ \A k \in 1 .. Len(stream) : stream[k] \in Bytes
  BY LenProperties, ElementOfSeq DEF ReadOK
<1>2. PICK n \in 1 .. Min({Len(buff), Len(stream)}) : b = SubSeq(stream, 1, n)
  BY DEF Blocks
<1>3. n \in Nat /\ n > 0 /\ n <= Len(buff) /\ n <= Len(stream)
  <2>1. Min({Len(buff), Len(stream)}) = IF Len(buff) <= Len(stream) THEN Len(buff) ELSE Len(stream)
    BY <1>1, MinOfTwo
  <2> QED BY <1>1, <2>1
<1>4. Len(b) = n /\ \A k \in 1 .. n : b[k] = stream[k]
  BY <1>1, <1>2, <1>3, TakeIs
<1>5. stream' = SubSeq(stream, n + 1, Len(stream)) /\ stream' \in Seq(Bytes)
  <2>1. stream' = SubSeq(stream, n + 1, Len(stream))
    BY <1>4 DEF Arrives
  <2> QED BY <1>1, <1>3, <2>1, DropIs
<1>6. buff' = [k \in 1 .. Len(buff) |-> IF k <= n THEN b[k] ELSE buff[k]]
  BY <1>1, <1>4 DEF Arrives
<1>7. \A k \in 1 .. Len(buff) : (IF k <= n THEN b[k] ELSE buff[k]) \in Bytes \cup {"?"}
  <2>1. \A k \in 1 .. Len(buff) : k <= n => k \in 1 .. n /\ k \in 1 .. Len(stream)
    BY <1>1, <1>3
  <2> QED BY <1>1, <1>4, <2>1
<1>8. buff' \in Seq(Bytes \cup {"?"}) /\ Len(buff') = Len(buff)
  <2> DEFINE f == [k \in 1 .. Len(buff) |-> IF k <= n THEN b[k] ELSE buff[k]]
  <2>1. f \in [1 .. Len(buff) -> Bytes \cup {"?"}]
    BY <1>7
  <2> HIDE DEF f
  <2>2. f \in Seq(Bytes \cup {"?"})
    BY <1>1, <2>1, SeqDef
  <2>3. Len(f) = Len(buff)
    BY <1>1, <2>1, <2>2, LenProperties
  <2> QED BY <1>6, <2>2, <2>3 DEF f
<1>9. \A k \in 1 .. n : buff'[k] = stream[k]
  BY <1>1, <1>3, <1>4, <1>6
<1>10. got' = n /\ reads' = reads + 1
  BY <1>4 DEF Arrives
<1> QED BY <1>3, <1>4, <1>5, <1>8, <1>9, <1>10

LEMMA NothingToRead ==
  ASSUME ReadOK, stream = <<>>
  PROVE  Blocks = {}
<1> SUFFICES ASSUME NEW b \in Blocks PROVE FALSE
  OBVIOUS
<1>1. Len(stream) = 0 /\ Len(buff) \in Nat
  BY LenProperties DEF ReadOK
<1>2. Min({Len(buff), Len(stream)}) = 0
  BY <1>1, MinOfTwo
<1>3. 1 .. 0 = {}
  OBVIOUS
<1> QED BY <1>2, <1>3 DEF Blocks

-----------------------------------------------------------------------------
(* The steps that touch the bytes.                                           *)

LEMMA FoldHeadOK ==
  ASSUME ReadOK
  PROVE  HeadOK(FoldLeft(HeadByte, head, SubSeq(buff, head.i + 1, Len(buff))))
<1>1. /\ HeadOK(head) /\ head.i \in Nat /\ Len(buff) \in Nat
      /\ buff \in Seq(Bytes \cup {"?"})
  BY LenProperties DEF ReadOK, HeadOK
<1>2. SubSeq(buff, head.i + 1, Len(buff)) \in Seq(Bytes \cup {"?"})
  <2>1. CASE head.i <= Len(buff)
    BY <1>1, <2>1, DropIs
  <2>2. CASE ~ (head.i <= Len(buff))
    <3>1. SubSeq(buff, head.i + 1, Len(buff)) = <<>>
      BY <1>1, <2>2, SubSeqEmpty
    <3>2. \A T : <<>> \in Seq(T)
      OBVIOUS
    <3> QED BY <3>1, <3>2
  <2> QED BY <2>1, <2>2
<1> QED BY <1>1, <1>2, HeadBytesOK

(* What a step does with the bytes: nothing, or it reads one block.           *)
Still == UNCHANGED <<stream, buff, got, reads>>
Reading == Still \/ \E b \in Blocks : Arrives(b)

LEMMA ReadKept ==
  ASSUME ReadOK, Reading, HeadOK(head'), whole' \in BOOLEAN, UNCHANGED exchange
  PROVE  ReadOK'
<1>1. CASE Still
  BY <1>1 DEF ReadOK, Still, Bytes
<1>2. ASSUME NEW b \in Blocks, Arrives(b)
      PROVE  ReadOK'
  <2>1. stream' \in Seq(Bytes) /\ buff' \in Seq(Bytes \cup {"?"}) /\ Len(buff') = Len(buff)
        /\ got' \in Nat /\ reads' = reads + 1
    BY <1>2, ArrivesGives
  <2> QED BY <2>1 DEF ReadOK, Bytes
<1> QED BY <1>1, <1>2 DEF Reading

LEMMA ReceiveReading ==
  ASSUME ReadOK, Receive
  PROVE  Reading /\ HeadOK(head') /\ whole' \in BOOLEAN /\ UNCHANGED exchange
<1>1. whole' \in BOOLEAN /\ UNCHANGED exchange
  BY DEF Receive, ReadOK
<1>2. ReadOK /\ HeadOK(head)
  BY DEF ReadOK
<1>3. CASE Accept
  BY <1>1, <1>2, <1>3 DEF Accept, Reading, Still, Ends, read_vars
<1>4. CASE ParseHead
  <2>1. HeadOK(head')
    BY <1>4, FoldHeadOK DEF ParseHead
  <2> QED BY <1>1, <1>4, <2>1 DEF ParseHead, Reading, Still, read_vars
<1>5. CASE MoreHead
  <2>1. \A h, x : HeadOK(h) => HeadOK([h EXCEPT !.i = 0, !.limit = x])
    BY DEF HeadOK
  <2>2. head' = head \/ \E x : head' = [head EXCEPT !.i = 0, !.limit = x]
    BY <1>5 DEF MoreHead, Ends
  <2>3. HeadOK(head')
    BY <1>2, <2>1, <2>2
  <2> QED BY <1>1, <1>5, <2>3 DEF MoreHead, Reading, Still, Ends, read_vars
<1>6. CASE StartBody
  BY <1>1, <1>2, <1>6 DEF StartBody, Reading, Still, read_vars
<1> QED BY <1>1, <1>3, <1>4, <1>5, <1>6 DEF Receive, RequestNext

(* The steps of the readers, one by one.                                      *)
LEMMA BodyReading ==
  ASSUME Read_body(exchange.reader) \/ BodyNext, exchange.reader \in {"text", "form", "pairs"}
  PROVE  Reading /\ UNCHANGED head
<1> USE DEF Reading, Still, read_vars
<1>1. CASE Read_body(exchange.reader)
  BY <1>1 DEF Read_body
<1>2. Next_part => Reading
  BY DEF Next_part
<1>3. CASE Text \/ Text_block \/ Text_part \/ Text_end
  BY <1>2, <1>3 DEF Text, Text_block, Text_part, Text_end, Begin, Ends
<1>4. CASE Pairs_block \/ Pairs_part \/ Pairs_end
  BY <1>2, <1>4 DEF Pairs_block, Pairs_part, Pairs_end
<1>5. \A l, n : Goes_on(l, n) => Still /\ UNCHANGED head
  BY DEF Goes_on
<1>6. Returns => Still /\ UNCHANGED head
  BY DEF Returns
<1>7. CASE Param_begin \/ Param_block \/ Param_end \/ Param_read
  BY <1>2, <1>7 DEF Param_begin, Param_block, Param_end, Param_read, Begin
<1>8. CASE Param_boundary
  <2> HIDE DEF Reading, Still
  <2>1. (\E l, n : Goes_on(l, n)) \/ Returns
    BY <1>8, Zenon DEF Param_boundary
  <2> QED BY <2>1, <1>5, <1>6 DEF Reading
<1>9. CASE Param_line
  <2> HIDE DEF Reading, Still
  <2>1. (\E l, n : Goes_on(l, n)) \/ Returns \/ \E s : Ends(s)
    BY <1>9, Zenon DEF Param_line
  <2>2. \A s : Ends(s) => Still /\ UNCHANGED head
    BY DEF Ends, Still
  <2> QED BY <2>1, <2>2, <1>5, <1>6 DEF Reading
<1>10. CASE Param_byte
  <2> HIDE DEF Reading, Still
  <2>1. \E l, n : Goes_on(l, n)
    BY <1>10, Zenon DEF Param_byte
  <2> QED BY <2>1, <1>5 DEF Reading
<1>11. CASE Param_overflow
  BY <1>11 DEF Param_overflow, Ends
<1> QED BY <1>1, <1>3, <1>4, <1>7, <1>8, <1>9, <1>10, <1>11 DEF BodyNext

(* The stages of the readers.                                                 *)
ReaderStages == {"text called", "text", "pairs", "param called", "param", "param read", "ended"}
ReaderEnds   == {"threw", "undefined", "overflow", "read"} \cup (ReaderStages \ {"text called"})

LEMMA BodyGoesOn ==
  ASSUME BodyNext
  PROVE  stage \in ReaderStages /\ stage' \in ReaderEnds
<1> DEFINE Moves == stage \in ReaderStages /\ stage' \in ReaderEnds
<1> USE DEF ReaderStages, ReaderEnds
<1>2. Next_part => stage' \in {stage, "ended", "threw"}
  BY DEF Next_part
<1>3. CASE Text \/ Text_block \/ Text_part \/ Text_end
  BY <1>2, <1>3 DEF Text, Text_block, Text_part, Text_end, Begin, Ends
<1>4. CASE Pairs_block \/ Pairs_part \/ Pairs_end
  BY <1>2, <1>4 DEF Pairs_block, Pairs_part, Pairs_end
<1>5. CASE Param_begin \/ Param_block \/ Param_end \/ Param_read
  BY <1>2, <1>5 DEF Param_begin, Param_block, Param_end, Param_read, Begin
<1>6. stage = "param" /\ (\E l, n : Goes_on(l, n)) => Moves
  BY DEF Goes_on
<1>7. stage = "param" /\ Returns => Moves
  BY DEF Returns
<1>8. \A s \in {"threw"} : stage = "param" /\ Ends(s) => Moves
  BY DEF Ends
<1> HIDE DEF Moves
<1>9. CASE Param_boundary
  <2>1. stage = "param"
    BY <1>9, Zenon DEF Param_boundary, In_param
  <2>2. (\E l, n : Goes_on(l, n)) \/ Returns
    BY <1>9, Zenon DEF Param_boundary
  <2>3. Moves
    BY <2>1, <2>2, <1>6, <1>7
  <2> QED BY <2>3 DEF Moves
<1>10. CASE Param_line
  <2>1. stage = "param"
    BY <1>10, Zenon DEF Param_line, In_param
  <2>2. (\E l, n : Goes_on(l, n)) \/ Returns \/ Ends("threw")
    BY <1>10, Zenon DEF Param_line
  <2>3. Moves
    BY <2>1, <2>2, <1>6, <1>7, <1>8
  <2> QED BY <2>3 DEF Moves
<1>11. CASE Param_byte
  <2>1. stage = "param"
    BY <1>11, Zenon DEF Param_byte, In_param
  <2>2. \E l, n : Goes_on(l, n)
    BY <1>11, Zenon DEF Param_byte
  <2>3. Moves
    BY <2>1, <2>2, <1>6
  <2> QED BY <2>3 DEF Moves
<1>12. CASE Param_overflow
  BY <1>12 DEF Param_overflow, In_param, Ends, Moves
<1> QED BY <1>3, <1>4, <1>5, <1>9, <1>10, <1>11, <1>12 DEF BodyNext

LEMMA BodyStages ==
  ASSUME Read_body(exchange.reader) \/ BodyNext, exchange.reader \in {"text", "form", "pairs"}
  PROVE  stage \in ReaderStages \cup {"request"} /\ stage' \in ReaderEnds \cup {"text called"}
<1>1. CASE Read_body(exchange.reader)
  BY <1>1 DEF Read_body, ReaderStages, ReaderEnds
<1> QED BY <1>1, BodyGoesOn

LEMMA ReaderIs ==
  ASSUME ReadOK, Read
  PROVE  exchange.reader \in {"text", "form", "pairs"} /\ (Read_body(exchange.reader) \/ BodyNext)
BY ExchangeIs DEF Read, Reads, ReadOK

LEMMA ReadStep ==
  ASSUME ReadOK, [Next]_vars
  PROVE  ReadOK'
<1>1. CASE Receive
  BY <1>1, ReceiveReading, ReadKept
<1>2. CASE Read
  <2>1. Reading /\ UNCHANGED head
    BY <1>2, ReaderIs, BodyReading
  <2> QED BY <1>2, <2>1, ReadKept DEF Read, ReadOK
<1>3. CASE Answer \/ Respond \/ UNCHANGED vars
  <2>1. Still /\ UNCHANGED <<head, exchange, whole>>
    BY <1>3 DEF Answer, Respond, vars, request_vars, read_vars, Still
  <2> QED BY <2>1, ReadKept DEF Reading, ReadOK
<1> QED BY <1>1, <1>2, <1>3 DEF Next

-----------------------------------------------------------------------------
(* Up to where the body begins.                                              *)

LEMMA HeadReadStep ==
  ASSUME ReadOK, HeadRead, [Next]_vars
  PROVE  HeadRead'
<1>1. CASE UNCHANGED <<stage, stream, buff, got, reads, data, exchange, whole, out, caller>>
  BY <1>1 DEF HeadRead, InHead, FirstRead
<1>2. CASE Receive /\ Accept /\ \E b \in Blocks : Arrives(b) /\ data' = [data EXCEPT !.size = Len(b)] /\ stage' = "head"
  <2>1. PICK b \in Blocks : Arrives(b) /\ data' = [data EXCEPT !.size = Len(b)]
    BY <1>2
  <2>2. /\ Len(b) \in Nat /\ Len(b) > 0 /\ Len(b) <= Len(buff) /\ Len(b) <= Len(stream)
        /\ stream' = SubSeq(stream, Len(b) + 1, Len(stream)) /\ Len(buff') = Len(buff)
        /\ \A k \in 1 .. Len(b) : buff'[k] = stream[k]
        /\ got' = Len(b) /\ reads' = reads + 1
    BY <2>1, ArrivesGives
  <2>3. /\ ~whole /\ out = NoOut /\ caller = "form" /\ "size" \in DOMAIN data
        /\ reads = 0 /\ stream = exchange.bytes /\ stage = "accepted"
    BY <1>2 DEF Accept, HeadRead, InHead
  <2>4. ~whole' /\ UNCHANGED <<out, caller, exchange>> /\ stage' = "head"
    BY <1>2, <2>3 DEF Receive, body_vars
  <2>5. "size" \in DOMAIN data' /\ data'.size = Len(b)
    BY <2>1, <2>3
  <2>6. FirstRead'
    BY <2>2, <2>3, <2>4, <2>5 DEF FirstRead
  <2> QED BY <2>2, <2>3, <2>4, <2>5, <2>6 DEF HeadRead
<1>3. CASE Receive /\ Accept /\ ((Closed /\ Ends("head")) \/ Ends("closed"))
  BY <1>3 DEF Receive, Accept, Closed, Ends, HeadRead, InHead, body_vars, read_vars
<1>4. CASE Receive /\ ParseHead
  BY <1>4 DEF Receive, ParseHead, HeadRead, InHead, FirstRead, body_vars, read_vars
<1>5. CASE Receive /\ MoreHead
  <2>0. /\ stage = "more" /\ ~whole /\ out = NoOut /\ caller = "form" /\ "size" \in DOMAIN data
        /\ reads = 0 => stream = <<>> 
    BY <1>5 DEF MoreHead, HeadRead, InHead
  <2>1. ~whole' /\ UNCHANGED <<out, caller, exchange>>
    BY <1>5, <2>0 DEF Receive, body_vars
  <2>2. CASE \E b \in Blocks : Arrives(b) /\ UNCHANGED data /\ stage' \in {"closed", "head"}
    <3>1. reads # 0
      BY <2>0, <2>2, NothingToRead
    <3>2. reads' = reads + 1 /\ reads \in Nat
      BY <2>2 DEF Arrives, ReadOK
    <3> QED BY <2>0, <2>1, <2>2, <3>1, <3>2 DEF HeadRead, InHead
  <2>3. CASE \E s \in {"undefined", "parsed", "closed"} : Ends(s)
    BY <1>5, <2>0, <2>1, <2>3 DEF Ends, HeadRead, InHead, FirstRead, read_vars
  <2> QED BY <1>5, <2>2, <2>3 DEF MoreHead
<1>6. CASE Receive /\ StartBody
  BY <1>6 DEF StartBody, HeadRead, InHead
<1>7. CASE Read
  <2>1. ~InHead'
    BY <1>7, ReaderIs, BodyStages DEF ReaderEnds, ReaderStages, InHead
  <2> QED BY <2>1 DEF HeadRead
<1>8. CASE Answer \/ Respond \/ UNCHANGED vars
  BY <1>1, <1>8 DEF Answer, Respond, vars, request_vars, read_vars, body_vars
<1> QED BY <1>2, <1>3, <1>4, <1>5, <1>6, <1>7, <1>8 DEF Next, Receive, RequestNext, Accept

-----------------------------------------------------------------------------
(* Where the body begins.                                                    *)

LEMMA RestIs ==
  ASSUME ReadOK
  PROVE  Rest \in Seq(Bytes) /\ Len(Rest) \in Nat
<1>1. /\ exchange.bytes \in Seq(Bytes) /\ Len(exchange.bytes) \in Nat /\ head.i \in Nat
  BY ExchangeIs, LenProperties DEF ReadOK, HeadOK
<1>2. Rest \in Seq(Bytes)
  <2>1. CASE head.i <= Len(exchange.bytes)
    BY <1>1, <2>1, DropIs DEF Rest
  <2>2. CASE ~ (head.i <= Len(exchange.bytes))
    <3>1. SubSeq(exchange.bytes, head.i + 1, Len(exchange.bytes)) = <<>>
      BY <1>1, <2>2, SubSeqEmpty
    <3>2. \A T : <<>> \in Seq(T)
      OBVIOUS
    <3> QED BY <3>1, <3>2 DEF Rest
  <2> QED BY <2>1, <2>2
<1> QED BY <1>2, LenProperties

LEMMA LengthIs == Length # None => Length \in Nat
<1>1. Width \in Nat
  BY RequestAssumption
<1>2. \A n : (IF n \in 0 .. Width - 1 THEN n ELSE None) # None => n \in 0 .. Width - 1
  OBVIOUS
<1>3. \A n \in 0 .. Width - 1 : n \in Nat
  BY <1>1
<1> QED BY <1>2, <1>3 DEF Length

LEMMA Modulo ==
  ASSUME NEW n \in Nat, n < Width
  PROVE  n % Width = n
BY RequestAssumption

LEMMA ModuloMinusOne == (-1) % Width = Width - 1
BY RequestAssumption

LEMMA StartBodyStep ==
  ASSUME ReadOK, HeadRead, Receive, StartBody, stage' = "request", whole', Length # 0
  PROVE  FirstPart'
<1>1. stage = "parsed" /\ reads = 1 /\ head.i <= got /\ data'.part <= got' /\ UNCHANGED <<head, exchange>> /\ index' = 0
  BY DEF Receive, StartBody
<1>2. FirstRead
  BY <1>1 DEF HeadRead, InHead
<1>3. Length # None /\ Length \in Nat /\ Length' = Length /\ Rest' = Rest
  <2>1. Length # None
    BY DEF StartBody
  <2> QED BY <1>1, <2>1, LengthIs DEF Length, Rest
<1>4. /\ head.i \in Nat /\ got \in Nat /\ Len(buff) \in Nat /\ Len(buff) + 1 < Width
      /\ Len(exchange.bytes) \in Nat /\ exchange.bytes \in Seq(Bytes) /\ Width \in Nat
  BY ExchangeIs, LenProperties, RequestAssumption DEF ReadOK, HeadOK
<1>5. Rest \in Seq(Bytes) /\ Len(Rest) = Len(exchange.bytes) - head.i
      /\ \A k \in 1 .. Len(exchange.bytes) - head.i : Rest[k] = exchange.bytes[head.i + k]
  <2>1. head.i <= Len(exchange.bytes)
    BY <1>1, <1>2, <1>4 DEF FirstRead
  <2> QED BY <1>4, <2>1, DropIs DEF Rest
<1>6. \A part, ptr : Body(part, ptr) => data' = [size |-> Length, left |-> Length, part |-> part % Width, ptr |-> ptr]
  BY DEF Body
<1>7. CASE head.i # data.size
  <2> DEFINE n == got - head.i
  <2>1. data.size = got /\ got <= Len(buff) /\ got <= Len(exchange.bytes) /\ n \in Nat /\ n < Width
    BY <1>1, <1>2, <1>4 DEF FirstRead
  <2>2. Body(n, head.i) /\ UNCHANGED <<stream, buff>>
    BY <1>7, <1>3, <2>1 DEF StartBody, read_vars
  <2>3. data' = [size |-> Length, left |-> Length, part |-> n, ptr |-> head.i]
    BY <1>6, <2>1, <2>2, Modulo
  <2>4. data' \in Numbers /\ data'.left = data'.size /\ data'.part = n /\ data'.ptr = head.i
    BY <1>3, <1>4, <2>1, <2>3 DEF Numbers
  <2>5. head.i + n = got /\ n <= Len(Rest)
    BY <1>4, <1>5, <2>1
  <2>6. \A k \in 1 .. n : buff[head.i + k] = Rest[k]
    <3>1. \A k \in 1 .. n : head.i + k \in 1 .. got /\ k \in 1 .. Len(exchange.bytes) - head.i
      BY <1>4, <2>1
    <3>2. \A k \in 1 .. got : buff[k] = exchange.bytes[k]
      BY <1>2 DEF FirstRead
    <3> QED BY <1>5, <3>1, <3>2
  <2>7. stream = SubSeq(Rest, n + 1, Len(Rest))
    <3>1. SubSeq(Rest, n + 1, Len(Rest)) = SubSeq(exchange.bytes, head.i + n + 1, Len(exchange.bytes))
      <4>1. head.i + n <= Len(exchange.bytes) /\ Rest = SubSeq(exchange.bytes, head.i + 1, Len(exchange.bytes))
        BY <2>1, <2>5 DEF Rest
      <4>2. n \in Nat /\ head.i \in Nat /\ exchange.bytes \in Seq(Bytes)
        BY <1>4, <2>1
      <4> HIDE DEF n
      <4> DEFINE m == head.i
                 w == exchange.bytes
                 t == Rest
      <4>3. w \in Seq(Bytes) /\ m \in Nat /\ n \in Nat /\ m + n <= Len(w) /\ t = SubSeq(w, m + 1, Len(w))
        BY <4>1, <4>2
      <4> HIDE DEF m, w, t
      <4>4. SubSeq(t, n + 1, Len(t)) = SubSeq(w, m + n + 1, Len(w))
        BY <4>3, DropMore
      <4> QED BY <4>4 DEF m, w, t
    <3> QED BY <1>2, <2>5, <3>1 DEF FirstRead
  <2> HIDE DEF n
  <2>8. Len(buff') = Len(buff) /\ data'.ptr + data'.part <= Len(buff')
    BY <2>1, <2>2, <2>4, <2>5
  <2> QED BY <1>1, <1>3, <2>2, <2>4, <2>5, <2>6, <2>7, <2>8 DEF FirstPart
<1>8. CASE head.i = data.size
  <2>1. stream = Rest
    BY <1>2, <1>8 DEF FirstRead, Rest
  <2>2. CASE \E b \in Blocks : Arrives(b) /\ Body(Len(b), 0)
    <3>1. PICK b \in Blocks : Arrives(b) /\ Body(Len(b), 0)
      BY <2>2
    <3>2. /\ Len(b) \in Nat /\ Len(b) <= Len(buff) /\ Len(b) <= Len(stream)
          /\ stream' = SubSeq(stream, Len(b) + 1, Len(stream)) /\ Len(buff') = Len(buff)
          /\ \A k \in 1 .. Len(b) : buff'[k] = stream[k]
      BY <3>1, ArrivesGives
    <3>3. data' = [size |-> Length, left |-> Length, part |-> Len(b), ptr |-> 0]
      <4>1. Len(b) < Width
        BY <1>4, <3>2
      <4> QED BY <1>6, <3>1, <3>2, <4>1, Modulo
    <3>4. data' \in Numbers /\ data'.left = data'.size /\ data'.part = Len(b) /\ data'.ptr = 0
      BY <1>3, <3>2, <3>3 DEF Numbers
    <3>5. \A k \in 1 .. Len(b) : buff'[0 + k] = Rest[k]
      <4>1. \A k \in 1 .. Len(b) : 0 + k = k
        BY <3>2
      <4> QED BY <2>1, <3>2, <4>1
    <3> QED BY <1>1, <1>3, <2>1, <3>2, <3>4, <3>5 DEF FirstPart
  <2>3. CASE Closed /\ Body(0, 0) /\ UNCHANGED read_vars
    <3>1. data' = [size |-> Length, left |-> Length, part |-> 0, ptr |-> 0]
      <4>1. 0 < Width
        BY <1>4
      <4> QED BY <1>6, <2>3, <4>1, Modulo
    <3>2. data' \in Numbers /\ data'.left = data'.size /\ data'.part = 0 /\ data'.ptr = 0
      BY <1>3, <3>1 DEF Numbers
    <3>3. UNCHANGED <<stream, buff>> /\ stream = Rest /\ SubSeq(Rest, 1, Len(Rest)) = Rest
      BY <1>5, <2>1, <2>3, SubSeqFull DEF read_vars
    <3>4. 0 + 1 = 1 /\ 1 .. 0 = {} /\ 0 + 0 <= Len(buff) /\ 0 <= Len(Rest)
      BY <1>4, <1>5, LenProperties
    <3>5. SubSeq(Rest, 0 + 1, Len(Rest)) = Rest
      BY <3>3, <3>4
    <3> QED BY <1>1, <1>3, <3>2, <3>3, <3>4, <3>5 DEF FirstPart
  <2>4. CASE Body(-1, 0) /\ UNCHANGED read_vars
    <3>1. data'.part = Width - 1 /\ got' = got
      BY <1>6, <2>4, ModuloMinusOne DEF read_vars
    <3>2. got <= Len(buff)
      BY <1>2 DEF FirstRead
    <3> QED BY <1>1, <1>4, <3>1, <3>2
  <2> QED BY <1>3, <1>8, <2>2, <2>3, <2>4 DEF StartBody
<1> QED BY <1>7, <1>8

LEMMA BodyFoundStep ==
  ASSUME ReadOK, HeadRead, BodyFound, [Next]_vars
  PROVE  BodyFound'
<1>1. CASE UNCHANGED <<request_vars, body_vars, exchange, whole>>
  BY <1>1 DEF BodyFound, FirstPart, Rest, Length, request_vars, read_vars, body_vars
<1>2. CASE Receive /\ ~ StartBody
  <2>1. stage' \notin {"request", "text called"}
    BY <1>2 DEF Receive, RequestNext, Accept, ParseHead, MoreHead, Ends
  <2> QED BY <2>1 DEF BodyFound
<1>3. CASE Receive /\ StartBody
  <2>1. stage = "parsed" /\ stage' \in {"request", "closed"} /\ UNCHANGED <<out, caller, head>> /\ Length' = Length
    BY <1>3 DEF Receive, StartBody, body_vars, Length
  <2>2. out = NoOut /\ caller = "form"
    BY <2>1 DEF HeadRead, InHead
  <2>3. stage' = "request" /\ whole' /\ Length # 0 => FirstPart'
    BY <1>3, StartBodyStep
  <2> QED BY <2>1, <2>2, <2>3 DEF BodyFound
<1>4. CASE Read
  <2>1. exchange.reader \in {"text", "form", "pairs"} /\ (Read_body(exchange.reader) \/ BodyNext)
        /\ UNCHANGED <<exchange, whole>>
    BY <1>4, ReaderIs DEF Read
  <2>2. CASE stage = "request" /\ Read_body(exchange.reader)
    <3>1. CASE stage' = "text called"
      <4>1. caller' = "text" /\ UNCHANGED <<data, read_vars, head, index, out>>
        BY <2>1, <2>2, <3>1 DEF Read_body
      <4>2. out = NoOut /\ (whole /\ Length # 0 => FirstPart)
        BY <2>2 DEF BodyFound
      <4> QED BY <2>1, <3>1, <4>1, <4>2 DEF BodyFound, FirstPart, Rest, Length, read_vars
    <3>2. CASE stage' # "text called"
      <4>1. stage' # "request"
        BY <2>1, <2>2 DEF Read_body
      <4> QED BY <3>2, <4>1 DEF BodyFound
    <3> QED BY <3>1, <3>2
  <2>3. CASE BodyNext
    <3>1. stage' \notin {"request", "text called"}
      BY <2>1, <2>3, BodyGoesOn DEF ReaderEnds, ReaderStages
    <3> QED BY <3>1 DEF BodyFound
  <2> QED BY <2>1, <2>2, <2>3 DEF Read_body
<1>5. CASE Answer \/ Respond \/ UNCHANGED vars
  BY <1>1, <1>5 DEF Answer, Respond, vars
<1> QED BY <1>2, <1>3, <1>4, <1>5 DEF Next

-----------------------------------------------------------------------------
(* The parts of the body: the first, the next ones, what is taken of them.   *)

LEMMA NumbersAre ==
  ASSUME data \in Numbers
  PROVE  data.size \in Nat /\ data.left \in Nat /\ data.part \in Nat /\ data.ptr \in Nat
BY DEF Numbers

LEMMA FirstPartBegins ==
  ASSUME ReadOK, FirstPart, data' = Clamped, ~Beyond, UNCHANGED <<read_vars, head, index, exchange>>
  PROVE  Fetched' /\ Consumed' = 0 /\ Rest' = Rest
<1>1. Rest' = Rest /\ UNCHANGED <<stream, buff, index>>
  BY DEF Rest, read_vars
<1>2. data \in Numbers /\ data.left = data.size /\ index = 0 /\ Len(Rest) \in Nat /\ Len(buff) \in Nat
  BY RestIs, LenProperties DEF FirstPart, ReadOK
<1>3. data.size \in Nat /\ data.left \in Nat /\ data.part \in Nat /\ data.ptr \in Nat
  BY <1>2, NumbersAre
<1> DEFINE n == IF data.part <= data.left THEN data.part ELSE data.left
<1>4. Min({data.part, data.left}) = n
  BY <1>3, MinOfTwo
<1>5. n \in Nat /\ n <= data.part /\ n <= data.left /\ (n < data.left => n = data.part)
  BY <1>3
<1> HIDE DEF n
<1>6. data' = [data EXCEPT !.part = n]
  BY <1>4 DEF Clamped
<1>7. data' \in Numbers /\ data'.size = data.size /\ data'.left = data.left /\ data'.part = n /\ data'.ptr = data.ptr
  BY <1>2, <1>5, <1>6 DEF Numbers
<1>8. Consumed' = 0 /\ Ahead' = n
  BY <1>1, <1>2, <1>3, <1>5, <1>7 DEF Consumed, Ahead
<1>9. data.ptr + n <= Len(buff) /\ 0 + n <= Len(Rest)
  BY <1>2, <1>3, <1>5 DEF FirstPart
<1>10. \A k \in 1 .. n : buff[data.ptr + 0 + k] = Rest[0 + k]
  <2>1. \A k \in 1 .. n : k \in 1 .. data.part /\ data.ptr + 0 + k = data.ptr + k /\ 0 + k = k
    BY <1>3, <1>5
  <2> QED BY <2>1 DEF FirstPart
<1>11. n < data.left => stream = SubSeq(Rest, 0 + n + 1, Len(Rest))
  BY <1>5 DEF FirstPart
<1> QED BY <1>1, <1>2, <1>3, <1>5, <1>7, <1>8, <1>9, <1>10, <1>11 DEF Fetched

LEMMA FetchedIs ==
  ASSUME ReadOK, Fetched
  PROVE  /\ data \in Numbers /\ data.size \in Nat /\ data.left \in Nat /\ data.part \in Nat /\ data.ptr \in Nat
         /\ index \in {0, data.part} /\ data.part <= data.left /\ data.left <= data.size
         /\ Consumed = data.size - (data.left - index) /\ Ahead = data.part - index
         /\ Consumed \in Nat /\ Ahead \in Nat /\ Consumed <= data.size /\ Consumed + Ahead <= Len(Rest)
         /\ data.ptr + data.part <= Len(buff)
         /\ Rest \in Seq(Bytes) /\ Len(Rest) \in Nat /\ buff \in Seq(Bytes \cup {"?"}) /\ Len(buff) \in Nat
<1>1. data \in Numbers /\ data.size \in Nat /\ data.left \in Nat /\ data.part \in Nat /\ data.ptr \in Nat
  BY NumbersAre DEF Fetched
<1>2. index \in {0, data.part} /\ data.part <= data.left /\ data.left <= data.size
      /\ Consumed + Ahead <= Len(Rest) /\ data.ptr + data.part <= Len(buff)
  BY DEF Fetched
<1>3. Consumed \in Nat /\ Ahead \in Nat /\ Consumed <= data.size
  <2>1. index \in Nat /\ index <= data.part
    BY <1>1, <1>2
  <2>2. \A s, l, n, i \in Nat : i <= n /\ n <= l /\ l <= s => s - (l - i) \in Nat /\ s - (l - i) <= s /\ n - i \in Nat
    OBVIOUS
  <2> QED BY <1>1, <1>2, <2>1, <2>2 DEF Consumed, Ahead
<1> QED BY <1>1, <1>2, <1>3, RestIs, LenProperties DEF ReadOK, Consumed, Ahead

LEMMA NextPartStep ==
  ASSUME ReadOK, Fetched, Used_up, Next_part, UNCHANGED <<head, exchange>>, stage \in {"text", "pairs", "param"}
  PROVE  /\ stage' = stage => Fetched' /\ Consumed' = Consumed /\ Rest' = Rest
         /\ stage' = "ended" => data'.size \in Nat /\ Came' = SubSeq(Rest, 1, Consumed)
<1>1. /\ data \in Numbers /\ data.size \in Nat /\ data.left \in Nat /\ data.part \in Nat /\ data.ptr \in Nat
      /\ index = data.part /\ data.part < data.left /\ data.left <= data.size
      /\ Consumed = data.size - (data.left - index) /\ Ahead = 0
      /\ Consumed \in Nat /\ Consumed <= data.size /\ Consumed <= Len(Rest)
      /\ Rest \in Seq(Bytes) /\ Len(Rest) \in Nat /\ Len(buff) \in Nat
  <2>1. index = data.part
    BY FetchedIs DEF Used_up
  <2> QED BY <2>1, FetchedIs DEF Used_up
<1>2. stream = SubSeq(Rest, Consumed + 1, Len(Rest)) /\ Rest' = Rest
  <2>1. stream = SubSeq(Rest, Consumed + Ahead + 1, Len(Rest))
    BY <1>1 DEF Fetched
  <2>2. Consumed + Ahead + 1 = Consumed + 1
    BY <1>1
  <2>3. Rest' = Rest
    BY DEF Rest
  <2> QED BY <2>1, <2>2, <2>3
<1>3. /\ Len(stream) = Len(Rest) - Consumed
      /\ \A k \in 1 .. Len(Rest) - Consumed : stream[k] = Rest[Consumed + k]
  BY <1>1, <1>2, DropIs
<1>4. ASSUME NEW b \in Blocks, Arrives(b), Len(b) <= data.size, index' = 0, UNCHANGED stage,
             data' = [data EXCEPT !.left = @ - index, !.part = Min({Len(b), data.left - index}), !.ptr = 0]
      PROVE  Fetched' /\ Consumed' = Consumed
  <2>1. /\ Len(b) \in Nat /\ Len(b) <= Len(buff) /\ Len(b) <= Len(stream) /\ Len(buff') = Len(buff)
        /\ stream' = SubSeq(stream, Len(b) + 1, Len(stream))
        /\ \A k \in 1 .. Len(b) : buff'[k] = stream[k]
    BY <1>4, ArrivesGives
  <2> DEFINE left == data.left - index
             n == IF Len(b) <= left THEN Len(b) ELSE left
  <2>2. left \in Nat /\ n \in Nat /\ n <= Len(b) /\ n <= left /\ left <= data.size /\ (n < left => n = Len(b))
    BY <1>1, <2>1
  <2>3. Min({Len(b), left}) = n
    <3>1. left \in Int /\ Len(b) \in Int
      BY <2>1, <2>2
    <3> QED BY <3>1, MinOfTwo
  <2>4. data.size - (left - 0) = Consumed
    BY <1>1
  <2>5. data' = [data EXCEPT !.left = left, !.part = n, !.ptr = 0]
    BY <1>4, <2>3
  <2> HIDE DEF left, n
  <2>6. data' \in Numbers /\ data'.size = data.size /\ data'.left = left /\ data'.part = n /\ data'.ptr = 0
    BY <1>1, <2>2, <2>5 DEF Numbers
  <2>7. Consumed' = Consumed /\ Ahead' = n
    BY <1>4, <2>2, <2>4, <2>6 DEF Consumed, Ahead
  <2>8. 0 + n <= Len(buff') /\ Consumed + n <= Len(Rest) /\ \A k \in 1 .. n : k \in 1 .. Len(b) /\ k \in 1 .. Len(Rest) - Consumed
    <3>1. Len(b) <= Len(Rest) - Consumed /\ Len(b) <= Len(buff')
      BY <1>3, <2>1
    <3>2. \A l, d, w, c \in Nat : n <= l /\ l <= d - c /\ l <= w =>
            0 + n <= w /\ c + n <= d /\ \A k \in 1 .. n : k \in 1 .. l /\ k \in 1 .. d - c
      BY <2>2
    <3>3. Len(buff') \in Nat /\ Len(b) \in Nat /\ Len(Rest) \in Nat /\ Consumed \in Nat
      BY <1>1, <2>1
    <3> QED BY <2>2, <3>1, <3>2, <3>3
  <2>9. \A k \in 1 .. n : buff'[0 + 0 + k] = Rest[Consumed + k]
    <3>1. \A k \in 1 .. n : 0 + 0 + k = k
      BY <2>2
    <3> QED BY <1>3, <2>1, <2>8, <3>1
  <2>10. n < left => stream' = SubSeq(Rest, Consumed + n + 1, Len(Rest))
    <3> SUFFICES ASSUME n < left PROVE stream' = SubSeq(Rest, Consumed + n + 1, Len(Rest))
      OBVIOUS
    <3>1. n = Len(b) /\ stream' = SubSeq(stream, n + 1, Len(stream))
      BY <2>1, <2>2
    <3> DEFINE m == Consumed
               r == Rest
    <3>2. r \in Seq(Bytes) /\ m \in Nat /\ n \in Nat /\ m + n <= Len(r) /\ stream = SubSeq(r, m + 1, Len(r))
      BY <1>1, <1>2, <2>2, <2>8
    <3> HIDE DEF m, r
    <3>3. SubSeq(stream, n + 1, Len(stream)) = SubSeq(r, m + n + 1, Len(r))
      BY <3>2, DropMore
    <3> QED BY <3>1, <3>3 DEF m, r
  <2> QED BY <1>2, <1>4, <2>2, <2>6, <2>7, <2>8, <2>9, <2>10 DEF Fetched
<1>5. ASSUME Closed, data' = [data EXCEPT !.part = 0]
      PROVE  data'.size \in Nat /\ Came' = SubSeq(Rest, 1, Consumed)
  <2>1. Len(stream) = 0
    BY <1>5 DEF Closed
  <2>2. Consumed = Len(Rest)
    BY <1>1, <1>3, <2>1
  <2>3. data'.size = data.size
    BY <1>1, <1>5 DEF Numbers
  <2>4. Min({data.size, Len(Rest)}) = Len(Rest)
    <3>1. Min({data.size, Len(Rest)}) = IF data.size <= Len(Rest) THEN data.size ELSE Len(Rest)
      BY <1>1, MinOfTwo
    <3> QED BY <1>1, <2>2, <3>1
  <2>5. Came' = SubSeq(Rest, 1, Min({data.size, Len(Rest)}))
    BY <1>2, <2>3 DEF Came
  <2> QED BY <1>1, <2>2, <2>3, <2>4, <2>5
<1>6. CASE \E b \in Blocks : Arrives(b) /\ Len(b) > data.size /\ stage' = "threw"
  BY <1>6
<1>7. CASE \E b \in Blocks :
            /\ Arrives(b) /\ Len(b) <= data.size /\ index' = 0 /\ UNCHANGED stage
            /\ data' = [data EXCEPT !.left = @ - index, !.part = Min({Len(b), data.left - index}), !.ptr = 0]
  <2>1. Fetched' /\ Consumed' = Consumed
    BY <1>4, <1>7
  <2>2. stage' = stage
    BY <1>7
  <2> QED BY <1>2, <2>1, <2>2
<1>8. CASE Closed /\ data' = [data EXCEPT !.part = 0] /\ stage' = "ended"
  BY <1>5, <1>8
<1>9. CASE stage' = "threw"
  BY <1>9
<1>10. \A b \in Blocks : Arrives(b) => Len(b) \in Nat
  BY ArrivesGives
<1>11. \A n \in Nat : n > data.size \/ n <= data.size
  BY <1>1
<1> HIDE DEF Fetched, Arrives, Closed
<1> QED BY <1>6, <1>7, <1>8, <1>9, <1>10, <1>11 DEF Next_part

(* What is taken of a part follows what was taken before.                     *)
LEMMA PartTaken ==
  ASSUME ReadOK, Fetched, index < data.part, index' = data.part, UNCHANGED <<read_vars, head, data, exchange>>
  PROVE  /\ Fetched' /\ Rest' = Rest /\ index = 0
         /\ SubSeq(Rest, 1, Consumed) \in Seq(Bytes) /\ Within(0, data.part) \in Seq(Bytes)
         /\ SubSeq(Rest, 1, Consumed') = SubSeq(Rest, 1, Consumed) \o Within(0, data.part)
<1> DEFINE n == data.part
           c == Consumed
           r == Rest
           p == data.ptr
           w == buff
           was == SubSeq(r, 1, c)
           part == SubSeq(w, p + 1, p + n)
           now == SubSeq(r, 1, c + n)
<1>1. /\ index = 0 /\ Ahead = n /\ n \in Nat /\ c \in Nat /\ p \in Nat /\ c + n <= Len(r) /\ p + n <= Len(w)
      /\ r \in Seq(Bytes) /\ w \in Seq(Bytes \cup {"?"}) /\ Len(r) \in Nat
      /\ \A k \in 1 .. n : w[p + k] = r[c + k]
  <2>1. index = 0 /\ Ahead = n /\ n \in Nat /\ p \in Nat
    BY FetchedIs
  <2>2. \A k \in 1 .. n : w[p + 0 + k] = r[c + k]
    BY <2>1 DEF Fetched
  <2>3. \A k \in 1 .. n : p + 0 + k = p + k
    BY <2>1
  <2> QED BY <2>1, <2>2, <2>3, FetchedIs
<1>2. Consumed' = c + n /\ Ahead' = 0 /\ Rest' = Rest /\ Within(0, data.part) = part
  <2>1. data' = data /\ UNCHANGED <<head, exchange>> /\ index' = n
    OBVIOUS
  <2>2. Consumed' = c + n /\ Ahead' = 0
    BY <1>1, <2>1, FetchedIs DEF Consumed, Ahead
  <2>3. Rest' = Rest
    BY <2>1 DEF Rest
  <2>4. p + 0 + 1 = p + 1
    BY <1>1
  <2> QED BY <2>2, <2>3, <2>4 DEF Within
<1>3. Fetched'
  <2>1. /\ data' = data /\ index' = n /\ UNCHANGED <<stream, buff>> /\ data \in Numbers /\ data.part <= data.left
        /\ data.left <= data.size /\ data.ptr + data.part <= Len(buff)
        /\ data.part < data.left => stream = SubSeq(Rest, Consumed + Ahead + 1, Len(Rest))
    BY FetchedIs DEF read_vars, Fetched
  <2>2. (c + n) + 0 <= Len(r) /\ 1 .. 0 = {} /\ c + n + 0 + 1 = c + n + 1
    BY <1>1
  <2> QED BY <1>1, <1>2, <2>1, <2>2 DEF Fetched
<1> HIDE DEF n, c, r, p, w
<1>4. was \in Seq(Bytes) /\ Len(was) = c /\ \A k \in 1 .. c : was[k] = r[k]
  <2>1. c <= Len(r)
    BY <1>1
  <2> QED BY <1>1, <2>1, TakeIs
<1>5. now \in Seq(Bytes) /\ Len(now) = c + n /\ \A k \in 1 .. c + n : now[k] = r[k]
  <2>1. c + n \in Nat
    BY <1>1
  <2> QED BY <1>1, <2>1, TakeIs
<1>6. Len(part) = n /\ part \in Seq(Bytes \cup {"?"}) /\ \A k \in 1 .. n : part[k] = w[p + k]
  BY <1>1, MidIs
<1> HIDE DEF was, part, now
<1>7. part \in Seq(Bytes)
  <2>1. \A k \in 1 .. n : part[k] = r[c + k]
    BY <1>1, <1>6
  <2>2. \A k \in 1 .. n : c + k \in 1 .. Len(r)
    BY <1>1
  <2>3. \A k \in 1 .. Len(part) : part[k] \in Bytes
    BY <1>1, <1>6, <2>1, <2>2, ElementOfSeq
  <2>4. part = [k \in 1 .. Len(part) |-> part[k]]
    BY <1>6, LenProperties
  <2>5. part \in [1 .. Len(part) -> Bytes]
    BY <2>3, <2>4
  <2> QED BY <1>1, <1>6, <2>5, SeqDef
<1>8. was \o part \in Seq(Bytes) /\ Len(was \o part) = c + n
  BY <1>1, <1>4, <1>6, <1>7, ConcatProperties
<1>9. \A k \in 1 .. c + n : (was \o part)[k] = now[k]
  <2> SUFFICES ASSUME NEW k \in 1 .. c + n PROVE (was \o part)[k] = now[k]
    OBVIOUS
  <2>1. (was \o part)[k] = IF k <= Len(was) THEN was[k] ELSE part[k - Len(was)]
    BY <1>1, <1>4, <1>6, <1>7, ConcatProperties
  <2>2. CASE k <= c
    BY <1>1, <1>4, <1>5, <2>1, <2>2
  <2>3. CASE ~ (k <= c)
    <3>1. k - c \in 1 .. n /\ c + (k - c) = k
      BY <1>1, <2>3
    <3>2. part[k - c] = r[k]
      BY <1>1, <1>6, <3>1
    <3> QED BY <1>4, <1>5, <2>1, <2>3, <3>2
  <2> QED BY <2>2, <2>3
<1>10. was \o part = now
  BY <1>5, <1>8, <1>9, SeqEqual
<1> QED BY <1>1, <1>2, <1>3, <1>4, <1>7, <1>10 DEF was, part, now, n, c, r, p, w

LEMMA AllTaken ==
  ASSUME ReadOK, Fetched, index >= data.left
  PROVE  data.size \in Nat /\ Came = SubSeq(Rest, 1, Consumed)
<1>1. Consumed = data.size /\ data.size \in Nat /\ Len(Rest) \in Nat /\ data.size <= Len(Rest)
  BY FetchedIs
<1>2. Min({data.size, Len(Rest)}) = data.size
  <2>1. Min({data.size, Len(Rest)}) = IF data.size <= Len(Rest) THEN data.size ELSE Len(Rest)
    BY <1>1, MinOfTwo
  <2> QED BY <1>1, <2>1
<1> QED BY <1>1, <1>2 DEF Came

-----------------------------------------------------------------------------
(* The readers.                                                              *)

LEMMA OutIs ==
  /\ [NoOut EXCEPT !.text = <<>>] = NoOut /\ [NoOut EXCEPT !.params = <<>>] = NoOut
  /\ \A b : [NoOut EXCEPT !.text = b].text = b
  /\ \A b, c : [[NoOut EXCEPT !.text = b] EXCEPT !.text = c] = [NoOut EXCEPT !.text = c]
  /\ \A p : [NoOut EXCEPT !.params = p].params = p
  /\ \A p, q : [[NoOut EXCEPT !.params = p] EXCEPT !.params = q] = [NoOut EXCEPT !.params = q]
<1>1. [NoOut EXCEPT !.text = <<>>] = NoOut
  BY DEF NoOut
<1>2. [NoOut EXCEPT !.params = <<>>] = NoOut
  BY DEF NoOut
<1>3. \A b : [NoOut EXCEPT !.text = b].text = b
  BY DEF NoOut
<1>4. \A b, c : [[NoOut EXCEPT !.text = b] EXCEPT !.text = c] = [NoOut EXCEPT !.text = c]
  BY DEF NoOut
<1>5. \A p : [NoOut EXCEPT !.params = p].params = p
  BY DEF NoOut
<1>6. \A p, q : [[NoOut EXCEPT !.params = p] EXCEPT !.params = q] = [NoOut EXCEPT !.params = q]
  BY DEF NoOut
<1> QED BY <1>1, <1>2, <1>3, <1>4, <1>5, <1>6

LEMMA TextCalled ==
  ASSUME BodyInv, Text, UNCHANGED <<exchange, whole>>
  PROVE  BodyRead' /\ OutAsOne'
<1>1. stage = "text called" /\ UNCHANGED body_vars /\ UNCHANGED <<head, index>> /\ caller = "text" /\ out = NoOut
  BY DEF Text, Begin, Ends, BodyInv, BodyFound
<1>2. caller' = "text" /\ out' = NoOut
  BY <1>1 DEF body_vars
<1>3. CASE stage' \in {"threw", "undefined"}
  BY <1>2, <1>3 DEF BodyRead, OutAsOne
<1>4. CASE stage' \notin {"threw", "undefined"}
  <2>1. Length # 0 /\ data' = Clamped /\ ~Beyond /\ stage' = "text" /\ UNCHANGED read_vars
    BY <1>4 DEF Text, Begin, Ends
  <2>2. whole => Fetched' /\ Consumed' = 0 /\ Rest' = Rest
    <3>1. whole => FirstPart
      BY <1>1, <2>1 DEF BodyInv, BodyFound
    <3>2. ReadOK
      BY DEF BodyInv
    <3> QED BY <1>1, <2>1, <3>1, <3>2, FirstPartBegins
  <2>3. SubSeq(Rest, 1, 0) = <<>>
    BY SubSeqEmpty, RestIs DEF BodyInv
  <2>4. whole' => Fetched' /\ TextIs(SubSeq(Rest, 1, Consumed))'
    BY <1>2, <2>2, <2>3, OutIs DEF TextIs
  <2> QED BY <1>2, <2>1, <2>4 DEF BodyRead, OutAsOne
<1> QED BY <1>3, <1>4

LEMMA TextBlock ==
  ASSUME BodyInv, Text_block, UNCHANGED <<exchange, whole>>
  PROVE  BodyRead' /\ OutAsOne'
<1>1. /\ stage = "text" /\ Used_up /\ Next_part /\ UNCHANGED <<head, out, caller>> /\ caller = "text" /\ ReadOK
      /\ stage' \in {stage, "ended", "threw"}
      /\ whole => Fetched /\ TextIs(SubSeq(Rest, 1, Consumed))
  BY DEF Text_block, body_vars, BodyInv, BodyRead, Next_part
<1>2. whole /\ stage' = stage => Fetched' /\ Consumed' = Consumed /\ Rest' = Rest
  BY <1>1, NextPartStep
<1>3. whole /\ stage' = "ended" => data'.size \in Nat /\ Came' = SubSeq(Rest, 1, Consumed)
  BY <1>1, NextPartStep
<1>4. whole /\ stage' = stage => TextIs(SubSeq(Rest, 1, Consumed))'
  BY <1>1, <1>2 DEF TextIs
<1>5. whole /\ stage' = "ended" => TextIs(Came)'
  BY <1>1, <1>3 DEF TextIs
<1> QED BY <1>1, <1>2, <1>3, <1>4, <1>5 DEF BodyRead, OutAsOne

LEMMA TextPart ==
  ASSUME BodyInv, Text_part, UNCHANGED <<exchange, whole>>
  PROVE  BodyRead' /\ OutAsOne'
<1>1. /\ stage = "text" /\ index < data.part /\ index' = data.part
      /\ UNCHANGED <<read_vars, head, data, stage, caller>> /\ caller = "text" /\ ReadOK
      /\ out' = [out EXCEPT !.text = @ \o Within(0, data.part - index)]
      /\ whole => Fetched /\ TextIs(SubSeq(Rest, 1, Consumed))
  BY DEF Text_part, BodyInv, BodyRead
<1>2. ASSUME whole
      PROVE  Fetched' /\ TextIs(SubSeq(Rest, 1, Consumed))'
  <2>1. /\ Fetched' /\ Rest' = Rest /\ index = 0
        /\ SubSeq(Rest, 1, Consumed') = SubSeq(Rest, 1, Consumed) \o Within(0, data.part)
    BY <1>1, <1>2, PartTaken
  <2>2. data.part - index = data.part
    BY <1>1, <1>2, <2>1, FetchedIs
  <2>3. out = [NoOut EXCEPT !.text = SubSeq(Rest, 1, Consumed)]
    BY <1>1, <1>2 DEF TextIs
  <2>4. out' = [NoOut EXCEPT !.text = SubSeq(Rest, 1, Consumed) \o Within(0, data.part)]
    BY <1>1, <2>2, <2>3, OutIs
  <2> QED BY <2>1, <2>4 DEF TextIs
<1> QED BY <1>1, <1>2 DEF BodyRead, OutAsOne

LEMMA TextEnd ==
  ASSUME BodyInv, Text_end, UNCHANGED <<exchange, whole>>
  PROVE  BodyRead' /\ OutAsOne'
<1>1. /\ caller = "text" /\ stage' = "read" /\ UNCHANGED <<head, index, data, caller>> /\ ReadOK
      /\ out' = [out EXCEPT !.text = @ \o Zeros(data.size - Len(@))]
  BY DEF Text_end, BodyInv
<1>2. whole => TextIs(Came)
  <2>1. CASE stage = "ended"
    BY <1>1, <2>1 DEF BodyInv, BodyRead
  <2>2. CASE stage = "text" /\ index >= data.left
    <3>1. whole => Fetched /\ TextIs(SubSeq(Rest, 1, Consumed))
      BY <2>2 DEF BodyInv, BodyRead
    <3> QED BY <1>1, <2>2, <3>1, AllTaken
  <2> QED BY <2>1, <2>2 DEF Text_end
<1>3. Came' = Came
  BY <1>1 DEF Came, Rest
<1>4. whole => out'.text = Came \o Zeros(data.size - Len(Came))
  BY <1>1, <1>2, OutIs DEF TextIs
<1>5. OutAsOne'
  BY <1>1, <1>3, <1>4 DEF OutAsOne, Zeros
<1> QED BY <1>1, <1>5 DEF BodyRead

LEMMA PairsBlock ==
  ASSUME BodyInv, Pairs_block, UNCHANGED <<exchange, whole>>
  PROVE  BodyRead' /\ OutAsOne'
<1>1. /\ stage = "pairs" /\ Used_up /\ Next_part /\ UNCHANGED <<head, out, caller, local>> /\ caller = "pairs" /\ ReadOK
      /\ stage' \in {stage, "ended", "threw"}
      /\ whole => Fetched /\ PairsAre(SubSeq(Rest, 1, Consumed))
  BY DEF Pairs_block, body_vars, BodyInv, BodyRead, Next_part
<1>2. whole /\ stage' = stage => Fetched' /\ Consumed' = Consumed /\ Rest' = Rest
  BY <1>1, NextPartStep
<1>3. whole /\ stage' = "ended" => data'.size \in Nat /\ Came' = SubSeq(Rest, 1, Consumed)
  BY <1>1, NextPartStep
<1>4. whole /\ stage' = stage => PairsAre(SubSeq(Rest, 1, Consumed))'
  BY <1>1, <1>2 DEF PairsAre
<1>5. whole /\ stage' = "ended" => PairsAre(Came)'
  BY <1>1, <1>3 DEF PairsAre
<1> QED BY <1>1, <1>2, <1>3, <1>4, <1>5 DEF BodyRead, OutAsOne

LEMMA PairsPart ==
  ASSUME BodyInv, Pairs_part, UNCHANGED <<exchange, whole>>
  PROVE  BodyRead' /\ OutAsOne'
<1> DEFINE z == PairBytes(local, out.params, Within(index, data.part))
           y == PairBytes(NoPair, <<>>, SubSeq(Rest, 1, Consumed))
<1>1. /\ stage = "pairs" /\ index < data.part /\ index' = data.part
      /\ UNCHANGED <<read_vars, head, data, stage, caller>> /\ caller = "pairs" /\ ReadOK
      /\ local' = z.local /\ out' = [out EXCEPT !.params = z.params]
      /\ whole => Fetched /\ PairsAre(SubSeq(Rest, 1, Consumed))
  BY DEF Pairs_part, BodyInv, BodyRead
<1>2. ASSUME whole
      PROVE  Fetched' /\ PairsAre(SubSeq(Rest, 1, Consumed))'
  <2>1. /\ Fetched' /\ Rest' = Rest /\ index = 0
        /\ SubSeq(Rest, 1, Consumed) \in Seq(Bytes) /\ Within(0, data.part) \in Seq(Bytes)
        /\ SubSeq(Rest, 1, Consumed') = SubSeq(Rest, 1, Consumed) \o Within(0, data.part)
    BY <1>1, <1>2, PartTaken
  <2>2. local = y.local /\ out = [NoOut EXCEPT !.params = y.params]
    BY <1>1, <1>2 DEF PairsAre
  <2>3. z = PairBytes(y.local, y.params, Within(0, data.part))
    BY <2>1, <2>2, OutIs
  <2>4. PairBytes(y.local, y.params, Within(0, data.part))
          = PairBytes(NoPair, <<>>, SubSeq(Rest, 1, Consumed) \o Within(0, data.part))
    BY <2>1, PairsOfBoth
  <2>5. z = PairBytes(NoPair, <<>>, SubSeq(Rest, 1, Consumed'))
    BY <2>1, <2>3, <2>4
  <2> HIDE DEF y, z
  <2>6. out' = [NoOut EXCEPT !.params = z.params]
    BY <1>1, <2>2, OutIs
  <2> QED BY <1>1, <2>1, <2>5, <2>6 DEF PairsAre
<1> QED BY <1>1, <1>2 DEF BodyRead, OutAsOne

LEMMA PairsEnd ==
  ASSUME BodyInv, Pairs_end, UNCHANGED <<exchange, whole>>
  PROVE  BodyRead' /\ OutAsOne'
<1>1. /\ caller = "pairs" /\ stage' = "read" /\ UNCHANGED <<head, index, data, caller>> /\ ReadOK
      /\ out' = IF local.key = <<>> /\ local.value = <<>> THEN out
                ELSE [out EXCEPT !.params = Put(@, local.key, local.value)]
  BY DEF Pairs_end, BodyInv
<1>2. whole => PairsAre(Came)
  <2>1. CASE stage = "ended"
    BY <1>1, <2>1 DEF BodyInv, BodyRead
  <2>2. CASE stage = "pairs" /\ index >= data.left
    <3>1. whole => Fetched /\ PairsAre(SubSeq(Rest, 1, Consumed))
      BY <2>2 DEF BodyInv, BodyRead
    <3> QED BY <1>1, <2>2, <3>1, AllTaken
  <2> QED BY <2>1, <2>2 DEF Pairs_end
<1>3. Came' = Came
  BY <1>1 DEF Came, Rest
<1> DEFINE z == PairBytes(NoPair, <<>>, Came)
<1>4. whole => local = z.local /\ out = [NoOut EXCEPT !.params = z.params]
  BY <1>2 DEF PairsAre
<1>5. PairsOf(Came) = IF z.local.key = <<>> /\ z.local.value = <<>> THEN z.params
                      ELSE Put(z.params, z.local.key, z.local.value)
  BY DEF PairsOf
<1> HIDE DEF z
<1>6. ASSUME whole
      PROVE  out'.params = PairsOf(Came)
  <2>1. out = [NoOut EXCEPT !.params = z.params] /\ out.params = z.params
    BY <1>4, <1>6, OutIs
  <2>2. CASE local.key = <<>> /\ local.value = <<>>
    BY <1>1, <1>4, <1>5, <1>6, <2>1, <2>2
  <2>3. CASE ~ (local.key = <<>> /\ local.value = <<>>)
    <3>1. out' = [out EXCEPT !.params = Put(z.params, local.key, local.value)]
      BY <1>1, <2>1, <2>3
    <3>2. out' = [NoOut EXCEPT !.params = Put(z.params, local.key, local.value)]
      BY <2>1, <3>1, OutIs
    <3>3. out'.params = Put(z.params, local.key, local.value)
      BY <3>2, OutIs
    <3> QED BY <1>4, <1>5, <1>6, <2>3, <3>3
  <2> QED BY <2>2, <2>3
<1>7. OutAsOne'
  BY <1>1, <1>3, <1>6 DEF OutAsOne, PairsOf
<1> QED BY <1>1, <1>7 DEF BodyRead

LEMMA ParamSteps ==
  ASSUME BodyInv, UNCHANGED <<exchange, whole>>,
         \/ Param_begin \/ Param_block \/ Param_boundary \/ Param_line \/ Param_byte \/ Param_overflow
         \/ Param_end \/ Param_read
  PROVE  BodyRead' /\ OutAsOne'
<1>1. /\ stage \in {"param called", "param", "param read"} \/ (stage = "ended" /\ caller \in {"form", "file", "next file"})
      /\ caller' \in {caller, "file", "next file"}
      /\ stage' \in {"param called", "param", "param read", "ended", "threw", "undefined", "overflow", "read"}
  <2>1. CASE Param_begin
    BY <2>1 DEF Param_begin, Begin
  <2>8. CASE Param_block
    <3>1. Next_part => stage' \in {stage, "ended", "threw"}
      BY DEF Next_part
    <3>2. stage = "param" /\ Next_part /\ caller' = caller
      BY <2>8, Zenon DEF Param_block
    <3> QED BY <3>1, <3>2
  <2>9. CASE Param_end
    BY <2>9 DEF Param_end, body_vars
  <2>10. CASE Param_read
    BY <2>10 DEF Param_read
  <2> DEFINE Moves == caller' = caller /\ stage' \in {"param", "param read", "threw"}
  <2>2. \A l, n : stage = "param" /\ Goes_on(l, n) => Moves
    BY DEF Goes_on
  <2>3. Returns => Moves
    BY DEF Returns
  <2>4. Ends("threw") /\ UNCHANGED body_vars => Moves
    BY DEF Ends, body_vars
  <2> HIDE DEF Moves
  <2>5. CASE Param_boundary
    <3>1. stage = "param"
      BY <2>5, Zenon DEF Param_boundary, In_param
    <3>2. (\E l, n : Goes_on(l, n)) \/ Returns
      BY <2>5, Zenon DEF Param_boundary
    <3>3. Moves
      BY <3>1, <3>2, <2>2, <2>3
    <3> QED BY <3>1, <3>3 DEF Moves
  <2>6. CASE Param_line
    <3>1. stage = "param"
      BY <2>6, Zenon DEF Param_line, In_param
    <3>2. (\E l, n : Goes_on(l, n)) \/ Returns \/ (Ends("threw") /\ UNCHANGED body_vars)
      BY <2>6, Zenon DEF Param_line
    <3>3. Moves
      BY <3>1, <3>2, <2>2, <2>3, <2>4
    <3> QED BY <3>1, <3>3 DEF Moves
  <2>7. CASE Param_byte
    <3>1. stage = "param"
      BY <2>7, Zenon DEF Param_byte, In_param
    <3>2. \E l, n : Goes_on(l, n)
      BY <2>7, Zenon DEF Param_byte
    <3>3. Moves
      BY <3>1, <3>2, <2>2
    <3> QED BY <3>1, <3>3 DEF Moves
  <2>11. CASE Param_overflow
    BY <2>11 DEF Param_overflow, In_param, Ends, body_vars
  <2> QED BY <2>1, <2>5, <2>6, <2>7, <2>8, <2>9, <2>10, <2>11
<1>2. caller \notin {"text", "pairs"}
  BY <1>1 DEF BodyInv, BodyRead
<1> QED BY <1>1, <1>2 DEF BodyRead, OutAsOne

LEMMA ReadBody ==
  ASSUME BodyInv, Read_body(exchange.reader), exchange.reader \in {"text", "form", "pairs"}, UNCHANGED <<exchange, whole>>
  PROVE  BodyRead' /\ OutAsOne'
<1>1. stage = "request" /\ UNCHANGED <<read_vars, head, index, out>> /\ caller = "form" /\ out = NoOut /\ ReadOK
  BY DEF Read_body, BodyInv, BodyFound
<1>2. CASE stage' \in {"threw", "text called", "undefined"}
  BY <1>2 DEF BodyRead, OutAsOne
<1>3. CASE stage' = "param called"
  <2>1. caller' = caller
    BY <1>3 DEF Read_body
  <2> QED BY <1>1, <1>3, <2>1 DEF BodyRead, OutAsOne
<1>4. CASE stage' = "pairs"
  <2>1. Length # 0 /\ data' = Clamped /\ ~Beyond /\ caller' = "pairs" /\ local' = NoPair
    BY <1>4 DEF Read_body
  <2>2. whole => Fetched' /\ Consumed' = 0 /\ Rest' = Rest
    <3>1. whole => FirstPart
      BY <1>1, <2>1 DEF BodyInv, BodyFound
    <3> QED BY <1>1, <2>1, <3>1, FirstPartBegins
  <2>3. SubSeq(Rest, 1, 0) = <<>>
    BY <1>1, SubSeqEmpty, RestIs
  <2>4. whole => PairsAre(SubSeq(Rest, 1, Consumed))'
    <3>1. whole => SubSeq(Rest, 1, Consumed)' = <<>>
      BY <2>2, <2>3
    <3> DEFINE z == PairBytes(NoPair, <<>>, <<>>)
    <3>2. z.local = NoPair /\ z.params = <<>>
      BY PairsOfNone
    <3>3. local' = z.local /\ out' = NoOut
      BY <1>1, <2>1, <3>2
    <3>4. out' = [NoOut EXCEPT !.params = z.params]
      BY <3>2, <3>3, OutIs
    <3> HIDE DEF z
    <3> QED BY <3>1, <3>3, <3>4 DEF PairsAre, z
  <2> QED BY <1>4, <2>1, <2>2, <2>4 DEF BodyRead, OutAsOne
<1>5. stage' \in {"threw", "text called", "undefined", "param called", "pairs"}
  BY DEF Read_body
<1> QED BY <1>2, <1>3, <1>4, <1>5

LEMMA BodyReadStep ==
  ASSUME BodyInv, [Next]_vars
  PROVE  BodyRead' /\ OutAsOne'
<1>1. CASE UNCHANGED <<request_vars, body_vars, exchange, whole>>
  BY <1>1 DEF BodyInv, BodyRead, OutAsOne, Fetched, Consumed, Ahead, TextIs, PairsAre, Came, Rest, PairsOf, Zeros,
              request_vars, read_vars, body_vars
<1>2. CASE Receive
  <2>1. stage' \in {"head", "closed", "parsed", "more", "undefined", "request"}
    BY <1>2 DEF Receive, RequestNext, Accept, ParseHead, MoreHead, StartBody, Ends
  <2> QED BY <2>1 DEF BodyRead, OutAsOne
<1>3. CASE Read
  <2>1. /\ exchange.reader \in {"text", "form", "pairs"} /\ (Read_body(exchange.reader) \/ BodyNext)
        /\ UNCHANGED <<exchange, whole>>
    BY <1>3, ReaderIs DEF Read, BodyInv
  <2> QED BY <2>1, ReadBody, TextCalled, TextBlock, TextPart, TextEnd, PairsBlock, PairsPart, PairsEnd, ParamSteps
          DEF BodyNext
<1>4. CASE Answer \/ Respond \/ UNCHANGED vars
  BY <1>1, <1>4 DEF Answer, Respond, vars
<1> QED BY <1>2, <1>3, <1>4 DEF Next

LEMMA BodyInit0 == Init => BodyInv
<1> SUFFICES ASSUME Init PROVE BodyInv
  OBVIOUS
<1>1. /\ exchange \in Exchanges /\ whole = FALSE /\ RequestInit(exchange.bytes, exchange.block) /\ BodyInit
  BY DEF Init
<1>2. /\ stream = exchange.bytes /\ buff = [k \in 1 .. exchange.block |-> "?"] /\ got = 0 /\ reads = 0
      /\ head = NoHead /\ "size" \in DOMAIN data /\ stage = "accepted" /\ out = NoOut /\ caller = "form"
  BY <1>1 DEF RequestInit, BodyInit
<1>3. exchange.bytes \in Seq(Bytes) /\ exchange.block \in Nat
  BY <1>1, ExchangeIs
<1>4. buff \in Seq(Bytes \cup {"?"}) /\ Len(buff) = exchange.block
  <2>1. buff \in [1 .. exchange.block -> Bytes \cup {"?"}]
    BY <1>2
  <2>2. buff \in Seq(Bytes \cup {"?"})
    BY <1>3, <2>1, SeqDef
  <2> QED BY <1>3, <2>1, <2>2, LenProperties
<1>5. HeadOK(head)
  BY <1>2 DEF HeadOK, NoHead
<1>6. ReadOK
  BY <1>1, <1>2, <1>3, <1>4, <1>5 DEF ReadOK
<1>7. HeadRead
  BY <1>1, <1>2 DEF HeadRead
<1> QED BY <1>2, <1>6, <1>7 DEF BodyInv, BodyFound, BodyRead, ParamRead, Room, Defined, OutAsOne

-----------------------------------------------------------------------------
(* A reader of params.                                                       *)

LEMMA PlacedIs ==
  ASSUME ReadOK, Placed
  PROVE  /\ data \in Numbers /\ data.size \in Nat /\ data.left \in Nat /\ data.part \in Nat /\ data.ptr \in Nat
         /\ index \in Nat /\ data.part <= data.left /\ data.left <= data.size /\ Base \in Nat
         /\ data.ptr + data.part <= Len(buff) /\ Base + data.part <= Len(Rest)
         /\ Len(Rest) \in Nat /\ Len(buff) \in Nat
<1>1. data \in Numbers /\ data.size \in Nat /\ data.left \in Nat /\ data.part \in Nat /\ data.ptr \in Nat
  BY NumbersAre DEF Placed
<1>2. /\ index \in Nat /\ data.part <= data.left /\ data.left <= data.size
      /\ data.ptr + data.part <= Len(buff) /\ Base + data.part <= Len(Rest)
  BY DEF Placed
<1>3. Base \in Nat
  BY <1>1, <1>2 DEF Base
<1>4. Len(Rest) \in Nat /\ Len(buff) \in Nat
  BY RestIs, LenProperties DEF ReadOK
<1> QED BY <1>1, <1>2, <1>3, <1>4

(* A part that begins is one in which the reader stands at its first byte.    *)
LEMMA FetchedIsPlaced ==
  ASSUME Fetched', index' = 0
  PROVE  Placed'
<1>1. /\ data' \in Numbers /\ data'.part <= data'.left /\ data'.left <= data'.size
      /\ data'.ptr + data'.part <= Len(buff') /\ Consumed' + Ahead' <= Len(Rest')
      /\ \A k \in 1 .. Ahead' : buff'[data'.ptr + index' + k] = Rest'[Consumed' + k]
      /\ data'.part < data'.left => stream' = SubSeq(Rest', Consumed' + Ahead' + 1, Len(Rest'))
  BY DEF Fetched
<1>2. data'.size \in Nat /\ data'.left \in Nat /\ data'.part \in Nat /\ data'.ptr \in Nat
  BY <1>1 DEF Numbers
<1>3. Consumed' = Base' /\ Ahead' = data'.part
  BY <1>2 DEF Consumed, Ahead, Base
<1>4. \A k \in 1 .. data'.part : data'.ptr + index' + k = data'.ptr + k
  BY <1>2
<1>5. \A k \in 1 .. data'.part : buff'[data'.ptr + k] = Rest'[Base' + k]
  <2> SUFFICES ASSUME NEW k \in 1 .. data'.part PROVE buff'[data'.ptr + k] = Rest'[Base' + k]
    OBVIOUS
  <2>1. buff'[data'.ptr + index' + k] = Rest'[Base' + k]
    BY <1>1, <1>3
  <2> QED BY <1>4, <2>1
<1>6. /\ data' \in Numbers /\ index' \in Nat /\ index' <= data'.part
      /\ Base' + data'.part <= Len(Rest')
      /\ data'.part < data'.left => stream' = SubSeq(Rest', Base' + data'.part + 1, Len(Rest'))
  BY <1>1, <1>2, <1>3
<1> QED BY <1>1, <1>5, <1>6 DEF Placed

LEMMA FirstPartIsPlaced ==
  ASSUME ReadOK, FirstPart, data' = Clamped, ~Beyond, UNCHANGED <<read_vars, head, index, exchange>>
  PROVE  Placed'
<1>1. Fetched' /\ index' = 0
  BY FirstPartBegins DEF FirstPart
<1> QED BY <1>1, FetchedIsPlaced

LEMMA ClampedIs ==
  ASSUME data \in Numbers
  PROVE  /\ Clamped = [data EXCEPT !.part = IF data.part <= data.left THEN data.part ELSE data.left]
         /\ data.part <= data.left => Clamped = data
         /\ Clamped.part \in Nat /\ Clamped.part <= data.part
<1>1. data.part \in Nat /\ data.left \in Nat
  BY NumbersAre
<1> DEFINE n == IF data.part <= data.left THEN data.part ELSE data.left
<1>2. Min({data.part, data.left}) = n
  BY <1>1, MinOfTwo
<1>3. n \in Nat /\ n <= data.part /\ (data.part <= data.left => n = data.part)
  BY <1>1
<1> HIDE DEF n
<1>4. Clamped = [data EXCEPT !.part = n]
  BY <1>2 DEF Clamped
<1>5. Clamped.part = n /\ (n = data.part => Clamped = data)
  BY <1>4 DEF Numbers
<1> QED BY <1>3, <1>4, <1>5 DEF n

LEMMA NotBeyond ==
  ASSUME ReadOK, Placed \/ FirstPart
  PROVE  ~Beyond
<1>1. data \in Numbers /\ data.ptr + data.part <= Len(buff)
  BY DEF Placed, FirstPart
<1>2. Len(buff) \in Nat
  BY LenProperties DEF ReadOK
<1>3. data.part \in Nat /\ data.ptr \in Nat /\ Clamped.part \in Nat /\ Clamped.part <= data.part
  BY <1>1, NumbersAre, ClampedIs
<1>4. \A p, n, m, w \in Nat : p + n <= w /\ m <= n => ~ (p + m > w)
  OBVIOUS
<1> QED BY <1>1, <1>2, <1>3, <1>4 DEF Beyond

LEMMA PlacedMoves ==
  ASSUME Placed, UNCHANGED <<read_vars, head, data, exchange>>,
         index' \in Nat, index' <= data.part \/ index' >= data.left \/ index' = index
  PROVE  Placed'
<1>1. data' = data /\ UNCHANGED <<stream, buff>> /\ Rest' = Rest /\ Base' = Base
  BY DEF read_vars, Rest, Base
<1> DEFINE gone == stream = <<>> /\ data.part = 0
           next == data.part < data.left => stream = SubSeq(Rest, Base + data.part + 1, Len(Rest))
<1>2. gone \/ ((index <= data.part \/ index >= data.left) /\ next)
  BY DEF Placed
<1>3. gone \/ ((index' <= data.part \/ index' >= data.left) /\ next)
  BY <1>2
<1> QED BY <1>1, <1>3 DEF Placed

(* The next block, or the end of what came.                                   *)
LEMMA PlacedBlock ==
  ASSUME ReadOK, Placed, Used_up, Next_part, UNCHANGED <<head, exchange>>, stage = "param",
         stage' \in {"param", "ended"}
  PROVE  Placed'
<1>1. /\ data \in Numbers /\ data.size \in Nat /\ data.left \in Nat /\ data.part \in Nat /\ data.ptr \in Nat
      /\ index \in Nat /\ index < data.left /\ index >= data.part /\ data.part <= data.left /\ data.left <= data.size
      /\ Base \in Nat /\ data.ptr + data.part <= Len(buff) /\ Base + data.part <= Len(Rest)
      /\ Len(Rest) \in Nat /\ Len(buff) \in Nat
  BY PlacedIs DEF Used_up
<1>2. CASE stage' = "ended"
  <2>1. Closed /\ data' = [data EXCEPT !.part = 0] /\ UNCHANGED <<read_vars, index>>
    <3>1. stage' # stage /\ stage' # "threw"
      BY <1>2
    <3> HIDE DEF Closed
    <3> QED BY <3>1 DEF Next_part
  <2>2. data' \in Numbers /\ data'.size = data.size /\ data'.left = data.left /\ data'.part = 0 /\ data'.ptr = data.ptr
    BY <1>1, <2>1 DEF Numbers
  <2>3. UNCHANGED <<stream, buff>> /\ Rest' = Rest /\ stream = <<>> /\ index' = index
    BY <2>1 DEF read_vars, Rest, Closed
  <2>4. Base' = Base
    BY <2>2 DEF Base
  <2>5. 0 <= data.left /\ data.ptr + 0 <= Len(buff) /\ Base + 0 <= Len(Rest) /\ 1 .. 0 = {}
    BY <1>1
  <2> QED BY <1>1, <2>2, <2>3, <2>4, <2>5 DEF Placed
<1>3. CASE stage' = "param"
  <2>1. \E b \in Blocks : Arrives(b) /\ index' = 0
    <3>1. stage' # "threw" /\ stage' # "ended"
      BY <1>3
    <3> HIDE DEF Arrives
    <3> QED BY <3>1 DEF Next_part
  <2>2. stream # <<>>
    BY <2>1, NothingToRead
  <2>3. index = data.part /\ stream = SubSeq(Rest, Base + data.part + 1, Len(Rest))
    <3>1. index <= data.part \/ index >= data.left
      BY <2>2 DEF Placed
    <3>2. index = data.part /\ data.part < data.left
      BY <1>1, <3>1
    <3> QED BY <2>2, <3>2 DEF Placed
  <2>4. Fetched
    <3>1. Consumed = Base + data.part /\ Ahead = 0
      <4>1. \A s, l, n \in Nat : s - (l - n) = s - l + n /\ n - n = 0
        OBVIOUS
      <4>2. Consumed = data.size - (data.left - data.part) /\ Ahead = data.part - data.part
        BY <2>3 DEF Consumed, Ahead
      <4>3. data.size \in Nat /\ data.left \in Nat /\ data.part \in Nat
        BY <1>1
      <4> QED BY <4>1, <4>2, <4>3 DEF Base
    <3>2. Base + data.part + 0 = Base + data.part /\ 1 .. 0 = {}
      BY <1>1
    <3> QED BY <1>1, <2>3, <3>1, <3>2 DEF Fetched
  <2>5. Fetched'
    <3>1. stage \in {"text", "pairs", "param"} /\ stage' = stage
      BY <1>3
    <3> QED BY <2>4, <3>1, NextPartStep
  <2> QED BY <2>1, <2>5, FetchedIsPlaced
<1> QED BY <1>2, <1>3

-----------------------------------------------------------------------------
(* The steps of the reader of params.                                        *)

LEMMA ParamBegin ==
  ASSUME BodyInv, Param_begin, UNCHANGED <<exchange, whole>>
  PROVE  ParamRead' /\ Defined'
<1>1. ReadOK /\ stage = "param called" /\ data' = Clamped /\ UNCHANGED <<read_vars, head, index>>
      /\ stage' = (IF Beyond THEN "undefined" ELSE "param")
      /\ local' = [NoLocal EXCEPT !.value = file, !.from = index, !.bi = IF first_line THEN 2 ELSE 0]
  BY DEF Param_begin, Begin, BodyInv
<1>2. LocalOK'
  BY <1>1 DEF LocalOK, NoLocal
<1>3. ASSUME whole
      PROVE  ~Beyond /\ Placed'
  <2>1. Placed \/ FirstPart
    BY <1>1, <1>3 DEF BodyInv, ParamRead
  <2>2. ~Beyond
    BY <1>1, <2>1, NotBeyond
  <2>3. CASE FirstPart
    BY <1>1, <2>2, <2>3, FirstPartIsPlaced
  <2>4. CASE Placed
    <3>1. data' = data
      BY <1>1, <2>4, ClampedIs DEF Placed
    <3>2. index' \in Nat /\ index' = index
      BY <1>1, <2>4 DEF Placed
    <3> QED BY <1>1, <2>2, <2>4, <3>1, <3>2, PlacedMoves
  <2> QED BY <2>1, <2>2, <2>3, <2>4
<1> QED BY <1>1, <1>2, <1>3 DEF ParamRead, Defined

LEMMA ParamBlock ==
  ASSUME BodyInv, Param_block, UNCHANGED <<exchange, whole>>
  PROVE  ParamRead' /\ Defined'
<1>1. ReadOK /\ stage = "param" /\ Used_up /\ Next_part /\ UNCHANGED head
      /\ \E x : local' = [local EXCEPT !.from = 0, !.extra = x]
  BY Zenon DEF Param_block, BodyInv
<1>2. stage' \in {"param", "ended", "threw"}
  BY <1>1 DEF Next_part
<1>3. whole => Placed /\ LocalOK
  BY <1>1 DEF BodyInv, ParamRead
<1>4. LocalOK => LocalOK'
  BY <1>1 DEF LocalOK
<1>5. whole /\ stage' \in {"param", "ended"} => Placed'
  BY <1>1, <1>3, PlacedBlock
<1> QED BY <1>2, <1>3, <1>4, <1>5 DEF ParamRead, Defined

(* A step within a part: the reader goes on by a byte, stays, goes back, or   *)
(* leaves the body.                                                           *)
Steps(l, n) == /\ "bi" \in DOMAIN l /\ l.bi \in Nat
               /\ n \in Nat /\ (n <= data.part \/ n >= data.left)

LEMMA ParamGoesOn ==
  ASSUME Placed, NEW l, NEW n, Goes_on(l, n), Steps(l, n), UNCHANGED <<exchange, whole>>, stage = "param"
  PROVE  ParamRead' /\ Defined'
<1>1. local' = l /\ index' = n /\ stage' = "param" /\ UNCHANGED <<read_vars, head, data>>
  BY DEF Goes_on
<1>2. Placed'
  BY <1>1, PlacedMoves DEF Steps
<1>3. LocalOK'
  BY <1>1 DEF Steps, LocalOK
<1> QED BY <1>1, <1>2, <1>3 DEF ParamRead, Defined

LEMMA ParamReturns ==
  ASSUME Placed, Returns, UNCHANGED <<exchange, whole>>
  PROVE  ParamRead' /\ Defined'
<1>1. stage' = "param read" /\ UNCHANGED <<read_vars, head, data, index>>
  BY DEF Returns
<1>2. Placed'
  BY <1>1, PlacedMoves DEF Placed
<1> QED BY <1>1, <1>2 DEF ParamRead, Defined

LEMMA ParamStays ==
  ASSUME ~whole, UNCHANGED whole
  PROVE  ParamRead' /\ Defined'
BY DEF ParamRead, Defined

LEMMA InParam ==
  ASSUME ReadOK, Placed, LocalOK, index < data.part
  PROVE  /\ data.size \in Nat /\ data.left \in Nat /\ data.part \in Nat /\ index \in Nat
         /\ data.left <= data.size /\ local.bi \in Nat
         /\ Steps(local, index) /\ Steps(local, index + 1)
<1>1. /\ data.size \in Nat /\ data.left \in Nat /\ data.part \in Nat /\ index \in Nat /\ data.left <= data.size
      /\ local.bi \in Nat /\ "bi" \in DOMAIN local
  BY PlacedIs DEF LocalOK
<1>2. index <= data.part /\ index + 1 <= data.part /\ index + 1 \in Nat
  BY <1>1
<1> QED BY <1>1, <1>2 DEF Steps

LEMMA ParamBoundary ==
  ASSUME BodyInv, Param_boundary, UNCHANGED <<exchange, whole>>
  PROVE  ParamRead' /\ Defined'
<1> SUFFICES ASSUME whole PROVE ParamRead' /\ Defined'
  BY ParamStays
<1>1. ReadOK /\ stage = "param" /\ index < data.part
  BY Zenon DEF Param_boundary, In_param, BodyInv
<1>2. Placed /\ LocalOK
  BY <1>1 DEF BodyInv, ParamRead
<1>3. /\ data.size \in Nat /\ data.left \in Nat /\ data.part \in Nat /\ index \in Nat
      /\ data.left <= data.size /\ local.bi \in Nat
      /\ Steps(local, index) /\ Steps(local, index + 1)
  BY <1>1, <1>2, InParam
<1> DEFINE less == [local EXCEPT !.bi = @ - 1]
           anew == [local EXCEPT !.closing = FALSE, !.from = index, !.extra = <<>>]
           n == IF data.size - 2 = index THEN index + 3 ELSE index + 1
<1>4. \/ local.bi > 0 /\ Goes_on(less, index + 1)
      \/ Returns
      \/ Goes_on(anew, n)
  BY Zenon DEF Param_boundary
<1>5. local.bi > 0 => Steps(less, index + 1)
  <2>1. local.bi > 0 => "bi" \in DOMAIN less /\ less.bi = local.bi - 1 /\ local.bi - 1 \in Nat
    BY <1>2, <1>3 DEF LocalOK
  <2> HIDE DEF less
  <2> QED BY <1>3, <2>1 DEF Steps
<1>6. Steps(anew, n)
  <2>1. "bi" \in DOMAIN anew /\ anew.bi = local.bi
    BY <1>2 DEF LocalOK
  <2>2. n \in Nat /\ (n = index + 1 \/ n >= data.left)
    BY <1>3
  <2> HIDE DEF anew, n
  <2> QED BY <1>3, <2>1, <2>2 DEF Steps
<1> HIDE DEF less, anew, n
<1> QED BY <1>1, <1>2, <1>4, <1>5, <1>6, ParamGoesOn, ParamReturns

LEMMA ParamLine ==
  ASSUME BodyInv, Param_line, UNCHANGED <<exchange, whole>>
  PROVE  ParamRead' /\ Defined'
<1> SUFFICES ASSUME whole PROVE ParamRead' /\ Defined'
  BY ParamStays
<1>1. ReadOK /\ stage = "param" /\ index < data.part
  BY Zenon DEF Param_line, In_param, BodyInv
<1>2. Placed /\ LocalOK
  BY <1>1 DEF BodyInv, ParamRead
<1>3. local.bi \in Nat /\ "bi" \in DOMAIN local /\ Steps(local, index)
  BY <1>1, <1>2, InParam DEF LocalOK
<1> DEFINE next == [local EXCEPT !.line = FALSE, !.from = index, !.extra = <<>>]
<1>4. \/ Ends("threw") \/ Returns
      \/ Goes_on(next, index) \/ Goes_on([next EXCEPT !.value = TRUE], index)
      \/ \E x : Goes_on([next EXCEPT !.name = x], index)
  BY Zenon DEF Param_line
<1>5. "bi" \in DOMAIN next /\ next.bi = local.bi
  BY <1>3
<1> HIDE DEF next
<1>6. /\ Steps(next, index) /\ Steps([next EXCEPT !.value = TRUE], index)
      /\ \A x : Steps([next EXCEPT !.name = x], index)
  BY <1>3, <1>5 DEF Steps
<1>7. Ends("threw") => ParamRead' /\ Defined'
  BY DEF Ends, ParamRead, Defined
<1>8. ASSUME NEW x, Goes_on([next EXCEPT !.name = x], index)
      PROVE  ParamRead' /\ Defined'
  BY <1>1, <1>2, <1>6, <1>8, ParamGoesOn
<1>9. CASE Goes_on([next EXCEPT !.value = TRUE], index)
  BY <1>1, <1>2, <1>6, <1>9, ParamGoesOn
<1>10. CASE Goes_on(next, index)
  BY <1>1, <1>2, <1>6, <1>10, ParamGoesOn
<1>11. CASE Returns
  BY <1>2, <1>11, ParamReturns
<1> QED BY <1>4, <1>7, <1>8, <1>9, <1>10, <1>11

LEMMA ParamByte ==
  ASSUME BodyInv, Param_byte, UNCHANGED <<exchange, whole>>
  PROVE  ParamRead' /\ Defined'
<1> SUFFICES ASSUME whole PROVE ParamRead' /\ Defined'
  BY ParamStays
<1>1. ReadOK /\ stage = "param" /\ index < data.part
  BY Zenon DEF Param_byte, In_param, BodyInv
<1>2. Placed /\ LocalOK
  BY <1>1 DEF BodyInv, ParamRead
<1>3. /\ data.part \in Nat /\ index \in Nat /\ local.bi \in Nat /\ "bi" \in DOMAIN local
      /\ Steps(local, index) /\ Steps(local, index + 1)
  BY <1>1, <1>2, InParam DEF LocalOK
<1> DEFINE full == [local EXCEPT !.bi = 2, !.closing = TRUE]
           more == [local EXCEPT !.bi = @ + 1]
           none == [local EXCEPT !.bi = 0]
           back == Back(local)
<1>4. \/ Goes_on(full, index + 1) \/ Goes_on(more, index + 1)
      \/ Goes_on(local, index + 1) \/ Goes_on(none, index)
      \/ local.bi >= 2 /\ Goes_on(back.local, back.index)
  BY Zenon DEF Param_byte
<1>5. Steps(full, index + 1) /\ Steps(more, index + 1) /\ Steps(none, index)
  <2>1. "bi" \in DOMAIN full /\ full.bi = 2 /\ "bi" \in DOMAIN more /\ more.bi = local.bi + 1
        /\ "bi" \in DOMAIN none /\ none.bi = 0
    BY <1>3
  <2> HIDE DEF full, more, none
  <2> QED BY <1>3, <2>1 DEF Steps
<1>6. local.bi >= 2 => Steps(back.local, back.index)
  <2> SUFFICES ASSUME local.bi >= 2 PROVE Steps(back.local, back.index)
    OBVIOUS
  <2>1. "bi" \in DOMAIN back.local /\ back.local.bi = 0
    BY <1>3 DEF Back
  <2>2. back.index = index - Min({index, local.bi - 2})
    BY DEF Back
  <2>3. local.bi - 2 \in Nat
    BY <1>3
  <2>4. Min({index, local.bi - 2}) = IF index <= local.bi - 2 THEN index ELSE local.bi - 2
    BY <1>3, <2>3, MinOfTwo
  <2> HIDE DEF back
  <2>5. back.index \in Nat /\ back.index <= index
    BY <1>3, <2>2, <2>3, <2>4
  <2>6. back.index <= data.part
    BY <1>1, <1>3, <2>5
  <2> QED BY <2>1, <2>5, <2>6 DEF Steps
<1> HIDE DEF full, more, none, back
<1> QED BY <1>1, <1>2, <1>3, <1>4, <1>5, <1>6, ParamGoesOn

LEMMA ParamEnds ==
  ASSUME BodyInv, Param_end \/ Param_read, UNCHANGED <<exchange, whole>>
  PROVE  ParamRead' /\ Defined'
<1>1. UNCHANGED <<read_vars, head, index, data>>
  BY DEF Param_end, Param_read
<1>2. stage' \in {"param called", "param read", "read"}
  BY DEF Param_end, Param_read
<1>3. whole => Placed
  <2>1. CASE Param_end
    <3>1. caller \notin {"text", "pairs"} /\ stage \in {"ended", "param"}
      BY <2>1 DEF Param_end
    <3> QED BY <3>1 DEF BodyInv, ParamRead
  <2>2. CASE Param_read
    BY <2>2 DEF Param_read, BodyInv, ParamRead
  <2> QED BY <2>1, <2>2
<1>4. whole => Placed'
  <2>1. Placed => index' = index /\ index' \in Nat
    BY <1>1 DEF Placed
  <2> QED BY <1>1, <1>3, <2>1, PlacedMoves
<1> QED BY <1>2, <1>4 DEF ParamRead, Defined

LEMMA ParamOverflows ==
  ASSUME BodyInv, Param_overflow, UNCHANGED <<exchange, whole>>
  PROVE  ParamRead' /\ Defined'
BY DEF Param_overflow, Ends, ParamRead, Defined

(* The other steps lead to no reader of params, but for the call of one.      *)
LEMMA OthersBegin ==
  ASSUME BodyInv, Text \/ Read_body(exchange.reader), exchange.reader \in {"text", "form", "pairs"},
         UNCHANGED <<exchange, whole>>
  PROVE  ParamRead' /\ Defined'
<1>1. CASE Text
  <2>1. stage = "text called" /\ stage' \in {"threw", "text", "undefined"} /\ (stage' = "undefined" => Beyond /\ Length # 0)
    BY <1>1 DEF Text, Begin, Ends
  <2>2. whole => stage' # "undefined"
    BY <2>1, NotBeyond DEF BodyInv, BodyFound
  <2> QED BY <2>1, <2>2 DEF ParamRead, Defined
<1>2. CASE Read_body(exchange.reader)
  <2>1. stage = "request" /\ stage' \in {"threw", "text called", "param called", "pairs", "undefined"}
        /\ (stage' \in {"param called", "undefined"} => Length # 0) /\ (stage' = "undefined" => Beyond)
    BY <1>2 DEF Read_body
  <2>2. whole /\ Length # 0 => FirstPart
    BY <2>1 DEF BodyInv, BodyFound
  <2>3. whole => stage' # "undefined"
    BY <2>1, <2>2, NotBeyond DEF BodyInv
  <2>4. stage' = "param called" => UNCHANGED <<read_vars, head, index, data>>
    BY <1>2 DEF Read_body
  <2>5. whole /\ stage' = "param called" => FirstPart'
    BY <2>1, <2>2, <2>4 DEF FirstPart, Rest, read_vars
  <2> QED BY <2>1, <2>3, <2>5 DEF ParamRead, Defined
<1> QED BY <1>1, <1>2

LEMMA OthersRead ==
  ASSUME BodyInv, UNCHANGED <<exchange, whole>>,
         Text_block \/ Text_part \/ Text_end \/ Pairs_block \/ Pairs_part \/ Pairs_end
  PROVE  ParamRead' /\ Defined'
<1>1. Next_part => stage' \in {stage, "ended", "threw"}
  BY DEF Next_part
<1>2. /\ stage \in {"text", "pairs"} \/ (stage = "ended" /\ caller \in {"text", "pairs"})
      /\ stage' \in {stage, "ended", "threw", "read"} /\ caller' = caller
  <2>1. CASE Text_block \/ Pairs_block
    BY <1>1, <2>1 DEF Text_block, Pairs_block, body_vars
  <2>2. CASE Text_part \/ Pairs_part
    BY <2>2 DEF Text_part, Pairs_part
  <2>3. CASE Text_end \/ Pairs_end
    BY <2>3 DEF Text_end, Pairs_end
  <2> QED BY <2>1, <2>2, <2>3
<1>3. caller \in {"text", "pairs"}
  BY <1>2 DEF BodyInv, BodyRead
<1> QED BY <1>2, <1>3 DEF ParamRead, Defined

LEMMA ParamReadStep ==
  ASSUME BodyInv, [Next]_vars
  PROVE  ParamRead' /\ Defined'
<1>1. CASE UNCHANGED <<request_vars, body_vars, exchange, whole>>
  BY <1>1 DEF BodyInv, ParamRead, Defined, Placed, FirstPart, LocalOK, Base, Rest, request_vars, read_vars, body_vars
<1>2. CASE Receive
  <2>1. stage' \in {"head", "closed", "parsed", "more", "undefined", "request"}
    BY <1>2 DEF Receive, RequestNext, Accept, ParseHead, MoreHead, StartBody, Ends
  <2>2. stage' = "undefined" => ~whole'
    <3>1. stage' = "undefined" => stage = "more"
      BY <1>2 DEF Receive, RequestNext, Accept, ParseHead, MoreHead, StartBody, Ends
    <3>2. stage = "more" => ~whole /\ whole' = whole
      BY <1>2 DEF Receive, BodyInv, HeadRead, InHead
    <3> QED BY <3>1, <3>2
  <2> QED BY <2>1, <2>2 DEF ParamRead, Defined
<1>3. CASE Read
  <2>1. /\ exchange.reader \in {"text", "form", "pairs"} /\ (Read_body(exchange.reader) \/ BodyNext)
        /\ UNCHANGED <<exchange, whole>>
    BY <1>3, ReaderIs DEF Read, BodyInv
  <2> QED BY <2>1, OthersBegin, OthersRead, ParamBegin, ParamBlock, ParamBoundary, ParamLine, ParamByte, ParamEnds, ParamOverflows
          DEF BodyNext
<1>4. CASE Answer \/ Respond \/ UNCHANGED vars
  BY <1>1, <1>4 DEF Answer, Respond, vars
<1> QED BY <1>2, <1>3, <1>4 DEF Next

-----------------------------------------------------------------------------
(* Where a reader stands.                                                    *)

(* What is before the reader: of Fetched and of Placed.                       *)
Ready ==
  /\ data \in Numbers /\ index \in Nat
  /\ data.part <= data.left /\ data.left <= data.size
  /\ data.ptr + data.part <= Len(buff) /\ Base + data.part <= Len(Rest)
  /\ \A k \in 1 .. data.part - index : buff[data.ptr + index + k] = Rest[Base + index + k]

LEMMA SeqWider ==
  ASSUME NEW S, NEW T, S \subseteq T, NEW s \in Seq(S)
  PROVE  s \in Seq(T)
<1>1. Len(s) \in Nat /\ s = [i \in 1 .. Len(s) |-> s[i]] /\ \A i \in 1 .. Len(s) : s[i] \in T
  BY LenProperties, ElementOfSeq
<1>2. s \in [1 .. Len(s) -> T]
  BY <1>1
<1> QED BY <1>1, <1>2, SeqDef

LEMMA FetchedIsReady ==
  ASSUME ReadOK, Fetched
  PROVE  Ready
<1>1. /\ data \in Numbers /\ data.size \in Nat /\ data.left \in Nat /\ data.part \in Nat /\ data.ptr \in Nat
      /\ index \in Nat /\ data.part <= data.left /\ data.left <= data.size /\ data.ptr + data.part <= Len(buff)
      /\ Consumed = data.size - (data.left - index) /\ Ahead = data.part - index /\ Consumed + Ahead <= Len(Rest)
  BY FetchedIs
<1>2. Consumed = Base + index /\ Consumed + Ahead = Base + data.part
  <2>1. \A s, l, p, i \in Nat : s - (l - i) = (s - l) + i /\ (s - l) + i + (p - i) = (s - l) + p
    OBVIOUS
  <2>2. data.size \in Nat /\ data.left \in Nat /\ data.part \in Nat /\ index \in Nat
    BY <1>1
  <2>3. /\ data.size - (data.left - index) = (data.size - data.left) + index
        /\ (data.size - data.left) + index + (data.part - index) = (data.size - data.left) + data.part
    BY <2>1, <2>2
  <2>4. Consumed = (data.size - data.left) + index /\ Ahead = data.part - index
    BY <1>1, <2>3
  <2> QED BY <2>3, <2>4 DEF Base
<1>3. \A k \in 1 .. data.part - index : buff[data.ptr + index + k] = Rest[Base + index + k]
  BY <1>1, <1>2 DEF Fetched
<1> QED BY <1>1, <1>2, <1>3 DEF Ready

LEMMA PlacedIsReady ==
  ASSUME ReadOK, Placed
  PROVE  Ready
<1>1. /\ data.part \in Nat /\ data.ptr \in Nat /\ index \in Nat /\ Base \in Nat
  BY PlacedIs
<1>2. ASSUME NEW k \in 1 .. data.part - index
      PROVE  buff[data.ptr + index + k] = Rest[Base + index + k]
  <2>1. index + k \in 1 .. data.part /\ data.ptr + (index + k) = data.ptr + index + k
        /\ Base + (index + k) = Base + index + k
    BY <1>1
  <2>2. buff[data.ptr + (index + k)] = Rest[Base + (index + k)]
    BY <2>1 DEF Placed
  <2> QED BY <2>1, <2>2
<1> QED BY <1>2 DEF Ready, Placed

LEMMA ReadyIsInPlace ==
  ASSUME ReadOK, Ready
  PROVE  InPlace
<1>1. /\ data.size \in Nat /\ data.left \in Nat /\ data.part \in Nat /\ data.ptr \in Nat /\ index \in Nat
      /\ data.part <= data.left /\ data.left <= data.size
      /\ data.ptr + data.part <= Len(buff) /\ Base + data.part <= Len(Rest) /\ Base \in Nat
      /\ Rest \in Seq(Bytes) /\ Len(Rest) \in Nat /\ Len(buff) \in Nat /\ buff \in Seq(Bytes \cup {"?"})
  <2>1. /\ data \in Numbers /\ index \in Nat /\ data.part <= data.left /\ data.left <= data.size
        /\ data.ptr + data.part <= Len(buff) /\ Base + data.part <= Len(Rest)
    BY DEF Ready
  <2>2. data.size \in Nat /\ data.left \in Nat /\ data.part \in Nat /\ data.ptr \in Nat
    BY <2>1, NumbersAre
  <2>3. Base \in Nat
    BY <2>1, <2>2 DEF Base
  <2> QED BY <2>1, <2>2, <2>3, RestIs, LenProperties DEF ReadOK
<1>2. PICK m : m = Min({data.size, Len(Rest)})
  OBVIOUS
<1>3. m \in Nat /\ m <= Len(Rest) /\ Base + data.part <= m
  <2>1. m = IF data.size <= Len(Rest) THEN data.size ELSE Len(Rest)
    BY <1>1, <1>2, MinOfTwo
  <2>2. Base + data.part <= data.size
    BY <1>1 DEF Base
  <2> QED BY <1>1, <2>1, <2>2
<1>4. Came = SubSeq(Rest, 1, m)
  BY <1>2 DEF Came
<1>5. Came \in Seq(Bytes) /\ Len(Came) = m /\ \A k \in 1 .. m : Came[k] = Rest[k]
  BY <1>1, <1>3, <1>4, TakeIs
<1>6. ASSUME index < data.part
      PROVE  Within(index, data.part) = SubSeq(Came, Base + index + 1, Base + data.part)
  <2> DEFINE n == data.part - index
             p == data.ptr + index
             q == Base + index
  <2>1. n \in Nat /\ p \in Nat /\ q \in Nat /\ p + n = data.ptr + data.part /\ q + n = Base + data.part
    <3>1. \A i, e, b, s \in Nat : i < e =>
            e - i \in Nat /\ b + i \in Nat /\ s + i \in Nat /\ b + i + (e - i) = b + e /\ s + i + (e - i) = s + e
      OBVIOUS
    <3>2. index \in Nat /\ data.part \in Nat /\ data.ptr \in Nat /\ Base \in Nat
      BY <1>1
    <3> QED BY <1>6, <3>1, <3>2
  <2>2. p + n <= Len(buff) /\ q + n <= Len(Came)
    BY <1>1, <1>3, <1>5, <2>1
  <2>3. Within(index, data.part) = SubSeq(buff, p + 1, p + n)
    BY <2>1 DEF Within
  <2>4. \A k \in 1 .. n : buff[p + k] = Rest[q + k]
    BY DEF Ready
  <2>5. Came \in Seq(Bytes \cup {"?"})
    BY <1>5, SeqWider
  <2> HIDE DEF n, p, q
  <2>6. /\ SubSeq(buff, p + 1, p + n) \in Seq(Bytes \cup {"?"}) /\ Len(SubSeq(buff, p + 1, p + n)) = n
        /\ \A k \in 1 .. n : SubSeq(buff, p + 1, p + n)[k] = buff[p + k]
    BY <1>1, <2>1, <2>2, MidIs
  <2>7. /\ SubSeq(Came, q + 1, q + n) \in Seq(Bytes \cup {"?"}) /\ Len(SubSeq(Came, q + 1, q + n)) = n
        /\ \A k \in 1 .. n : SubSeq(Came, q + 1, q + n)[k] = Came[q + k]
    BY <2>1, <2>2, <2>5, MidIs
  <2>8. \A k \in 1 .. n : Came[q + k] = Rest[q + k]
    <3>1. \A k \in 1 .. n : q + k \in 1 .. m
      BY <1>3, <1>5, <2>1, <2>2
    <3> QED BY <1>5, <3>1
  <2>9. SubSeq(buff, p + 1, p + n) = SubSeq(Came, q + 1, q + n)
    BY <2>4, <2>6, <2>7, <2>8, SeqEqual
  <2> QED BY <2>1, <2>3, <2>9 DEF q
<1> QED BY <1>1, <1>3, <1>5, <1>6 DEF InPlace, Base

-----------------------------------------------------------------------------
(* What is kept in buff_extra.                                               *)

LEMMA SeqIsSeq ==
  ASSUME NEW S, NEW s \in Seq(S)
  PROVE  IsSeq(s)
BY SeqOfRange DEF IsSeq

LEMMA NoneKept == IsSeq(<<>>) /\ Len(<<>>) = 0
<1>1. <<>> \in Seq({}) /\ Len(<<>>) = 0
  OBVIOUS
<1>2. IsSeq(<<>>)
  BY <1>1, SeqIsSeq, Zenon
<1> QED BY <1>1, <1>2

LEMMA JoinedIs ==
  ASSUME NEW a, NEW b, IsSeq(a), IsSeq(b)
  PROVE  /\ IsSeq(a \o b) /\ Len(a) \in Nat /\ Len(b) \in Nat /\ Len(a \o b) = Len(a) + Len(b)
<1> DEFINE T == Range(a) \cup Range(b)
<1>1. Range(a) \subseteq T /\ Range(b) \subseteq T /\ a \in Seq(Range(a)) /\ b \in Seq(Range(b))
  BY DEF IsSeq
<1> HIDE DEF T
<1>2. a \in Seq(T) /\ b \in Seq(T)
  BY <1>1, SeqWider
<1>3. a \o b \in Seq(T) /\ Len(a \o b) = Len(a) + Len(b) /\ Len(a) \in Nat /\ Len(b) \in Nat
  BY <1>2, ConcatProperties, LenProperties
<1>4. IsSeq(a \o b)
  BY <1>3, SeqIsSeq, Zenon
<1> QED BY <1>3, <1>4

LEMMA CutIs ==
  ASSUME NEW s, NEW m \in Int, NEW n \in Int
  PROVE  IsSeq(SubSeq(s, m, n)) /\ Len(SubSeq(s, m, n)) = IF m <= n THEN n - m + 1 ELSE 0
<1> DEFINE S == {s[i] : i \in m .. n}
<1>1. \A i \in m .. n : s[i] \in S
  OBVIOUS
<1> HIDE DEF S
<1>2. SubSeq(s, m, n) \in Seq(S) /\ Len(SubSeq(s, m, n)) = IF m <= n THEN n - m + 1 ELSE 0
  BY <1>1, SubSeqProperties
<1>3. IsSeq(SubSeq(s, m, n))
  BY <1>2, SeqIsSeq, Zenon
<1> QED BY <1>2, <1>3

LEMMA WithinIs ==
  ASSUME data.ptr \in Nat, NEW a \in Nat, NEW b \in Nat
  PROVE  IsSeq(Within(a, b)) /\ Len(Within(a, b)) \in Nat /\ Len(Within(a, b)) <= b
<1>1. /\ IsSeq(SubSeq(buff, data.ptr + a + 1, data.ptr + b))
      /\ Len(SubSeq(buff, data.ptr + a + 1, data.ptr + b)) =
           IF data.ptr + a + 1 <= data.ptr + b THEN data.ptr + b - (data.ptr + a + 1) + 1 ELSE 0
  BY CutIs
<1> QED BY <1>1 DEF Within

LEMMA BoundaryIs ==
  IsSeq(body_boundary) /\ Len(body_boundary) \in Nat /\ Len(body_boundary) >= 4
<1> DEFINE first == <<"\r", "\n", "-", "-">>
<1>1. first \in Seq({"\r", "\n", "-"}) /\ Len(first) = 4
  OBVIOUS
<1> HIDE DEF first
<1>2. IsSeq(first)
  BY <1>1, SeqIsSeq, Zenon
<1>4. IsSeq(Boundary)
  BY BodyAssumption DEF IsSeq
<1>3. IsSeq(body_boundary) /\ Len(Boundary) \in Nat /\ Len(body_boundary) = 4 + Len(Boundary)
  <2>1. body_boundary = first \o Boundary
    BY DEF body_boundary, first
  <2> QED BY <1>1, <1>2, <1>4, <2>1, JoinedIs
<1> QED BY <1>3

LEMMA ExtraSizeIs ==
  ASSUME ReadOK
  PROVE  Extra_size \in Int
<1>1. ExtraMin \in Int /\ 4 * Len(buff) \in Int
  BY BodyAssumption, LenProperties DEF ReadOK
<1> DEFINE a == ExtraMin
           b == 4 * Len(buff)
           m == IF a >= b THEN a ELSE b
<1> HIDE DEF a, b
<1>2. a \in Int /\ b \in Int
  BY <1>1 DEF a, b
<1>3. m \in {a, b} /\ \A y \in {a, b} : m >= y
  BY <1>2
<1>4. \A x \in {a, b} : (\A y \in {a, b} : x >= y) => x = m
  BY <1>2
<1>5. (CHOOSE x \in {a, b} : \A y \in {a, b} : x >= y) = m
  <2> HIDE DEF m
  <2> QED BY <1>3, <1>4
<1> QED BY <1>2, <1>5 DEF Extra_size, Max, a, b

LEMMA KeptSize ==
  ASSUME data.ptr \in Nat, index \in Nat, local.from \in Nat, IsSeq(local.extra), NEW b \in Nat, Len(local.extra) <= b
  PROVE  IsSeq(Kept) /\ Len(Kept) \in Nat /\ Len(Kept) <= b + index
<1>1. IsSeq(Within(local.from, index)) /\ Len(Within(local.from, index)) \in Nat /\ Len(Within(local.from, index)) <= index
  BY WithinIs
<1>2. /\ IsSeq(Kept) /\ Len(Kept) = Len(local.extra) + Len(Within(local.from, index)) /\ Len(local.extra) \in Nat
  BY <1>1, JoinedIs DEF Kept
<1> DEFINE e == Len(local.extra)
           w == Len(Within(local.from, index))
           k == Len(Kept)
<1>3. e \in Nat /\ e <= b /\ w \in Nat /\ w <= index /\ k = e + w
  BY <1>1, <1>2
<1> HIDE DEF e, w, k
<1>4. k \in Nat /\ k <= b + index
  BY <1>3
<1> QED BY <1>2, <1>4 DEF k

LEMMA LocalBegins ==
  ASSUME LocalAt(local, index), ~local.line, Base \in Nat
  PROVE  /\ LocalFields \subseteq DOMAIN local /\ local.from \in Nat /\ local.bi \in Nat /\ local.bi < Len(body_boundary)
         /\ IsSeq(local.extra) /\ Len(local.extra) <= Base
         /\ local.closing \in BOOLEAN /\ local.line = FALSE /\ (~local.closing => local.closing = FALSE)
<1>1. LocalIs(local)
  BY DEF LocalAt
<1>2. /\ LocalFields \subseteq DOMAIN local /\ IsSeq(local.extra) /\ local.line = FALSE
      /\ local.closing \in BOOLEAN /\ (~local.closing => local.closing = FALSE)
  BY <1>1, Zenon DEF LocalIs
<1>4. local.from \in Nat /\ local.bi \in Nat /\ local.bi < Len(body_boundary) /\ Len(local.extra) <= Base
  BY <1>2 DEF LocalAt
<1> QED BY <1>2, <1>4

LEMMA KeptIs ==
  ASSUME ReadOK, Placed, LocalAt(local, index), ~local.line
  PROVE  IsSeq(Kept) /\ Len(Kept) \in Nat /\ Len(Kept) <= Base + index
<1>1. data.ptr \in Nat /\ index \in Nat /\ Base \in Nat
  BY PlacedIs
<1>2. IsSeq(local.extra) /\ local.from \in Nat /\ Len(local.extra) <= Base
  BY <1>1, LocalBegins
<1> QED BY <1>1, <1>2, KeptSize

LEMMA LocalMade ==
  ASSUME NEW l, NEW n, LocalFields \subseteq DOMAIN l, IsSeq(l.extra), l.line = FALSE, l.closing \in BOOLEAN,
         l.from \in Nat, l.bi \in Nat, l.bi < Len(body_boundary), Len(l.extra) <= Base, Base \in Nat
  PROVE  LocalAt(l, n)
<1>1. LocalIs(l)
  BY Zenon DEF LocalIs
<1>2. ~ (l.line = TRUE)
  BY Zenon
<1> QED BY <1>1, <1>2 DEF LocalAt

LEMMA BackIs ==
  ASSUME Placed, ReadOK, LocalAt(local, index), ~local.line, ~local.closing, local.bi >= 2, index < data.part
  PROVE  /\ LocalAt(Back(local).local, Back(local).index)
         /\ Len(Back(local).local.extra) \in Nat
         /\ Len(Back(local).local.extra) <= Base + Len(body_boundary)
<1>1. index \in Nat /\ Base \in Nat /\ data.part \in Nat
  BY PlacedIs
<1>2. /\ LocalFields \subseteq DOMAIN local /\ local.from \in Nat /\ local.bi \in Nat /\ local.bi < Len(body_boundary)
      /\ IsSeq(local.extra) /\ Len(local.extra) <= Base /\ local.closing = FALSE
  BY <1>1, LocalBegins
<1> DEFINE again == local.bi - 2
           back == Min({index, again})
           put == SubSeq(body_boundary, 3, 2 + again - back)
           kept == local.extra \o put
           l == [local EXCEPT !.bi = 0, !.line = TRUE, !.extra = kept]
<1>3. again \in Nat /\ back = (IF index <= again THEN index ELSE again)
  <2>1. again \in Nat
    BY <1>2
  <2> QED BY <1>1, <2>1, MinOfTwo
<1>4. back \in Nat /\ back <= index /\ back <= again
  <2> HIDE DEF back, again
  <2> QED BY <1>1, <1>3
<1>5. IsSeq(put) /\ Len(put) = (IF 3 <= 2 + again - back THEN 2 + again - back - 3 + 1 ELSE 0)
  <2> HIDE DEF again, back
  <2> QED BY <1>3, <1>4, CutIs
<1>6. Len(put) \in Nat /\ Len(put) <= again
  <2> HIDE DEF again, back, put
  <2> QED BY <1>3, <1>4, <1>5
<1>7. IsSeq(kept) /\ Len(kept) = Len(local.extra) + Len(put) /\ Len(local.extra) \in Nat
  <2> HIDE DEF put
  <2> QED BY <1>2, <1>5, JoinedIs
<1>8. Len(kept) \in Nat /\ Len(kept) <= Base + Len(body_boundary) /\ 0 < Len(body_boundary)
  <2>1. again <= Len(body_boundary) /\ Len(body_boundary) \in Nat /\ Len(body_boundary) >= 4
    BY <1>2, BoundaryIs
  <2> HIDE DEF put, kept, again
  <2> QED BY <1>1, <1>2, <1>3, <1>6, <1>7, <2>1
<1>9. Back(local).local = l /\ Back(local).index = index - back
  BY DEF Back
<1>10. index - back < data.part
  <2> HIDE DEF back
  <2> QED BY <1>1, <1>4
<1> HIDE DEF again, back, put, kept
<1>11. /\ LocalFields \subseteq DOMAIN l /\ l.from = local.from /\ l.bi = 0 /\ l.extra = kept /\ l.line = TRUE /\ l.closing = FALSE
  BY <1>2 DEF LocalFields
<1> HIDE DEF l
<1>13. LocalIs(l)
  BY <1>7, <1>11 DEF LocalIs
<1>12. LocalAt(l, index - back)
  BY <1>2, <1>8, <1>10, <1>11, <1>13 DEF LocalAt
<1> QED BY <1>8, <1>9, <1>11, <1>12
(* The steps of the reader of params keep it.                                 *)
LEMMA RoomGoesOn ==
  ASSUME NEW l, NEW n, Goes_on(l, n), LocalAt(l, n), stage = "param"
  PROVE  Room'
<1>1. local' = l /\ index' = n /\ stage' = "param" /\ data' = data
  BY DEF Goes_on
<1>2. LocalAt(local, index)'
  BY <1>1 DEF LocalAt, LocalIs, LocalFields, Base, body_boundary
<1> QED BY <1>1, <1>2 DEF Room

LEMMA RoomLeft ==
  ASSUME stage' \notin {"param", "overflow"}
  PROVE  Room'
BY DEF Room

LEMMA RoomBegins ==
  ASSUME BodyInv, Param_begin, whole
  PROVE  Room'
<1>1. /\ stage = "param called" /\ data' = Clamped /\ index' = index
      /\ stage' = (IF Beyond THEN "undefined" ELSE "param")
      /\ local' = [NoLocal EXCEPT !.value = file, !.from = index, !.bi = IF first_line THEN 2 ELSE 0]
  BY DEF Param_begin, Begin
<1>2. data \in Numbers /\ data.left <= data.size /\ index \in Nat
  <2>1. CASE Placed
    BY <2>1 DEF Placed
  <2>2. CASE FirstPart
    <3>1. data \in Numbers /\ data.left = data.size /\ index = 0
      BY <2>2 DEF FirstPart
    <3> QED BY <3>1, NumbersAre
  <2> QED BY <1>1, <2>1, <2>2 DEF BodyInv, ParamRead
<1>3. data'.size = data.size /\ data'.left = data.left
  BY <1>1, <1>2, ClampedIs DEF Numbers
<1>4. Base' \in Nat
  BY <1>2, <1>3, NumbersAre DEF Base
<1>5. /\ LocalFields \subseteq DOMAIN local' /\ local'.from = index /\ local'.bi \in {0, 2} /\ local'.extra = <<>>
      /\ local'.line = FALSE /\ local'.closing = FALSE
  BY <1>1 DEF NoLocal, LocalFields
<1>6. local'.bi \in Nat /\ local'.bi < Len(body_boundary) /\ body_boundary' = body_boundary
  <2>1. \A n \in Nat, b \in {0, 2} : n >= 4 => b \in Nat /\ b < n
    OBVIOUS
  <2> QED BY <1>5, <2>1, BoundaryIs DEF body_boundary
<1>7. LocalAt(local, index)'
  <2>1. LocalIs(local)'
    BY <1>5, NoneKept DEF LocalIs, IsSeq, LocalFields
  <2>3. ~ (local'.line = TRUE)
    BY <1>5, Zenon
  <2>5. Len(local'.extra) = 0
    BY <1>5, NoneKept, Zenon
  <2>6. Len(local'.extra) <= Base'
    BY <1>4, <2>5
  <2>2. ~ (local'.line = TRUE) /\ Len(local'.extra) <= Base'
    BY <2>3, <2>6
  <2> QED BY <1>2, <1>5, <1>6, <2>1, <2>2, NoneKept DEF LocalAt
<1> QED BY <1>1, <1>7 DEF Room

LEMMA RoomBlock ==
  ASSUME BodyInv, Param_block, whole
  PROVE  Room'
<1>1. ReadOK /\ stage = "param" /\ Used_up /\ Next_part
      /\ \/ local' = [local EXCEPT !.from = 0, !.extra = <<>>]
         \/ local' = [local EXCEPT !.from = 0, !.extra = Kept]
  BY Zenon DEF Param_block, BodyInv
<1>2. Placed /\ LocalAt(local, index)
  BY <1>1 DEF BodyInv, ParamRead, Room
<1>3. index \in Nat /\ Base \in Nat /\ index >= data.part /\ index < data.left /\ data.part \in Nat /\ data.left \in Nat
      /\ data.size \in Nat /\ data \in Numbers
  BY <1>1, <1>2, PlacedIs DEF Used_up
<1>4. ~local.line
  <2>1. ~ (index < data.part) /\ LocalIs(local)
    BY <1>2, <1>3 DEF LocalAt
  <2>2. ~ (local.line = TRUE)
    BY <1>2, <2>1 DEF LocalAt
  <2> QED BY <2>1, <2>2, Zenon DEF LocalIs
<1>5. IsSeq(Kept) /\ Len(Kept) \in Nat /\ Len(Kept) <= Base + index
  BY <1>1, <1>2, <1>4, KeptIs
<1>6. stage' \in {stage, "ended", "threw"} /\ (stage' = stage => index' = 0 /\ data'.left = data.left - index /\ data'.size = data.size)
  <2>1. \A b : data' = [data EXCEPT !.left = @ - index, !.part = Min({Len(b), data.left - index}), !.ptr = 0]
               => data'.left = data.left - index /\ data'.size = data.size
    BY <1>3 DEF Numbers
  <2> QED BY <1>1, <2>1 DEF Next_part
<1>7. CASE stage' = "param"
  <2>1. Base' = Base + index /\ index' = 0
    <3>1. \A s, l, i \in Nat : s - (l - i) = (s - l) + i
      OBVIOUS
    <3> QED BY <1>1, <1>3, <1>6, <1>7, <3>1 DEF Base
  <2>2. local'.extra \in {<<>>, Kept} /\ local'.from = 0 /\ local'.line = local.line /\ local'.bi = local.bi
        /\ local'.closing = local.closing /\ LocalFields \subseteq DOMAIN local'
    <3>1. LocalFields \subseteq DOMAIN local
      BY <1>2, <1>3, <1>4, LocalBegins
    <3> QED BY <1>1, <3>1 DEF LocalFields
  <2>3. IsSeq(local'.extra) /\ Len(local'.extra) <= Base + index
    <3>1. IsSeq(local'.extra)
      BY <1>5, <2>2, NoneKept
    <3>2. Len(local'.extra) = 0 \/ Len(local'.extra) = Len(Kept)
      BY <2>2, NoneKept
    <3>3. Len(local'.extra) <= Base + index
      BY <1>3, <1>5, <3>2
    <3> QED BY <3>1, <3>3
  <2>5. /\ local.bi \in Nat /\ local.bi < Len(body_boundary) /\ local.line = FALSE /\ local.closing \in BOOLEAN
        /\ body_boundary' = body_boundary
    BY <1>2, <1>3, <1>4, LocalBegins DEF body_boundary
  <2>6. LocalIs(local)'
    BY <2>2, <2>3, <2>5, Zenon DEF LocalIs, IsSeq, LocalFields
  <2>7. ~ (local'.line = TRUE) /\ Base' = Base + index
    BY <2>1, <2>2, <2>5
  <2>4. LocalAt(local, index)'
    BY <2>1, <2>2, <2>3, <2>5, <2>6, <2>7 DEF LocalAt
  <2> QED BY <1>7, <2>4 DEF Room
<1>8. CASE stage' # "param"
  BY <1>1, <1>6, <1>8 DEF Room
<1> QED BY <1>7, <1>8

LEMMA RoomBoundary ==
  ASSUME BodyInv, Param_boundary, whole
  PROVE  Room'
<1>1. ReadOK /\ stage = "param" /\ index < data.part /\ local.closing
  BY Zenon DEF Param_boundary, In_param, BodyInv
<1>2. LocalAt(local, index) /\ Placed
  BY <1>1 DEF BodyInv, ParamRead, Room
<1> DEFINE less == [local EXCEPT !.bi = @ - 1]
           anew == [local EXCEPT !.closing = FALSE, !.from = index, !.extra = <<>>]
           n == IF data.size - 2 = index THEN index + 3 ELSE index + 1
<1>3. \/ local.bi > 0 /\ Goes_on(less, index + 1)
      \/ Returns
      \/ Goes_on(anew, n)
  BY Zenon DEF Param_boundary
<1>9. index \in Nat /\ Base \in Nat /\ 0 <= Base
  BY <1>1, <1>2, PlacedIs
<1>4. local.line = FALSE /\ local.closing = TRUE
  <2>1. LocalIs(local)
    BY <1>2 DEF LocalAt
  <2>2. local.closing # FALSE
    BY <1>1
  <2>3. ~ (local.line = TRUE)
    BY <1>2, <2>2 DEF LocalAt
  <2> QED BY <1>1, <2>1, <2>3, Zenon DEF LocalIs
<1>5. /\ LocalFields \subseteq DOMAIN local /\ local.from \in Nat /\ local.bi \in Nat /\ local.bi < Len(body_boundary)
      /\ IsSeq(local.extra) /\ Len(local.extra) <= Base
  <2>1. ~local.line
    BY <1>4
  <2> QED BY <1>2, <1>9, <2>1, LocalBegins
<1>6. ASSUME local.bi > 0
      PROVE  LocalAt(less, index + 1)
  <2>1. /\ LocalFields \subseteq DOMAIN less /\ less.from = local.from /\ less.bi = local.bi - 1 /\ less.extra = local.extra
        /\ less.line = FALSE /\ less.closing = TRUE
    BY <1>4, <1>5 DEF LocalFields
  <2>2. local.bi - 1 \in Nat /\ local.bi - 1 < Len(body_boundary)
    BY <1>5, <1>6, BoundaryIs
  <2> HIDE DEF less
  <2> QED BY <1>5, <1>9, <2>1, <2>2, LocalMade
<1>7. LocalAt(anew, n)
  <2>1. /\ LocalFields \subseteq DOMAIN anew /\ anew.from = index /\ anew.bi = local.bi /\ anew.extra = <<>>
        /\ anew.line = FALSE /\ anew.closing = FALSE
    BY <1>4, <1>5 DEF LocalFields
  <2> HIDE DEF anew, n
  <2>2. IsSeq(anew.extra) /\ Len(anew.extra) <= Base
    BY <1>9, <2>1, NoneKept
  <2> QED BY <1>5, <1>9, <2>1, <2>2, LocalMade
<1> HIDE DEF less, anew, n
<1>8. Returns => Room'
  BY RoomLeft DEF Returns
<1> QED BY <1>1, <1>3, <1>6, <1>7, <1>8, RoomGoesOn

LEMMA RoomLine ==
  ASSUME BodyInv, Param_line, whole
  PROVE  Room'
<1>1. ReadOK /\ stage = "param" /\ index < data.part /\ ~local.closing
  BY Zenon DEF Param_line, In_param, BodyInv
<1>2. LocalAt(local, index) /\ Placed
  BY <1>1 DEF BodyInv, ParamRead, Room
<1> DEFINE next == [local EXCEPT !.line = FALSE, !.from = index, !.extra = <<>>]
<1>3. \/ Ends("threw") \/ Returns
      \/ Goes_on(next, index) \/ Goes_on([next EXCEPT !.value = TRUE], index)
      \/ \E x : Goes_on([next EXCEPT !.name = x], index)
  BY Zenon DEF Param_line
<1>4. /\ LocalFields \subseteq DOMAIN next /\ next.from = index /\ next.bi = local.bi /\ next.extra = <<>>
      /\ next.line = FALSE /\ next.closing = FALSE
  <2>1. LocalIs(local)
    BY <1>2 DEF LocalAt
  <2>2. LocalFields \subseteq DOMAIN local /\ local.closing = FALSE
    BY <1>1, <2>1, Zenon DEF LocalIs
  <2> QED BY <2>2 DEF LocalFields
<1>5. index \in Nat /\ Base \in Nat /\ local.bi \in Nat /\ local.bi < Len(body_boundary) /\ 0 <= Base
  BY <1>1, <1>2, PlacedIs DEF LocalAt
<1> HIDE DEF next
<1>6. ASSUME NEW l, LocalFields \subseteq DOMAIN l, \A f \in LocalFields : l[f] = next[f]
      PROVE  LocalAt(l, index)
  <2>1. /\ l.from = index /\ l.bi = local.bi /\ l.extra = <<>> /\ l.line = FALSE /\ l.closing = FALSE
    BY <1>4, <1>6 DEF LocalFields
  <2>2. IsSeq(l.extra) /\ Len(l.extra) <= Base
    BY <1>5, <2>1, NoneKept
  <2> QED BY <1>5, <1>6, <2>1, <2>2, LocalMade
<1>7. LocalAt(next, index)
  BY <1>4, <1>6
<1>8. LocalAt([next EXCEPT !.value = TRUE], index)
  <2>1. /\ LocalFields \subseteq DOMAIN [next EXCEPT !.value = TRUE]
        /\ \A f \in LocalFields : [next EXCEPT !.value = TRUE][f] = next[f]
    BY <1>4 DEF LocalFields
  <2> QED BY <1>6, <2>1
<1>9. ASSUME NEW x
      PROVE  LocalAt([next EXCEPT !.name = x], index)
  <2>1. /\ LocalFields \subseteq DOMAIN [next EXCEPT !.name = x]
        /\ \A f \in LocalFields : [next EXCEPT !.name = x][f] = next[f]
    BY <1>4 DEF LocalFields
  <2> QED BY <1>6, <2>1
<1>10. Ends("threw") => Room'
  BY RoomLeft DEF Ends
<1>11. Returns => Room'
  BY RoomLeft DEF Returns
<1>12. CASE Goes_on(next, index)
  BY <1>1, <1>7, <1>12, RoomGoesOn
<1>13. CASE Goes_on([next EXCEPT !.value = TRUE], index)
  BY <1>1, <1>8, <1>13, RoomGoesOn
<1>14. ASSUME NEW x, Goes_on([next EXCEPT !.name = x], index)
       PROVE  Room'
  BY <1>1, <1>9, <1>14, RoomGoesOn
<1> QED BY <1>3, <1>10, <1>11, <1>12, <1>13, <1>14

LEMMA RoomByte ==
  ASSUME BodyInv, Param_byte, whole
  PROVE  Room'
<1>1. ReadOK /\ stage = "param" /\ index < data.part /\ ~local.closing /\ ~local.line
  BY Zenon DEF Param_byte, In_param, BodyInv
<1>2. LocalAt(local, index) /\ Placed
  BY <1>1 DEF BodyInv, ParamRead, Room
<1> DEFINE full == [local EXCEPT !.bi = 2, !.closing = TRUE]
           more == [local EXCEPT !.bi = @ + 1]
           none == [local EXCEPT !.bi = 0]
           back == Back(local)
<1>3. \/ Goes_on(full, index + 1)
      \/ local.bi + 1 # Len(body_boundary) /\ Goes_on(more, index + 1)
      \/ Goes_on(local, index + 1) \/ Goes_on(none, index)
      \/ local.bi >= 2 /\ Goes_on(back.local, back.index)
  BY Zenon DEF Param_byte
<1>4. /\ LocalFields \subseteq DOMAIN local /\ local.from \in Nat /\ local.bi \in Nat /\ local.bi < Len(body_boundary)
      /\ IsSeq(local.extra) /\ Len(local.extra) <= Base /\ local.closing = FALSE /\ local.line = FALSE
      /\ Base \in Nat
  BY <1>1, <1>2, PlacedIs, LocalBegins
<1>5. Len(body_boundary) \in Nat /\ 2 < Len(body_boundary) /\ 0 < Len(body_boundary)
  BY BoundaryIs
<1>6. ASSUME NEW l, NEW n, LocalFields \subseteq DOMAIN l, l.from = local.from, l.extra = local.extra, l.line = FALSE,
             l.closing \in BOOLEAN, l.bi \in Nat, l.bi < Len(body_boundary)
      PROVE  LocalAt(l, n)
  BY <1>4, <1>6, LocalMade
<1>7. LocalAt(full, index + 1) /\ LocalAt(local, index + 1) /\ LocalAt(none, index)
  <2>1. /\ LocalFields \subseteq DOMAIN full /\ full.from = local.from /\ full.extra = local.extra /\ full.line = FALSE
        /\ full.closing = TRUE /\ full.bi = 2
        /\ LocalFields \subseteq DOMAIN none /\ none.from = local.from /\ none.extra = local.extra /\ none.line = FALSE
        /\ none.closing = FALSE /\ none.bi = 0
    BY <1>4 DEF LocalFields
  <2> HIDE DEF full, none
  <2>4. full.bi \in Nat /\ full.bi < Len(body_boundary) /\ none.bi \in Nat /\ none.bi < Len(body_boundary)
    BY <1>5, <2>1
  <2>5. full.closing \in BOOLEAN /\ none.closing \in BOOLEAN
    BY <2>1, Zenon
  <2>2. LocalAt(full, index + 1)
    BY <1>6, <2>1, <2>4, <2>5, Zenon
  <2>3. LocalAt(none, index)
    BY <1>6, <2>1, <2>4, <2>5, Zenon
  <2> QED BY <1>4, <1>6, <2>2, <2>3
<1>8. ASSUME local.bi + 1 # Len(body_boundary)
      PROVE  LocalAt(more, index + 1)
  <2>1. /\ LocalFields \subseteq DOMAIN more /\ more.from = local.from /\ more.extra = local.extra /\ more.line = FALSE
        /\ more.closing = FALSE /\ more.bi = local.bi + 1
    BY <1>4 DEF LocalFields
  <2>2. local.bi + 1 \in Nat /\ local.bi + 1 < Len(body_boundary)
    BY <1>4, <1>5, <1>8
  <2> HIDE DEF more
  <2> QED BY <1>6, <2>1, <2>2
<1>9. local.bi >= 2 => LocalAt(back.local, back.index)
  BY <1>1, <1>2, BackIs
<1> HIDE DEF full, more, none, back
<1> QED BY <1>1, <1>3, <1>7, <1>8, <1>9, RoomGoesOn

LEMMA RoomOverflow ==
  ASSUME BodyInv, Param_overflow, whole
  PROVE  Room'
<1>1. ReadOK /\ stage = "param" /\ stage' = "overflow" /\ UNCHANGED <<buff, data>>
  BY DEF Param_overflow, In_param, Ends, read_vars, BodyInv
<1>2. LocalAt(local, index) /\ Placed
  BY <1>1 DEF BodyInv, ParamRead, Room
<1>3. /\ index \in Nat /\ Base \in Nat /\ data.part \in Nat /\ data.left \in Nat /\ data.size \in Nat
      /\ data.part <= data.left /\ data.left <= data.size
      /\ Len(body_boundary) \in Nat /\ Extra_size \in Int
  BY <1>1, <1>2, PlacedIs, BoundaryIs, ExtraSizeIs
<1>4. TooLong' = TooLong
  BY <1>1 DEF TooLong, Extra_size, body_boundary
<1>5. CASE (Used_up \/ (In_param /\ local.closing)) /\ Outgrows(Kept)
  <2>1. ~local.line /\ index <= data.left
    <3>1. ~ (index < data.part) \/ local.closing
      BY <1>3, <1>5 DEF Used_up
    <3>2. LocalIs(local)
      BY <1>2 DEF LocalAt
    <3>3. local.closing => local.closing # FALSE
      OBVIOUS
    <3>4. ~ (local.line = TRUE)
      BY <1>2, <3>1, <3>3 DEF LocalAt
    <3>5. index <= data.left
      BY <1>3, <1>5 DEF Used_up, In_param
    <3> QED BY <3>2, <3>4, <3>5, Zenon DEF LocalIs
  <2>2. Len(Kept) \in Nat /\ Len(Kept) <= Base + index
    BY <1>1, <1>2, <2>1, KeptIs
  <2>3. TooLong
    BY <1>3, <1>5, <2>1, <2>2 DEF TooLong, Outgrows, Base
  <2> QED BY <1>1, <1>4, <2>3 DEF Room
<1>6. CASE In_param /\ ~local.closing /\ ~local.line /\ local.bi >= 2 /\ Outgrows(Back(local).local.extra)
  <2>1. Len(Back(local).local.extra) \in Nat /\ Len(Back(local).local.extra) <= Base + Len(body_boundary)
    BY <1>1, <1>2, <1>6, BackIs DEF In_param
  <2>2. TooLong
    BY <1>3, <1>6, <2>1 DEF TooLong, Outgrows, Base
  <2> QED BY <1>1, <1>4, <2>2 DEF Room
<1> QED BY <1>5, <1>6, Zenon DEF Param_overflow

LEMMA RoomStep ==
  ASSUME BodyInv, [Next]_vars
  PROVE  Room'
<1>1. CASE UNCHANGED <<request_vars, body_vars, exchange, whole>>
  BY <1>1 DEF BodyInv, Room, LocalAt, TooLong, Base, Extra_size, body_boundary, request_vars, read_vars, body_vars
<1>2. CASE Receive
  <2>1. stage' \in {"head", "closed", "parsed", "more", "undefined", "request"}
    BY <1>2 DEF Receive, RequestNext, Accept, ParseHead, MoreHead, StartBody, Ends
  <2> QED BY <2>1, RoomLeft
<1>3. CASE Read
  <2>1. (Read_body(exchange.reader) \/ BodyNext) /\ whole' = whole
    BY <1>3 DEF Read
  <2>2. ~whole => Room'
    BY <2>1 DEF Room
  <2>3. Next_part => stage' \in {stage, "ended", "threw"}
    BY DEF Next_part
  <2>6. CASE Read_body(exchange.reader)
    <3>1. exchange.reader \in {"text", "form", "pairs"}
      BY <1>3, ReaderIs DEF BodyInv
    <3>2. stage' \notin {"param", "overflow"}
      BY <2>6, <3>1 DEF Read_body
    <3> QED BY <3>2, RoomLeft
  <2>4. CASE Text \/ Text_block \/ Text_part \/ Text_end
    <3>1. stage' \notin {"param", "overflow"}
      BY <2>3, <2>4 DEF Text, Text_block, Text_part, Text_end, Begin, Ends
    <3> QED BY <3>1, RoomLeft
  <2>5. CASE Pairs_block \/ Pairs_part \/ Pairs_end \/ Param_end \/ Param_read
    <3>1. stage' \notin {"param", "overflow"}
      BY <2>3, <2>5 DEF Pairs_block, Pairs_part, Pairs_end, Param_end, Param_read
    <3> QED BY <3>1, RoomLeft
  <2> QED BY <2>1, <2>2, <2>4, <2>5, <2>6, RoomBegins, RoomBlock, RoomBoundary, RoomLine, RoomByte, RoomOverflow
          DEF BodyNext
<1>4. CASE Answer \/ Respond \/ UNCHANGED vars
  BY <1>1, <1>4 DEF Answer, Respond, vars
<1> QED BY <1>2, <1>3, <1>4 DEF Next

(* A body is read as if it had come in one block (text, json, form and        *)
(* set_file of src/ManapiHttpRequest.cpp over read_next_part), for any bytes  *)
(* that clients send, any sizes of blocks and any places where they are cut,  *)
(* up to where what is kept of a param outgrows buff_extra; and that happens  *)
(* to no body that, with one boundary more, has room in it.                   *)
THEOREM BodyIsReadAsOne == Spec => []BodyAsOne
<1>1. Init => BodyInv
  BY BodyInit0
<1>2. BodyInv /\ [Next]_vars => BodyInv'
  <2> SUFFICES ASSUME BodyInv, [Next]_vars PROVE BodyInv'
    OBVIOUS
  <2>1. ReadOK /\ HeadRead /\ BodyFound
    BY DEF BodyInv
  <2>2. ReadOK'
    BY <2>1, ReadStep
  <2>3. HeadRead'
    BY <2>1, HeadReadStep
  <2>4. BodyFound'
    BY <2>1, BodyFoundStep
  <2>5. BodyRead' /\ OutAsOne'
    BY BodyReadStep
  <2>6. ParamRead' /\ Defined'
    BY ParamReadStep
  <2>7. Room'
    BY RoomStep
  <2> QED BY <2>2, <2>3, <2>4, <2>5, <2>6, <2>7 DEF BodyInv
<1>3. BodyInv => BodyAsOne
  <2> SUFFICES ASSUME BodyInv PROVE BodyAsOne
    OBVIOUS
  <2>1. whole /\ stage \in {"text", "pairs", "param"} => Fetched \/ Placed
    BY DEF BodyInv, BodyRead, ParamRead
  <2>2. whole /\ stage \in {"text", "pairs", "param"} => InPlace
    BY <2>1, FetchedIsReady, PlacedIsReady, ReadyIsInPlace DEF BodyInv
  <2> QED BY <2>2 DEF BodyInv, BodyAsOne, Defined, OutAsOne, Room, TooLong
<1> QED BY <1>1, <1>2, <1>3, PTL DEF Spec

-----------------------------------------------------------------------------
(* What is known of an answer: of the response, of what is planned, and of    *)
(* what was sent of it.                                                       *)
Bounds == (Nat \cup {-1}) \X Int
Fields == {"type", "data", "status", "compress_enabled", "compress", "partial", "replacers", "has_replacers", "ranges"}
ResponseOK(r) ==
  /\ Fields \subseteq DOMAIN r
  /\ r.type \in {"none", "text", "file"}
  /\ r.type = "text" => ByteString(r.data)
  /\ r.ranges \in Seq(Bounds)
  /\ r.partial => r.ranges # <<>>

Planned == plan.mode # "keys" /\ Open
Whole(n) ==
  /\ plan.bytes \in Seq(Range(plan.bytes)) /\ plan.size \in Nat /\ From \in Nat
  /\ plan.at = From + n /\ plan.at + plan.size = Len(plan.bytes)

PlanMade ==
  /\ plan.mode \in {"none", "text", "file", "part", "keys"}
  /\ plan.mode = "none" => plan = NoPlan
  /\ Planned /\ plan.mode # "none" => Whole(0) /\ plan.length = plan.size

(* What was sent is what is before the place of the plan, and it was          *)
(* announced with what is after it.                                           *)
PlanSent ==
  Planned /\ ~failed =>
    /\ Whole(Len(sent)) /\ Len(sent) \in Nat
    /\ sent = SubSeq(plan.bytes, From + 1, From + Len(sent))
    /\ heads[1].length = Len(sent) + plan.size

PlanFields == {"mode", "bytes", "at", "size"}
AnswerOK ==
  /\ page \in Pages /\ block \in Nat /\ asked.ranges \in Seq((Nat \cup {-1}) \X (Nat \cup {-1}))
  /\ ResponseOK(res) /\ PlanFields \subseteq DOMAIN plan
  /\ phase \in {"handle", "send", "head"} /\ ~failed => heads = <<>>
  /\ phase = "head" => PlanMade
  /\ phase \in {"text", "file", "part"} => plan.mode = phase /\ PlanSent /\ (~failed => Len(heads) = 1)
  /\ phase = "keys" => plan.mode = "keys"
  /\ phase \in {"handle", "send", "head", "text", "file", "part", "keys", "over", "undefined"}

AnswerInv == AnswerOK /\ AnswerInFull

-----------------------------------------------------------------------------
(* Layers and handlers keep a response what it is.                           *)

LEMMA CallKeeps ==
  ASSUME NEW r, NEW c, ResponseOK(r), c[1] = "text" => ByteString(c[2])
  PROVE  ResponseOK(Call(r, c))
<1> USE DEF ResponseOK, Fields
<1>1. CASE c[1] \in {"text", "file"}
  <2>1. Call(r, c) = [r EXCEPT !.type = c[1], !.data = c[2]]
    BY <1>1 DEF Call
  <2> DEFINE q == [r EXCEPT !.type = c[1], !.data = c[2]]
  <2>2. /\ Fields \subseteq DOMAIN q /\ q.type = c[1] /\ q.data = c[2]
        /\ q.ranges = r.ranges /\ q.partial = r.partial
    OBVIOUS
  <2> HIDE DEF q
  <2>3. ResponseOK(q)
    BY <1>1, <2>2
  <2> QED BY <2>1, <2>3 DEF q
<1>2. CASE c[1] = "status"
  BY <1>2 DEF Call
<1>3. CASE c[1] = "compress enabled"
  BY <1>3 DEF Call
<1>4. CASE c[1] = "compress"
  BY <1>4 DEF Call
<1>5. CASE c[1] = "partial"
  BY <1>5 DEF Call
<1>6. CASE c[1] = "replacers"
  <2> DEFINE p == IF r.ranges = <<>> THEN r.partial ELSE FALSE
             q == [r EXCEPT !.compress_enabled = FALSE, !.compress = "", !.has_replacers = TRUE,
                            !.replacers = c[2], !.partial = p]
  <2>1. Call(r, c) = q
    BY <1>6 DEF Call
  <2>2. Fields \subseteq DOMAIN q /\ q.type = r.type /\ q.data = r.data /\ q.ranges = r.ranges /\ q.partial = p
    OBVIOUS
  <2> HIDE DEF q
  <2>3. ResponseOK(q)
    BY <2>2
  <2> QED BY <2>1, <2>3
<1>7. CASE c[1] \notin {"text", "file", "status", "compress enabled", "compress", "partial", "replacers"}
  BY <1>7 DEF Call
<1> QED BY <1>1, <1>2, <1>3, <1>4, <1>5, <1>6, <1>7

Result(z) == "r" \in DOMAIN z /\ ResponseOK(z.r)

MadeAt(s, n, z) == Result(z)
MadeFold == INSTANCE Folding WITH Op <- MadeOne, Keeps <- MadeAt

LEMMA MadeFoldIs ==
  ASSUME NEW z, NEW s
  PROVE  FoldLeft(MadeOne, z, s) = MadeFold!FoldLeft(MadeOne, z, s)
BY DEF MadeFold!FoldLeft, MadeFold!MapThenFoldSet, MadeFold!Max, FoldLeft, MapThenFoldSet, Max

LEMMA MadeOneKeeps ==
  ASSUME NEW z, NEW c, Result(z), c[1] = "text" => ByteString(c[2])
  PROVE  Result(MadeOne(z, c))
<1>1. ResponseOK(Call(z.r, c))
  BY CallKeeps DEF Result
<1>2. Result(z) /\ Result([z EXCEPT !.threw = TRUE])
  BY DEF Result
<1>3. \A q, e : ResponseOK(q) => Result([z EXCEPT !.r = q, !.stop = e])
  BY DEF Result
<1>4. Result([z EXCEPT !.r = Call(@, c), !.stop = @ \/ c[1] = "stop"])
  BY <1>1, <1>3
<1> QED BY <1>2, <1>4 DEF MadeOne

LEMMA MadeKeeps ==
  ASSUME NEW r, NEW s, ResponseOK(r), Calls(s)
  PROVE  Result(Made(r, s))
<1> DEFINE base == [r |-> r, stop |-> FALSE, threw |-> FALSE]
<1>1. s \in Seq(Range(s)) /\ \A c \in Range(s) : c[1] = "text" => ByteString(c[2])
  BY DEF Calls
<1>2. \A n \in 0 .. Len(s) - 1 : s[n + 1] \in Range(s)
  <2>1. Len(s) \in Nat
    BY <1>1, LenProperties
  <2>2. \A n \in 0 .. Len(s) - 1 : n + 1 \in 1 .. Len(s)
    BY <2>1
  <2> QED BY <1>1, <2>2, ElementOfSeq
<1>3. MadeFold!Kept(s)
  BY <1>1, <1>2, MadeOneKeeps DEF MadeAt, MadeFold!Kept
<1>4. MadeAt(s, 0, base)
  BY DEF MadeAt, Result
<1>5. MadeAt(s, Len(s), MadeFold!FoldLeft(MadeOne, base, s))
  BY <1>1, <1>3, <1>4, MadeFold!FoldKeeps
<1> QED BY <1>5, MadeFoldIs DEF MadeAt, Made

LayerAt(s, n, z) == Result(z)
LayerFold == INSTANCE Folding WITH Op <- LayerOne, Keeps <- LayerAt

LEMMA LayerFoldIs ==
  ASSUME NEW z, NEW s
  PROVE  FoldLeft(LayerOne, z, s) = LayerFold!FoldLeft(LayerOne, z, s)
BY DEF LayerFold!FoldLeft, LayerFold!MapThenFoldSet, LayerFold!Max, FoldLeft, MapThenFoldSet, Max

LEMMA LayersKeep ==
  ASSUME NEW r, ResponseOK(r), page \in Pages
  PROVE  Result(Layers(r))
<1> DEFINE base == [r |-> r, stop |-> FALSE, threw |-> FALSE]
           s == page.layer
<1>1. s \in Seq(Range(s)) /\ \A l \in Range(s) : Calls(l)
  BY PagesAssumption
<1> HIDE DEF s
<1>2. \A n \in 0 .. Len(s) - 1 : s[n + 1] \in Range(s)
  <2>1. Len(s) \in Nat
    BY <1>1, LenProperties
  <2>2. \A n \in 0 .. Len(s) - 1 : n + 1 \in 1 .. Len(s)
    BY <2>1
  <2> QED BY <1>1, <2>2, ElementOfSeq
<1>3. LayerFold!Kept(s)
  <2>1. \A z, l : Result(z) /\ Calls(l) => Result(LayerOne(z, l))
    BY MadeKeeps DEF LayerOne, Result
  <2> QED BY <1>1, <1>2, <2>1 DEF LayerAt, LayerFold!Kept
<1>4. LayerAt(s, 0, base)
  BY DEF LayerAt, Result
<1>5. LayerAt(s, Len(s), LayerFold!FoldLeft(LayerOne, base, s))
  BY <1>1, <1>3, <1>4, LayerFold!FoldKeeps
<1> QED BY <1>5, LayerFoldIs DEF LayerAt, Layers, s

LEMMA ResponseIsOK ==
  ASSUME asked.ranges \in Seq((Nat \cup {-1}) \X (Nat \cup {-1})), NEW status
  PROVE  ResponseOK(Response(status))
<1> DEFINE w == asked.ranges
           f == [k \in DOMAIN w |-> <<w[k][1], IF w[k][2] = -1 THEN -1 ELSE -w[k][2]>>]
<1>1. Len(w) \in Nat /\ DOMAIN w = 1 .. Len(w) /\ \A k \in 1 .. Len(w) : w[k] \in (Nat \cup {-1}) \X (Nat \cup {-1})
  BY LenProperties, ElementOfSeq
<1> HIDE DEF w
<1>2. \A x \in (Nat \cup {-1}) \X (Nat \cup {-1}) : <<x[1], IF x[2] = -1 THEN -1 ELSE -x[2]>> \in Bounds
  BY DEF Bounds
<1>3. f \in [1 .. Len(w) -> Bounds]
  BY <1>1, <1>2
<1> HIDE DEF f
<1>4. f \in Seq(Bounds)
  BY <1>1, <1>3, SeqDef
<1>5. Ranges = f
  BY DEF Ranges, f, w
<1> QED BY <1>4, <1>5 DEF Response, ResponseOK, Fields

LEMMA ErrorSent ==
  ASSUME AnswerOK, NEW status, Send_error(status)
  PROVE  page' \in Pages /\ ResponseOK(res') /\ phase' \in {"over", "handle"}
BY PagesAssumption, ResponseIsOK DEF AnswerOK, Send_error

LEMMA ThreeIs ==
  ASSUME NEW a, NEW b, NEW c
  PROVE  LET s == <<a, b, c>> IN s \in Seq(Range(s)) /\ Range(s) \subseteq {s[1], s[2], s[3]}
<1> DEFINE s == <<a, b, c>>
<1>1. s \in Seq({a, b, c}) /\ Len(s) = 3 /\ s[1] = a /\ s[2] = b /\ s[3] = c
  OBVIOUS
<1>2. DOMAIN s = 1 .. 3 /\ s = [i \in 1 .. 3 |-> s[i]]
  BY <1>1, LenProperties
<1> HIDE DEF s
<1>3. Range(s) \subseteq {s[1], s[2], s[3]} /\ \A i \in 1 .. 3 : s[i] \in Range(s)
  BY <1>1, <1>2 DEF Range
<1>4. s \in [1 .. 3 -> Range(s)]
  BY <1>2, <1>3
<1>5. s \in Seq(Range(s))
  BY <1>4, SeqDef
<1> QED BY <1>3, <1>5 DEF s

LEMMA HandleStep ==
  ASSUME AnswerOK, NEW readable, Handle(readable)
  PROVE  /\ page' \in Pages /\ ResponseOK(res') /\ phase' \in {"over", "handle", "send"}
         /\ UNCHANGED <<fixed, plan, rep, sent, heads, failed, short>> /\ phase = "handle"
<1> DEFINE layers == Layers(res)
           path   == page.statics \o asked.path
           static == << <<"compress enabled", TRUE>>, <<"partial", TRUE>>, <<"file", path>> >>
           answer == IF page.handler = NoPage THEN Made(layers.r, static)
                     ELSE IF readable THEN Made(layers.r, page.handler) ELSE [layers EXCEPT !.threw = TRUE]
<1>1. page \in Pages /\ ResponseOK(res)
  BY DEF AnswerOK
<1>2. Result(layers)
  BY <1>1, LayersKeep
<1>3. Calls(static)
  <2> HIDE DEF path
  <2>1. static \in Seq(Range(static)) /\ Range(static) \subseteq {static[1], static[2], static[3]}
    BY ThreeIs
  <2>2. static[1][1] # "text" /\ static[2][1] # "text" /\ static[3][1] # "text"
    OBVIOUS
  <2> HIDE DEF static
  <2> QED BY <2>1, <2>2 DEF Calls
<1>4. Result(answer)
  <2>1. CASE page.handler = NoPage
    <3>1. ResponseOK(layers.r)
      BY <1>2 DEF Result
    <3> HIDE DEF layers, static
    <3> QED BY <1>3, <2>1, <3>1, MadeKeeps
  <2>2. CASE page.handler # NoPage /\ readable
    <3>1. Calls(page.handler)
      BY <1>1, <2>2, PagesAssumption
    <3>2. ResponseOK(layers.r)
      BY <1>2 DEF Result
    <3> HIDE DEF layers
    <3> QED BY <2>2, <3>1, <3>2, MadeKeeps
  <2>3. CASE page.handler # NoPage /\ ~readable
    <3> HIDE DEF layers
    <3>1. Result([layers EXCEPT !.threw = TRUE])
      BY <1>2 DEF Result
    <3> QED BY <2>3, <3>1
  <2> QED BY <2>1, <2>2, <2>3
<1>5. /\ phase = "handle" /\ UNCHANGED <<failed, short>>
      /\ \/ phase' = "over" /\ UNCHANGED <<page, res, fixed, plan, rep, sent, heads>>
         \/ \E status : Send_error(status)
         \/ res' = layers.r /\ phase' = "send" /\ UNCHANGED <<page, fixed, plan, rep, sent, heads>>
         \/ res' = answer.r /\ phase' = "send" /\ UNCHANGED <<page, fixed, plan, rep, sent, heads>>
  <2> HIDE DEF layers, path
  <2>1. (LET l == layers
             p == path
             a == answer
         IN CASE asked.bad -> phase' = "over" /\ UNCHANGED <<page, res, fixed, plan, rep, sent, heads>>
              [] ~asked.bad /\ l.threw -> Send_error(503)
              [] ~asked.bad /\ ~l.threw /\ l.stop ->
                   res' = l.r /\ phase' = "send" /\ UNCHANGED <<page, fixed, plan, rep, sent, heads>>
              [] ~asked.bad /\ ~l.threw /\ ~l.stop /\ page.handler = NoPage
                 /\ (page.statics = NoPage \/ p \notin DOMAIN Files) -> Send_error(404)
              [] OTHER -> IF a.threw THEN Send_error(503)
                          ELSE res' = a.r /\ phase' = "send" /\ UNCHANGED <<page, fixed, plan, rep, sent, heads>>)
        /\ phase = "handle" /\ UNCHANGED <<failed, short>>
    BY DEF Handle, layers, path
  <2> HIDE DEF answer
  <2> QED BY <2>1
<1> HIDE DEF layers, path, static, answer
<1>6. ResponseOK(layers.r) /\ ResponseOK(answer.r)
  BY <1>2, <1>4 DEF Result
<1>7. \A status : Send_error(status) => page' \in Pages /\ ResponseOK(res') /\ phase' \in {"over", "handle"}
                    /\ UNCHANGED <<fixed, plan, rep, sent, heads>>
  BY ErrorSent DEF Send_error
<1> QED BY <1>1, <1>5, <1>6, <1>7

-----------------------------------------------------------------------------
(* What is planned.                                                          *)

Anything(s, n, z) == TRUE
SizeFold == INSTANCE Folding WITH Op <- Resized, Keeps <- Anything

LEMMA NoKeysNoChange ==
  ASSUME NEW n
  PROVE  DynamicSize(n, <<>>) = n
<1>1. FoldLeft(Resized, n, <<>>) = SizeFold!FoldLeft(Resized, n, <<>>)
  BY DEF SizeFold!FoldLeft, SizeFold!MapThenFoldSet, SizeFold!Max, FoldLeft, MapThenFoldSet, Max
<1>2. SizeFold!FoldLeft(Resized, n, <<>>) = n
  BY SizeFold!FoldEmpty
<1> QED BY <1>1, <1>2 DEF DynamicSize

Start(ranges) == IF ranges = <<>> \/ ranges[1][1] = -1 THEN 0 ELSE ranges[1][1]

LEMMA PlanOfGives ==
  ASSUME NEW r, ResponseOK(r), ~ Refused(r)
  PROVE  LET p == PlanOf(r)
         IN /\ PlanFields \subseteq DOMAIN p
            /\ \/ p = NoPlan
               \/ p.mode = "keys"
               \/ /\ p.mode \in {"text", "file"} /\ p.bytes \in Seq(Range(p.bytes))
                  /\ p.at = 0 /\ p.size = Len(p.bytes) /\ p.length = p.size
               \/ /\ p.mode = "part" /\ p.bytes \in Seq(Range(p.bytes)) /\ r.ranges # <<>>
                  /\ p.at = Start(r.ranges) /\ p.length = p.size
                  /\ r.ranges[1][2] = -1 => p.size = Len(p.bytes) - 1 - Start(r.ranges) + 1
<1> DEFINE p     == PlanOf(r)
           bytes == IF r.type = "text" THEN r.data ELSE Files[r.data]
           body  == IF Compressor(r) # "" THEN Packed(bytes) ELSE bytes
           keys  == IF r.has_replacers THEN Found(body, r.replacers) ELSE <<>>
           start == Start(r.ranges)
           back  == IF r.ranges = <<>> THEN PartialMin - 1
                    ELSE IF r.ranges[1][2] # -1 THEN r.ranges[1][2] ELSE Len(body) - 1
           With(mode, at, size, length) ==
             [NoPlan EXCEPT !.mode = mode, !.bytes = body, !.at = at, !.size = size, !.length = length, !.keys = keys]
<1>1. p = CASE r.type = "none" -> NoPlan
            [] r.type = "text" -> With("text", 0, Len(body), Len(body))
            [] r.type = "file" /\ r.partial /\ PartialMin <= Len(body) ->
                 With("part", start, back - start + 1, back - start + 1)
            [] OTHER -> With(IF keys = <<>> THEN "file" ELSE "keys", 0, Len(body), DynamicSize(Len(body), keys))
  BY DEF PlanOf, Start
<1>2. r.type # "none" => body \in Seq(Range(body))
  <2> SUFFICES ASSUME r.type # "none" PROVE body \in Seq(Range(body))
    OBVIOUS
  <2>1. CASE r.type = "text"
    BY <2>1 DEF ResponseOK, ByteString
  <2>2. CASE r.type = "file"
    <3>1. r.data \in DOMAIN Files
      BY <2>2 DEF Refused
    <3>2. ByteString(Files[r.data])
      BY <3>1, PagesAssumption
    <3> QED BY <2>2, <3>2 DEF ByteString
  <2> QED BY <2>1, <2>2 DEF ResponseOK
<1> HIDE DEF p, bytes, body, keys, start, back
<1>3. \A m, a, s, l : LET q == With(m, a, s, l)
                      IN q.mode = m /\ q.bytes = body /\ q.at = a /\ q.size = s /\ q.length = l
  BY DEF NoPlan
<1>8. PlanFields \subseteq DOMAIN p
  <2>1. \A m, a, s, l : PlanFields \subseteq DOMAIN With(m, a, s, l)
    BY DEF NoPlan, PlanFields
  <2>2. PlanFields \subseteq DOMAIN NoPlan
    BY DEF NoPlan, PlanFields
  <2>3. p = NoPlan \/ \E m, a, s, l : p = With(m, a, s, l)
    <3> HIDE DEF With
    <3> QED BY <1>1
  <2> QED BY <2>1, <2>2, <2>3
<1> HIDE DEF With
<1>4. CASE r.type = "none"
  BY <1>1, <1>4, <1>8 DEF p
<1>5. CASE r.type = "text"
  <2>1. p = With("text", 0, Len(body), Len(body))
    BY <1>1, <1>5
  <2>2. p.mode = "text" /\ p.bytes = body /\ p.at = 0 /\ p.size = Len(body) /\ p.length = Len(body)
    BY <1>3, <2>1
  <2> QED BY <1>2, <1>5, <1>8, <2>2 DEF p
<1>6. CASE r.type = "file" /\ r.partial /\ PartialMin <= Len(body)
  <2>1. p = With("part", start, back - start + 1, back - start + 1)
    BY <1>1, <1>6
  <2>2. p.mode = "part" /\ p.bytes = body /\ p.at = start /\ p.size = back - start + 1 /\ p.length = p.size
    BY <1>3, <2>1
  <2>3. r.ranges # <<>>
    BY <1>6 DEF ResponseOK
  <2>4. r.ranges[1][2] = -1 => back = Len(body) - 1
    BY <2>3 DEF back
  <2>5. r.ranges[1][2] = -1 => p.size = Len(p.bytes) - 1 - start + 1
    BY <2>2, <2>4
  <2> QED BY <1>2, <1>6, <1>8, <2>2, <2>3, <2>5 DEF p, start
<1>7. CASE r.type = "file" /\ ~ (r.partial /\ PartialMin <= Len(body))
  <2>1. p = With(IF keys = <<>> THEN "file" ELSE "keys", 0, Len(body), DynamicSize(Len(body), keys))
    BY <1>1, <1>7
  <2>2. CASE keys = <<>>
    <3>1. DynamicSize(Len(body), keys) = Len(body)
      BY <2>2, NoKeysNoChange
    <3>2. p = With("file", 0, Len(body), Len(body))
      BY <2>1, <2>2, <3>1
    <3>3. p.mode = "file" /\ p.bytes = body /\ p.at = 0 /\ p.size = Len(body) /\ p.length = Len(body)
      BY <1>3, <3>2
    <3> QED BY <1>2, <1>7, <1>8, <3>3 DEF p
  <2>3. CASE keys # <<>>
    <3>1. p.mode = "keys"
      BY <1>3, <2>1, <2>3
    <3> QED BY <1>8, <3>1 DEF p
  <2> QED BY <2>2, <2>3
<1> QED BY <1>4, <1>5, <1>6, <1>7, <1>8 DEF ResponseOK, p

LEMMA StartIs ==
  ASSUME ResponseOK(res), res.ranges # <<>>
  PROVE  /\ res.ranges[1] \in Range(res.ranges) /\ Start(res.ranges) \in Nat
         /\ Start(res.ranges) = 0 \/ Start(res.ranges) = res.ranges[1][1]
         /\ plan.mode = "part" => From = Start(res.ranges)
<1> DEFINE w == res.ranges
<1>1. w \in Seq(Bounds) /\ w # <<>>
  BY DEF ResponseOK
<1> HIDE DEF w
<1>2. Len(w) \in Nat /\ Len(w) # 0
  BY <1>1, LenProperties, EmptySeq
<1>3. 1 \in 1 .. Len(w)
  BY <1>2
<1>4. w[1] \in Bounds /\ w[1] \in Range(w)
  BY <1>1, <1>3, ElementOfSeq, LenProperties DEF Range
<1>5. w[1][1] \in Nat \cup {-1}
  BY <1>4 DEF Bounds
<1>6. Start(w) \in Nat /\ (Start(w) = 0 \/ Start(w) = w[1][1])
  BY <1>5 DEF Start
<1>7. plan.mode = "part" => From = Start(w)
  BY <1>1 DEF From, Start, w
<1> QED BY <1>4, <1>6, <1>7 DEF w

LEMMA PlanStep ==
  ASSUME AnswerOK, Send_response, phase' = "head"
  PROVE  PlanMade' /\ ResponseOK(res') /\ PlanFields \subseteq DOMAIN plan'
<1>1. ResponseOK(res) /\ ~ Refused(res) /\ plan' = PlanOf(res)
      /\ res' = IF plan'.mode = "part" THEN [res EXCEPT !.status = 206] ELSE res
  BY DEF AnswerOK, Send_response, Send_error
<1>2. ResponseOK(res') /\ res'.ranges = res.ranges /\ PlanFields \subseteq DOMAIN plan'
  <2>1. ResponseOK([res EXCEPT !.status = 206]) /\ [res EXCEPT !.status = 206].ranges = res.ranges
    BY <1>1 DEF ResponseOK, Fields
  <2> QED BY <1>1, <2>1, PlanOfGives
<1>3. \/ plan' = NoPlan
      \/ plan'.mode = "keys"
      \/ /\ plan'.mode \in {"text", "file"} /\ plan'.bytes \in Seq(Range(plan'.bytes))
         /\ plan'.at = 0 /\ plan'.size = Len(plan'.bytes) /\ plan'.length = plan'.size
      \/ /\ plan'.mode = "part" /\ plan'.bytes \in Seq(Range(plan'.bytes)) /\ res.ranges # <<>>
         /\ plan'.at = Start(res.ranges) /\ plan'.length = plan'.size
         /\ res.ranges[1][2] = -1 => plan'.size = Len(plan'.bytes) - 1 - Start(res.ranges) + 1
  BY <1>1, PlanOfGives
<1>4. CASE plan' = NoPlan
  BY <1>2, <1>4 DEF PlanMade, NoPlan
<1>5. CASE plan'.mode = "keys"
  BY <1>2, <1>5 DEF PlanMade, Planned
<1>6. CASE /\ plan'.mode \in {"text", "file"} /\ plan'.bytes \in Seq(Range(plan'.bytes))
           /\ plan'.at = 0 /\ plan'.size = Len(plan'.bytes) /\ plan'.length = plan'.size
  <2>1. From' = 0 /\ Len(plan'.bytes) \in Nat
    BY <1>6, LenProperties DEF From
  <2>2. Whole(0)'
    BY <1>6, <2>1 DEF Whole
  <2> QED BY <1>2, <1>6, <2>2 DEF PlanMade
<1>7. CASE /\ plan'.mode = "part" /\ plan'.bytes \in Seq(Range(plan'.bytes)) /\ res.ranges # <<>>
           /\ plan'.at = Start(res.ranges) /\ plan'.length = plan'.size
           /\ res.ranges[1][2] = -1 => plan'.size = Len(plan'.bytes) - 1 - Start(res.ranges) + 1
  <2> SUFFICES ASSUME Open' PROVE Whole(0)'
    BY <1>2, <1>7 DEF PlanMade, Planned
  <2>1. /\ res.ranges[1] \in Range(res.ranges) /\ Start(res.ranges) \in Nat
        /\ Start(res.ranges) = 0 \/ Start(res.ranges) = res.ranges[1][1]
    BY <1>1, <1>7, StartIs
  <2>2. res.ranges[1][2] = -1 /\ res.ranges[1][1] < Len(plan'.bytes)
    BY <1>2, <1>7, <2>1 DEF Open
  <2>3. From' = Start(res.ranges)
    BY <1>2, <1>7 DEF From, Start
  <2>4. Len(plan'.bytes) \in Nat /\ Start(res.ranges) <= Len(plan'.bytes)
    BY <1>7, <2>1, <2>2, LenProperties
  <2>5. plan'.size = Len(plan'.bytes) - Start(res.ranges)
    BY <1>7, <2>1, <2>2, <2>4
  <2> QED BY <1>7, <2>1, <2>3, <2>4, <2>5 DEF Whole
<1> QED BY <1>3, <1>4, <1>5, <1>6, <1>7

-----------------------------------------------------------------------------
(* What is sent.                                                             *)

(* What is taken of a sequence in two parts is what is taken of it at once.   *)
LEMMA MidMore ==
  ASSUME NEW S, NEW w \in Seq(S), NEW f \in Nat, NEW l \in Nat, NEW n \in Nat, f + l + n <= Len(w)
  PROVE  /\ SubSeq(w, f + 1, f + l) \o SubSeq(w, f + l + 1, f + l + n) = SubSeq(w, f + 1, f + (l + n))
         /\ Len(SubSeq(w, f + 1, f + (l + n))) = l + n
<1> DEFINE was == SubSeq(w, f + 1, f + l)
           part == SubSeq(w, f + l + 1, f + l + n)
           now == SubSeq(w, f + 1, f + (l + n))
<1>1. /\ f + (l + n) <= Len(w) /\ f + l <= Len(w) /\ f + l \in Nat /\ l + n \in Nat
  BY LenProperties
<1>2. was \in Seq(S) /\ Len(was) = l /\ \A k \in 1 .. l : was[k] = w[f + k]
  BY <1>1, MidIs
<1>3. now \in Seq(S) /\ Len(now) = l + n /\ \A k \in 1 .. l + n : now[k] = w[f + k]
  BY <1>1, MidIs
<1>4. part \in Seq(S) /\ Len(part) = n /\ \A k \in 1 .. n : part[k] = w[f + l + k]
  BY <1>1, MidIs
<1> HIDE DEF was, part, now
<1>5. was \o part \in Seq(S) /\ Len(was \o part) = l + n
  BY <1>2, <1>4, ConcatProperties
<1>6. \A k \in 1 .. l + n : (was \o part)[k] = now[k]
  <2> SUFFICES ASSUME NEW k \in 1 .. l + n PROVE (was \o part)[k] = now[k]
    OBVIOUS
  <2>1. (was \o part)[k] = IF k <= Len(was) THEN was[k] ELSE part[k - Len(was)]
    BY <1>2, <1>4, ConcatProperties
  <2>2. CASE k <= l
    BY <1>2, <1>3, <2>1, <2>2
  <2>3. CASE ~ (k <= l)
    <3>1. k - l \in 1 .. n /\ f + l + (k - l) = f + k
      BY <2>3
    <3> QED BY <1>2, <1>3, <1>4, <2>1, <2>3, <3>1
  <2> QED BY <2>2, <2>3
<1>7. was \o part = now
  BY <1>3, <1>5, <1>6, SeqEqual
<1> QED BY <1>3, <1>7 DEF was, part, now

(* A place in a sequence moved on by n, of the d that are left.               *)
LEMMA PlaceMoves ==
  ASSUME NEW f \in Nat, NEW l \in Nat, NEW d \in Nat, NEW n \in Nat, NEW w \in Nat, NEW p, NEW q, NEW h,
         p = f + l, p + d = w, h = l + d, n <= d, q = p + n
  PROVE  /\ f + l + n <= w /\ p + 1 = f + l + 1 /\ q = f + l + n
         /\ d - n \in Nat /\ q = f + (l + n) /\ q + (d - n) = w /\ h = (l + n) + (d - n) /\ l + n \in Nat
OBVIOUS

(* A write of n bytes more.                                                   *)
Sends(n) ==
  /\ n <= plan.size /\ PlanFields \subseteq DOMAIN plan
  /\ sent' = sent \o SubSeq(plan.bytes, plan.at + 1, plan.at + n)
  /\ plan' = [plan EXCEPT !.at = @ + n, !.size = @ - n] /\ UNCHANGED <<res, heads>>

LEMMA SentMore ==
  ASSUME PlanSent, Planned, ~failed, ~failed', NEW n \in Nat, Sends(n)
  PROVE  PlanSent'
<1> DEFINE w == plan.bytes
           f == From
           l == Len(sent)
           d == plan.size
           S == Range(w)
<1>1. /\ w \in Seq(S) /\ d \in Nat /\ f \in Nat /\ l \in Nat /\ Len(w) \in Nat
      /\ plan.at = f + l /\ plan.at + d = Len(w) /\ sent = SubSeq(w, f + 1, f + l)
      /\ heads[1].length = l + d /\ n <= d
  BY LenProperties DEF PlanSent, Whole, Sends
<1>2. /\ plan'.bytes = w /\ plan'.at = plan.at + n /\ plan'.size = d - n /\ plan'.mode = plan.mode
      /\ sent' = sent \o SubSeq(w, plan.at + 1, plan.at + n) /\ heads' = heads
  BY DEF PlanFields, Sends
<1>3. From' = f
  BY <1>2 DEF From, Sends
<1> HIDE DEF w, f, l, d, S
<1>4. /\ f + l + n <= Len(w) /\ plan.at + 1 = f + l + 1 /\ plan.at + n = f + l + n
      /\ d - n \in Nat /\ plan.at + n = f + (l + n) /\ (plan.at + n) + (d - n) = Len(w)
      /\ heads[1].length = (l + n) + (d - n) /\ l + n \in Nat
  BY <1>1, PlaceMoves
<1>5. sent' = SubSeq(w, f + 1, f + (l + n)) /\ Len(sent') = l + n
  <2>1. sent' = SubSeq(w, f + 1, f + l) \o SubSeq(w, f + l + 1, f + l + n)
    BY <1>1, <1>2, <1>4
  <2>2. w \in Seq(S) /\ f \in Nat /\ l \in Nat /\ f + l + n <= Len(w)
    BY <1>1, <1>4
  <2>3. /\ SubSeq(w, f + 1, f + l) \o SubSeq(w, f + l + 1, f + l + n) = SubSeq(w, f + 1, f + (l + n))
        /\ Len(SubSeq(w, f + 1, f + (l + n))) = l + n
    BY <2>2, MidMore
  <2> QED BY <2>1, <2>3
<1>7. plan'.size \in Nat /\ plan'.at = f + (l + n) /\ plan'.at + plan'.size = Len(w)
      /\ heads'[1].length = (l + n) + plan'.size
  BY <1>2, <1>4
<1>8. plan'.bytes \in Seq(Range(plan'.bytes)) /\ From' \in Nat
  BY <1>1, <1>2, <1>3 DEF S
<1> QED BY <1>2, <1>3, <1>4, <1>5, <1>7, <1>8 DEF PlanSent, Whole

(* The end of the loops.                                                      *)
LEMMA AllSent ==
  ASSUME PlanSent, Planned, ~failed, plan.size = 0, Len(heads) = 1, plan.mode # "none"
  PROVE  /\ heads[1].length = IF plan.mode = "none" THEN -1 ELSE Len(sent)
         /\ sent = SubSeq(plan.bytes, From + 1, Len(plan.bytes))
<1>1. /\ Len(sent) \in Nat /\ From \in Nat /\ plan.at = From + Len(sent) /\ plan.at + plan.size = Len(plan.bytes)
      /\ sent = SubSeq(plan.bytes, From + 1, From + Len(sent)) /\ heads[1].length = Len(sent) + plan.size
  BY DEF PlanSent, Whole
<1>2. From + Len(sent) = Len(plan.bytes) /\ heads[1].length = Len(sent)
  BY <1>1
<1> QED BY <1>1, <1>2

(* The plan, and what it is from, are not touched.                             *)
LEMMA PlanFrame ==
  ASSUME UNCHANGED <<plan, res>>
  PROVE  UNCHANGED <<Open, From, Planned>>
BY DEF Open, From, Planned

LEMMA ResponseSends ==
  ASSUME AnswerInv, Send_response
  PROVE  AnswerInv'
<1>1. /\ AnswerOK /\ phase = "send" /\ UNCHANGED <<fixed, rep, sent, heads, failed, short>> /\ (~failed => heads = <<>>)
  BY DEF AnswerInv, AnswerOK, Send_response, Send_error
<1>2. UNCHANGED <<asked, block>> /\ block \in Nat /\ asked.ranges \in Seq((Nat \cup {-1}) \X (Nat \cup {-1}))
  BY <1>1 DEF AnswerOK, fixed
<1>3. CASE Send_error(503)
  <2>1. page' \in Pages /\ ResponseOK(res') /\ phase' \in {"over", "handle"}
    BY <1>1, <1>3, ErrorSent
  <2>2. PlanFields \subseteq DOMAIN plan'
    BY <1>1, <1>3 DEF AnswerOK, Send_error
  <2> QED BY <1>1, <1>2, <2>1, <2>2 DEF AnswerInv, AnswerOK, AnswerInFull
<1>4. CASE phase' = "head" /\ UNCHANGED page
  <2>1. PlanMade' /\ ResponseOK(res') /\ PlanFields \subseteq DOMAIN plan'
    BY <1>1, <1>4, PlanStep
  <2>2. page' \in Pages
    BY <1>1, <1>4 DEF AnswerOK
  <2> QED BY <1>1, <1>2, <1>4, <2>1, <2>2 DEF AnswerInv, AnswerOK, AnswerInFull
<1> QED BY <1>3, <1>4 DEF Send_response

LEMMA HeadSent ==
  ASSUME AnswerInv, Send_head
  PROVE  AnswerInv'
<1>1. /\ AnswerOK /\ phase = "head" /\ UNCHANGED <<page, asked, block, res, plan, short>> /\ (~failed => heads = <<>>) /\ PlanMade
  BY DEF AnswerInv, AnswerOK, Send_head
<1>2. /\ page' \in Pages /\ block' \in Nat /\ asked'.ranges \in Seq((Nat \cup {-1}) \X (Nat \cup {-1}))
      /\ ResponseOK(res') /\ PlanFields \subseteq DOMAIN plan'
  BY <1>1 DEF AnswerOK, fixed
<1>3. CASE phase' = "over" /\ failed'
  BY <1>2, <1>3 DEF AnswerInv, AnswerOK, AnswerInFull
<1>4. CASE /\ heads' = Append(heads, [status |-> res.status, length |-> plan.length]) /\ sent' = <<>>
           /\ phase' = IF plan.mode = "none" THEN "over" ELSE plan.mode
           /\ UNCHANGED failed
  <2>1. ~failed => Len(heads') = 1 /\ heads'[1].length = plan.length
    <3>1. \A x : LET s == Append(<<>>, x) IN Len(s) = 1 /\ s[1] = x
      OBVIOUS
    <3> QED BY <1>1, <1>4, <3>1
  <2>2. Len(sent') = 0
    BY <1>4
  <2>3. CASE plan.mode = "none"
    <3>1. phase' = "over" /\ plan = NoPlan
      BY <1>1, <1>4, <2>3 DEF PlanMade
    <3>2. plan'.bytes = <<>> /\ plan'.mode = "none" /\ plan.length = -1
      BY <1>1, <3>1 DEF NoPlan
    <3>3. From' = 0
      BY <3>2 DEF From
    <3>4. SubSeq(<<>>, 0 + 1, Len(<<>>)) = <<>>
      BY SubSeqEmpty
    <3>5. AnswerInFull'
      BY <1>4, <2>1, <3>1, <3>2, <3>3, <3>4 DEF AnswerInFull
    <3> QED BY <1>2, <3>1, <3>5 DEF AnswerInv, AnswerOK
  <2>4. CASE plan.mode = "keys"
    <3>1. phase' = "keys" /\ plan'.mode = "keys"
      BY <1>1, <1>4, <2>4
    <3> QED BY <1>2, <3>1 DEF AnswerInv, AnswerOK, AnswerInFull
  <2>5. CASE plan.mode \in {"text", "file", "part"}
    <3>1. phase' \in {"text", "file", "part"} /\ plan'.mode = phase'
      BY <1>1, <1>4, <2>5
    <3>2. PlanSent'
      <4> SUFFICES ASSUME Planned', ~failed'
                   PROVE  /\ Whole(Len(sent))' /\ Len(sent') \in Nat
                          /\ sent' = SubSeq(plan'.bytes, From' + 1, From' + Len(sent'))
                          /\ heads'[1].length = Len(sent') + plan'.size
        BY DEF PlanSent
      <4>1. From' = From /\ Planned
        BY <1>1, PlanFrame
      <4>2. Whole(0) /\ plan.length = plan.size
        BY <1>1, <2>5, <4>1 DEF PlanMade
      <4>3. Whole(Len(sent))'
        BY <1>1, <2>2, <4>1, <4>2 DEF Whole
      <4>4. SubSeq(plan.bytes, From + 1, From + 0) = <<>>
        <5>1. From \in Nat /\ plan.bytes \in Seq(Range(plan.bytes)) /\ From + 0 < From + 1
          BY <4>2 DEF Whole
        <5> QED BY <5>1, SubSeqEmpty
      <4>5. plan.size \in Nat /\ 0 + plan.size = plan.size
        BY <4>2 DEF Whole
      <4> QED BY <1>1, <1>4, <2>1, <2>2, <4>1, <4>2, <4>3, <4>4, <4>5
    <3> QED BY <1>2, <1>4, <2>1, <3>1, <3>2 DEF AnswerInv, AnswerOK, AnswerInFull
  <2> QED BY <1>1, <2>3, <2>4, <2>5 DEF PlanMade
<1> QED BY <1>3, <1>4 DEF Send_head

(* send_text and send_file: the end, a failure, or some bytes more.            *)
Ending    == plan.size = 0 /\ phase' = "over" /\ UNCHANGED <<plan, sent, failed>>
Writing   == \E n \in Nat : /\ (Planned /\ ~failed => n <= plan.size)
                            /\ sent' = sent \o SubSeq(plan.bytes, plan.at + 1, plan.at + n)
                            /\ plan' = [plan EXCEPT !.at = @ + n, !.size = @ - n] /\ UNCHANGED <<phase, failed>>

LEMMA BodySent ==
  ASSUME AnswerInv, phase \in {"text", "file", "part"}, UNCHANGED <<page, fixed, res, heads>>, Ending \/ Writing
  PROVE  AnswerInv'
<1>1. /\ AnswerOK /\ plan.mode = phase /\ PlanSent /\ (~failed => Len(heads) = 1) /\ PlanFields \subseteq DOMAIN plan
  BY DEF AnswerInv, AnswerOK
<1>2. /\ page' \in Pages /\ block' \in Nat /\ asked'.ranges \in Seq((Nat \cup {-1}) \X (Nat \cup {-1}))
      /\ ResponseOK(res')
  BY <1>1 DEF AnswerOK, fixed
<1>3. CASE Ending
  <2>1. UNCHANGED <<Open, From, Planned>>
    BY <1>3, PlanFrame DEF Ending
  <2>2. AnswerInFull'
    BY <1>1, <1>3, <2>1, AllSent DEF AnswerInFull, Ending, Planned
  <2> QED BY <1>1, <1>2, <1>3, <2>2 DEF AnswerInv, AnswerOK, Ending
<1>4. CASE Writing
  <2>1. PICK n \in Nat : /\ Planned /\ ~failed => n <= plan.size
                         /\ sent' = sent \o SubSeq(plan.bytes, plan.at + 1, plan.at + n)
                         /\ plan' = [plan EXCEPT !.at = @ + n, !.size = @ - n] /\ UNCHANGED <<phase, failed>>
    BY <1>4 DEF Writing
  <2>2. plan'.mode = plan.mode /\ plan'.bytes = plan.bytes /\ PlanFields \subseteq DOMAIN plan'
    BY <1>1, <2>1 DEF PlanFields
  <2>3. Planned' = Planned
    BY <2>2 DEF Planned, Open
  <2>4. PlanSent'
    <3>1. CASE Planned /\ ~failed
      <4>1. Sends(n)
        BY <1>1, <2>1, <3>1 DEF Sends
      <4>2. ~failed'
        BY <2>1, <3>1
      <4> QED BY <1>1, <3>1, <4>1, <4>2, SentMore
    <3>2. CASE ~ (Planned /\ ~failed)
      BY <2>1, <2>3, <3>2 DEF PlanSent
    <3> QED BY <3>1, <3>2
  <2> QED BY <1>1, <1>2, <2>1, <2>2, <2>4 DEF AnswerInv, AnswerOK, AnswerInFull
<1> QED BY <1>3, <1>4

LEMMA TextSent ==
  ASSUME AnswerInv, Send_text \/ Send_text_fails
  PROVE  AnswerInv'
<1>1. AnswerOK /\ phase = "text" /\ plan.mode = phase /\ PlanSent /\ PlanFields \subseteq DOMAIN plan
  BY DEF AnswerInv, AnswerOK, Send_text, Send_text_fails
<1>2. CASE Send_text
  <2>1. Planned /\ ~failed => plan.size \in Nat
    BY <1>1 DEF PlanSent, Whole
  <2>2. Ending \/ Writing
    <3>1. CASE plan.size = 0 /\ phase' = "over" /\ UNCHANGED <<plan, sent>>
      BY <1>2, <3>1 DEF Send_text, Ending
    <3>2. CASE \E n \in 1..plan.size :
                 /\ sent' = sent \o SubSeq(plan.bytes, plan.at + 1, plan.at + n)
                 /\ plan' = [plan EXCEPT !.at = @ + n, !.size = @ - n] /\ UNCHANGED phase
      <4>1. \A n \in 1 .. plan.size : n \in Nat /\ (Planned /\ ~failed => n <= plan.size)
        BY <2>1
      <4> QED BY <1>2, <3>2, <4>1 DEF Send_text, Writing
    <3> QED BY <1>2, <3>1, <3>2 DEF Send_text
  <2>3. UNCHANGED <<page, fixed, res, heads>>
    BY <1>2 DEF Send_text
  <2> QED BY <1>1, <2>2, <2>3, BodySent
<1>3. CASE Send_text_fails
  <2>1. page' \in Pages /\ ResponseOK(res') /\ phase' \in {"over", "handle"}
    BY <1>1, <1>3, ErrorSent DEF Send_text_fails
  <2>2. failed' /\ UNCHANGED <<asked, block, plan>>
    BY <1>3 DEF Send_text_fails, Send_error, fixed
  <2> QED BY <1>1, <2>1, <2>2 DEF AnswerInv, AnswerOK, AnswerInFull
<1> QED BY <1>2, <1>3

LEMMA FileSent ==
  ASSUME AnswerInv, Send_file
  PROVE  AnswerInv'
<1>1. AnswerOK /\ phase \in {"file", "part"} /\ plan.mode = phase /\ PlanSent /\ PlanFields \subseteq DOMAIN plan /\ block \in Nat
      /\ UNCHANGED <<page, fixed, res, heads>>
  BY DEF AnswerInv, AnswerOK, Send_file
<1>2. Planned /\ ~failed => /\ plan.size \in Nat /\ plan.at \in Nat /\ Len(plan.bytes) \in Nat
                            /\ plan.at + plan.size = Len(plan.bytes)
  BY <1>1, LenProperties DEF PlanSent, Whole
<1>3. plan.size \in Int => Min({block, plan.size}) <= plan.size /\ Min({block, plan.size}) \in Int
  <2> SUFFICES ASSUME plan.size \in Int PROVE Min({block, plan.size}) <= plan.size /\ Min({block, plan.size}) \in Int
    OBVIOUS
  <2>1. Min({block, plan.size}) = IF block <= plan.size THEN block ELSE plan.size
    BY <1>1, MinOfTwo
  <2> QED BY <1>1, <2>1
<1>4. /\ page' \in Pages /\ block' \in Nat /\ asked'.ranges \in Seq((Nat \cup {-1}) \X (Nat \cup {-1}))
      /\ ResponseOK(res')
  BY <1>1 DEF AnswerOK, fixed
<1>5. CASE Ending
  BY <1>1, <1>5, BodySent
<1>6. CASE /\ plan.size < 0 \/ plan.at + Min({block, plan.size}) > Len(plan.bytes)
           /\ phase' = "undefined" /\ UNCHANGED <<plan, sent, failed>>
  <2>1. ~ (Planned /\ ~failed)
    <3> SUFFICES ASSUME Planned, ~failed PROVE FALSE
      OBVIOUS
    <3>1. /\ plan.size \in Nat /\ plan.at \in Nat /\ Len(plan.bytes) \in Nat
          /\ plan.at + plan.size = Len(plan.bytes)
      BY <1>2
    <3> DEFINE m == Min({block, plan.size})
    <3>2. m \in Int /\ m <= plan.size
      BY <1>3, <3>1
    <3> HIDE DEF m
    <3>3. plan.at + m <= Len(plan.bytes) /\ ~ (plan.size < 0)
      BY <3>1, <3>2
    <3>4. ~ (plan.at + m > Len(plan.bytes))
      BY <3>1, <3>2, <3>3
    <3> QED BY <1>6, <3>3, <3>4 DEF m
  <2>2. Planned' = Planned
    BY <1>1, <1>6, PlanFrame
  <2>3. AnswerInFull'
    BY <1>6, <2>1, <2>2 DEF AnswerInFull, Planned
  <2> QED BY <1>1, <1>4, <1>6, <2>3 DEF AnswerInv, AnswerOK
<1>7. CASE \E n \in 0..Min({block, plan.size}) :
             /\ sent' = sent \o SubSeq(plan.bytes, plan.at + 1, plan.at + n)
             /\ plan' = [plan EXCEPT !.at = @ + n, !.size = @ - n] /\ UNCHANGED <<phase, failed>>
  <2>1. \A n \in 0 .. Min({block, plan.size}) : n \in Nat /\ (Planned /\ ~failed => n <= plan.size)
    <3> DEFINE m == Min({block, plan.size})
    <3>1. Planned /\ ~failed => m \in Int /\ m <= plan.size /\ plan.size \in Nat
      BY <1>2, <1>3
    <3> HIDE DEF m
    <3>2. \A n \in 0 .. m : n \in Nat /\ (Planned /\ ~failed => n <= plan.size)
      BY <3>1
    <3> QED BY <3>2 DEF m
  <2>2. Writing
    BY <1>7, <2>1 DEF Writing
  <2> QED BY <1>1, <2>2, BodySent
<1>8. CASE phase' = "over" /\ failed' /\ UNCHANGED <<plan, sent>>
  BY <1>1, <1>4, <1>8 DEF AnswerInv, AnswerOK, AnswerInFull
<1> QED BY <1>1, <1>5, <1>6, <1>7, <1>8 DEF Send_file, Ending

LEMMA KeysSent ==
  ASSUME AnswerInv, Keys_top \/ Keys_replace \/ Keys_write \/ Keys_undefined
  PROVE  AnswerInv'
<1>1. phase = "keys" /\ UNCHANGED <<page, fixed, res, plan, heads>> /\ phase' \in {"keys", "over", "undefined"}
  BY DEF Keys_top, Keys_replace, Keys_write, Keys_undefined
<1>2. AnswerOK /\ plan.mode = "keys"
  BY <1>1 DEF AnswerInv, AnswerOK
<1>3. AnswerInFull'
  BY <1>1, <1>2 DEF AnswerInFull
<1> QED BY <1>1, <1>2, <1>3 DEF AnswerInv, AnswerOK, fixed

LEMMA AnswerStep ==
  ASSUME AnswerInv, [Next]_vars
  PROVE  AnswerInv'
<1>1. CASE UNCHANGED response_vars
  BY <1>1 DEF response_vars, AnswerInv, AnswerOK, AnswerInFull, PlanMade, PlanSent, Planned, Whole, Open, From
<1>2. CASE Answer
  <2>1. PICK readable \in BOOLEAN : Handle(readable)
    BY <1>2 DEF Answer
  <2>2. AnswerOK
    BY DEF AnswerInv
  <2>3. /\ page' \in Pages /\ ResponseOK(res') /\ phase' \in {"over", "handle", "send"}
        /\ UNCHANGED <<fixed, plan, rep, sent, heads, failed, short>> /\ phase = "handle"
    BY <2>1, <2>2, HandleStep
  <2>4. ~failed => heads = <<>>
    BY <2>2, <2>3 DEF AnswerOK
  <2> QED BY <2>2, <2>3, <2>4 DEF AnswerInv, AnswerOK, AnswerInFull, fixed
<1>3. CASE Respond
  BY <1>3, ResponseSends, HeadSent, TextSent, FileSent, KeysSent DEF Respond, ResponseNext
<1>4. CASE Receive \/ Read \/ UNCHANGED vars
  BY <1>1, <1>4 DEF Receive, Read, vars
<1> QED BY <1>2, <1>3, <1>4 DEF Next

LEMMA AnswerInit == Init => AnswerInv
<1> SUFFICES ASSUME Init PROVE AnswerInv
  OBVIOUS
<1>1. /\ exchange \in Exchanges /\ page = exchange.page /\ asked = exchange.asked /\ block = exchange.block
      /\ res = Response(200) /\ plan = NoPlan /\ heads = <<>> /\ phase = "handle"
  BY DEF Init
<1>2. page \in Pages /\ block \in Nat /\ asked.ranges \in Seq((Nat \cup {-1}) \X (Nat \cup {-1}))
  BY <1>1, ExchangesAssumption
<1>3. ResponseOK(res)
  BY <1>1, <1>2, ResponseIsOK
<1>4. PlanFields \subseteq DOMAIN plan
  BY <1>1 DEF NoPlan, PlanFields
<1> QED BY <1>1, <1>2, <1>3, <1>4 DEF AnswerInv, AnswerOK, AnswerInFull

(* A text, a file or a part of a file is sent once and in full, whatever the  *)
(* pages are, whatever their layers and handlers call and however the writes  *)
(* of the body fall short (handle_request to send_file of                     *)
(* src/ManapiTaskHttp.cpp), if no write fails; and after one head, that       *)
(* announced its length, if the write of no head was cut.                     *)
THEOREM AnswerIsInFull == Spec => []AnswerInFull
<1>1. AnswerInv => AnswerInFull
  BY DEF AnswerInv
<1> QED BY <1>1, AnswerInit, AnswerStep, PTL DEF Spec
=============================================================================
