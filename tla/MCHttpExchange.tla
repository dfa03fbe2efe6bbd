--------------------------- MODULE MCHttpExchange ---------------------------
(* HttpExchange for TLC.  Bytes are tokens of one character where the code    *)
(* looks at them, and whole words where it does not.                          *)
EXTENDS HttpExchange

HexByte(digits) == IF digits = <<"6", "1">> THEN "a" ELSE "?"
LF == <<"\r", "\n">>
NumberAt(value) == IF \E n \in 0..90 : value # <<>> /\ value[1] = ToString(n)
                   THEN CHOOSE n \in 0..90 : value[1] = ToString(n) ELSE None
BoundaryDef == <<"B">>
DispositionDef == (<<"Da">> :> [name |-> <<"a">>, file |-> FALSE]) @@ (<<"Db">> :> [name |-> <<"b">>, file |-> FALSE])
               @@ (<<"Df">> :> [name |-> <<"f">>, file |-> TRUE])
Pack(bytes) == <<"z">> \o bytes

-----------------------------------------------------------------------------
(* Requests.                                                                  *)

HeadOf(path, body) ==
  <<"GET", " ">> \o path \o <<" ", "HTTP", "\n">>
  \o (IF body = <<>> THEN <<>> ELSE <<"length", ":", ToString(Len(body)), "\n">>) \o <<"\n">>
Asks == [ranges |-> <<>>, bad |-> FALSE, accepts |-> <<>>, path |-> <<>>]
Page(calls) == [layer |-> <<>>, handler |-> calls, statics |-> NoPage, error |-> NoPage]
Says(bytes) == Page(<< <<"text", bytes>> >>)
Plain == [bytes |-> <<>>, block |-> 16, page |-> Says(<<>>), asked |-> Asks, reader |-> "none",
          text |-> <<>>, params |-> <<>>, files |-> <<>>, content |-> <<>>]
Post(size, reader, body) ==
  [Plain EXCEPT !.bytes = HeadOf(<<"/">>, body) \o body, !.block = size, !.reader = reader]

\* A part of a multipart form, and the end of it.
Part(line, value) == <<"-", "-", "B">> \o LF \o <<line>> \o LF \o LF \o value \o LF
TheEnd == <<"-", "-", "B", "-", "-">> \o LF

Many(n) == [k \in 1..n |-> "m"]
Letters == <<"a", "b", "c", "d", "e", "f", "g", "h">>
AB == (<<"a">> :> <<"x">>) @@ (<<"b">> :> <<"y", "a">>)
Requests ==
  { \* a field and a file whose content looks like a boundary
    [Post(14, "form", Part("Da", <<"x", "\r", "\n", "-", "-", "y">>) \o Part("Df", <<"\r", "\n", "-", "x">>) \o TheEnd)
       EXCEPT !.params = <<"a">> :> <<"x", "\r", "\n", "-", "-", "y">>,
              !.files = << [name |-> <<"f">>, content |-> <<"\r", "\n", "-", "x">>] >>],
    \* a value that a cut may lose
    [Post(14, "form", Part("Da", <<"-", "-", "x">>) \o TheEnd) EXCEPT !.params = <<"a">> :> <<"-", "-", "x">>],
    \* a field given twice, an escape, a space and no value
    [Post(13, "pairs", <<"a", "=", "x", "&", "b", "=", "y", "%", "6", "1", "&", "a", "=", "+">>)
       EXCEPT !.params = AB],
    [Post(13, "text", <<"a", "b", "c", "d">>) EXCEPT !.text = <<"a", "b", "c", "d">>],
    \* a value that just has room in buff_extra, with the boundary, and one that
    \* has not
    [Post(14, "form", Part("Da", Many(49)) \o TheEnd) EXCEPT !.params = <<"a">> :> Many(49)],
    [Post(14, "form", Part("Da", Many(50)) \o TheEnd) EXCEPT !.params = <<"a">> :> Many(50)],
    \* a line of the head of a part that has room but for what looks like a boundary
    Post(14, "form", <<"-", "-", "B">> \o LF \o Many(53) \o LF \o <<"-", "-", "x">> \o LF \o TheEnd),
    \* no file may come before a field
    [Post(14, "form", Part("Df", <<"x">>) \o Part("Da", <<"y">>) \o TheEnd) EXCEPT !.params = <<"a">> :> <<"y">>],
    \* more than announced is sent
    [Post(13, "text", Letters) EXCEPT !.text = Letters,
       !.bytes = HeadOf(<<"/">>, Letters) \o Letters \o <<"i", "j", "k", "l", "m">>],
    \* the body, or half of it, is not sent
    [Post(13, "text", <<"a", "b">>) EXCEPT !.text = <<"\\0", "\\0">>, !.bytes = HeadOf(<<"/">>, <<"a", "b">>)],
    [Post(13, "text", <<"a", "b">>) EXCEPT !.text = <<"a", "\\0">>,
       !.bytes = HeadOf(<<"/">>, <<"a", "b">>) \o <<"a">>],
    \* a head in two blocks, with a body and without, and one that is too large
    [Post(7, "text", <<"a", "b">>) EXCEPT !.text = <<"a", "b">>],
    [Plain EXCEPT !.bytes = HeadOf(<<"/", "%", "6", "1", "/">>, <<>>) \o <<"a">>, !.block = 6],
    [Plain EXCEPT !.bytes = HeadOf(<<"/", "a", "b", "c", "%", "6", "1", "/", "f", "g", "?", "i", "j">>, <<>>), !.block = 16] }

-----------------------------------------------------------------------------
(* Answers.                                                                   *)

Long == [k \in 1..9 |-> ToString(k)]
Tells == <<"text", <<"t", "u">> >>
Error == [Page(<< Tells >>) EXCEPT !.error = Page(<< Tells >>)]
Get(page_, asked_, content_) ==
  [Plain EXCEPT !.bytes = HeadOf(<<"/">>, <<>>), !.block = 7,
                !.page = page_, !.asked = asked_, !.content = content_]
Static(path) == [layer |-> <<>>, handler |-> NoPage, statics |-> <<"d">>, error |-> Error]
Asking(path, ranges_) == [Asks EXCEPT !.path = <<path>>, !.ranges = ranges_]

\* A file with keys is written down as its pieces: bytes and keys, and
\* has them for its path.  A key is named for the length of its value.
Sizes_of_keys == {2, 5, 6, 8}
Key(n) == <<ToString(n)>>
Keys == {Key(n) : n \in Sizes_of_keys}
Values == [key \in Keys |-> LET n == CHOOSE n \in Sizes_of_keys : Key(n) = key IN [k \in 1..n |-> "v"]]
Source(t) == FlattenSeq([k \in DOMAIN t |-> IF t[k] \in Keys THEN <<"{", "{">> \o t[k] \o <<"}", "}">> ELSE t[k]])
Filled(t) == FlattenSeq([k \in DOMAIN t |-> IF t[k] \in Keys THEN Values[t[k]] ELSE t[k]])
Lits == {<<>>, <<"a">>, <<"{", "b", "c">>}
Templates == {<<l1, Key(n1), l2, Key(n2), l3>> : l1, l2, l3 \in Lits, n1 \in Sizes_of_keys, n2 \in {2, 8}}
              \cup {<<l1, Key(n), l2>> : l1, l2 \in Lits, n \in {2, 5}}
Fills(t, size) ==
  [Get(Page(<< <<"replacers", Values>>, <<"file", t>> >>), Asks, Filled(t)) EXCEPT !.block = size]

Answers ==
  { Get(Static("f"), Asking("f", <<>>), Long),
    Get(Static("f"), Asking("f", << <<2, -1>> >>), SubSeq(Long, 3, 9)),
    Get(Static("f"), Asking("f", << <<1, 3>> >>), SubSeq(Long, 2, 4)),
    Get(Static("f"), Asking("f", << <<10, -1>> >>), <<>>),
    Get(Static("f"), Asking("f", << <<0, -1>>, <<3, -1>> >>), Long),
    Get(Static("s"), Asking("s", << <<1, -1>> >>), <<"r", "s", "t">>),
    Get(Static("f"), [Asking("f", <<>>) EXCEPT !.accepts = <<"br", "gzip">>], Pack(Long)),
    Get(Static("f"), [Asking("f", << <<2, -1>> >>) EXCEPT !.accepts = <<"gzip">>], SubSeq(Long, 3, 9)),
    Get(Static("f"), [Asking("f", <<>>) EXCEPT !.bad = TRUE], Long),
    Get(Static("f"), Asking("none", <<>>), Long),
    Get([Page(<< Tells, <<"throw", 0>> >>) EXCEPT !.error = Error], Asks, <<>>),
    Get([Page(<< <<"throw", 0>> >>) EXCEPT !.layer = << << Tells, <<"stop", 0>> >> >>], Asks, Tells[2]),
    Get([Says(<<"x">>) EXCEPT !.layer = << << Tells, <<"throw", 0>> >> >>, !.error = Error], Asks, <<>>),
    Get([Page(<< <<"text", Long>> >>) EXCEPT !.error = Error], Asks, Long),
    Get(Page(<<>>), Asks, <<>>),
    Get(Page(<< <<"compress enabled", TRUE>>, <<"compress", "gzip">>, <<"status", 200>>, <<"text", Long>> >>),
         Asks, Pack(Long)),
    Get(Page(<< <<"partial", TRUE>>, <<"file", <<"d", "f">> >> >>), Asking("f", << <<3, -1>> >>), SubSeq(Long, 4, 9)) }

ExchangesDef == Requests \cup Answers
                \cup {Fills(t, size) : t \in Templates, size \in {7, 8}}
\* The pages of the exchanges, their error pages and those of error pages.
PagesDef == LET Errors(S) == {p.error : p \in S} \ {NoPage}
                first == {x.page : x \in ExchangesDef}
            IN first \cup Errors(first) \cup Errors(Errors(first))
FilesDef == (<<"d", "f">> :> Long) @@ (<<"d", "s">> :> <<"r", "s", "t">>)
            @@ [t \in Templates |-> Source(t)]
=============================================================================
