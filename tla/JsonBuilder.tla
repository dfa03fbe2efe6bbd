----------------------------- MODULE JsonBuilder -----------------------------
(* The incremental parser of JSON (src/ManapiJsonBuilder.cpp): pieces of text *)
(* are fed to it, a builder inside a builder for each open array or object,   *)
(* and with a mask what is built is checked against it on the way.  "frames"  *)
(* holds the builders from the root to the innermost one.  A character is a   *)
(* token; the words true, false, null and any other are one token each.       *)
EXTENDS JsonMask

VARIABLES text,          \* history: what was fed
          frames,        \* the builders
          outcome,       \* None, [ok |-> TRUE, value] or [ok |-> FALSE]
          restarted      \* history: how much was fed when a piece came for a ready root, or None

builder_vars == <<text, frames, outcome, restarted>>

Q == "\""
Spaces == {" ", "\n"}
Words  == {"true", "false", "null"}

\* A builder.  An empty list of types is a null mask; "type" is json::types,
\* "act" the member function that takes the next character.  "closed" tells
\* that the value ended in the piece at hand, "used" that the character at hand
\* was part of it.
Builder(types) ==
  [act |-> "check_type", type |-> "null", object |-> Null, buffer |-> <<>>,
   opened |-> FALSE, escaped |-> FALSE, utf |-> None, left |-> 0,
   is_key |-> TRUE, key |-> <<>>, delimiter |-> FALSE, operate |-> FALSE, ready |-> FALSE, closed |-> FALSE,
   types |-> types, current |-> 1, element |-> 1, bad |-> FALSE, used |-> TRUE]

Bad(f) == [f EXCEPT !.bad = TRUE]

-----------------------------------------------------------------------------
(* The checks against the mask.                                               *)

\* A number, a word or nothing yet stands under any type but strings, arrays
\* and objects, and is not looked at again when its type is known.
Fits(type, alt) ==
  \/ alt.type = "any"
  \/ type = "numeric" /\ alt.type \in {"decimal", "bigint", "number", "bool", "null"}
  \/ type # "numeric" /\ alt.type = type

\* _check_eq_type with _next_type: the first alternative from "current" on.
Check_eq_type(f) ==
  LET fit == {k \in f.current..Len(f.types) : Fits(f.type, f.types[k]) \/ f.types[k].type = None}
  IN CASE f.types = <<>> -> f
       [] f.types # <<>> /\ fit = {} -> Bad(f)
       [] OTHER -> IF f.types[Min(fit)].type = None THEN Bad(f)
                   ELSE IF f.types[Min(fit)].type = "any" THEN [f EXCEPT !.types = <<>>]
                   ELSE [f EXCEPT !.current = Min(fit)]

\* Unlike json_mask::valid, a lower bound below zero is no bound of a size.
InMean(alt, v) ==
  CASE v.type \in {"string", "array", "object"} ->
         /\ alt.min_mean = None \/ alt.min_mean < 0 \/ Size(v) > alt.min_mean
         /\ alt.max_mean = None \/ Size(v) < alt.max_mean
    [] v.type \in {"number", "decimal"} -> /\ alt.min_mean = None \/ v.n > 10 * alt.min_mean
                                           /\ alt.max_mean = None \/ v.n < 10 * alt.max_mean
    [] OTHER -> TRUE

\* _check_default until it is satisfied: the alternative taken at the first
\* character, else a later one of the type found.
Check_default(f) ==
  LET Holds(k) == InMean(f.types[k], f.object) /\ SameValue(f.types[k], f.object)
      good == {k \in f.current..Len(f.types) :
                 \/ (k = f.current \/ f.types[k].type = f.type) /\ Holds(k)
                 \/ f.types[k].type \in {"any", None}}
  IN IF f.types = <<>> THEN f
     ELSE IF good = {} \/ f.types[Min(good)].type = None THEN Bad(f)
     ELSE IF f.types[Min(good)].type = "any" THEN [f EXCEPT !.types = <<>>]
     ELSE [f EXCEPT !.current = Min(good)]

Finish(f, v) ==
  LET g == [f EXCEPT !.object = v, !.type = IF f.type = "numeric" THEN "numeric" ELSE v.type]
  IN [Check_default(g) EXCEPT !.buffer = <<>>, !.ready = TRUE, !.closed = TRUE]

-----------------------------------------------------------------------------
(* Strings.                                                                   *)

Leads == [c \in {"lead2", "lead3"} |-> IF c = "lead2" THEN 2 ELSE 3]
Octets(c) == IF c \in DOMAIN Leads THEN Leads[c] ELSE 1
NotAscii(c) == c \in DOMAIN Leads \cup {"cont"}

\* _valid_utf_char: a byte where another is due, and how many are due next.
Utf_bad(f, c)  == (f.left > 0 \/ NotAscii(c)) /\ (Octets(c) = 1) # (f.left > 0)
Utf_left(f, c) == IF f.left > 0 THEN f.left - 1 ELSE Octets(c) - 1

Unescaped == ("n" :> "\n") @@ ("t" :> "tab") @@ ("r" :> "cr") @@ ("f" :> "ff") @@ ("b" :> "bs")
             @@ [c \in {"\\", "/", Q} |-> c]
HexDigits == {"0", "1", "7", "8", "a"}
\* \uXXXX takes one, two or three bytes.
Utf_bytes(h) == CASE h[1] = "0" /\ h[2] = "0" /\ h[3] \in {"0", "1", "7"} -> <<"u1">>
                  [] h[1] = "0" /\ h[2] \in {"0", "1", "7"} /\ ~(h[2] = "0" /\ h[3] \in {"0", "1", "7"})
                       -> <<"u2", "u2">>
                  [] OTHER -> <<"u3", "u3", "u3">>

String_char(f0, c) ==
  LET f == [f0 EXCEPT !.left = Utf_left(f0, c)]
      Take(b) == IF f.opened THEN [f EXCEPT !.buffer = Append(@, b), !.escaped = FALSE]
                 ELSE IF b \in Spaces THEN [f EXCEPT !.escaped = FALSE] ELSE Bad(f)
  IN CASE Utf_bad(f0, c) -> Bad(f)
       [] ~Utf_bad(f0, c) /\ f.escaped ->
            IF c = "u" THEN [f EXCEPT !.escaped = FALSE, !.utf = <<>>]
            ELSE IF c \in DOMAIN Unescaped THEN Take(Unescaped[c]) ELSE Bad(f)
       [] ~Utf_bad(f0, c) /\ ~f.escaped /\ f.utf # None ->
            IF c \notin HexDigits THEN Bad(f)
            ELSE IF Len(f.utf) < 3 THEN [f EXCEPT !.utf = Append(@, c)]
            ELSE [f EXCEPT !.utf = None, !.buffer = @ \o Utf_bytes(Append(f.utf, c))]
       [] OTHER ->
            CASE c = "\n" -> Bad(f)
              [] c = "\\" -> [f EXCEPT !.escaped = TRUE]
              [] c = Q -> IF f.opened THEN Finish([f EXCEPT !.opened = FALSE], Str(f.buffer))
                          ELSE [f EXCEPT !.opened = TRUE]
              [] OTHER -> Take(c)

-----------------------------------------------------------------------------
(* Numbers and words: they end before the character that follows them.        *)

EndsNumber == Spaces \cup {"}", "]", ","}

\* What the stream reads of the buffer, in tenths; an exponent is left out.
Reading(buffer) ==
  LET digits(s) == FoldLeft(LAMBDA n, c : IF Digit(c) THEN 10 * n + ValueOf(c) ELSE n, 0, s)
      dot  == SelectInSeq(buffer, LAMBDA c : c \in {".", "e"})
      whole == IF dot = 0 THEN buffer ELSE SubSeq(buffer, 1, dot - 1)
      tenth == IF dot = 0 \/ dot = Len(buffer) \/ buffer[dot] = "e" \/ ~Digit(buffer[dot + 1]) THEN 0
               ELSE ValueOf(buffer[dot + 1])
  IN (IF buffer[1] = "-" THEN -1 ELSE 1) * (10 * digits(whole) + tenth)

Finish_numeric(f) ==
  Finish([f EXCEPT !.used = FALSE],
         IF f.type = "numeric" THEN Null
         ELSE [Null EXCEPT !.type = f.type, !.n = Reading(f.buffer)])

Finish_word(f) ==
  IF f.buffer \notin {<<w>> : w \in Words} THEN Bad(f)
  ELSE [Finish([f EXCEPT !.used = FALSE, !.type = "word"],
               IF f.buffer = <<"null">> THEN Null ELSE Bool(f.buffer = <<"true">>))
          EXCEPT !.buffer = f.buffer]

Word_char(f, c) == IF c \in EndsNumber THEN Finish_word(f) ELSE [f EXCEPT !.buffer = Append(@, c)]

Numeric_char(f, c) ==
  LET More(type, operate) == [f EXCEPT !.type = type, !.operate = operate, !.buffer = Append(@, c)]
  IN CASE f.buffer = <<>> /\ c \in {"-", "+"} -> More(f.type, TRUE)
       [] f.buffer = <<>> /\ ~Digit(c) /\ c \notin {"-", "+"} ->
            Word_char([f EXCEPT !.act = "word", !.operate = TRUE], c)
       [] Digit(c) -> IF f.buffer = <<"0">> THEN Bad(f)
                      ELSE More(IF f.type = "numeric" THEN "number" ELSE f.type,
                                f.operate \/ f.buffer = <<>>)
       [] OTHER ->
            CASE f.buffer = <<"-">> -> Bad(f)
              [] f.buffer # <<"-">> /\ c \in EndsNumber -> Finish_numeric(f)
              [] f.buffer # <<"-">> /\ c \in {"-", "+"} -> IF f.operate THEN Bad(f) ELSE More(f.type, TRUE)
              [] f.buffer # <<"-">> /\ c = "e" -> More("decimal", FALSE)
              [] f.buffer # <<"-">> /\ c = "." /\ f.type # "decimal" -> More("decimal", f.operate)
              [] OTHER -> Bad(f)

-----------------------------------------------------------------------------
(* Objects, arrays, and the first character of a value.                       *)

\* _check_type: the first character tells the type and is then taken by it.
\* Nothing but _reset clears the buffer of a number that restarts.
First_char(f, c) == IF f.bad \/ f.act # "numeric" THEN f ELSE Numeric_char(f, c)
Begin(f, c) ==
  LET type == CASE c = "{" -> "object" [] c = "[" -> "array" [] c = Q -> "string" [] OTHER -> "numeric"
  IN First_char(Check_eq_type([f EXCEPT !.act = type, !.type = type, !.opened = (type # "numeric"),
                                     !.object = CASE type = "object" -> Obj(<<>>) [] type = "array" -> Arr(<<>>)
                                                  [] OTHER -> Null]), c)

Delimits(f, c) == c = IF f.act = "object" /\ f.is_key THEN ":" ELSE ","
Closes(f, c)   == c = IF f.act = "object" THEN "}" ELSE "]"
Opens(f, c)    == c = IF f.act = "object" THEN "{" ELSE "["

Finish_compound(f) ==
  IF f.act = "object" /\ f.is_key /\ Size(f.object) > 0 THEN Bad(f)
  ELSE Finish([f EXCEPT !.opened = FALSE, !.is_key = TRUE, !.key = <<>>, !.used = TRUE], f.object)

\* The mask of the next item; absent when the mask has no such item.
ItemTypes(f) ==
  LET alt == f.types[f.current]
  IN CASE f.types = <<>> \/ (f.act = "object" /\ f.is_key) -> <<>>
       [] f.types # <<>> /\ f.act = "object" /\ ~f.is_key ->
            IF f.key \in DOMAIN alt.data THEN alt.data[f.key].alts ELSE None
       [] OTHER -> IF alt.default # None THEN alt.default
                   ELSE IF f.element \in DOMAIN alt.list THEN alt.list[f.element].alts ELSE None

\* What a compound does itself with a character: <<itself>>, or with an item.
Compound_char(f, c) ==
  CASE c \in Spaces -> <<f>>
    [] c \notin Spaces /\ f.delimiter ->
         IF Delimits(f, c) THEN <<[f EXCEPT !.delimiter = FALSE, !.is_key = IF f.act = "object" THEN ~@ ELSE @]>>
         ELSE IF Closes(f, c) THEN <<Finish_compound(f)>> ELSE <<Bad(f)>>
    [] c \notin Spaces /\ ~f.delimiter /\ f.opened ->
         IF Closes(f, c) THEN <<Finish_compound(f)>>
         ELSE IF ItemTypes(f) = None THEN <<Bad(f)>>
         ELSE <<[f EXCEPT !.element = @ + 1], Begin(Builder(ItemTypes(f)), c)>>
    [] OTHER -> IF Opens(f, c) THEN <<[f EXCEPT !.opened = TRUE]>> ELSE <<Bad(f)>>

\* get() of a ready item, and what the compound does with it.
Got(f) == IF f.object = Null THEN Check_eq_type(f) ELSE f
Take_item(f, item) ==
  LET g == [f EXCEPT !.delimiter = TRUE]
  IN CASE Got(item).bad -> Bad(f)
       [] ~Got(item).bad /\ f.act = "array" -> [g EXCEPT !.object.items = Append(@, item.object)]
       [] ~Got(item).bad /\ f.act = "object" /\ f.is_key ->
            IF item.object.type = "string" THEN [g EXCEPT !.key = item.object.s] ELSE Bad(f)
       [] OTHER -> IF f.key \in DOMAIN f.object.keys THEN Bad(f)
                   ELSE [g EXCEPT !.object.keys = (f.key :> item.object) @@ @]

-----------------------------------------------------------------------------
(* A character, a piece, and get().                                           *)

Own_char(f, c) ==
  LET g == [f EXCEPT !.used = TRUE]
  IN CASE f.act = "check_type" -> <<IF c \in Spaces THEN g ELSE Begin(g, c)>>
       [] f.act = "string"  -> <<String_char(g, c)>>
       [] f.act = "numeric" -> <<Numeric_char(g, c)>>
       [] f.act = "word"    -> <<Word_char(g, c)>>
       [] f.act \in {"object", "array"} -> Compound_char(g, c)

Top(fs)     == Last(fs)
Ready_item(fs) == Len(fs) > 1 /\ Top(fs).ready /\ ~Top(fs).bad
Taken(fs)   == SubSeq(fs, 1, Len(fs) - 2) \o <<Take_item(fs[Len(fs) - 1], Top(fs))>>
Settled(fs) == IF Ready_item(fs) THEN Taken(fs) ELSE fs
Give(fs, c) == Settled(Front(fs) \o Own_char(Top(fs), c))

\* An item that ended before the character leaves it to what it is an item of.
Checked(fs)      == IF Top(fs).bad THEN <<Bad(fs[1])>> ELSE fs
Give_next(fs, c) == IF Top(fs).bad THEN <<Bad(fs[1])>> ELSE Checked(Give(fs, c))
Passed_on(fs, c) == IF Ready_item(fs) /\ ~Top(fs).used THEN Give_next(Taken(fs), c)
                    ELSE Checked(Settled(fs))
Char(fs, c)      == Passed_on(Front(fs) \o Own_char(Top(fs), c), c)

\* operator<<: once the root has ended nothing but spaces may follow in the
\* same piece (_check_end); with the next piece the root goes on as it was.
Ended(fs, c) == IF fs[1].closed /\ ~fs[1].used /\ c \notin Spaces THEN <<Bad(fs[1])>> ELSE fs
Then_char(fs, c) ==
  CASE fs[1].bad -> fs
    [] ~fs[1].bad /\ fs[1].closed -> IF c \in Spaces THEN fs ELSE <<Bad(fs[1])>>
    [] OTHER -> Ended(Char(fs, c), c)

\* Mutant of Parsed: the delimiter due at the end of a piece is forgotten with the next.
ParsedAnew(fs, piece) == FoldLeft(Then_char, [fs EXCEPT ![1].closed = FALSE, ![Len(fs)].delimiter = FALSE], piece)
Parsed(fs, piece) == FoldLeft(Then_char, [fs EXCEPT ![1].closed = FALSE], piece)

Feed(piece) ==
  /\ outcome = None
  /\ text' = text \o piece
  /\ frames' = Parsed(frames, piece)
  /\ outcome' = IF frames'[1].bad THEN [ok |-> FALSE] ELSE None
  /\ restarted' = IF restarted = None /\ frames[1].ready THEN Len(text) ELSE restarted

\* get(): a number or a word ends here too, all else must have ended.
Completed(fs) ==
  LET f == fs[1]
  IN CASE f.ready -> f
       [] ~f.ready /\ f.act = "numeric" -> Finish_numeric(f)
       [] ~f.ready /\ f.act = "word"    -> Finish_word(f)
       [] ~f.ready /\ f.act = "check_type" -> f
       [] OTHER -> Bad(f)
Get ==
  /\ outcome = None
  /\ LET f == Completed(frames)
         g == IF f.bad THEN f ELSE Got(f)
     IN outcome' = IF g.bad THEN [ok |-> FALSE] ELSE [ok |-> TRUE, value |-> g.object]
  /\ UNCHANGED <<text, frames, restarted>>

BuilderInit(types) ==
  text = <<>> /\ frames = <<Builder(types)>> /\ outcome = None /\ restarted = None
=============================================================================
