------------------------------ MODULE JsonMask ------------------------------
(* The masks of JSON values (src/ManapiJsonMask.cpp): how the text of a mask, *)
(* such as {string(<=2)|number[>=1]|none}, becomes a list of alternatives,    *)
(* and when a value is valid under them.  The text is a sequence of tokens    *)
(* without its braces; a quoted string is one token.                          *)
EXTENDS Integers, SequencesExt

CONSTANTS Texts,         \* the mask texts that may be resolved
          Quoted,        \* quoted token -> the string it stands for
          KeyOrder,      \* the keys of objects, in the order of std::map
          None,          \* an absent row of an alternative
          SizeValues     \* the number of values of size_t: 2^64 in the build

VARIABLES mask,          \* what is resolved: the text, "none" and the alternatives
          word,          \* the type last read
          inside,        \* the bracket that is open, or "no"
          compare,       \* the comparison read, or "no"
          number,        \* the number in the inner json_builder, or None
          at,            \* the position in the text
          stage          \* "word", "params", "done", "throws"

mask_vars == <<mask, word, inside, compare, number, at, stage>>

-----------------------------------------------------------------------------
(* JSON values.  Numbers are kept in tenths.                                  *)

Null        == [type |-> "null", n |-> 0, s |-> <<>>, items |-> <<>>, keys |-> <<>>]
Num(n)      == [Null EXCEPT !.type = "number", !.n = 10 * n]
Decimal(n)  == [Null EXCEPT !.type = "decimal", !.n = n]
Bool(b)     == [Null EXCEPT !.type = "bool", !.n = IF b THEN 1 ELSE 0]
Str(s)      == [Null EXCEPT !.type = "string", !.s = s]
Arr(items)  == [Null EXCEPT !.type = "array", !.items = items]
Obj(keys)   == [Null EXCEPT !.type = "object", !.keys = keys]

Size(v) == CASE v.type = "string" -> Len(v.s)
             [] v.type = "array"  -> Len(v.items)
             [] v.type = "object" -> Cardinality(DOMAIN v.keys)

\* An alternative: "data" of an object maps its keys to masks, "list" of an
\* array holds a mask for each item, "default" alternatives for all items.
Alternative(type) == [type |-> type, value |-> None, max_mean |-> None, min_mean |-> None,
                      data |-> None, list |-> None, default |-> None]
MaskOf(alts, none) == [alts |-> alts, none |-> none]

\* initial_resolve_information of a string that is no mask, an object, an array.
LiteralMask(s)   == MaskOf(<<[Alternative("string") EXCEPT !.value = Str(s)]>>, FALSE)
ObjectMask(data) == MaskOf(<<[Alternative("object") EXCEPT !.data = data]>>, FALSE)
ArrayMask(list)  == MaskOf(<<[Alternative("array") EXCEPT !.list = list]>>, FALSE)

-----------------------------------------------------------------------------
(* initial_resolve_information of a string in braces.                         *)

Types == {"string", "number", "decimal", "bigint", "bool", "null", "numeric", "any"}

MaskInit == /\ \E t \in Texts : mask = [text |-> t, none |-> FALSE, alts |-> <<>>]
            /\ word = None /\ inside = "no" /\ compare = "no" /\ number = None
            /\ at = 1 /\ stage = "word"

AtEnd == at > Len(mask.text)
Token == IF AtEnd THEN "end" ELSE mask.text[at]
Digit(c)  == c \in {ToString(i) : i \in 0..9}
ValueOf(c) == CHOOSE i \in 0..9 : ToString(i) = c

Throw == stage' = "throws" /\ UNCHANGED <<mask, word, inside, compare, number, at>>

\* "none" is no alternative: it only sets the flag.
Read_word ==
  /\ stage = "word" /\ Token \in Types \cup {"none"}
  /\ mask' = IF Token = "none" THEN [mask EXCEPT !.none = TRUE]
             ELSE [mask EXCEPT !.alts = Append(@, Alternative(Token))]
  /\ word' = Token /\ compare' = "no" /\ at' = at + 1 /\ stage' = "params"
  /\ UNCHANGED <<inside, number>>

\* An alternative that has no type is left when the text begins with "none".
Read_bar ==
  /\ stage = "params" /\ inside = "no" /\ Token = "|"
  /\ mask' = [mask EXCEPT !.alts = IF @ = <<>> THEN <<Alternative(None)>> ELSE @]
  /\ at' = at + 1 /\ stage' = "word"
  /\ UNCHANGED <<word, inside, compare, number>>

Read_open ==
  /\ stage = "params" /\ inside = "no" /\ Token \in {"(", "["} /\ word # "array"
  /\ inside' = Token /\ at' = at + 1
  /\ UNCHANGED <<mask, word, compare, number, stage>>

\* How a comparison grows by one more character.
Grown(cmp, c) ==
  CASE c = "=" /\ cmp = "no"         -> "="
    [] c = "=" /\ cmp = ">"          -> ">="
    [] c = "=" /\ cmp = "<"          -> "<="
    [] c # "=" /\ cmp \in {"no", "="} -> c
    [] OTHER                         -> "throws"

Read_compare ==
  /\ stage = "params" /\ inside # "no" /\ Token \in {"=", "<", ">"}
  /\ IF Grown(compare, Token) = "throws" THEN Throw
     ELSE /\ compare' = Grown(compare, Token) /\ at' = at + 1
          /\ UNCHANGED <<mask, word, inside, number, stage>>

Read_digit ==
  /\ stage = "params" /\ inside # "no" /\ Digit(Token)
  /\ number' = (IF number = None THEN 0 ELSE 10 * number) + ValueOf(Token)
  /\ at' = at + 1
  /\ UNCHANGED <<mask, word, inside, compare, stage>>

\* The rows a number gives: bounds are kept as exclusive ones.
Rows(cmp, n) ==
  CASE cmp = "no" -> ("value" :> Num(n))
    [] cmp = "="  -> ("max_mean" :> n + 1) @@ ("min_mean" :> n - 1)
    [] cmp = "<=" -> ("max_mean" :> n + 1)
    [] cmp = "<"  -> ("max_mean" :> n)
    [] cmp = ">=" -> ("min_mean" :> n - 1)
    [] cmp = ">"  -> ("min_mean" :> n)

\* _insert_meta_row: into the last alternative, once per row.
Insert_meta_row(alts, rows) ==
  [alts EXCEPT ![Len(alts)] = [f \in DOMAIN @ |-> IF f \in DOMAIN rows THEN rows[f] ELSE @[f]]]
MetaTaken(alts, rows) == alts = <<>> \/ \E f \in DOMAIN rows : Last(alts)[f] # None

WrappedLast(alts) == Append(Front(alts), [Alternative("array") EXCEPT !.default = <<Last(alts)>>])

\* "]" makes of all that was read so far the type of the items of an array.
Wrapped(alts) == <<[Alternative("array") EXCEPT !.default = alts]>>

\* A space ends a number, a closing bracket ends it too, after the array is
\* made: what stands in [ ] bounds the array.
Read_space_or_close ==
  /\ stage = "params" /\ inside # "no" /\ ~AtEnd
  /\ Token \in (CASE inside = "(" -> {" ", ")"} [] inside = "[" -> {" ", "]"})
  /\ LET alts == IF Token = "]" THEN Wrapped(mask.alts) ELSE mask.alts
         rows == IF number = None THEN <<>> ELSE Rows(compare, number)
     IN IF rows # <<>> /\ MetaTaken(alts, rows) THEN Throw
        ELSE /\ mask' = [mask EXCEPT !.alts = IF rows = <<>> THEN alts
                                              ELSE Insert_meta_row(alts, rows)]
             /\ word' = IF Token = "]" THEN "array" ELSE word
             /\ inside' = IF Token = " " THEN inside ELSE "no"
             /\ compare' = IF number = None THEN compare ELSE "no"
             /\ number' = None /\ at' = at + 1 /\ UNCHANGED stage

Read_quoted ==
  /\ stage = "params" /\ inside # "no" /\ Token \in DOMAIN Quoted /\ word = "string"
  /\ LET rows == ("value" :> Str(Quoted[Token]))
     IN IF number # None \/ MetaTaken(mask.alts, rows) THEN Throw
        ELSE /\ mask' = [mask EXCEPT !.alts = Insert_meta_row(@, rows)] /\ at' = at + 1
             /\ UNCHANGED <<word, inside, compare, number, stage>>

\* Everything else is an error, at once or when the number is taken.
Read_other ==
  /\ \/ stage = "word" /\ Token \notin Types \cup {"none"}
     \/ stage = "params" /\ AtEnd /\ number # None
     \/ /\ stage = "params" /\ ~AtEnd /\ inside = "no"
        /\ Token # "|" /\ (Token \notin {"(", "["} \/ word = "array")
     \/ /\ stage = "params" /\ ~AtEnd /\ inside # "no" /\ ~Digit(Token)
        /\ Token \notin {"=", "<", ">", " "} /\ ~(Token \in DOMAIN Quoted /\ word = "string")
        /\ ~(inside = "(" /\ Token = ")") /\ ~(inside = "[" /\ Token = "]")
  /\ Throw

Read_end ==
  /\ stage = "params" /\ AtEnd /\ number = None
  /\ mask' = [mask EXCEPT !.alts = IF @ = <<>> THEN <<Alternative(None)>> ELSE @]
  /\ stage' = "done" /\ UNCHANGED <<word, inside, compare, number, at>>

MaskNext == \/ Read_word \/ Read_bar \/ Read_open \/ Read_compare \/ Read_digit
            \/ Read_space_or_close \/ Read_quoted \/ Read_other \/ Read_end

-----------------------------------------------------------------------------
(* recursive_valid: "yes", "no", or "throws" for a mask it cannot read.       *)

\* A signed bound is compared with a size as an unsigned number: the bound -1,
\* which stands for >=0 and =0, is larger than any size.
AsSize(n) == n % SizeValues

InSizeUpTo(alt, v) == /\ alt.min_mean = None \/ Size(v) >= AsSize(alt.min_mean)
                      /\ alt.max_mean = None \/ Size(v) <= AsSize(alt.max_mean)
InSize(alt, v) == /\ alt.min_mean = None \/ Size(v) > AsSize(alt.min_mean)
                  /\ alt.max_mean = None \/ Size(v) < AsSize(alt.max_mean)

AllPresent(answers) == IF \E i \in DOMAIN answers : answers[i] = "no" THEN "no" ELSE "yes"

\* The first answer that is not "yes", else "yes".
All(answers) == LET bad == {i \in DOMAIN answers : answers[i] # "yes"}
                IN IF bad = {} THEN "yes" ELSE answers[Min(bad)]
YesNo(b) == IF b THEN "yes" ELSE "no"
SameValue(alt, v) == alt.value = None \/ (alt.value.type = v.type /\ alt.value = v)
Sorted(keys) == SelectSeq(KeyOrder, LAMBDA k : k \in keys)

RECURSIVE Valid(_, _), ValidAlternative(_, _)

\* The first alternative that says yes; one that throws ends the search.
Valid(alts, v) ==
  LET answers == [i \in DOMAIN alts |-> ValidAlternative(alts[i], v)]
      first   == {i \in DOMAIN alts : answers[i] # "no"}
  IN IF first = {} THEN "no" ELSE answers[Min(first)]

\* Keys are compared in the order of the mask; the first one that the value
\* has not decides.  Items of "default" are read as if they stood in a mask of
\* their own, which they do not.
ValidObject(data, v) ==
  LET keys   == Sorted(DOMAIN data)
      answer == [i \in DOMAIN keys |->
                   IF keys[i] \notin DOMAIN v.keys THEN "missing"
                   ELSE Valid(data[keys[i]].alts, v.keys[keys[i]])]
  IN CASE Size(v) > Cardinality(DOMAIN data) -> "no"
       [] OTHER -> IF All(answer) = "missing"
                   THEN YesNo(data[keys[Min({i \in DOMAIN answer : answer[i] = "missing"})]].none)
                   ELSE All(answer)

ValidAlternative(alt, v) ==
  CASE alt.type = None -> "throws"
    [] alt.type = "any" -> "yes"
    [] alt.type = "numeric" -> YesNo(v.type \in {"number", "decimal", "bigint"})
    [] alt.type \notin {None, "any", "numeric", v.type} -> "no"
    [] alt.type = v.type /\ v.type \in {"number", "decimal", "bigint", "bool"} -> YesNo(SameValue(alt, v))
    [] alt.type = v.type /\ v.type = "null" -> "yes"
    [] alt.type = v.type /\ v.type = "string" -> 
         IF InSize(alt, v) /\ alt.value # None /\ alt.value.type # "string" THEN "throws"
         ELSE YesNo(InSize(alt, v) /\ SameValue(alt, v))
    [] alt.type = v.type /\ v.type = "object" ->
         IF ~InSize(alt, v) THEN "no" ELSE IF alt.data = None THEN "yes" ELSE ValidObject(alt.data, v)
    [] alt.type = v.type /\ v.type = "array" ->
         IF ~InSize(alt, v) \/ (alt.list # None /\ Len(alt.list) # Size(v)) THEN "no"
         ELSE All(IF alt.list # None
                  THEN [i \in DOMAIN v.items |-> Valid(alt.list[i].alts, v.items[i])]
                  ELSE [i \in DOMAIN v.items |-> "throws"])
=============================================================================
