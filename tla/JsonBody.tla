------------------------------- MODULE JsonBody -------------------------------
(* A JSON body under a mask: the text of a mask is resolved when a handler is *)
(* registered (JsonMask), a body is then read piece by piece (JsonBuilder).   *)
(* The properties compare both with what a mask and a text of JSON say.       *)
EXTENDS JsonBuilder

CONSTANTS Expressions,   \* what the mask texts say: see Written
          Documents,     \* JSON values, for reference
          Bodies,        \* the texts given as one piece where there is a mask
          Wholes,        \* the texts given in pieces, cut anywhere, where there is none
          Pieces,        \* other pieces given there
          MaxText        \* bound: tokens of a text made of these

VARIABLE place           \* where the mask stands: "none", "unset", "bare", "key"

vars == <<mask_vars, builder_vars, place>>

-----------------------------------------------------------------------------

NoMask == /\ mask = [text |-> <<>>, none |-> FALSE, alts |-> <<>>]
          /\ word = None /\ inside = "no" /\ compare = "no" /\ number = None
          /\ at = 1 /\ stage = "done"

Init == /\ BuilderInit(<<>>)
        /\ \/ MaskInit /\ place = "unset"
           \/ NoMask   /\ place = "none"

KeyA == <<"a">>
KeyB == <<"b">>

\* The mask of a body, or of its key "a" beside a key "b" that is one string.
Under(p) == IF p = "bare" THEN mask.alts
            ELSE ObjectMask((KeyA :> MaskOf(mask.alts, mask.none)) @@ (KeyB :> LiteralMask(<<"b">>))).alts

\* What may follow each beginning of a whole text, cut anywhere.
Beginnings(texts) == UNION {Prefixes(t) : t \in texts}
Rests == [b \in Beginnings(Wholes) |->
            UNION {{SubSeq(t, Len(b) + 1, n) : n \in Len(b) + 1..Len(t)}
                   : t \in {w \in Wholes : IsPrefix(b, w)}}]

Resolve  == MaskNext /\ UNCHANGED <<builder_vars, place>>
Register == /\ place = "unset" /\ stage = "done"
            /\ place' \in {"bare", "key"}
            /\ frames' = <<Builder(Under(place'))>>
            /\ UNCHANGED <<mask_vars, text, outcome, restarted>>
Read     == /\ place # "unset"
            /\ \/ place = "none" /\ text \in DOMAIN Rests /\ \E p \in Rests[text] : Feed(p)
               \/ place = "none" /\ \E p \in Pieces : Len(text) + Len(p) <= MaxText /\ Feed(p)
               \/ place # "none" /\ text = <<>> /\ \E p \in Bodies : Feed(p)
            /\ UNCHANGED <<mask_vars, place>>
Take     == /\ place # "unset" /\ (place = "none" \/ text # <<>>)
            /\ Get /\ UNCHANGED <<mask_vars, place>>

Next == Resolve \/ Register \/ Read \/ Take
Spec == Init /\ [][Next]_vars

-----------------------------------------------------------------------------
(* The text of a value.                                                       *)

RECURSIVE Digits(_), Render(_)
Joined(seqs) == FoldLeft(LAMBDA t, s : IF t = <<>> THEN s ELSE t \o <<",">> \o s, <<>>, seqs)
Escape(c)    == CASE c = Q -> <<"\\", Q>> [] c = "\\" -> <<"\\", "\\">> [] c = "\n" -> <<"\\", "n">>
                  [] OTHER -> <<c>>
Quoted_text(s) == <<Q>> \o FlattenSeq([i \in DOMAIN s |-> Escape(s[i])]) \o <<Q>>
KeysOf(v)    == SetToSeq(DOMAIN v.keys)
Digits(n)    == (IF n < 10 THEN <<>> ELSE Digits(n \div 10)) \o <<ToString(n % 10)>>
Render(v) ==
  CASE v.type = "null"   -> <<"null">>
    [] v.type = "bool"   -> IF v.n = 1 THEN <<"true">> ELSE <<"false">>
    [] v.type = "string" -> Quoted_text(v.s)
    [] v.type = "number" -> (IF v.n < 0 THEN <<"-">> ELSE <<>>) \o Digits((IF v.n < 0 THEN -v.n ELSE v.n) \div 10)
    [] v.type = "decimal" -> (IF v.n < 0 THEN <<"-">> ELSE <<>>) \o Digits((IF v.n < 0 THEN -v.n ELSE v.n) \div 10)
                             \o <<".", ToString((IF v.n < 0 THEN -v.n ELSE v.n) % 10)>>
    [] v.type = "array"  -> <<"[">> \o Joined([i \in DOMAIN v.items |-> Render(v.items[i])]) \o <<"]">>
    [] v.type = "object" -> <<"{">> \o Joined([i \in DOMAIN KeysOf(v) |->
                               Quoted_text(KeysOf(v)[i]) \o <<":">> \o Render(v.keys[KeysOf(v)[i]])])
                            \o <<"}">>
\* A text without the blanks that stand outside its strings.
Stripped(t) ==
  LET Step(z, c) ==
        [text |-> IF c \in Spaces /\ ~z.string THEN z.text ELSE Append(z.text, c),
         string |-> IF c = Q /\ ~z.escape THEN ~z.string ELSE z.string,
         escape |-> z.string /\ c = "\\" /\ ~z.escape]
  IN FoldLeft(Step, [text |-> <<>>, string |-> FALSE, escape |-> FALSE], t).text
Within(sub, t) == \E i \in 0..Len(t) - Len(sub) : SubSeq(t, i + 1, i + Len(sub)) = sub

\* What the parser takes although it is not JSON, or renders otherwise: a comma
\* before "]", a key without a value, numbers with a plus sign, an exponent or
\* an empty fraction, no digits at all, minus zero, long fractions and blanks
\* inside a number; \u, control and multi-byte characters of strings.
Lenient(t) ==
  LET u == Stripped(t)
  IN \/ Within(<<",", "]">>, u) \/ Within(<<":", "}">>, u) \/ Within(<<Q, "}">>, u)
     \/ u \in {<<>>, <<"-">>} \/ Within(<<"-", "0">>, u)
     \/ \E i \in DOMAIN t :
          \/ t[i] \in {"+", "e", "u", "lead2", "lead3", "cont"}
          \/ t[i] = "." /\ (i = Len(t) \/ ~Digit(t[i + 1]) \/ (i + 1 < Len(t) /\ Digit(t[i + 2])))
          \/ t[i] \in Spaces /\ \E j \in 1..i - 1, k \in i + 1..Len(t) :
               /\ {t[j], t[k]} \subseteq {"-", "."} \cup {ToString(d) : d \in 0..9}
               /\ \A x \in j + 1..k - 1 : t[x] \in Spaces

\* A piece that comes when the value has ended goes on where the parser stood.
\* Only a space behind a string, or blanks behind an array or an object, do not
\* change anything.
Plain ==
  \/ restarted = None
  \/ \A i \in restarted + 1..Len(text) :
       text[i] \in (CASE frames[1].act = "string" -> {" "}
                     [] frames[1].act \in {"array", "object"} -> Spaces
                     [] OTHER -> {})

Valid_beginnings == Beginnings({Render(v) : v \in Documents})
Values == [t \in {Render(v) : v \in Documents} |-> CHOOSE v \in Documents : Render(v) = t]

-----------------------------------------------------------------------------
(* Properties.                                                                *)

\* However a text is cut into pieces, the value built is the one the text is
\* the rendering of; no text of a JSON value is refused, and none before it is
\* complete (operator<< and get, in every order the calls may come).
EveryCut ==
  (place = "none" /\ outcome # None /\ ~Lenient(text) /\ Plain) =>
    IF outcome.ok THEN Stripped(text) = Render(outcome.value)
    ELSE Stripped(text) \notin IF frames[1].bad THEN Valid_beginnings ELSE DOMAIN Values

-----------------------------------------------------------------------------
(* What a mask says.  An expression is a sequence of alternatives, each a     *)
(* word with limits, and limits of an array or None; and whether "|none" ends *)
(* it.                                                                        *)

Limits(open, limits, close) ==
  IF limits = <<>> THEN <<>>
  ELSE <<open>> \o FoldLeft(LAMBDA t, l : (IF t = <<>> THEN t ELSE t \o <<" ">>) \o l[1] \o <<ToString(l[2])>>,
                            <<>>, limits) \o <<close>>
WrittenAlternative(a) ==
  <<a.word>> \o Limits("(", a.limits, ")")
  \o IF a.array = None THEN <<>> ELSE IF a.array = <<>> THEN <<"[", "]">> ELSE Limits("[", a.array, "]")
Written(e) ==
  FoldLeft(LAMBDA t, a : (IF t = <<>> THEN t ELSE t \o <<"|">>) \o WrittenAlternative(a), <<>>, e.alts)
  \o IF e.none THEN <<"|", "none">> ELSE <<>>

Within_limit(l, n) == CASE l[1] = <<">", "=">> -> n >= 10 * l[2]  [] l[1] = <<">">> -> n > 10 * l[2]
                        [] l[1] = <<"<", "=">> -> n <= 10 * l[2]  [] l[1] = <<"<">> -> n < 10 * l[2]
                        [] l[1] = <<"=">>  -> n = 10 * l[2]       [] l[1] = <<>> -> n = 10 * l[2]
Within_limits(limits, n) == \A i \in DOMAIN limits : Within_limit(limits[i], n)

\* Satisfies(e, n, v, how): v satisfies one of the first n alternatives.  The
\* brackets of an array take the alternatives before it too.  "how" says which
\* reading is meant: "strict", "typeless" (numbers, booleans and null are not
\* told apart), "unbounded" (limits of numbers are not looked at) or "positive"
\* (strict, and nothing has a size that is bounded by >=0 or =0).
Bounded_by_zero(limits) == \E i \in DOMAIN limits : limits[i] \in {<<<<">", "=">>, 0>>, <<<<"=">>, 0>>}
Sized(limits, v, how) == /\ Within_limits(limits, 10 * Size(v))
                         /\ how = "positive" => ~Bounded_by_zero(limits)

Scalars == {"number", "decimal", "bool", "null"}
One(a, v, how) ==
  LET typed == \/ a.word \in {v.type, "any"} \/ (a.word = "numeric" /\ v.type \in {"number", "decimal"})
               \/ (how = "typeless" /\ {a.word, v.type} \subseteq Scalars)
  IN typed /\ \/ a.word = "any" \/ a.limits = <<>> \/ v.type \in {"bool", "null"}
              \/ (how = "unbounded" /\ v.type # "string" /\ a.limits[1][1] # <<>>)
              \/ IF v.type \in {"number", "decimal"} THEN Within_limits(a.limits, v.n)
                 ELSE Sized(a.limits, v, how)
RECURSIVE Satisfies(_, _, _, _)
Satisfies(alts, n, v, how) ==
  n > 0 /\ IF alts[n].array = None THEN One(alts[n], v, how) \/ Satisfies(alts, n - 1, v, how)
           ELSE /\ v.type = "array" /\ Sized(alts[n].array, v, how)
                /\ \A i \in DOMAIN v.items : \/ One(alts[n], v.items[i], how)
                                            \/ Satisfies(alts, n - 1, v.items[i], how)

Meanings   == [t \in {Written(e) : e \in Expressions} |-> CHOOSE e \in Expressions : Written(e) = t]
Expression == Meanings[mask.text]
Value      == Values[text]

\* The items of an array are read under the first alternative that takes one,
\* its size may be that of another: all the same where there is only one.
ArrayOnce == \/ Value.type # "array" /\ \A k \in DOMAIN Value.keys : Value.keys[k].type # "array"
             \/ Quantify(DOMAIN Expression.alts, LAMBDA i : \/ Expression.alts[i].array # None
                                                           \/ Expression.alts[i].word = "any") <= 1
Meets(v, how) == Satisfies(Expression.alts, Len(Expression.alts), v, how)
RightKey(k, v, how) == IF k = KeyB THEN v = Str(<<"b">>) ELSE Meets(v, how)

\* What every key that is there must be, and that one that is not may be left out.
MeetsAll(how) ==
  IF place = "bare" THEN Meets(Value, how)
  ELSE /\ Value.type = "object" /\ DOMAIN Value.keys \subseteq {KeyA, KeyB}
       /\ \A k \in DOMAIN Value.keys : RightKey(k, Value.keys[k], how)
MayMiss == place = "key" /\ Value.type = "object" =>
             KeyB \in DOMAIN Value.keys /\ (KeyA \in DOMAIN Value.keys \/ Expression.none)

Judged == place \in {"bare", "key"} /\ outcome # None /\ text \in DOMAIN Values
          /\ mask.text \in DOMAIN Meanings

\* While a body is read under a mask, it is refused only if it breaks the mask,
\* and what is accepted keeps to its limits, sizes, values and keys.  Not told
\* apart are numbers, booleans and null, keys may be missing, and the type
\* "numeric" is never met (the resolver and the builder together).
BodyMasked ==
  Judged /\ ArrayOnce =>
    /\ outcome.ok => MeetsAll("typeless") /\ outcome.value = Value
    /\ (MeetsAll("strict") /\ \A i \in DOMAIN Expression.alts : Expression.alts[i].word # "numeric")
         => outcome.ok

Holds_array(v) == v.type = "array" /\ v.items # <<>>

\* json_mask::valid of the same value: what it accepts has the right types,
\* sizes and values in every key up to the first one missing, which may be
\* missing; limits of numbers are not looked at.  It refuses nothing that
\* meets the mask, but throws at the first item of an array of the mask's, and
\* a limit >=0 or =0 of a size, which becomes -1, is met by no size at all.
ValueMasked ==
  (Judged /\ place = "bare") =>
    LET answer == Valid(mask.alts, Value)
    IN /\ answer = "yes" => Meets(Value, "unbounded")
       /\ answer = "throws" => Holds_array(Value)
       /\ (Meets(Value, "positive") /\ ~Holds_array(Value)) => answer = "yes"

\* The same of an object with a key that may be missing beside one that may
\* not: extra keys are refused, and so is a missing one that the mask wants;
\* again no size meets a limit >=0 or =0.
KeysMasked ==
  (Judged /\ place = "key" /\ Value.type = "object") =>
    LET answer == Valid(Under("key"), Value)
        missing == {k \in {KeyA, KeyB} : k \notin DOMAIN Value.keys}
        looked  == IF KeyA \in missing THEN {} ELSE {KeyA, KeyB} \ missing
    IN /\ answer = "yes" => /\ Cardinality(DOMAIN Value.keys) <= 2
                            /\ \A k \in looked : RightKey(k, Value.keys[k], "unbounded")
                            /\ missing # {} => KeyA \in missing /\ Expression.none
       /\ (MeetsAll("positive") /\ MayMiss /\ \A k \in looked : ~Holds_array(Value.keys[k])) => answer = "yes"
=============================================================================
