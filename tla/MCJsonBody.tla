----------------------------- MODULE MCJsonBody -----------------------------
(* A small instance of JsonBody for TLC.                                      *)
EXTENDS JsonBody

Ge(n) == <<<<">", "=">>, n>>
Gt(n) == <<<<">">>, n>>
Le(n) == <<<<"<", "=">>, n>>
Lt(n) == <<<<"<">>, n>>
Eq(n) == <<<<"=">>, n>>
Is(n) == <<<<>>, n>>

Alt(w, limits)      == [word |-> w, limits |-> limits, array |-> None]
ArrOf(w, limits, l) == [word |-> w, limits |-> limits, array |-> l]

MCAlternatives ==
  {Alt(w, <<>>) : w \in {"string", "number", "bool", "null", "any", "numeric"}}
  \cup {Alt("string", l) : l \in {<<Ge(1), Lt(2)>>, <<Le(1)>>, <<Eq(1)>>, <<Gt(0)>>, <<Ge(0)>>, <<Eq(0)>>}}
  \cup {Alt("number", l) : l \in {<<Ge(1), Le(2)>>, <<Is(2)>>, <<Gt(1)>>}}
  \cup {ArrOf("string", <<Ge(1)>>, <<Lt(2)>>), ArrOf("number", <<>>, <<>>), ArrOf("number", <<>>, <<Ge(0)>>)}
MCSecond ==
  {Alt(w, <<>>) : w \in {"string", "null", "any"}} \cup {Alt("string", <<Eq(1)>>), Alt("number", <<Gt(1)>>)}
  \cup {ArrOf("string", <<Ge(1)>>, <<Lt(2)>>), ArrOf("number", <<>>, <<>>)}
MCExpressions ==
  [alts : {<<x>> : x \in MCAlternatives} \cup {<<x, y>> : x \in MCAlternatives, y \in MCSecond},
   none : BOOLEAN]
MCTexts == {Written(e) : e \in MCExpressions}
           \cup {<<"string", "(", ">", ">", "1", ")">>, <<"string", "(", "1", "]">>, <<"none", "|", "number">>,
                 <<"number", "(", "1", "2", ")">>, <<"string", "(", "'b'", ")">>, <<"word">>, <<"string", "(", "=", "=", ")">>,
                 <<"string", "(", ">", "1", " ", ">", "2", ")">>, <<"number", "[", "]", "(">>, <<"number", "(", "2">>,
                 <<"number", "(", "'b'", ")">>, <<"string", "|">>}
MCQuoted == ("'b'" :> <<"b">>)

MCScalars == {Null, Bool(TRUE), Num(0), Num(1), Num(2), Num(3), Decimal(15), Str(<<>>), Str(<<"b">>), Str(<<"b", "b">>)}
MCArrays  == {Arr(<<>>)} \cup {Arr(<<x>>) : x \in {Num(1), Str(<<>>), Str(<<"b">>)}}
             \cup {Arr(<<x, y>>) : x \in {Num(1), Str(<<"b">>)}, y \in {Num(2), Str(<<"b">>)}}
MCObjects == {Obj(KeyB :> Str(<<"b">>)), Obj(KeyB :> Num(1)), Obj(<<>>), Obj(<<"c">> :> Num(1))}
             \cup {Obj(KeyA :> x) : x \in MCScalars \cup MCArrays}
             \cup {Obj((KeyA :> x) @@ (k :> Str(<<"b">>))) : x \in MCScalars, k \in {KeyB, <<"c">>}}
MCMasked  == MCScalars \cup MCArrays \cup MCObjects
MCBodies  == {Render(v) : v \in MCMasked}

MCDocuments ==
  LET flat == {Num(1), Str(<<"a">>), Arr(<<>>), Obj(<<>>)}
      one  == {Arr(<<x>>) : x \in flat} \cup {Obj(KeyA :> x) : x \in flat}
  IN MCMasked \cup flat \cup one \cup {Arr(<<x>>) : x \in one} \cup {Obj(KeyA :> x) : x \in one}
     \cup {Arr(<<x, y>>) : x \in flat, y \in flat}

Spread(t) == FlattenSeq([i \in DOMAIN t |-> IF t[i] \in {"{", "}", "[", "]", ",", ":"} THEN <<"\n", t[i], " ">>
                                            ELSE <<t[i]>>])
MCWholes  == {Render(v) : v \in MCDocuments} \cup {Spread(Render(v)) : v \in MCDocuments}

\* One token at a time, words and keys of one letter whole, and what may
\* follow the end of a value in the same piece.
Closers == {<<"]">>, <<"}">>, <<"1">>, <<Q>>, <<" ">>}
MCPieces ==
  {<<c>> : c \in {"{", "}", "[", "]", ",", ":", "1", "0", "-", ".", " ", "null", "nil", Q, "\\", "n", "\n", "lead2", "cont"}}
  \cup {<<Q, "a", Q>>, <<"\\", "u", "0", "8", "a", "1">>, <<"\\", "u", "0", "n">>}
  \cup {c \o <<d>> : c \in Closers, d \in {" ", "]", "}", ","}}
MCKeyOrder == <<KeyA, KeyB, <<"c">>>>
=============================================================================
