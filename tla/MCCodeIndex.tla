----------------------------- MODULE MCCodeIndex -----------------------------
EXTENDS CodeIndex
Names == {"main", "src", "Src", "sub", "root", "a", "b", "c", "d"}
Lowercase == [n \in Names |-> IF n = "Src" THEN "src" ELSE n]
Paths == {<<"main">>, <<"src", "a">>, <<"src", "sub", "b">>, <<"Src", "sub", "d">>,
          <<"root", "c">>}
Matched == {<<"main">>, <<"root", "c">>, <<"src", "a">>, <<"src", "sub", "b">>}
=============================================================================
