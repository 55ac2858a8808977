---------------------------- MODULE MCJsonScanner ----------------------------
(***************************************************************************)
(* JsonScanner for TLC: documents of depth three over strings that hold a  *)
(* key, brackets, a comma, escaped quotes and an escaped backslash.         *)
(***************************************************************************)
EXTENDS JsonScanner

MCNames == {<<"a">>, <<"b">>}

Str(chars) == [kind |-> "string", chars |-> chars]

Leaves ==
    {Str(<<>>), Str(<<"a">>), Str(<<"]", ",", "}">>), Str(<<"\\", "\"">>), Str(<<"\\", "\\">>),
     Str(<<"\\", "\"", "a">>),
     [kind |-> "number", chars |-> <<"-", "1">>], [kind |-> "word", chars |-> <<"n">>]}

Arrays(values, n) == {[kind |-> "array", items |-> s] : s \in UNION {[1..m -> values] : m \in 0..n}}

Objects(values, n) ==
    {[kind |-> "object", fields |-> s] :
        s \in {f \in UNION {[1..m -> [key : MCNames, value : values]] : m \in 0..n} :
                  \A i, j \in DOMAIN f : i # j => f[i].key # f[j].key}}

Nested == Leaves \cup Arrays(Leaves, 1) \cup Objects(Leaves, 1)
Deep == Arrays(Objects({Str(<<"a">>), Str(<<"]", ",", "}">>)}, 1), 2)

MCDocuments ==
    Arrays(Leaves, 2) \cup Objects(Nested, 2) \cup Objects(Deep, 1)
=============================================================================
