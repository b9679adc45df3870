--------------------------- MODULE MCRuntimeState ---------------------------
(* Instances of RuntimeState for TLC: two capitals, two small letters, a   *)
(* digit, and lines that meet every rule of the tokenizer.                 *)
EXTENDS RuntimeState

Capitals == {"A", "B"}
Small == {"a", "b"}
CaseOf == ("A" :> "a") @@ ("B" :> "b")
CodePoints == ("1" :> 49) @@ ("_" :> 95) @@ ("a" :> 97) @@ ("b" :> 98)

(* ln(1 + (n - df + 0.5) / (df + 0.5)), in thousandths *)
IdfTable == <<<<288>>, <<693, 182>>, <<981, 470, 134>>>>

Letters == Capitals \cup Small \cup {"1", "_", " ", "e'"}

Camel    == <<"A", "b", " ", "a", "b">>            \* ab twice, Ab and ab
Pascal   == <<"A", "B", "a", "b", "_", "A", "b">>  \* bab and ab in one identifier
Acronym  == <<"A", "B", " ", "a", "B">>            \* ab; aB has no token
Numbered == <<"a", "b", "1", " ", "1", "a", "b", "B">>  \* ab1, 1ab; one identifier
Accented == <<"e'", "a", "b", " ", "b", "a", "b">> \* ab in no identifier, bab
Blank    == <<" ">>

Contents == {<<Camel>>, <<Pascal, Blank, Camel>>, <<Acronym, Pascal>>,
             <<Accented, Numbered>>, <<Blank>>}

TwoDocuments ==
    { <<[id |-> i, content |-> c], [id |-> 3 - i, content |-> d]>> :
        i \in {1, 2}, c \in Contents, d \in Contents }

ThreeDocuments ==
    { <<[id |-> 2, content |-> <<Accented>>],
        [id |-> 3, content |-> <<Acronym, Acronym>>],
        [id |-> 1, content |-> c]>> : c \in Contents }

FewDocuments == TwoDocuments \cup ThreeDocuments

Asked == {<<"a">>, <<"A", "b">>, <<"a", "b", " ", "A", "b">>,
          <<"b", "a", "b", " ", "a", "b">>, <<"a", "b", " ", "b", "a", "b">>,
          <<"A", "B", "a", "b", " ", "1", "a", "b">>}
=============================================================================
