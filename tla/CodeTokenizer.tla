---------------------------- MODULE CodeTokenizer ----------------------------
(***************************************************************************)
(* services/code_tokenizer.py: which tokens and which identifiers a text   *)
(* has.  A line is a sequence of characters; only the classes of           *)
(* characters its regular expressions tell apart matter.                   *)
(***************************************************************************)
EXTENDS Integers, SequencesExt

CONSTANTS
    Upper,       \* A-Z
    Lower,       \* a-z
    Digits,      \* 0-9
    Underscore,  \* part of identifiers, separates tokens
    Foreign,     \* letters outside ASCII: word characters in no token
    LowerOf      \* the lower-case form of each capital

ASSUME AlphabetAssumption ==
    /\ LowerOf \in [Upper -> Lower]
    /\ Upper \cap (Lower \cup Digits) = {}
    /\ Underscore \notin Upper \cup Lower \cup Digits \cup Foreign
    /\ Foreign \cap (Upper \cup Lower \cup Digits) = {}

MinTokenLength == 2

Alphanumeric == Upper \cup Lower \cup Digits
Word == Alphanumeric \cup {Underscore} \cup Foreign

ToLower(text) ==
    [i \in DOMAIN text |-> IF text[i] \in Upper THEN LowerOf[text[i]] ELSE text[i]]

-----------------------------------------------------------------------------
(* The longest stretches <<first, last>> of a text within a class of       *)
(* characters, where Cut(i) parts character i from the next one.           *)
Stretches(text, class, Cut(_)) ==
    { s \in (DOMAIN text) \X (DOMAIN text) :
        /\ s[1] <= s[2]
        /\ \A i \in s[1]..s[2] : text[i] \in class
        /\ \A i \in s[1]..(s[2] - 1) : ~Cut(i)
        /\ s[1] = 1 \/ text[s[1] - 1] \notin class \/ Cut(s[1] - 1)
        /\ s[2] = Len(text) \/ text[s[2] + 1] \notin class \/ Cut(s[2]) }

Part(text, s) == SubSeq(text, s[1], s[2])

(* The elements of a set in the order of a relation, which is strict and   *)
(* total on it: the k-th has k - 1 elements before it.                     *)
Sorted(S, before) ==
    [k \in 1..Cardinality(S) |->
        CHOOSE x \in S : Cardinality({ y \in S : <<y, x>> \in before }) = k - 1]

InOrder(stretches) ==
    Sorted(stretches, { p \in stretches \X stretches : p[1][1] < p[2][1] })

(* _split_identifier_boundaries: a capital that starts a word after        *)
(* another capital, and a capital after a small letter or a digit.         *)
Boundary(text, i) ==
    \/ /\ i + 2 <= Len(text)
       /\ text[i] \in Upper /\ text[i + 1] \in Upper /\ text[i + 2] \in Lower
    \/ text[i] \in Lower \cup Digits /\ text[i + 1] \in Upper

TokenStretches(text) ==
    { s \in Stretches(text, Alphanumeric, LAMBDA i : Boundary(text, i)) :
        s[2] - s[1] + 1 >= MinTokenLength }

TokenizeAnyCase(text) ==
    LET parts == InOrder(TokenStretches(text))
    IN  [i \in DOMAIN parts |-> Part(text, parts[i])]

Tokenize(text) ==
    LET parts == InOrder(TokenStretches(text))
    IN  [i \in DOMAIN parts |-> ToLower(Part(text, parts[i]))]

(* tokenize_by_line: the tokens of a content with the line each is on.     *)
TokensByLine(content) ==
    FlattenSeq([n \in DOMAIN content |->
        LET tokens == Tokenize(content[n])
        IN  [i \in DOMAIN tokens |-> [line |-> n, token |-> tokens[i]]]])

(* extract_identifiers: the word boundaries of the pattern admit a match   *)
(* only as a whole word of ASCII characters that no digit starts.          *)
Identifiers(text) ==
    { Part(text, s) : s \in
        { s \in Stretches(text, Word, LAMBDA i : FALSE) :
            /\ text[s[1]] \notin Digits
            /\ \A i \in s[1]..s[2] : text[i] \notin Foreign } }
=============================================================================
