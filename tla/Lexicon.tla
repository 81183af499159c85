------------------------------ MODULE Lexicon ------------------------------
(***************************************************************************)
(* The words of MJ without a scanner: where a blank, a comment, a number,  *)
(* a string or a word that begins at a given character of a text ends,     *)
(* said by what the characters in between are.  A position is that of a    *)
(* character, or the one behind the text.                                  *)
(***************************************************************************)
EXTENDS Integers, Sequences, FiniteSetsExt

CONSTANT Letter   \* what a word may begin with

End(text) == Len(text) + 1

At(text, i) == IF i \in 1 .. Len(text) THEN text[i] ELSE ""

Digit == {"0", "1", "2", "3", "4", "5", "6", "7", "8", "9"}

Gap == {" ", "\t", "\r", "\n"}

\* Marks that may be followed by "=", and marks that stand alone.
Operator == {"!", "=", ">", "<", "+", "-", "*", "/", "%"}

Mark == Operator \cup {"(", ")", "[", "]", "{", "}", ",", ".", ";", ":", "?"}

\* The words with a meaning of their own.  "import" has a token type, but no text
\* is ever given it.
Keyword ==
  { <<<<"a", "n", "d">>, "AND">>,                <<<<"a", "s">>, "AS">>,
    <<<<"a", "s", "s", "e", "r", "t">>, "ASSERT">>,
    <<<<"b", "r", "e", "a", "k">>, "BREAK">>,
    <<<<"c", "o", "n", "t", "i", "n", "u", "e">>, "CONTINUE">>,
    <<<<"e", "l", "s", "e">>, "ELSE">>,          <<<<"f", "n">>, "FN">>,
    <<<<"f", "a", "l", "s", "e">>, "FALSE">>,    <<<<"f", "o", "r">>, "FOR">>,
    <<<<"i", "f">>, "IF">>,                      <<<<"l", "e", "t">>, "LET">>,
    <<<<"l", "e", "n", "g", "t", "h">>, "LENGTH">>,
    <<<<"n", "i", "l">>, "NIL">>,                <<<<"o", "r">>, "OR">>,
    <<<<"r", "e", "t", "u", "r", "n">>, "RETURN">>,
    <<<<"s", "t", "r", "u", "c", "t">>, "STRUCT">>,
    <<<<"t", "r", "u", "e">>, "TRUE">>,          <<<<"t", "y", "p", "e", "o", "f">>, "TYPEOF">>,
    <<<<"w", "h", "i", "l", "e">>, "WHILE">> }

\* The line that a token which ends before position i carries.
LineAt(text, i) == 1 + Cardinality({j \in 1 .. i - 1 : At(text, j) = "\n"})

First(text, S) == IF S = {} THEN End(text) ELSE Min(S)

IsGap(text, i) == At(text, i) \in Gap \/ (At(text, i) = "/" /\ At(text, i + 1) \in {"/", "*"})

\* Where the blank or the comment that begins at i ends.
GapEnd(text, i) ==
  IF At(text, i) \in Gap THEN i + 1
  ELSE IF At(text, i + 1) = "/" THEN First(text, {j \in i .. End(text) : At(text, j) = "\n"})
  ELSE First(text, {j \in i + 4 .. End(text) : At(text, j - 2) = "*" /\ At(text, j - 1) = "/"})

\* The quote at j closes the string begun at i if it is not escaped: an even number
\* of backslashes stands before it.
Closes(text, i, j) ==
  /\ At(text, j) = "\""
  /\ LET slashes == {n \in 0 .. j - i - 1 : \A m \in 1 .. n : At(text, j - m) = "\\"}
     IN  Max(slashes) % 2 = 0

Closing(text, i) == {j \in i + 1 .. Len(text) : Closes(text, i, j)}

\* A number has digits, or digits, a point and digits.
Numeral(text, i, end) ==
  /\ \A j \in i .. end - 1 : At(text, j) \in Digit \cup {"."}
  /\ \A j, k \in i .. end - 1 : At(text, j) = "." /\ At(text, k) = "." => j = k
  /\ At(text, i) # "." /\ At(text, end - 1) # "."

\* The end of the token that begins at i, and whether there is one at all.
TokenEnd(text, i) ==
  IF At(text, i) \in Letter
    THEN First(text, {j \in i .. End(text) : At(text, j) \notin Letter \cup Digit})
  ELSE IF At(text, i) \in Digit THEN Max({j \in i + 1 .. End(text) : Numeral(text, i, j)})
  ELSE IF At(text, i) = "\""
    THEN IF Closing(text, i) = {} THEN End(text) ELSE Min(Closing(text, i)) + 1
  ELSE IF At(text, i) \in Operator /\ At(text, i + 1) = "=" THEN i + 2
  ELSE i + 1

IsToken(text, i) ==
  \/ At(text, i) \in Letter \cup Digit \cup Mark
  \/ At(text, i) = "\"" /\ Closing(text, i) # {}

Type(text, i) ==
  IF At(text, i) \in Letter
    THEN LET word == SubSeq(text, i, TokenEnd(text, i) - 1)
         IN  IF \E k \in Keyword : k[1] = word THEN (CHOOSE k \in Keyword : k[1] = word)[2]
             ELSE "IDENTIFIER"
  ELSE IF At(text, i) \in Digit THEN "NUMBER"
  ELSE IF At(text, i) = "\"" THEN "STRING"
  ELSE IF TokenEnd(text, i) = i + 2 THEN At(text, i) \o "="
  ELSE At(text, i)

Token(text, i) ==
  [type |-> Type(text, i), start |-> i, end |-> TokenEnd(text, i),
   line |-> LineAt(text, TokenEnd(text, i))]

Last(text) ==
  [type |-> "EOF", start |-> End(text), end |-> End(text), line |-> LineAt(text, End(text))]

\* An unterminated string is noticed at the end.
Error(text, i) ==
  [start |-> i, line |-> LineAt(text, IF At(text, i) = "\"" THEN End(text) ELSE i)]

\* All the tokens and all the errors from position i on.
Scan(text) ==
  LET from[i \in 1 .. End(text)] ==
        IF i = End(text) THEN [tokens |-> <<Last(text)>>, errors |-> {}]
        ELSE IF IsGap(text, i) THEN from[GapEnd(text, i)]
        ELSE LET rest == from[TokenEnd(text, i)]
             IN  IF IsToken(text, i)
                   THEN [tokens |-> <<Token(text, i)>> \o rest.tokens, errors |-> rest.errors]
                   ELSE [tokens |-> rest.tokens, errors |-> rest.errors \cup {Error(text, i)}]
  IN  from
=============================================================================
