------------------------------- MODULE Tokens -------------------------------
(***************************************************************************)
(* Tokens as the parser and the grammar see them: a token is its text,     *)
(* which Lexer finds, and what it stands for is in Values.  Strings are    *)
(* quoted with one mark and have no escapes.                               *)
(***************************************************************************)
EXTENDS Values

CONSTANT Names        \* identifiers

EOF == "EOF"

\* Behind the last token there is EOF, as often as it is asked for.
TokenAt(tokens, i) == IF i <= Len(tokens) THEN tokens[i] ELSE EOF

Numerals == {"0", "1", "2", "3"}

NumberOf ==
  [t \in Numerals |-> CASE t = "0" -> 0 [] t = "1" -> 1 [] t = "2" -> 2 [] t = "3" -> 3]

Literals == [t \in {"nil", "true", "false"} |-> IF t = "nil" THEN Nil ELSE Bool(t = "true")]

IsQuoted(t) == Len(t) >= 2 /\ SubSeq(t, 1, 1) = "'"

Unquoted(t) == SubSeq(t, 2, Len(t) - 1)
=============================================================================
