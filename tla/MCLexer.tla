------------------------------ MODULE MCLexer ------------------------------
(***************************************************************************)
(* Lexer for TLC: every short text over the characters that comments,      *)
(* strings and numbers are made of, and every reserved word with a letter  *)
(* more, a letter less or a letter changed.                                *)
(***************************************************************************)
EXTENDS Lexer, SequencesExt

CONSTANT MaxLength

\* Every text of at most n characters of the alphabet.
Over(alphabet, n) == UNION {[1 .. i -> alphabet] : i \in 0 .. n}

Chars(word) == [i \in 1 .. Len(word) |-> SubSeq(word, i, i)]

Words ==
  {Chars(word) : word \in
     {"and", "as", "assert", "break", "continue", "else", "false", "fn", "for", "if", "import",
      "length", "let", "nil", "or", "return", "struct", "true", "typeof", "while"}}

Misspelt(word) ==
  {word, Append(word, "s"), Append(word, "1"), Front(word), <<"_">> \o word} \cup
  {[word EXCEPT ![i] = "x"] : i \in 1 .. Len(word)}

MCSources ==
  Over({"/", "*", "\n", "a"}, MaxLength + 1) \cup
  Over({"\"", "\\", "\n", "a"}, MaxLength + 1) \cup
  Over({"1", ".", "a", "-"}, MaxLength) \cup
  Over({"/", "\"", "1", "=", "!", ";", "@", "\\", "\r", "\n"}, MaxLength - 1) \cup
  UNION {Misspelt(w) : w \in Words}
=============================================================================
