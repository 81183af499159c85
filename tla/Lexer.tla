------------------------------- MODULE Lexer -------------------------------
(***************************************************************************)
(* The scanner of src/src/lexer.c as a state machine: one step per         *)
(* character (or pair) its loops consume.  The source is a sequence of     *)
(* characters, `start' and `current' are indices into it, and reading      *)
(* behind its last character yields Nul, the terminator, which is none of  *)
(* them.  The tokens are asked for until EOF, as the compiler's advance    *)
(* does, which reports error tokens and asks again.                        *)
(***************************************************************************)
EXTENDS Integers, Sequences

CONSTANT Sources   \* the texts to scan

VARIABLES
  source,    \* Lexer.source
  start,     \* Lexer.start: where the token being scanned begins
  current,   \* Lexer.current: the next character to read
  line,      \* Lexer.line
  mode,      \* the loop the scanner is in
  tokens,    \* the tokens handed to the parser
  errors     \* the error tokens, which the parser drops

vars == <<source, start, current, line, mode, tokens, errors>>

Nul == ""

ASSUME SourcesAssumption == Sources \subseteq Seq(STRING \ {Nul})

CharAt(text, i) == IF i <= Len(text) THEN text[i] ELSE Nul

Peek == CharAt(source, current)

PeekNext == IF Peek = Nul THEN Nul ELSE CharAt(source, current + 1)

Digits == {"0", "1", "2", "3", "4", "5", "6", "7", "8", "9"}

Letters ==
  {"a", "b", "c", "d", "e", "f", "g", "h", "i", "j", "k", "l", "m", "n", "o", "p", "q", "r",
   "s", "t", "u", "v", "w", "x", "y", "z", "A", "B", "C", "D", "E", "F", "G", "H", "I", "J",
   "K", "L", "M", "N", "O", "P", "Q", "R", "S", "T", "U", "V", "W", "X", "Y", "Z", "_"}

Blanks == {" ", "\t", "\r"}

\* Punctuation of one character, and what may be followed by "=".
Single == {"(", ")", "[", "]", "{", "}", ",", ".", ";", ":", "?"}

Compound == {"!", "=", ">", "<", "+", "-", "*", "/", "%"}

\* identifier_type's decisions: an identifier that begins with `prefix', has
\* `length' characters after the first `from', and has these equal to `rest'.
KeywordRules ==
  { <<<<"a", "n">>, 2, 1, <<"d">>, "AND">>, <<<<"a", "s">>, 2, 0, <<>>, "AS">>,
    <<<<"a", "s">>, 2, 4, <<"s", "e", "r", "t">>, "ASSERT">>,
    <<<<"b">>, 1, 4, <<"r", "e", "a", "k">>, "BREAK">>,
    <<<<"c">>, 1, 7, <<"o", "n", "t", "i", "n", "u", "e">>, "CONTINUE">>,
    <<<<"e">>, 1, 3, <<"l", "s", "e">>, "ELSE">>, <<<<"f", "n">>, 2, 0, <<>>, "FN">>,
    <<<<"f", "a">>, 2, 3, <<"l", "s", "e">>, "FALSE">>, <<<<"f", "o">>, 2, 1, <<"r">>, "FOR">>,
    <<<<"i", "f">>, 2, 0, <<>>, "IF">>,
    <<<<"i", "m">>, 1, 6, <<"m", "p", "o", "r", "t">>, "IMPORT">>,
    <<<<"i", "n">>, 1, 6, <<"m", "p", "o", "r", "t">>, "IMPORT">>,
    <<<<"l", "e">>, 2, 1, <<"t">>, "LET">>,
    <<<<"l", "e">>, 2, 4, <<"n", "g", "t", "h">>, "LENGTH">>,
    <<<<"n">>, 1, 2, <<"i", "l">>, "NIL">>, <<<<"o">>, 1, 1, <<"r">>, "OR">>,
    <<<<"r">>, 1, 5, <<"e", "t", "u", "r", "n">>, "RETURN">>,
    <<<<"s">>, 1, 5, <<"t", "r", "u", "c", "t">>, "STRUCT">>,
    <<<<"t", "r">>, 2, 2, <<"u", "e">>, "TRUE">>,
    <<<<"t", "y">>, 2, 4, <<"p", "e", "o", "f">>, "TYPEOF">>,
    <<<<"w">>, 1, 4, <<"h", "i", "l", "e">>, "WHILE">> }

IdentifierType(text) ==
  LET Chosen == {r \in KeywordRules :
                   /\ Len(r[1]) <= Len(text)
                   /\ SubSeq(text, 1, Len(r[1])) = r[1]
                   /\ Len(text) = r[2] + r[3]
                   /\ SubSeq(text, r[2] + 1, Len(text)) = r[4]}
  IN  IF Chosen = {} THEN "IDENTIFIER" ELSE (CHOOSE r \in Chosen : TRUE)[5]

-----------------------------------------------------------------------------

Init ==
  /\ source \in Sources
  /\ start = 1
  /\ current = 1
  /\ line = 1
  /\ mode = "skip"
  /\ tokens = <<>>
  /\ errors = {}

Text == SubSeq(source, start, current - 1)

\* make_token at the character `end': the token is [start .. end-1].
MakeToken(type, end) ==
  tokens' = Append(tokens, [type |-> type, start |-> start, end |-> end, line |-> line])

\* skip_whitespace
SkipBlank ==
  /\ mode = "skip"
  /\ Peek \in Blanks \cup {"\n"}
  /\ line' = IF Peek = "\n" THEN line + 1 ELSE line
  /\ current' = current + 1
  /\ UNCHANGED <<source, start, mode, tokens, errors>>

EnterComment ==
  /\ mode = "skip"
  /\ Peek = "/"
  /\ \/ /\ PeekNext = "/"
        /\ mode' = "line comment"
        /\ UNCHANGED current
     \/ /\ PeekNext = "*"
        /\ mode' = "block comment"
        /\ current' = current + 2
  /\ UNCHANGED <<source, start, line, tokens, errors>>

LineComment ==
  /\ mode = "line comment"
  /\ IF Peek \notin {"\n", Nul}
       THEN current' = current + 1 /\ UNCHANGED mode
       ELSE mode' = "skip" /\ UNCHANGED current
  /\ UNCHANGED <<source, start, line, tokens, errors>>

BlockComment ==
  /\ mode = "block comment"
  /\ IF Peek # Nul /\ ~(Peek = "*" /\ PeekNext = "/")
       THEN /\ line' = IF Peek = "\n" THEN line + 1 ELSE line
            /\ current' = current + 1
            /\ UNCHANGED mode
       ELSE /\ current' = IF Peek # Nul THEN current + 2 ELSE current
            /\ mode' = "skip"
            /\ UNCHANGED line
  /\ UNCHANGED <<source, start, tokens, errors>>

\* lexer_scan behind the whitespace: the end of the source, ...
ScanEnd ==
  /\ mode = "skip"
  /\ Peek = Nul
  /\ start' = current
  /\ tokens' = Append(tokens, [type |-> "EOF", start |-> current, end |-> current, line |-> line])
  /\ mode' = "done"
  /\ UNCHANGED <<source, current, line, errors>>

\* ... a token whose end a loop looks for, ...
ScanBegin ==
  /\ mode = "skip"
  /\ Peek \in Letters \cup Digits \cup {"\""}
  /\ start' = current
  /\ current' = current + 1
  /\ mode' = IF Peek \in Letters THEN "identifier"
             ELSE IF Peek \in Digits THEN "number" ELSE "string"
  /\ UNCHANGED <<source, line, tokens, errors>>

\* ... punctuation, whose type is its text here, ...
ScanPunctuation ==
  /\ mode = "skip"
  /\ Peek \in Single \cup Compound
  /\ ~(Peek = "/" /\ PeekNext \in {"/", "*"})
  /\ LET end == IF Peek \in Compound /\ PeekNext = "=" THEN current + 2 ELSE current + 1
     IN  /\ tokens' = Append(tokens,
              [type |-> IF end = current + 2 THEN Peek \o "=" ELSE Peek,
               start |-> current, end |-> end, line |-> line])
         /\ current' = end
  /\ start' = current
  /\ UNCHANGED <<source, line, mode, errors>>

\* Mutant: the character nothing begins with is not consumed.
ScanUnexpected_Kept ==
  /\ mode = "skip"
  /\ Peek \notin Letters \cup Digits \cup Blanks \cup Single \cup Compound \cup {"\n", "\"", Nul}
  /\ start' = current
  /\ errors' = errors \cup {[start |-> current, line |-> line]}
  /\ UNCHANGED <<source, current, line, mode, tokens>>

\* ... or a character that nothing begins with.
ScanUnexpected ==
  /\ mode = "skip"
  /\ Peek \notin Letters \cup Digits \cup Blanks \cup Single \cup Compound \cup {"\n", "\"", Nul}
  /\ start' = current
  /\ current' = current + 1
  /\ errors' = errors \cup {[start |-> current, line |-> line]}
  /\ UNCHANGED <<source, line, mode, tokens>>

ScanIdentifier ==
  /\ mode = "identifier"
  /\ IF Peek \in Letters \cup Digits
       THEN current' = current + 1 /\ UNCHANGED <<mode, tokens>>
       ELSE /\ MakeToken(IdentifierType(Text), current)
            /\ mode' = "skip"
            /\ UNCHANGED current
  /\ UNCHANGED <<source, start, line, errors>>

\* Mutant: a point ends the digits whether or not more follow.
ScanNumber_TrailingPoint ==
  /\ mode \in {"number", "fraction"}
  /\ \/ /\ Peek \in Digits
        /\ current' = current + 1
        /\ UNCHANGED <<mode, tokens>>
     \/ /\ mode = "number" /\ Peek = "."
        /\ current' = current + 1
        /\ mode' = "fraction"
        /\ UNCHANGED tokens
     \/ /\ Peek \notin Digits
        /\ ~(mode = "number" /\ Peek = ".")
        /\ MakeToken("NUMBER", current)
        /\ mode' = "skip"
        /\ UNCHANGED current
  /\ UNCHANGED <<source, start, line, errors>>

ScanNumber ==
  /\ mode \in {"number", "fraction"}
  /\ \/ /\ Peek \in Digits
        /\ current' = current + 1
        /\ UNCHANGED <<mode, tokens>>
     \/ /\ mode = "number" /\ Peek = "." /\ PeekNext \in Digits
        /\ current' = current + 1
        /\ mode' = "fraction"
        /\ UNCHANGED tokens
     \/ /\ Peek \notin Digits
        /\ ~(mode = "number" /\ Peek = "." /\ PeekNext \in Digits)
        /\ MakeToken("NUMBER", current)
        /\ mode' = "skip"
        /\ UNCHANGED current
  /\ UNCHANGED <<source, start, line, errors>>

\* Mutant: an escape takes the next character even where none is left.
ScanString_EscapesEnd ==
  /\ mode = "string"
  /\ \/ /\ Peek \notin {"\"", Nul}
        /\ LET taken == IF Peek = "\\" THEN current + 1 ELSE current
           IN  /\ line' = IF CharAt(source, taken) = "\n" THEN line + 1 ELSE line
               /\ current' = taken + 1
        /\ UNCHANGED <<mode, tokens, errors>>
     \/ /\ Peek = Nul
        /\ errors' = errors \cup {[start |-> start, line |-> line]}
        /\ mode' = "skip"
        /\ UNCHANGED <<current, line, tokens>>
     \/ /\ Peek = "\""
        /\ current' = current + 1
        /\ MakeToken("STRING", current + 1)
        /\ mode' = "skip"
        /\ UNCHANGED <<line, errors>>
  /\ UNCHANGED <<source, start>>

ScanString ==
  /\ mode = "string"
  /\ \/ /\ Peek \notin {"\"", Nul}
        /\ LET taken == IF Peek = "\\" /\ PeekNext # Nul THEN current + 1 ELSE current
           IN  /\ line' = IF CharAt(source, taken) = "\n" THEN line + 1 ELSE line
               /\ current' = taken + 1
        /\ UNCHANGED <<mode, tokens, errors>>
     \/ /\ Peek = Nul
        /\ errors' = errors \cup {[start |-> start, line |-> line]}
        /\ mode' = "skip"
        /\ UNCHANGED <<current, line, tokens>>
     \/ /\ Peek = "\""
        /\ current' = current + 1
        /\ MakeToken("STRING", current + 1)
        /\ mode' = "skip"
        /\ UNCHANGED <<line, errors>>
  /\ UNCHANGED <<source, start>>

Next ==
  \/ SkipBlank \/ EnterComment \/ LineComment \/ BlockComment
  \/ ScanEnd \/ ScanBegin \/ ScanPunctuation \/ ScanUnexpected
  \/ ScanIdentifier \/ ScanNumber \/ ScanString

\* The scanner runs to the end of the file in one call of compile.
Spec == Init /\ [][Next]_vars /\ WF_vars(Next)

-----------------------------------------------------------------------------
(* Properties *)

\* No index passes the terminator, whatever comment, escape or number the source
\* breaks off in.
TypeOK ==
  /\ source \in Seq(STRING)
  /\ current \in 1 .. Len(source) + 1
  /\ start \in 1 .. current
  /\ line \in 1 .. Len(source) + 1
  /\ mode \in {"skip", "line comment", "block comment", "identifier", "number", "fraction",
               "string", "done"}
  /\ \A i \in DOMAIN tokens : tokens[i].start \in 1 .. tokens[i].end
  /\ \A e \in errors : e.start \in 1 .. Len(source)

G == INSTANCE Lexicon WITH Letter <- Letters

\* The parser is handed exactly the tokens that the lexical rules, stated without
\* a scanner, find in the source: the longest ones, in order, skipping nothing but
\* blanks and comments, each with the line it ends on, and errors for the rest.
TokensRight ==
  mode = "done" => /\ tokens = G!Scan(source)[1].tokens
                   /\ errors = G!Scan(source)[1].errors

\* Scanning ends: every step of every loop consumes something.
LexerEnds == <>(mode = "done")
=============================================================================
