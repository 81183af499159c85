----------------------------- MODULE MCScripts -----------------------------
(***************************************************************************)
(* Scripts for TLC: every short sequence of the tokens of an expression, a *)
(* table or a statement, most of them no programs, and what puts together  *)
(* what the compiler's rules and jumps have to keep apart: operators of    *)
(* two levels, targets of assignments, and statements within statements.   *)
(***************************************************************************)
EXTENDS Scripts

CONSTANT MaxLength

Strings(vocabulary) == UNION {[1 .. i -> vocabulary] : i \in 0 .. MaxLength}

Texts ==
  Strings({"a", "-", "(", ")", "=", ".", "length"}) \cup
  Strings({"{", "}", "a", ":", ",", "=", "1"}) \cup
  Strings({"{", "}", "let", "a", ";", "if", "return", "@"}) \cup
  {<<"fn", "a", "(">> \o text : text \in Strings({"a", ",", ")", "{", "}", "return", ";"})}

\* One piece of each of these sets, in this order.
RECURSIVE Joined(_)
Joined(pieces) ==
  IF pieces = <<>> THEN {<<>>}
  ELSE {first \o rest : first \in Head(pieces), rest \in Joined(Tail(pieces))}

Each(tokens) == {<<t>> : t \in tokens}

Infixes == Each(DOMAIN BinaryCode \cup {"and", "or"})

Prefixes == Each({"-", "!", "typeof", "length"})

\* Two operators between operands of every type, and two with prefixes.
Formulas ==
  Joined(<<{<<"let", "a", "=">>}, Each({"1", "nil", "'x'"}), Infixes, Each({"2", "'x'"}), Infixes,
           Each({"3"}), {<<";">>}>>) \cup
  Joined(<<{<<"let", "a", "=">>}, Prefixes, Each({"1", "'x'", "type"}), Infixes, Prefixes,
           Each({"0", "true", "'xy'"}), {<<";">>}>>)

\* Tables, their properties and elements, calls, and assignments to all these.
Things ==
  { <<"a">>, <<"1">>, <<"a", ".", "b">>, <<"a", "[", "'b'", "]">>, <<"a", "[", "a", ".", "b", "]">>,
    <<"len", "(", "'x'", ")">>, <<"type", "(", "a", ",", "a", ")">>, <<"(", "a", ")">>,
    <<"length", "a">> }

Tables ==
  Joined(<<{<<"let", "a", "=", "{", "b", ":", "1", "}", ";">>}, Things, Each({"=", "==", "+", ";"}),
           Things \cup {<<"{", "b", ":", "a", ",", "a", ":", "2", "}">>},
           {<<"=">>, <<".", "b", ";">>, <<";">>}, {<<"a">>, <<"a", ".", "b">>}, {<<";">>}>>)

\* Statements in statements, with a local that may hide the global.
Heads ==
  {<<k, "(", "a", "<", "2", ")">> : k \in {"while", "if"}} \cup
  { <<"if", "(", "a", "and", "b", ")">>,
    <<"for", "(", "let", "b", "=", "0", ";", "b", "<", "2", ";", "b", "=", "b", "+", "1", ")">>,
    <<"for", "(", ";", "a", "<", "2", ";", ")">>,
    <<"for", "(", "b", ";", ";", "a", "=", "b", ")">> }

Simple ==
  { <<"a", "=", "a", "+", "1", ";">>, <<"let", "a", "=", "b", ";">>, <<"assert", "a", "<", "2">>,
    <<"b">>, <<"a", "or", "b", ";">> }

Bodies == Simple \cup Joined(<<{<<"{">>}, Simple, Simple, {<<"}">>}>>)

Nested ==
  Joined(<<Heads, Bodies, {<<"else">>, <<>>}, {<<"b", ";">>, <<"a", "=", "3", ";">>}>>) \cup
  Joined(<<Heads, Heads, Bodies>>)

Blocks ==
  Joined(<<{<<"let", "a", "=", "0", ";", "let", "b", "=", "1", ";">>},
           Nested \cup
           Joined(<<{<<"{">>, <<"{", "let", "b", "=", "2", ";">>}, Nested, {<<"}">>}>>)>>)

\* Two functions around a local: they count it up, hide it, hand it on or ask
\* for it, wherever it is declared, and are called when it may be gone.
Inner ==
  { <<"a", "=", "a", "+", "1", ";", "return", "a">>, <<"let", "a", "=", "b", ";", "return", "a">>,
    <<"return", "fn", "(", "b", ")", "{", "return", "a", "+", "b", ";", "}", ";">>, <<"a">> }

Around ==
  { <<<<"{", "let", "a", "=", "2", ";">>, <<"}">>>>,
    <<<<"for", "(", "let", "a", "=", "0", ";", "a", "<", "2", ";", "a", "=", "a", "+", "1", ")",
        "{">>, <<"}">>>>,
    <<<<"while", "(", "b", "<", "2", ")",
        "{", "let", "a", "=", "b", ";", "b", "=", "b", "+", "1", ";">>, <<"}">>>>,
    <<<<"fn", "type", "(", "a", ")", "{">>, <<"}", "type", "(", "3", ")", ";">>>> }

Captures ==
  UNION {Joined(<<{<<"let", "b", "=", "0", ";", "let", "f", "=", "nil", ";">>}, {w[1]},
                  {<<"f", "=", "fn", "(", ")", "{">>}, Inner, {<<"}", ";">>},
                  { <<>>, <<"a", "=", "a", "+", "1", ";">>,
                    <<"b", "=", "fn", "(", ")", "{", "a", "=", "3", ";", "}", ";">>,
                    <<"fn", "len", "(", ")", "{", "b", "=", "a", ";", "}", "f", "(", ")", ";",
                      "len", "(", ")", ";">> },
                  {w[2]},
                  {<<>>, <<"b", "(", ")", ";">>}, {<<"b", "=", "f", "(", ")">>}, {<<";">>, <<"(", "1", ")", ";">>},
                  {<<>>, <<"let", "a", "=", "f", "(", ")", ";">>}>>) : w \in Around}

\* Functions that call themselves, too deep, with the wrong number of arguments
\* and without returning, called from wherever a value may be on the stack.
Returning ==
  { <<"return", "0", ";">>, <<"return", ";">>,
    <<"{", "let", "b", "=", "a", ";", "return", "b", "}">> }

Recurring ==
  { <<"return", "f", "(", "a", "-", "1", ")", ";">>,
    <<"let", "b", "=", "1", "+", "f", "(", "a", "-", "1", ")", ";", "return", "b", "+", "a">>,
    <<"a", "=", "b", ";", "f", "(", "a", "-", "1", ")", ";">>, <<"f", "=", "a", ";">> }

Recursive ==
  UNION {Joined(<<{w[1]}, {<<"fn", "f", "(", "a", ")", "{", "if", "(", "a", "<", "1", ")">>},
                  Returning, Recurring, {<<"}">>},
                  {<<"b", "=", "1", "==", "f", "(">>, <<"b", "=", "f", "(">>},
                  {<<"1">>, <<"2">>, <<"3">>, <<"1", ",", "f">>, <<>>},
                  {<<")">>, <<")", ";">>}, {w[2]}>>)
           : w \in {<<<<"let", "b", "=", "2", ";">>, <<>>>>,
                    <<<<"{", "let", "b", "=", "2", ";">>, <<"}">>>>}}

MCSources == Texts \cup Formulas \cup Tables \cup Blocks \cup Captures \cup Recursive
=============================================================================
