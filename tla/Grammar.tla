------------------------------ MODULE Grammar ------------------------------
(***************************************************************************)
(* The language of MJ scripts as a grammar: which sequences of tokens are  *)
(* programs, and the tree of each.  It is the reference the one-pass       *)
(* compiler is compared with: precedence is a nesting of levels, and what  *)
(* the tokens can be is a set.                                             *)
(*                                                                         *)
(* A parse is a pair of a tree and the index behind its last token.  A     *)
(* tree is a node's kind, what belongs to the node, and its subtrees.      *)
(***************************************************************************)
EXTENDS Tokens

Node(kind, data, kids) == <<kind, data, kids>>
Kind(t) == t[1]
Data(t) == t[2]
Kids(t) == t[3]
Leaf(value) == Node("value", value, <<>>)
NoStatement == Node("block", "", <<>>)

\* The binary operators, the loosest first.
Levels ==
  << {"or"}, {"and"}, {"==", "!="}, {"<", ">", "<=", ">="}, {"+", "-"}, {"*", "%"} >>

RECURSIVE Assigned(_, _), Braced(_, _)

\* Parses of one or more expressions, separated by commas: their trees.
RECURSIVE Listed(_, _)
Listed(s, i) ==
  LET firsts == Assigned(s, i)
  IN  {<<<<f[1]>>, f[2]>> : f \in firsts} \cup
      UNION {{<<<<f[1]>> \o rest[1], rest[2]>> : rest \in Listed(s, f[2] + 1)}
               : f \in {g \in firsts : TokenAt(s, g[2]) = ","}}

\* Those of a set of parses that the token follows, behind it.
Closed(s, parses, token) ==
  {<<p[1], p[2] + 1>> : p \in {q \in parses : TokenAt(s, q[2]) = token}}

\* The entries of a table literal: keys and values.
RECURSIVE Fields(_, _)
Fields(s, i) ==
  IF ~(TokenAt(s, i) \in Names /\ TokenAt(s, i + 1) = ":") THEN {}
  ELSE LET firsts == Assigned(s, i + 2)
       IN  {<<<<<<s[i], f[1]>>>>, f[2]>> : f \in firsts} \cup
           UNION {{<<<<<<s[i], f[1]>>>> \o rest[1], rest[2]>> : rest \in Fields(s, f[2] + 1)}
                    : f \in {g \in firsts : TokenAt(s, g[2]) = ","}}

TableNode(entries) ==
  Node("table", [k \in 1 .. Len(entries) |-> entries[k][1]],
                [k \in 1 .. Len(entries) |-> entries[k][2]])

\* Names separated by commas, and nothing or such names.
RECURSIVE NameLists(_, _)
NameLists(s, i) ==
  IF TokenAt(s, i) \notin Names THEN {}
  ELSE IF TokenAt(s, i + 1) # "," THEN {<<<<s[i]>>, i + 1>>}
  ELSE {<<<<s[i]>> \o rest[1], rest[2]>> : rest \in NameLists(s, i + 2)}

ParameterLists(s, i) == IF TokenAt(s, i) = ")" THEN {<<<<>>, i>>} ELSE NameLists(s, i)

\* A function, behind fn or its name.
Functions(s, i) ==
  IF TokenAt(s, i) # "(" THEN {}
  ELSE UNION {{<<Node("function", p[1], b[1]), b[2]>> : b \in Braced(s, p[2])}
                : p \in Closed(s, ParameterLists(s, i + 1), ")")}

Primary(s, i) ==
  LET t == TokenAt(s, i) IN
  CASE t \in Names           -> {<<Node("name", t, <<>>), i + 1>>}
    [] t \in Numerals        -> {<<Leaf(Number(NumberOf[t])), i + 1>>}
    [] t \in DOMAIN Literals -> {<<Leaf(Literals[t]), i + 1>>}
    [] IsQuoted(t)           -> {<<Leaf(Text(Unquoted(t))), i + 1>>}
    [] t = "fn"              -> Functions(s, i + 1)
    [] t = "("               -> {<<Node("group", "", <<p[1]>>), p[2]>>
                                   : p \in Closed(s, Assigned(s, i + 1), ")")}
    [] t = "{"               -> {<<TableNode(p[1]), p[2]>>
                                   : p \in Closed(s, {<<<<>>, i + 1>>} \cup Fields(s, i + 1), "}")}
    [] OTHER                 -> {}

\* What may be said of the expression p: .name, [index] or (arguments).
Suffixed(s, p) ==
  LET t == p[1]
      i == p[2] + 1
  IN
  CASE TokenAt(s, p[2]) = "." ->
         IF TokenAt(s, i) \in Names THEN {<<Node("dot", s[i], <<t>>), i + 1>>} ELSE {}
    [] TokenAt(s, p[2]) = "[" ->
         {<<Node("index", "", <<t, q[1]>>), q[2]>> : q \in Closed(s, Assigned(s, i), "]")}
    [] TokenAt(s, p[2]) = "(" ->
         (IF TokenAt(s, i) = ")" THEN {<<Node("call", "", <<t>>), i + 1>>} ELSE {})
         \cup {<<Node("call", "", <<t>> \o q[1]), q[2]>> : q \in Closed(s, Listed(s, i), ")")}
    [] OTHER -> {}

RECURSIVE WithSuffixes(_, _)
WithSuffixes(s, parses) ==
  LET more == UNION {Suffixed(s, p) : p \in parses}
  IN  IF more = {} THEN parses ELSE parses \cup WithSuffixes(s, more)

RECURSIVE Operands(_, _)
Operands(s, i) ==
  IF TokenAt(s, i) \in {"-", "!", "typeof", "length"}
  THEN {<<Node("unary", s[i], <<p[1]>>), p[2]>> : p \in Operands(s, i + 1)}
  ELSE WithSuffixes(s, Primary(s, i))

RECURSIVE Level(_, _, _), Chain(_, _, _)
Level(s, i, l) == IF l > Len(Levels) THEN Operands(s, i) ELSE Chain(s, Level(s, i, l + 1), l)

\* Operators of one level group to the left.
Chain(s, parses, l) ==
  LET more == UNION {{<<Node("binary", s[p[2]], <<p[1], q[1]>>), q[2]>>
                        : q \in Level(s, p[2] + 1, l + 1)}
                       : p \in {r \in parses : TokenAt(s, r[2]) \in Levels[l]}}
  IN  IF more = {} THEN parses ELSE parses \cup Chain(s, more, l)

\* Assignments group to the right; a name, a property or an element is set.
IsTarget(t) == Kind(t) \in {"name", "dot", "index"}

Assigned(s, i) ==
  LET values  == Level(s, i, 1)
      targets == {p \in values : IsTarget(p[1]) /\ TokenAt(s, p[2]) = "="}
  IN  values \cup UNION {{<<Node("set " \o Kind(p[1]), Data(p[1]), Append(Kids(p[1]), q[1])), q[2]>>
                            : q \in Assigned(s, p[2] + 1)} : p \in targets}

\* An expression extends as far as it can.  What makes typeof and length
\* unary operators only is that no expression is followed by them.
Expressions(s, i) ==
  {p \in Assigned(s, i) : /\ \A q \in Assigned(s, i) : q[2] <= p[2]
                          /\ TokenAt(s, p[2]) \notin {"typeof", "length"}}

-----------------------------------------------------------------------------
(* Statements *)

\* A semicolon may end a statement.
Behind(s, i) == IF TokenAt(s, i) = ";" THEN i + 1 ELSE i

ExpressionStatements(s, i) ==
  {<<Node("expression", TokenAt(s, p[2]) = ";", <<p[1]>>), Behind(s, p[2])>>
     : p \in Expressions(s, i)}

Lets(s, i) ==
  IF TokenAt(s, i) # "let" \/ TokenAt(s, i + 1) \notin Names THEN {}
  ELSE IF TokenAt(s, i + 2) # "="
  THEN {<<Node("let", s[i + 1], <<Leaf(Nil)>>), Behind(s, i + 2)>>}
  ELSE {<<Node("let", s[i + 1], <<p[1]>>), Behind(s, p[2])>> : p \in Expressions(s, i + 3)}

\* A declared function may mention itself.
NamedFunctions(s, i) ==
  IF TokenAt(s, i) \notin Names THEN {}
  ELSE {<<Node("fn", s[i], <<p[1]>>), p[2]>> : p \in Functions(s, i + 1)}

RECURSIVE Statements(_, _)

Declared(s, i) ==
  CASE TokenAt(s, i) = "let" -> Lets(s, i)
    [] TokenAt(s, i) = "fn"  -> NamedFunctions(s, i + 1)
    [] OTHER                 -> Statements(s, i)

\* Declarations up to a token that ends them: their trees.
RECURSIVE DeclarationLists(_, _, _)
DeclarationLists(s, i, end) ==
  IF TokenAt(s, i) = end THEN {<<<<>>, i>>}
  ELSE UNION {{<<<<p[1]>> \o q[1], q[2]>> : q \in DeclarationLists(s, p[2], end)}
                : p \in Declared(s, i)}

\* The declarations between braces.
Braced(s, i) ==
  IF TokenAt(s, i) = "{" THEN Closed(s, DeclarationLists(s, i + 1, "}"), "}") ELSE {}

Conditions(s, i) ==
  IF TokenAt(s, i) = "(" THEN Closed(s, Expressions(s, i + 1), ")") ELSE {}

Ifs(s, i) ==
  UNION {UNION {
    IF TokenAt(s, p[2]) = "else"
    THEN {<<Node("if", "", <<c[1], p[1], q[1]>>), q[2]>> : q \in Statements(s, p[2] + 1)}
    ELSE {<<Node("if", "", <<c[1], p[1], NoStatement>>), p[2]>>}
  : p \in Statements(s, c[2])} : c \in Conditions(s, i)}

Whiles(s, i) ==
  UNION {{<<Node("while", "", <<c[1], p[1]>>), p[2]>> : p \in Statements(s, c[2])}
           : c \in Conditions(s, i)}

\* The clauses of a for: what is not said is true, or nothing.
Initializers(s, i) ==
  CASE TokenAt(s, i) = "let" -> Lets(s, i)
    [] TokenAt(s, i) = ";"   -> {<<NoStatement, i + 1>>}
    [] OTHER                 -> ExpressionStatements(s, i)

Bounds(s, i) ==
  IF TokenAt(s, i) = ";" THEN {<<Leaf(Bool(TRUE)), i + 1>>} ELSE Closed(s, Expressions(s, i), ";")

Increments(s, i) ==
  IF TokenAt(s, i) = ")" THEN {<<Leaf(Nil), i + 1>>} ELSE Closed(s, Expressions(s, i), ")")

Fors(s, i) ==
  IF TokenAt(s, i) # "(" THEN {}
  ELSE UNION {UNION {UNION {
         {<<Node("for", "", <<a[1], b[1], c[1], p[1]>>), p[2]>> : p \in Statements(s, c[2])}
         : c \in Increments(s, b[2])} : b \in Bounds(s, a[2])} : a \in Initializers(s, i + 1)}

Returns(s, i) ==
  IF TokenAt(s, i) \in {";", "}", EOF} THEN {<<Node("return", "", <<Leaf(Nil)>>), Behind(s, i)>>}
  ELSE {<<Node("return", "", <<p[1]>>), Behind(s, p[2])>> : p \in Expressions(s, i)}

Statements(s, i) ==
  CASE TokenAt(s, i) = "{"      -> {<<Node("block", "", p[1]), p[2]>> : p \in Braced(s, i)}
    [] TokenAt(s, i) = "if"     -> Ifs(s, i + 1)
    [] TokenAt(s, i) = "while"  -> Whiles(s, i + 1)
    [] TokenAt(s, i) = "for"    -> Fors(s, i + 1)
    [] TokenAt(s, i) = "return" -> Returns(s, i + 1)
    [] TokenAt(s, i) = "assert" -> {<<Node("assert", "", <<p[1]>>), Behind(s, p[2])>>
                                      : p \in Expressions(s, i + 1)}
    [] OTHER                    -> ExpressionStatements(s, i)

Programs(s) == {p[1] : p \in DeclarationLists(s, 1, EOF)}

-----------------------------------------------------------------------------
(* Names *)

Elements(names) == {names[k] : k \in 1 .. Len(names)}

\* The names that trees, one behind the other, mention and do not declare.
RECURSIVE Free(_)
Free(trees) ==
  IF trees = <<>> THEN {}
  ELSE LET t    == Head(trees)
           rest == Free(Tail(trees))
           kids == Free(Kids(t))
       IN  CASE Kind(t) \in {"name", "set name"} -> {Data(t)} \cup kids \cup rest
             [] Kind(t) = "function"             -> (kids \ Elements(Data(t))) \cup rest
             [] Kind(t) = "let"                  -> kids \cup (rest \ {Data(t)})
             [] Kind(t) = "fn"                   -> (kids \cup rest) \ {Data(t)}
             [] OTHER                            -> kids \cup rest

Declares(t) == Kind(t) \in {"let", "fn"}

\* In a scope no name is declared twice, and no initializer mentions the name
\* it is for.
WellScoped(names, declarations) ==
  LET declared == SelectSeq(declarations, Declares)
      all      == names \o [k \in 1 .. Len(declared) |-> Data(declared[k])]
  IN  /\ \A j, k \in 1 .. Len(all) : all[j] = all[k] => j = k
      /\ \A k \in 1 .. Len(declared) :
           Kind(declared[k]) = "let" => Data(declared[k]) \notin Free(Kids(declared[k]))

\* Blocks, for statements and the bodies of functions are scopes; only in a
\* function is there a return.
RECURSIVE WellNamed(_, _)
WellNamed(t, inFunction) ==
  /\ Kind(t) = "function" => WellScoped(Data(t), Kids(t))
  /\ Kind(t) \in {"block", "for"} => WellScoped(<<>>, Kids(t))
  /\ Kind(t) = "return" => inFunction
  /\ \A k \in 1 .. Len(Kids(t)) : WellNamed(Kids(t)[k], inFunction \/ Kind(t) = "function")

IsProgram(declarations) ==
  \A k \in 1 .. Len(declarations) : WellNamed(declarations[k], FALSE)

\* No expression is left without the semicolon that drops its value.
RECURSIVE Terminated(_)
Terminated(t) ==
  /\ Kind(t) = "expression" => Data(t)
  /\ \A k \in 1 .. Len(Kids(t)) : Terminated(Kids(t)[k])
=============================================================================
