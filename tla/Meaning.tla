------------------------------ MODULE Meaning ------------------------------
(***************************************************************************)
(* What an MJ script does, told from its tree, without code, a stack or    *)
(* upvalues: a local is a cell in a store, a function remembers the scopes *)
(* it was made in, and every node takes a state to a state, with the       *)
(* values of an expression.  The reference the compiled script's run is    *)
(* compared with.                                                          *)
(***************************************************************************)
EXTENDS Grammar, FiniteSets

CONSTANTS
  Fuel,        \* how often a loop may go round
  MaxDepth     \* how many calls may be under way, the script's among them

\* values: of the expressions just evaluated, in order.  The status is "return"
\* on the way out of a function.  The script itself is the first function.
Beginning(program, globals) ==
  [status |-> "ok", values |-> <<>>, globals |-> globals, tables |-> <<>>,
   scopes |-> <<>>, store |-> <<>>, depth |-> 1,
   functions |-> <<[tree |-> Node("function", <<>>, program), scopes |-> <<>>]>>]

Yield(e, value) == [e EXCEPT !.values = <<value>>]

Fail(e, how) == [e EXCEPT !.status = how]

-----------------------------------------------------------------------------
(* Variables: the innermost scope that has the name, or the globals *)

Holding(e, name) == {i \in 1 .. Len(e.scopes) : name \in DOMAIN e.scopes[i]}

\* The cell the name stands for.
Cell(e, name) ==
  e.scopes[CHOOSE i \in Holding(e, name) : \A j \in Holding(e, name) : j <= i][name]

GetName(e, name) ==
  IF Holding(e, name) # {} THEN Yield(e, e.store[Cell(e, name)])
  ELSE IF name \in DOMAIN e.globals THEN Yield(e, e.globals[name])
  ELSE Fail(e, "runtime error")

SetName(e, name, value) ==
  IF Holding(e, name) # {} THEN Yield([e EXCEPT !.store[Cell(e, name)] = value], value)
  ELSE IF name \in DOMAIN e.globals THEN Yield([e EXCEPT !.globals[name] = value], value)
  ELSE Fail(e, "runtime error")

Declare(e, name, value) ==
  IF e.scopes = <<>> THEN [e EXCEPT !.globals = Put(@, name, value)]
  ELSE [e EXCEPT !.store = Append(@, value),
                 !.scopes[Len(e.scopes)] = Put(@, name, Len(e.store) + 1)]

InScope(e) == [e EXCEPT !.scopes = Append(@, Empty)]

\* Out of a scope or a call, however it was left.
BackIn(e, before) == [e EXCEPT !.scopes = before.scopes, !.depth = before.depth]

-----------------------------------------------------------------------------
(* Operators *)

Sum(x, y) == IF TypeName(x) = "string" THEN Text(Payload(x) \o Payload(y))
             ELSE Number(Payload(x) + Payload(y))

Compute(operator, x, y) ==
  LET m == Payload(x)
      n == Payload(y)
  IN
  CASE operator = "<"  -> Bool(m < n)
    [] operator = "<=" -> Bool(m <= n)
    [] operator = ">"  -> Bool(m > n)
    [] operator = ">=" -> Bool(m >= n)
    [] operator = "-"  -> Number(m - n)
    [] operator = "*"  -> Number(m * n)
    [] operator = "%"  -> Number(Remainder(m, n))

BinaryValue(e, operator, x, y) ==
  CASE operator = "==" -> Yield(e, Bool(x = y))
    [] operator = "!=" -> Yield(e, Bool(x # y))
    [] operator = "+"  -> IF AllAre("number", <<x, y>>) \/ AllAre("string", <<x, y>>)
                          THEN Yield(e, Sum(x, y)) ELSE Fail(e, "runtime error")
    [] OTHER -> IF ~AllAre("number", <<x, y>>) THEN Fail(e, "runtime error")
                ELSE IF operator = "%" /\ y = Number(0) THEN Fail(e, "crashed")
                ELSE Yield(e, Compute(operator, x, y))

UnaryValue(e, operator, x) ==
  CASE operator = "!"      -> Yield(e, Bool(IsFalsey(x)))
    [] operator = "typeof" -> Yield(e, Text(TypeName(x)))
    [] operator = "-" /\ AllAre("number", <<x>>) -> Yield(e, Number(-Payload(x)))
    [] operator = "length" /\ AllAre("string", <<x>>) -> Yield(e, Number(Len(Payload(x))))
    [] operator = "length" /\ AllAre("table", <<x>>) ->
         Yield(e, Number(Cardinality(DOMAIN e.tables[Payload(x)])))
    [] OTHER -> Fail(e, "runtime error")

NativeValue(name, arguments) ==
  CASE Len(arguments) # 1 -> Nil
    [] name = "type"      -> Text(TypeName(arguments[1]))
    [] name = "len"       -> IF AllAre("string", arguments)
                             THEN Number(Len(Payload(arguments[1]))) ELSE Nil

\* The property of a table: a name that is not there is an error when it is
\* read with a dot, and nil when it is read as an element.
PropertyOf(e, table, key, absent) ==
  IF ~AllAre("table", <<table>>) \/ ~AllAre("string", <<key>>) THEN Fail(e, "runtime error")
  ELSE IF Payload(key) \in DOMAIN e.tables[Payload(table)]
  THEN Yield(e, e.tables[Payload(table)][Payload(key)])
  ELSE absent

WithProperty(e, table, key, value) ==
  IF ~AllAre("table", <<table>>) \/ ~AllAre("string", <<key>>) THEN Fail(e, "runtime error")
  ELSE Yield([e EXCEPT !.tables[Payload(table)] = Put(@, Payload(key), value)], value)

-----------------------------------------------------------------------------
(* Expressions *)

RECURSIVE Eval(_, _), ExecAll(_, _)

\* Expressions from left to right, up to one that fails.
RECURSIVE EvalAll(_, _, _)
EvalAll(trees, e, values) ==
  IF e.status # "ok" THEN e
  ELSE IF trees = <<>> THEN [e EXCEPT !.values = values]
  ELSE LET f == Eval(Head(trees), e) IN EvalAll(Tail(trees), f, values \o f.values)

\* The entries of a table literal, stored one after the other.
RECURSIVE Fill(_, _, _, _)
Fill(e, table, keys, trees) ==
  IF e.status # "ok" \/ keys = <<>> THEN Yield(e, table)
  ELSE LET f == Eval(Head(trees), e)
           g == IF f.status # "ok" THEN f
                ELSE WithProperty(f, table, Text(Head(keys)), f.values[1])
       IN  Fill(g, table, Tail(keys), Tail(trees))

\* Whether the left operand of and, or leaves the right one to be evaluated.
GoesOn(operator, value) == IF operator = "and" THEN ~IsFalsey(value) ELSE IsFalsey(value)

\* The state in which a function begins, its parameters being locals.
RECURSIVE WithArguments(_, _, _)
WithArguments(e, names, arguments) ==
  IF names = <<>> THEN e
  ELSE WithArguments(Declare(e, Head(names), Head(arguments)), Tail(names), Tail(arguments))

\* Its value is nil if it does not return one.
CallFunctionOf(e, f, arguments) ==
  IF Len(arguments) # Len(Data(f.tree)) \/ e.depth = MaxDepth THEN Fail(e, "runtime error")
  ELSE LET begun == WithArguments(InScope([e EXCEPT !.scopes = f.scopes, !.depth = @ + 1]),
                                  Data(f.tree), arguments)
           after == BackIn(ExecAll(Kids(f.tree), begun), e)
       IN  CASE after.status = "return" -> [after EXCEPT !.status = "ok"]
             [] after.status = "ok"     -> Yield(after, Nil)
             [] OTHER                   -> after

CallOf(e, callee, arguments) ==
  CASE TypeName(callee) = "native"   -> Yield(e, NativeValue(Payload(callee), arguments))
    [] TypeName(callee) = "function" -> CallFunctionOf(e, e.functions[Payload(callee)], arguments)
    [] OTHER                         -> Fail(e, "runtime error")

\* A node whose operands have the values v.
Applied(t, e, v) ==
  CASE Kind(t) = "group"     -> Yield(e, v[1])
    [] Kind(t) = "unary"     -> UnaryValue(e, Data(t), v[1])
    [] Kind(t) = "binary"    -> BinaryValue(e, Data(t), v[1], v[2])
    [] Kind(t) = "call"      -> CallOf(e, v[1], Tail(v))
    [] Kind(t) = "dot"       -> PropertyOf(e, v[1], Text(Data(t)), Fail(e, "runtime error"))
    [] Kind(t) = "index"     -> PropertyOf(e, v[1], v[2], Yield(e, Nil))
    [] Kind(t) = "set name"  -> SetName(e, Data(t), v[1])
    [] Kind(t) = "set dot"   -> WithProperty(e, v[1], Text(Data(t)), v[2])
    [] Kind(t) = "set index" -> WithProperty(e, v[1], v[2], v[3])

Eval(t, e) ==
  CASE Kind(t) = "value" -> Yield(e, Data(t))
    [] Kind(t) = "name"  -> GetName(e, Data(t))
    [] Kind(t) = "function" ->
         Yield([e EXCEPT !.functions = Append(@, [tree |-> t, scopes |-> e.scopes])],
               Closure(Len(e.functions) + 1))
    [] Kind(t) = "table" -> Fill([e EXCEPT !.tables = Append(@, Empty)],
                                 Table(Len(e.tables) + 1), Data(t), Kids(t))
    [] Kind(t) = "binary" /\ Data(t) \in {"and", "or"} ->
         LET f == Eval(Kids(t)[1], e)
         IN  IF f.status = "ok" /\ GoesOn(Data(t), f.values[1]) THEN Eval(Kids(t)[2], f) ELSE f
    [] OTHER -> LET f == EvalAll(Kids(t), e, <<>>)
                IN  IF f.status = "ok" THEN Applied(t, f, f.values) ELSE f

-----------------------------------------------------------------------------
(* Statements *)

RECURSIVE Exec(_, _), Repeat(_, _, _, _, _)

ExecAll(trees, e) ==
  IF trees = <<>> \/ e.status # "ok" THEN e ELSE ExecAll(Tail(trees), Exec(Head(trees), e))

Repeat(condition, body, increment, e, fuel) ==
  LET c == Eval(condition, e)
      b == Exec(body, c)
      i == IF b.status = "ok" THEN Eval(increment, b) ELSE b
  IN  IF e.status # "ok" THEN e
      ELSE IF fuel = 0 THEN Fail(e, "timeout")
      ELSE IF c.status # "ok" \/ IsFalsey(c.values[1]) THEN c
      ELSE Repeat(condition, body, increment, i, fuel - 1)

Exec(t, e) ==
  LET k == Kids(t) IN
  CASE Kind(t) = "expression" -> Eval(k[1], e)
    [] Kind(t) = "assert" ->
         LET f == Eval(k[1], e)
         IN  IF f.status = "ok" /\ IsFalsey(f.values[1]) THEN Fail(f, "runtime error") ELSE f
    [] Kind(t) = "let" ->
         LET f == Eval(k[1], e)
         IN  IF f.status = "ok" THEN Declare(f, Data(t), f.values[1]) ELSE f
    [] Kind(t) = "fn" ->
         LET f == Eval(k[1], Declare(e, Data(t), Nil))
         IN  SetName(f, Data(t), f.values[1])
    [] Kind(t) = "return" ->
         LET f == Eval(k[1], e) IN IF f.status = "ok" THEN Fail(f, "return") ELSE f
    [] Kind(t) = "block" -> BackIn(ExecAll(k, InScope(e)), e)
    [] Kind(t) = "if" ->
         LET f == Eval(k[1], e)
         IN  IF f.status # "ok" THEN f
             ELSE IF IsFalsey(f.values[1]) THEN Exec(k[3], f) ELSE Exec(k[2], f)
    [] Kind(t) = "while" -> Repeat(k[1], k[2], Leaf(Nil), e, Fuel)
    [] Kind(t) = "for" ->
         LET f == Exec(k[1], InScope(e))
         IN  BackIn(Repeat(k[2], k[4], k[3], f, Fuel), e)

\* How a script whose tree is a list of declarations ends.
Outcome(program, globals) == ExecAll(program, Beginning(program, globals))
=============================================================================
