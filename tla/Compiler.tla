------------------------------ MODULE Compiler ------------------------------
(***************************************************************************)
(* The one-pass compiler of src/src/compiler.c, from tokens to bytes.  p   *)
(* is the parser and the compiler of the current function: the tokens,     *)
(* where it is in them, the code and the constants emitted and the locals  *)
(* in scope; the compilers of the functions around it are in p.enclosing,  *)
(* and the upvalues of all of them in p.upvalues, the current ones last.   *)
(* The calls that are still to return are a list of things to do: a parse  *)
(* function puts what it does next in front of it, and the code positions  *)
(* its variables hold are in p.marks, the newest last.                     *)
(***************************************************************************)
EXTENDS Tokens

Lists == INSTANCE SequencesExt

CONSTANTS
  MaxByte,      \* UINT8_MAX: constants, locals, arguments, table entries
  JumpBase      \* 256: a jump is two digits in this base

ASSUME CompilerAssumption == MaxByte \in Nat \ {0} /\ JumpBase \in Nat \ {0, 1}

MaxJump == JumpBase * JumpBase - 1      \* UINT16_MAX

\* Unscannable is a token the lexer makes an error token of.
Unscannable == "@"

-----------------------------------------------------------------------------
(* Reading tokens, reporting errors *)

Current(p) == TokenAt(p.tokens, p.at)

Error(p) == [p EXCEPT !.panic = TRUE, !.hadError = TRUE]

RECURSIVE PassErrors(_)
PassErrors(p) ==
  IF Current(p) = Unscannable THEN PassErrors(Error([p EXCEPT !.at = @ + 1])) ELSE p

Advance(p) == PassErrors([p EXCEPT !.previous = Current(p), !.at = @ + 1])

Check(p, tokens) == Current(p) \in tokens

Consume(p, tokens) == IF Check(p, tokens) THEN Advance(p) ELSE Error(p)

\* match_token where the token makes no further difference.
Optional(p, token) == IF Check(p, {token}) THEN Advance(p) ELSE p

\* A call through a null pointer ends the process.
Crash(p) == [p EXCEPT !.crashed = TRUE, !.todo = <<>>]

Then(p, tasks) == [p EXCEPT !.todo = tasks \o @]

-----------------------------------------------------------------------------
(* Emitting bytes *)

Op(name) == <<"op", name>>
Byte(n) == <<"byte", n>>

Emit(p, bytes) == [p EXCEPT !.code = @ \o bytes]

Here(p) == Len(p.code)

\* make_constant, and the index it returned.
MakeConstant(p, value) ==
  LET q == [p EXCEPT !.constants = Append(@, value)]
  IN  IF Len(p.constants) > MaxByte THEN Error(q) ELSE q

\* Mutant: the index of one constant too many is used as it is.
Made_Unchecked(p) == Len(p.constants) - 1

Made(p) == IF Len(p.constants) - 1 > MaxByte THEN 0 ELSE Len(p.constants) - 1

EmitConstant(p, value) ==
  LET q == MakeConstant(p, value) IN Emit(q, <<Op("CONSTANT"), Byte(Made(q))>>)

Mark(p, position) == [p EXCEPT !.marks = Append(@, position)]

\* The k-th newest mark, and all marks but it.
Marked(p, k) == p.marks[Len(p.marks) - k + 1]

Unmark(p, k) ==
  [p EXCEPT !.marks = SubSeq(@, 1, Len(@) - k) \o SubSeq(@, Len(@) - k + 2, Len(@))]

\* The mark is where the two bytes of the offset are.
EmitJump(p, name) ==
  LET q == Emit(p, <<Op(name), Byte(JumpBase - 1), Byte(JumpBase - 1)>>)
  IN  Mark(q, Here(q) - 2)

Digits(n) == <<Byte((n \div JumpBase) % JumpBase), Byte(n % JumpBase)>>

PatchJump(p, k) ==
  LET offset == Marked(p, k)
      jump   == Here(p) - offset - 2
      q      == IF jump > MaxJump THEN Error(p) ELSE p
  IN  Unmark([q EXCEPT !.code[offset + 1] = Digits(jump)[1],
                       !.code[offset + 2] = Digits(jump)[2]], k)

EmitLoop(p, k) ==
  LET q      == Emit(p, <<Op("LOOP")>>)
      offset == Here(q) - Marked(p, k) + 2
  IN  Unmark(Emit(IF offset > MaxJump THEN Error(q) ELSE q, Digits(offset)), k)

-----------------------------------------------------------------------------
(* Locals and upvalues *)

BeginScope(p) == [p EXCEPT !.depth = @ + 1]

\* The innermost local first.
EndScope(p) ==
  LET kept == SelectSeq(p.locals, LAMBDA l : l.depth < p.depth)
      gone == Lists!Reverse(SubSeq(p.locals, Len(kept) + 1, Len(p.locals)))
  IN  [Emit(p, [i \in 1 .. Len(gone) |-> Op(IF gone[i].captured THEN "CLOSE_UPVALUE" ELSE "POP")])
         EXCEPT !.depth = @ - 1, !.locals = kept]

Local(name, depth) == [name |-> name, depth |-> depth, captured |-> FALSE]

Slots(locals, name) == {i \in 1 .. Len(locals) : locals[i].name = name}

\* resolve_local, with 0 for a name that is no local, ...
ResolveLocal(locals, name) ==
  IF Slots(locals, name) = {} THEN 0
  ELSE CHOOSE i \in Slots(locals, name) : \A j \in Slots(locals, name) : j <= i

\* ... and its error.
Initialized(p, local) == IF local.depth = -1 THEN Error(p) ELSE p

\* The functions around the current one that have such a local.
Owners(p, name) == {k \in 1 .. Len(p.enclosing) : Slots(p.enclosing[k].locals, name) # {}}

\* add_upvalue in the functions from one level to the current one, each of
\* which finds the variable as an upvalue of the one around it.
RECURSIVE AddUpvalue(_, _, _)
AddUpvalue(p, level, entry) ==
  LET entries == p.upvalues[level]
      full    == entry \notin Lists!ToSet(entries) /\ Len(entries) = MaxByte
      q       == IF full THEN Error(p)
                 ELSE IF entry \in Lists!ToSet(entries) THEN p
                 ELSE [p EXCEPT !.upvalues[level] = Append(@, entry)]
      index   == IF full THEN 0
                 ELSE (CHOOSE i \in 1 .. Len(entries) + 1 : q.upvalues[level][i] = entry) - 1
  IN  IF level = Len(p.upvalues) THEN [parser |-> q, index |-> index]
      ELSE AddUpvalue(q, level + 1, [index |-> index, isLocal |-> 0])

\* resolve_upvalue of a name that has an owner.
ResolveUpvalue(p, name) ==
  LET owner == CHOOSE k \in Owners(p, name) : \A j \in Owners(p, name) : j <= k
      slot  == ResolveLocal(p.enclosing[owner].locals, name)
      q     == Initialized(p, p.enclosing[owner].locals[slot])
  IN  AddUpvalue([q EXCEPT !.enclosing[owner].locals[slot].captured = TRUE],
                 owner + 1, [index |-> slot - 1, isLocal |-> 1])

DeclareVariable(p, name) ==
  LET declared == \E i \in Slots(p.locals, name) : p.locals[i].depth \in {-1, p.depth}
      q        == IF declared THEN Error(p) ELSE p
  IN  IF p.depth = 0 THEN p
      ELSE IF Len(q.locals) = MaxByte THEN Error(q)
      ELSE [q EXCEPT !.locals = Append(@, Local(name, -1))]

\* mark_initialized
MarkInitialized(p) == IF p.depth = 0 THEN p ELSE [p EXCEPT !.locals[Len(p.locals)].depth = p.depth]

DefineVariable(p, global) ==
  IF p.depth = 0 THEN Emit(p, <<Op("DEFINE_GLOBAL"), Byte(global)>>) ELSE MarkInitialized(p)

-----------------------------------------------------------------------------
(* Expressions: the rules table *)

Assignment == 1
Or == 2
And == 3
Unary == 8
Call == 9

BinaryCode ==
  [t \in {"==", "!=", "<", ">", "<=", ">=", "+", "-", "*", "%"} |->
     CASE t = "!=" -> <<Op("EQUAL"), Op("NOT")>>
       [] t = "==" -> <<Op("EQUAL")>>
       [] t = ">"  -> <<Op("GREATER")>>
       [] t = ">=" -> <<Op("LESS"), Op("NOT")>>
       [] t = "<"  -> <<Op("LESS")>>
       [] t = "<=" -> <<Op("GREATER"), Op("NOT")>>
       [] t = "+"  -> <<Op("ADD")>>
       [] t = "-"  -> <<Op("SUBTRACT")>>
       [] t = "*"  -> <<Op("MULTIPLY")>>
       [] t = "%"  -> <<Op("MOD")>>]

Precedence(t) ==
  CASE t = "or"                   -> Or
    [] t = "and"                  -> And
    [] t \in {"==", "!="}         -> 4
    [] t \in {"<", ">", "<=", ">="} -> 5
    [] t \in {"+", "-"}           -> 6
    [] t \in {"*", "%"}           -> 7
    [] t = "typeof"               -> Unary
    [] t \in {"(", "[", ".", "length"} -> Call
    [] OTHER                      -> 0

IsPrefix(t) ==
  \/ t \in {"(", "{", "-", "!", "length", "typeof", "fn"}
  \/ t \in Names \cup Numerals \cup DOMAIN Literals
  \/ IsQuoted(t)

\* Things to do.
Precedenced(precedence) == <<"parse_precedence", precedence>>
Expression == Precedenced(Assignment)
Statement == <<"statement", "">>
Need(token) == <<"consume", {token}>>
NeedName == <<"consume", Names>>
Emitting(bytes) == <<"emit", bytes>>
Dropping == Emitting(<<Op("POP")>>)
Jumping(name) == <<"jump", name>>
Patching(k) == <<"patch", k>>
Looping(k) == <<"loop", k>>
Marking == <<"mark", "">>

\* An assignment's value and the bytes that store it, or the bytes that load.
AssignOr(p, canAssign, set, get) ==
  IF canAssign /\ Check(p, {"="}) THEN Then(Advance(p), <<Expression, Emitting(set)>>)
  ELSE Emit(p, get)

\* named_variable and variable
Variable(p, canAssign) ==
  LET name    == p.previous
      slot    == ResolveLocal(p.locals, name)
      upvalue == ResolveUpvalue(p, name)
      q       == MakeConstant(p, Text(name))
  IN  IF slot # 0
      THEN AssignOr(Initialized(p, p.locals[slot]), canAssign,
                    <<Op("SET_LOCAL"), Byte(slot - 1)>>, <<Op("GET_LOCAL"), Byte(slot - 1)>>)
      ELSE IF Owners(p, name) # {}
      THEN AssignOr(upvalue.parser, canAssign, <<Op("SET_UPVALUE"), Byte(upvalue.index)>>,
                                               <<Op("GET_UPVALUE"), Byte(upvalue.index)>>)
      ELSE AssignOr(q, canAssign, <<Op("SET_GLOBAL"), Byte(Made(q))>>,
                                  <<Op("GET_GLOBAL"), Byte(Made(q))>>)

\* argument_list: count arguments before the one just parsed.
Argument(p, count) ==
  LET q == IF count = MaxByte THEN Error(p) ELSE p
      n == (count + 1) % (MaxByte + 1)
  IN  IF Check(q, {","}) THEN Then(Advance(q), <<Expression, <<"argument", n>>>>)
      ELSE Then(q, <<Need(")"), Emitting(<<Op("CALL"), Byte(n)>>)>>)

CallArguments(p) ==
  IF Check(p, {")"}) THEN Then(p, <<Need(")"), Emitting(<<Op("CALL"), Byte(0)>>)>>)
  ELSE Then(p, <<Expression, <<"argument", 0>>>>)

\* dot, behind the name
Property(p, canAssign) ==
  LET q == MakeConstant(p, Text(p.previous))
  IN  AssignOr(q, canAssign, <<Op("SET_PROPERTY"), Byte(Made(q))>>,
                             <<Op("GET_PROPERTY"), Byte(Made(q))>>)

\* subscript, behind the bracket
Element(p, canAssign) == AssignOr(p, canAssign, <<Op("SET_INDEX")>>, <<Op("GET_INDEX")>>)

NewTable(p) ==
  LET q == Emit(p, <<Op("NEW_TABLE")>>)
  IN  IF Check(q, {"}"}) THEN Advance(q) ELSE Then(q, <<<<"entry", 0>>>>)

\* new_table_expr: an entry, the property it sets, and what follows it.
Entry(p, count) ==
  IF Check(p, Names)
  THEN Then(Advance(p), <<Need(":"), Emitting(<<Op("DUP")>>), Expression,
                          <<"set", Current(p)>>, <<"entries", count + 1>>>>)
  ELSE Then(Error(p), <<Expression, Dropping, <<"entries", count>>>>)

SetEntry(p, key) ==
  LET q == MakeConstant(p, Text(key))
  IN  Emit(q, <<Op("SET_PROPERTY"), Byte(Made(q)), Op("POP")>>)

Entries(p, count) ==
  LET q == IF count > MaxByte THEN Error(p) ELSE p
  IN  IF Check(q, {","}) THEN Then(Advance(q), <<<<"entry", count>>>>)
      ELSE Consume(q, {"}"})

\* and_ and or_: the right operand at the operator's own precedence.
ShortCircuit(p, jump, precedence) ==
  Then(p, <<Jumping(jump), Dropping, Precedenced(precedence), Patching(1)>>)

\* compile_function up to the parameters: a compiler of its own.
BeginFunction(p) ==
  LET outer == [code |-> p.code, constants |-> p.constants, depth |-> p.depth,
                locals |-> p.locals, arity |-> p.arity]
  IN  Then([p EXCEPT !.enclosing = Append(@, outer), !.upvalues = Append(@, <<>>),
                     !.code = <<>>, !.constants = <<>>, !.depth = 1,
                     !.locals = <<Local("", 0)>>, !.arity = 0],
           <<Need("("), <<"parameters", "">>, Need(")"), Need("{"), <<"block", "">>,
             <<"end_compiler", "">>>>)

Parameter(p) ==
  LET q == IF p.arity = MaxByte THEN Error(p) ELSE p
  IN  Then([q EXCEPT !.arity = @ + 1], <<NeedName, <<"parameter", "">>>>)

Parameters(p) == IF Check(p, {")"}) THEN p ELSE Parameter(p)

\* A parameter's name read: it is declared, and others may follow.
DefineParameter(p) ==
  LET q == MarkInitialized(DeclareVariable(p, p.previous))
  IN  IF Check(q, {","}) THEN Parameter(Advance(q)) ELSE q

Prototype(function) == <<"prototype", function>>

\* end_compiler, and the code that makes the closure.
EndFunction(p) ==
  LET entries == Lists!Last(p.upvalues)
      made    == [code |-> p.code \o <<Op("nil"), Op("RETURN")>>, constants |-> p.constants,
                  arity |-> p.arity, upvalues |-> Len(entries)]
      outer   == Lists!Last(p.enclosing)
      q       == [p EXCEPT !.enclosing = Lists!Front(@), !.upvalues = Lists!Front(@),
                           !.code = outer.code, !.constants = outer.constants,
                           !.depth = outer.depth, !.locals = outer.locals, !.arity = outer.arity]
      r       == MakeConstant(q, Prototype(made))
      pairs   == [i \in 1 .. Len(entries) |-> <<Byte(entries[i].isLocal), Byte(entries[i].index)>>]
  IN  Emit(r, <<Op("CLOSURE"), Byte(Made(r))>> \o Lists!FlattenSeq(pairs))

Operator(p, name) == Then(p, <<Precedenced(Unary), Emitting(<<Op(name)>>)>>)

Prefix(p, canAssign) ==
  LET t == p.previous IN
  CASE t = "("               -> Then(p, <<Expression, Need(")")>>)
    [] t = "{"               -> NewTable(p)
    [] t = "-"               -> Operator(p, "NEGATE")
    [] t = "!"               -> Operator(p, "NOT")
    [] t = "typeof"          -> Operator(p, "TYPEOF")
    [] t = "fn"              -> BeginFunction(p)
    [] t = "length"          -> Then(p, <<Precedenced(Call), Emitting(<<Op("LENGTH")>>)>>)
    [] t \in Names           -> Variable(p, canAssign)
    [] t \in Numerals        -> EmitConstant(p, Number(NumberOf[t]))
    [] t \in DOMAIN Literals -> Emit(p, <<Op(t)>>)
    [] IsQuoted(t)           -> EmitConstant(p, Text(Unquoted(t)))

\* typeof and length have a precedence but no infix function.
Infix(p, canAssign) ==
  LET t == p.previous IN
  CASE t \in DOMAIN BinaryCode ->
         Then(p, <<Precedenced(Precedence(t) + 1), Emitting(BinaryCode[t])>>)
    [] t = "and" -> ShortCircuit(p, "JUMP_IF_FALSE", And)
    [] t = "or"  -> ShortCircuit(p, "JUMP_IF_TRUE", Or)
    [] t = "("   -> CallArguments(p)
    [] t = "."   -> Then(p, <<NeedName, <<"property", canAssign>>>>)
    [] t = "["   -> Then(p, <<Expression, Need("]"), <<"element", canAssign>>>>)
    [] OTHER     -> Crash(p)

\* Mutant: an operand of an operator may be assigned to.
ParsePrecedence_Assigns(p, precedence) ==
  LET q == Advance(p)
  IN  IF ~IsPrefix(q.previous) THEN Error(q)
      ELSE Prefix(Then(q, <<<<"operators", precedence>>>>), TRUE)

ParsePrecedence(p, precedence) ==
  LET q == Advance(p)
  IN  IF ~IsPrefix(q.previous) THEN Error(q)
      ELSE Prefix(Then(q, <<<<"operators", precedence>>>>), precedence <= Assignment)

\* parse_precedence, behind an operand: its loop, and what ends it.
Operators(p, precedence) ==
  IF precedence <= Precedence(Current(p))
  THEN Infix(Then(Advance(p), <<<<"operators", precedence>>>>), precedence <= Assignment)
  ELSE IF precedence <= Assignment /\ Check(p, {"="})
  THEN Then(Error(Advance(p)), <<Expression>>)
  ELSE p

-----------------------------------------------------------------------------
(* Statements *)

VarDeclaration == <<NeedName, <<"variable", "">>>>

\* var_declaration, behind the name.
Initializer(p) ==
  LET q    == DeclareVariable(p, p.previous)
      r    == IF q.depth > 0 THEN q ELSE MakeConstant(q, Text(q.previous))
      rest == <<<<"optional", ";">>, <<"define", Made(r)>>>>
  IN  IF Check(r, {"="}) THEN Then(Advance(r), <<Expression>> \o rest)
      ELSE Then(r, <<Emitting(<<Op("nil")>>)>> \o rest)

\* fun_declaration, behind the name: the function may use it.
FunctionDeclaration(p) ==
  LET q == DeclareVariable(p, p.previous)
      r == IF q.depth > 0 THEN MarkInitialized(q) ELSE MakeConstant(q, Text(q.previous))
  IN  BeginFunction(Then(r, <<<<"define", Made(r)>>>>))

\* expression_statement, behind the expression.
EndOfExpression(p) == IF Check(p, {";"}) THEN Emit(Advance(p), <<Op("POP")>>) ELSE p

ExpressionStatement == <<Expression, <<"end expression", "">>>>

Condition == <<Need("("), Expression, Need(")"), Jumping("JUMP_IF_FALSE"), Dropping>>

IfStatement ==
  Condition \o <<Statement, Jumping("JUMP"), Patching(2), Dropping, <<"else", "">>, Patching(1)>>

Else(p) == IF Check(p, {"else"}) THEN Then(Advance(p), <<Statement>>) ELSE p

WhileStatement ==
  <<Marking>> \o Condition \o <<Statement, Looping(2), Patching(1), Dropping>>

\* for_statement's marks: where the loop starts, and its exit jump or none.
NoJump == -1

ForStatement ==
  <<Need("("), <<"for initializer", "">>, Marking, <<"for condition", "">>,
    <<"for increment", "">>, <<"for exit", "">>, <<"end_scope", "">>>>

ForInitializer(p) ==
  IF Check(p, {"let"}) THEN Then(Advance(p), VarDeclaration)
  ELSE IF Check(p, {";"}) THEN Advance(p)
  ELSE Then(p, ExpressionStatement)

ForCondition(p) ==
  IF Check(p, {";"}) THEN Mark(Advance(p), NoJump)
  ELSE Then(p, <<Expression, Need(";"), Jumping("JUMP_IF_FALSE"), Dropping>>)

\* With an increment, the loop goes back to it and it to the condition.
ForIncrement(p) ==
  IF Check(p, {")"}) THEN Then(p, <<Need(")"), Statement, Looping(2)>>)
  ELSE Then(p, <<Jumping("JUMP"), Marking, Expression, Dropping, Need(")"),
                 Looping(4), Patching(2), Statement, Looping(1)>>)

\* Mutant: the condition of a for that has ended stays on the stack.
ForExit_KeepsCondition(p) ==
  IF Marked(p, 1) = NoJump THEN Unmark(p, 1) ELSE PatchJump(p, 1)

ForExit(p) ==
  IF Marked(p, 1) = NoJump THEN Unmark(p, 1) ELSE Emit(PatchJump(p, 1), <<Op("POP")>>)

\* Outside functions it is an error.
ReturnStatement(p) ==
  LET q == IF p.enclosing = <<>> THEN Error(p) ELSE p
  IN  IF Check(q, {";", "}", EOF}) THEN Emit(Optional(q, ";"), <<Op("nil"), Op("RETURN")>>)
      ELSE Then(q, <<Expression, <<"optional", ";">>, Emitting(<<Op("RETURN")>>)>>)

AssertStatement == <<Expression, Emitting(<<Op("ASSERT")>>), <<"optional", ";">>>>

BeginStatement(p) ==
  LET t == Current(p)
      q == Advance(p)
  IN
  CASE t = "{"      -> Then(BeginScope(q), <<<<"block", "">>, <<"end_scope", "">>>>)
    [] t = "for"    -> Then(BeginScope(q), ForStatement)
    [] t = "if"     -> Then(q, IfStatement)
    [] t = "return" -> ReturnStatement(q)
    [] t = "while"  -> Then(q, WhileStatement)
    [] t = "assert" -> Then(q, AssertStatement)
    [] OTHER        -> Then(p, ExpressionStatement)

RECURSIVE SkipToStatement(_)
SkipToStatement(p) ==
  IF \/ Check(p, {EOF, "fn", "let", "for", "if", "while", "return"})
     \/ p.previous = ";"
  THEN p ELSE SkipToStatement(Advance(p))

Synchronize(p) == IF p.panic THEN SkipToStatement([p EXCEPT !.panic = FALSE]) ELSE p

Declaration(p) ==
  LET q == Then(p, <<<<"synchronize", "">>>>)
  IN  IF Check(p, {"fn"}) THEN Then(Advance(q), <<NeedName, <<"function", "">>>>)
      ELSE IF Check(p, {"let"}) THEN Then(Advance(q), VarDeclaration)
      ELSE Then(q, <<Statement>>)

Block(p) ==
  IF Check(p, {"}", EOF}) THEN Consume(p, {"}"}) ELSE Declaration(Then(p, <<<<"block", "">>>>))

Script(p) ==
  IF Check(p, {EOF}) THEN Emit(p, <<Op("nil"), Op("RETURN")>>)
  ELSE Declaration(Then(p, <<<<"script", "">>>>))

-----------------------------------------------------------------------------
(* Doing the first thing to do, until there is none *)

Do(p, what, data) ==
  CASE what = "parse_precedence" -> ParsePrecedence(p, data)
    [] what = "operators"        -> Operators(p, data)
    [] what = "consume"          -> Consume(p, data)
    [] what = "optional"         -> Optional(p, data)
    [] what = "emit"             -> Emit(p, data)
    [] what = "jump"             -> EmitJump(p, data)
    [] what = "patch"            -> PatchJump(p, data)
    [] what = "loop"             -> EmitLoop(p, data)
    [] what = "mark"             -> Mark(p, Here(p))
    [] what = "argument"         -> Argument(p, data)
    [] what = "property"         -> Property(p, data)
    [] what = "element"          -> Element(p, data)
    [] what = "entry"            -> Entry(p, data)
    [] what = "set"              -> SetEntry(p, data)
    [] what = "entries"          -> Entries(p, data)
    [] what = "variable"         -> Initializer(p)
    [] what = "define"           -> DefineVariable(p, data)
    [] what = "parameters"       -> Parameters(p)
    [] what = "parameter"        -> DefineParameter(p)
    [] what = "function"         -> FunctionDeclaration(p)
    [] what = "end_compiler"     -> EndFunction(p)
    [] what = "end expression"   -> EndOfExpression(p)
    [] what = "else"             -> Else(p)
    [] what = "for initializer"  -> ForInitializer(p)
    [] what = "for condition"    -> ForCondition(p)
    [] what = "for increment"    -> ForIncrement(p)
    [] what = "for exit"         -> ForExit(p)
    [] what = "end_scope"        -> EndScope(p)
    [] what = "statement"        -> BeginStatement(p)
    [] what = "synchronize"      -> Synchronize(p)
    [] what = "block"            -> Block(p)
    [] what = "script"           -> Script(p)

RECURSIVE DoAll(_)
DoAll(p) ==
  IF p.todo = <<>> THEN p
  ELSE DoAll(Do([p EXCEPT !.todo = Tail(@)], Head(p.todo)[1], Head(p.todo)[2]))

\* init_compiler: slot 0 holds the script's own closure.
InitCompiler(tokens) ==
  [tokens |-> tokens, at |-> 1, previous |-> EOF, panic |-> FALSE, hadError |-> FALSE,
   crashed |-> FALSE, todo |-> <<<<"script", "">>>>, marks |-> <<>>,
   code |-> <<>>, constants |-> <<>>, depth |-> 0, locals |-> <<Local("", 0)>>, arity |-> 0,
   upvalues |-> <<<<>>>>, enclosing |-> <<>>]

Compile(tokens) == DoAll(PassErrors(InitCompiler(tokens)))
=============================================================================
