------------------------------- MODULE Scopes -------------------------------
(***************************************************************************)
(* Names in src/src/compiler.c: one Compiler per function being compiled,  *)
(* innermost last, with its locals, its upvalues and its scope depth.  The *)
(* compiler decides at compile time where a variable will be at run time;  *)
(* what the source text says next is left open, expressions only as far as *)
(* they name variables or contain functions.                               *)
(***************************************************************************)
EXTENDS Integers, Sequences

CONSTANTS
  Names,            \* identifiers
  MaxLocals,        \* UINT8_MAX, for add_local
  MaxUpvalues,      \* UINT8_MAX, for add_upvalue
  MaxFunctions, MaxScopes, MaxDeclarations   \* bounds on the source text

ASSUME ScopesAssumption ==
  /\ Names # {}
  /\ MaxLocals \in Nat \ {0} /\ MaxUpvalues \in Nat
  /\ MaxFunctions \in Nat \ {0} /\ MaxScopes \in Nat \ {0} /\ MaxDeclarations \in Nat

NoName == ""

ASSUME NoNameAssumption == NoName \notin Names

VARIABLES
  compilers,   \* current and those that enclose it, the script's first
  failed,      \* parser.had_error: no code will be used
  last,        \* the last variable named, and where the code looks for it
  declared,    \* history: how many locals have been declared
  captured,    \* history: the locals some function refers to
  unpopped     \* history: an expression statement had no semicolon

vars == <<compilers, failed, last, declared, captured, unpopped>>

\* var and slot are history: which declaration this is, and where its value
\* is on the stack of the function.
Local(name, depth, var, slot) ==
  [name |-> name, depth |-> depth, isCaptured |-> FALSE, var |-> var, slot |-> slot]

\* init_compiler: slot 0 holds the function called.  height is history: how
\* many values the code emitted so far leaves on the stack.
NewCompiler(scope, defines) ==
  [locals |-> <<Local(NoName, 0, 0, 1)>>, upvalues |-> <<>>, scope |-> scope,
   height |-> 1, inParameters |-> scope > 0, defines |-> defines]

NoReference == [name |-> NoName, from |-> "global", arg |-> 0]

Init ==
  /\ compilers = <<NewCompiler(0, FALSE)>>
  /\ failed = FALSE
  /\ last = NoReference
  /\ declared = 0
  /\ captured = {}
  /\ unpopped = FALSE

Depth == Len(compilers)

current == compilers[Depth]

Locals(c) == compilers[c].locals

LastLocal == current.locals[Len(current.locals)]

\* The initializer of a local is being compiled.
Initializing == LastLocal.depth = -1

AtStatement == ~failed /\ ~current.inParameters /\ ~Initializing

Error ==
  /\ failed' = TRUE
  /\ UNCHANGED <<compilers, declared, captured, unpopped>>

SetCurrent(c) == compilers' = [compilers EXCEPT ![Depth] = c]

-----------------------------------------------------------------------------
(* Declaring *)

\* A local of the same name in the same scope.
AlreadyDeclared(name) ==
  \E i \in 1 .. Len(current.locals) :
    /\ current.locals[i].name = name
    /\ \A j \in i .. Len(current.locals) :
         current.locals[j].depth = -1 \/ current.locals[j].depth >= current.scope

\* Mutant: the limit is not tested.
Refused_Never(name) == AlreadyDeclared(name)

Refused(name) == AlreadyDeclared(name) \/ Len(current.locals) >= MaxLocals

\* declare_variable and add_local; depth is -1 until the variable is defined.
Declare(name, depth, slot) ==
  /\ declared < MaxDeclarations
  /\ declared' = declared + 1
  /\ SetCurrent([current EXCEPT !.locals = Append(@, Local(name, depth, declared + 1, slot)),
                                !.height = IF slot > 0 THEN slot ELSE @])

\* var_declaration up to its initializer; at depth 0 the name is a global,
\* nothing is declared and nothing stays on the stack.
BeginLet(name) ==
  /\ AtStatement
  /\ current.scope > 0
  /\ last' = NoReference
  /\ IF Refused(name)
       THEN Error
       ELSE /\ Declare(name, -1, 0)
            /\ UNCHANGED <<failed, captured, unpopped>>

\* mark_initialized: the local is where the initializer left its value.
EndLet ==
  /\ ~failed /\ ~current.inParameters /\ Initializing
  /\ SetCurrent([current EXCEPT !.locals[Len(current.locals)] =
                                  [@ EXCEPT !.depth = current.scope, !.slot = current.height + 1],
                                !.height = @ + 1])
  /\ last' = NoReference
  /\ UNCHANGED <<failed, declared, captured, unpopped>>

\* A parameter: its value is pushed by the caller.
Parameter(name) ==
  /\ ~failed /\ current.inParameters
  /\ last' = NoReference
  /\ IF Refused(name)
       THEN Error
       ELSE /\ Declare(name, current.scope, current.height + 1)
            /\ UNCHANGED <<failed, captured, unpopped>>

EndParameters ==
  /\ ~failed /\ current.inParameters
  /\ SetCurrent([current EXCEPT !.inParameters = FALSE])
  /\ last' = NoReference
  /\ UNCHANGED <<failed, declared, captured, unpopped>>

-----------------------------------------------------------------------------
(* Scopes and functions *)

BeginScope ==
  /\ AtStatement
  /\ current.scope < MaxScopes
  /\ SetCurrent([current EXCEPT !.scope = @ + 1])
  /\ last' = NoReference
  /\ UNCHANGED <<failed, declared, captured, unpopped>>

\* Mutant: the captured locals are not taken off the list.
Staying_Captured(c) ==
  SelectSeq(c.locals, LAMBDA l : l.depth < c.scope \/ l.isCaptured)

\* How many locals are left when the loop of end_scope stops.
Left(c) ==
  CHOOSE n \in 0 .. Len(c.locals) :
    /\ n > 0 => c.locals[n].depth < c.scope
    /\ \A i \in n + 1 .. Len(c.locals) : c.locals[i].depth >= c.scope

\* The locals end_scope leaves.
Staying(c) == SubSeq(c.locals, 1, Left(c))

\* end_scope: one OP_POP or OP_CLOSE_UPVALUE for each local of the scope.
EndScope ==
  /\ AtStatement
  /\ current.scope > (IF Depth = 1 THEN 0 ELSE 1)
  /\ LET leaving == Len(current.locals) - Len(Staying(current))
     IN  SetCurrent([current EXCEPT !.locals = Staying(current), !.scope = @ - 1,
                                    !.height = @ - leaving])
  /\ last' = NoReference
  /\ UNCHANGED <<failed, declared, captured, unpopped>>

\* fn_expr: a function within an expression.
BeginFunction ==
  /\ ~failed /\ ~current.inParameters
  /\ Depth < MaxFunctions
  /\ compilers' = Append(compilers, NewCompiler(1, FALSE))
  /\ last' = NoReference
  /\ UNCHANGED <<failed, declared, captured, unpopped>>

\* fun_declaration: the name is defined before the function is compiled; the
\* closure will be pushed in its slot.
BeginNamed(name) ==
  /\ AtStatement
  /\ current.scope > 0
  /\ Depth < MaxFunctions
  /\ last' = NoReference
  /\ IF Refused(name)
       THEN Error
       ELSE /\ declared < MaxDeclarations
            /\ declared' = declared + 1
            /\ LET local == Local(name, current.scope, declared + 1, current.height + 1)
               IN  compilers' = Append([compilers EXCEPT ![Depth].locals = Append(@, local)],
                                       NewCompiler(1, TRUE))
            /\ UNCHANGED <<failed, captured, unpopped>>

\* end_compiler and OP_CLOSURE.
EndFunction ==
  /\ AtStatement
  /\ Depth > 1 /\ current.scope = 1
  /\ compilers' = [SubSeq(compilers, 1, Depth - 1) EXCEPT
                     ![Depth - 1].height = IF current.defines THEN @ + 1 ELSE @]
  /\ last' = NoReference
  /\ UNCHANGED <<failed, declared, captured, unpopped>>

\* expression_statement without its semicolon: the value is not popped.
Unterminated ==
  /\ AtStatement
  /\ ~unpopped
  /\ SetCurrent([current EXCEPT !.height = @ + 1])
  /\ unpopped' = TRUE
  /\ last' = NoReference
  /\ UNCHANGED <<failed, declared, captured>>

-----------------------------------------------------------------------------
(* Naming *)

\* The locals of function c with that name.
Named(c, name) == {i \in 1 .. Len(Locals(c)) : Locals(c)[i].name = name}

\* resolve_local: the innermost local of that name, or 0.
ResolveLocal(c, name) ==
  IF Named(c, name) = {} THEN 0
  ELSE CHOOSE i \in Named(c, name) : \A j \in Named(c, name) : j <= i

\* The innermost function that has such a local, or 0: where the recursion
\* of resolve_upvalue ends.
Owner(name) ==
  LET owners == {c \in 1 .. Depth : ResolveLocal(c, name) > 0}
  IN  IF owners = {} THEN 0 ELSE CHOOSE c \in owners : \A d \in owners : d <= c

Uninitialized(name) ==
  Owner(name) > 0 /\ Locals(Owner(name))[ResolveLocal(Owner(name), name)].depth = -1

SameUpvalue(u, v) == u.index = v.index /\ u.isLocal = v.isLocal

\* Mutant: entries are compared by their index alone.
Position_ByIndex(c, u) ==
  LET same == {i \in 1 .. Len(compilers[c].upvalues) : compilers[c].upvalues[i].index = u.index}
  IN  IF same = {} THEN Len(compilers[c].upvalues) + 1
      ELSE CHOOSE i \in same : \A j \in same : i <= j

\* Mutant: the count is incremented before it is returned.
Position_PreIncremented(c, u) ==
  LET same == {i \in 1 .. Len(compilers[c].upvalues) : SameUpvalue(compilers[c].upvalues[i], u)}
  IN  IF same = {} THEN Len(compilers[c].upvalues) + 2
      ELSE CHOOSE i \in same : \A j \in same : i <= j

\* add_upvalue: the number of the entry, an old one if there is one.
Position(c, u) ==
  LET same == {i \in 1 .. Len(compilers[c].upvalues) : SameUpvalue(compilers[c].upvalues[i], u)}
  IN  IF same = {} THEN Len(compilers[c].upvalues) + 1
      ELSE CHOOSE i \in same : \A j \in same : i <= j

Upvalue(index, isLocal, var) == [index |-> index, isLocal |-> isLocal, var |-> var]

\* The entries resolve_upvalue asks for: the function inside the owner refers
\* to its local, every one further in to the entry of the one around it.
Entries(name) ==
  LET owner == Owner(name)
      index == ResolveLocal(owner, name)
      var == Locals(owner)[index].var
      entry[c \in owner + 1 .. Depth] ==
        IF c = owner + 1 THEN Upvalue(index, TRUE, var)
        ELSE Upvalue(Position(c - 1, entry[c - 1]), FALSE, var)
  IN  entry

\* Mutant: is_captured is not set.
Mark_Nothing(owner, index) == compilers[owner].locals

\* The owner's local is marked as captured.
Mark(owner, index) == [compilers[owner].locals EXCEPT ![index].isCaptured = TRUE]

Added(c, entry) ==
  IF Position(c, entry) > Len(compilers[c].upvalues)
    THEN Append(compilers[c].upvalues, entry) ELSE compilers[c].upvalues

\* named_variable
Name(name) ==
  /\ ~failed /\ ~current.inParameters
  /\ LET owner == Owner(name)
         index == ResolveLocal(owner, name)
     IN  CASE Uninitialized(name) -> Error /\ last' = NoReference
           [] owner = 0 /\ ~Uninitialized(name) ->
                /\ last' = [name |-> name, from |-> "global", arg |-> 0]
                /\ UNCHANGED <<compilers, failed, declared, captured, unpopped>>
           [] owner = Depth /\ ~Uninitialized(name) ->
                /\ last' = [name |-> name, from |-> "local", arg |-> index]
                /\ UNCHANGED <<compilers, failed, declared, captured, unpopped>>
           [] OTHER ->
                IF \E c \in owner + 1 .. Depth : Position(c, Entries(name)[c]) > MaxUpvalues
                  THEN Error /\ last' = NoReference
                  ELSE /\ compilers' =
                            [c \in 1 .. Depth |->
                               IF c < owner THEN compilers[c]
                               ELSE IF c = owner THEN [compilers[c] EXCEPT !.locals = Mark(owner, index)]
                               ELSE [compilers[c] EXCEPT !.upvalues = Added(c, Entries(name)[c])]]
                       /\ last' = [name |-> name, from |-> "upvalue",
                                   arg |-> Position(Depth, Entries(name)[Depth])]
                       /\ captured' = captured \cup {Locals(owner)[index].var}
                       /\ UNCHANGED <<failed, declared, unpopped>>

Next ==
  \/ \E name \in Names : BeginLet(name) \/ Parameter(name) \/ BeginNamed(name) \/ Name(name)
  \/ EndLet
  \/ EndParameters
  \/ BeginScope
  \/ EndScope
  \/ BeginFunction
  \/ EndFunction
  \/ Unterminated

Spec == Init /\ [][Next]_vars

-----------------------------------------------------------------------------
(* Properties *)

LocalType(l) ==
  /\ l.name \in Names \cup {NoName} /\ l.depth \in -1 .. MaxScopes
  /\ l.isCaptured \in BOOLEAN /\ l.var \in 0 .. MaxDeclarations

\* Indices fit their byte: no function has more locals or upvalues than allowed.
TypeOK ==
  /\ Depth \in 1 .. MaxFunctions
  /\ \A c \in 1 .. Depth :
       /\ Len(Locals(c)) \in 1 .. MaxLocals
       /\ \A i \in 1 .. Len(Locals(c)) : LocalType(Locals(c)[i])
       /\ Len(compilers[c].upvalues) <= MaxUpvalues
       /\ compilers[c].scope \in 0 .. MaxScopes
  /\ failed \in BOOLEAN /\ unpopped \in BOOLEAN
  /\ captured \subseteq 1 .. declared

\* The declaration an upvalue of function c leads to, from function to
\* enclosing function as OP_CLOSURE does at run time.
Reaches[c \in 2 .. Depth] ==
  [k \in 1 .. Len(compilers[c].upvalues) |->
     LET u == compilers[c].upvalues[k]
     IN  IF u.isLocal
           THEN IF u.index <= Len(Locals(c - 1)) THEN Locals(c - 1)[u.index].var ELSE 0
           ELSE IF c > 2 /\ u.index <= Len(compilers[c - 1].upvalues)
                  THEN Reaches[c - 1][u.index] ELSE 0]

\* Every upvalue leads to the variable it was made for, as long as the
\* function is compiled, whatever scopes were opened and closed since.
UpvaluesLead ==
  \A c \in 2 .. Depth : \A k \in 1 .. Len(compilers[c].upvalues) :
    Reaches[c][k] = compilers[c].upvalues[k].var

\* The variables of that name around the current place: all declarations in
\* open scopes of the functions being compiled, later ones further in.
InScope(name) ==
  UNION {{Locals(c)[i].var : i \in Named(c, name)} : c \in 1 .. Depth}

\* A name means the latest declaration whose scope is open, in whichever
\* function it is, and a global only if there is none.
LexicalScope ==
  last # NoReference =>
    LET means == CASE last.from = "local" -> current.locals[last.arg].var
                   [] last.from = "upvalue" -> Reaches[Depth][last.arg]
                   [] OTHER -> 0
    IN  IF InScope(last.name) = {} THEN last.from = "global"
        ELSE means \in InScope(last.name) /\ \A v \in InScope(last.name) : v <= means

\* A local some function captures is known to be captured: end_scope emits
\* OP_CLOSE_UPVALUE for it, never OP_POP.
CapturedMarked ==
  \A c \in 1 .. Depth, v \in captured :
    \A i \in 1 .. Len(Locals(c)) : Locals(c)[i].var = v => Locals(c)[i].isCaptured

\* The index of a local is its slot, and nothing but locals is on the stack
\* between statements, if every expression statement has its semicolon.
LocalsAtSlots ==
  ~unpopped /\ ~failed =>
    \A c \in 1 .. Depth :
      /\ \A i \in 1 .. Len(Locals(c)) : Locals(c)[i].depth >= 0 => Locals(c)[i].slot = i
      /\ c = Depth /\ AtStatement => compilers[c].height = Len(Locals(c))
=============================================================================
