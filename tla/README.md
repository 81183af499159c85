# MJ: a verification development

MJ ("Moonjit" in its examples) is a small scripting language: a single-pass compiler to
bytecode, a stack interpreter with closures, a mark-sweep garbage collector and a C API for
host programs. Everything that is its own code is in `src/src` (3774 lines of C). The program
is single-threaded; what makes it hard is that *any allocation may run the garbage
collector*, that C code, natives and the interpreter call each other recursively, and that
errors strike in the middle of all of that.

The modules here are written from the C code. TLC checks them on small instances, TLAPS
proves the theorems for every instance.

## 1. Inventory

| Part (source) | State it keeps | Operations | Talks to |
|---|---|---|---|
| **Hash table** (`table.c`) | `count`, `capacity`, `entries` with tombstones | get, set, delete, grow, find by text, remove white | globals, `{}` tables, intern table; allocates, so it may collect |
| **Garbage collector** (`gc.c`) | object list, mark bits, gray stack | mark roots, trace, sweep | started by every allocation; reads stack, globals, strings, frames, upvalues, compiler chain |
| **Memory accounting** (`gc.c`, `common.h`) | `bytes_allocated`, `next_gc`, `max_memory` | charge, refund, threshold, limit | ends the process when the limit is exceeded |
| **Objects and rooting** (`object.c`, `vm.c`, `host.c`, `compiler.c`) | the object graph; C local variables | allocate each type, intern strings, store into tables and globals | the collector sees the stack and the roots, never C variables |
| **Calls and host API** (`vm.c`, `host.c`) | value stack, frames, `error_message`, step count, last result; activations of `run()` on the C stack | call, return, raise, time out, `mj_call`, `mj_load_string`, push, pop | natives call back into the interpreter |
| **Closures** (`vm.c`, `object.c`) | upvalues, the sorted list of open ones | capture, read, assign, close | stack slots, the collector |
| **Compiler: scopes** (`compiler.c`) | a chain of compilers: locals, upvalues, scope depth | declare, define, resolve, capture, begin and end scopes and functions | decides which slot or upvalue the interpreter will use |
| **Compiler: code** (`compiler.c`, `chunk.c`) | bytecode, constants, parser tokens, panic mode | precedence parsing, jumps, loops, recovery | the interpreter executes it |
| **Lexer** (`lexer.c`) | position, line | next token, keywords | the compiler |
| **Values and operators** (`value.c`, `vm.c`) | none | arithmetic, equality, truth | the interpreter |
| **Command line, REPL, natives** (`main.c`, `vm.c`) | none | files, options, printing | results of the interpreter |

What makes each part correct:

- *Table*: every search ends; a stored key is found whatever was deleted before; it is a map.
- *Collector*: nothing reachable is freed (the code breaks this in one case, which the properties
  delimit); a collection ends; seen from outside it is one atomic step.
- *Accounting*: charges and refunds balance; the limit is kept; a program is ended only for
  real lack of memory.
- *Rooting*: no operation uses, stores or pushes an object that its own allocations freed.
- *Calls*: frames nest; a function does not touch its caller's values; activations of
  `run()` return at their own frame; a limited script ends; errors are reported as what they are.
- *Closures*: closures share variables, during and after their lifetime on the stack (again with one case,
  after statements without a semicolon, in which the code does not keep it).
- *Scopes*: a name means its lexical declaration; a local's index is its stack slot; captured
  locals are closed.

`PROJECT.json` lists the hazards of the code line by line, with the properties that cover
them and, where none does yet, the reason.

## 2. Modules

| Component | Specification | Implements | For TLC | Proofs |
|---|---|---|---|---|
| Hash table, intern table | `Table` (uses `TableOps`) | `Map` | `MCTable` | `TableProofs` |
| Collector | `Collector` (uses `Reachability`) | `AtomicHeap` | `MCCollector` | `CollectorProofs` |
| Accounting | `Accounting` | | `MCAccounting` | `AccountingProofs` |
| Rooting | `Rooting` (uses `Reachability`) | | `MCRooting` | `RootingProofs` |
| Calls, host API | `Calls` | | `MCCalls` | `CallsProofs` |
| Closures | `Upvalues` | `Variables` | `MCUpvalues` | `UpvaluesProofs` |
| Scopes | `Scopes` | | `MCScopes` | `ScopesProofs` |
| Lexer | `Lexer` | rules of `Lexicon` | `MCLexer` | `LexerProofs` |
| Compiler: code; instruction set; `len`, `type` | `Compiler`, `Machine` (use `Tokens`, `Values`) | `Grammar`, `Meaning` (compared in `Scripts`) | `MCScripts` | |

How they fit together. `Collector` shows that mark and sweep, step by step, behaves as one
atomic removal of unreachable objects; `Rooting` relies on that and asks which objects *are*
reachable while each operation allocates. `Accounting` shows when the second test of
`allocate_object` can succeed: not before a collection has freed an object and refunded its header
twice. `Collector` has this as the guard of `overdue` (`Finish`) and models what follows. `Rooting` does not have
stale marks: what it says is about rooting, under the collector's promise without its exception. `Scopes` shows that a
local's index is its slot, if every expression statement has its semicolon, and that captured locals are marked;
`Upvalues` relies on neither: its `OP_POP` pops any slot, captured or not. `Calls` shows that frames nest,
which `Upvalues` and `Scopes` presuppose, and that nothing runs after an error, which is why
`Upvalues` has none. `Lexer` hands over tokens as `Compiler` reads them; `Machine` composes
`Compiler` with the instructions, functions and closures included, and `Scripts` compares the two with
what a script says. `Scopes`, `Calls` and `Upvalues` leave open what the text is or what is computed and
explore every order of their operations; `Scripts` has the three together, compiled from texts.

### Hash table: `Map`, `TableOps`, `Table`

`TableOps` has what does not depend on the state: probing, `FindEntry` (the first
never-used slot, the first tombstone before it, or the key's slot), growth. `Table` has the
table (`count`, `capacity`, `entries`) and the calls get, set, delete, find by text, free. When `table_set` must
grow, the entries move one per step (`RehashStep`) into the fresh array with tombstones
dropped and `count` recomputed, and the key is stored last: a collection may come while
`adjust_capacity` allocates, so the intermediate states matter. `Map` is a finite function with
the answer of the last call; a rehash stutters. `RemoveWhite` is the collector's
`table_remove_white`, one slot per step, each with the `table_delete` it makes while the loop
goes on over the same array: which keys are white is left open, and the map loses one key per
step (`doing = "forgetting"`). `table_find_string` compares texts where `find_entry` compares
pointers; as the table holds one string per text, a key stands for both.

### Garbage collector: `Reachability`, `AtomicHeap`, `Collector`

`Reachability` defines `Reach` as the least set closed under references (no recursion, so that
it can be proved about). `Collector` does one root source, one gray object and one swept
object per step, and allocation with both of its tests of the counters. The gray stack is a
set: the order in which it is popped is left open. `gc_mark_object`'s early return on marked
objects is what makes tracing end on cycles and what makes a mark that outlives its
collection fatal. The interpreter changes the graph (`AddRef`, `DropRef`, `AddRoot`, `DropRoot`) only while no
collection runs, for the program has one thread.

The byte counters are reduced to `overdue`, the outcome of the test `bytes_allocated > next_gc`, which is
open at every charge and, right after a collection, once an object has been freed (`refunded`). Then
`allocate_object` marks the new object, collects, and links it with its mark set (object.c:58-69): `stale` has these
objects. The next collection takes such an object for marked and does not look into it; what only it
refers to is freed, and `skipped` has the objects that may now refer to freed memory. If a later collection
follows such a reference, it writes into freed memory (`TraceFreed`): what happens then is undefined and the model stops
(`pc = "broken"`). An instruction that follows it is undefined as well; the mutator uses only what is `Usable`.

In `AtomicHeap` a collection is one step that removes exactly the unreachable objects, with one exception: once
a collection has freed something, a new object may be `hidden`, and the next collection keeps it without following
its references.

### Memory accounting: `Accounting`

`bytes` is a `size_t` modulo `Modulus`. Each action is one charge or refund with the tests that
`gc_reallocate` and `allocate_object` make, in their order: limit, charge, collection, second test.
`Collect(F)` refunds what `sweep` refunds for each swept object, which is more than the object
was charged. Arrays that are allocated before the object that is to own them are charged on their own
(`AllocateAhead`: characters of strings, upvalues of closures). The compiler takes the characters of a literal by the length of its
source, escapes included (compiler.c:435), while `take_string` and `sweep` give back what the string's
length says; `escaped` and `escapes` count the difference, a byte for each escape.
`drift` is a history variable: the difference between the count and the truth.
What objects occupy is the number of their `Cells`, one for each byte, so that sums over objects
need no recursion. `CounterAssumption` says that everything that can be counted at once is less
than half of what a `size_t` holds: real objects are in an address space that a `size_t` covers,
half of which no process has, and without it the count would wrap around in a correct program too. The gray
stack is not charged when it grows, but `vm_free` takes it off the counter at shutdown, after which nothing
reads it; that is left out.

### Rooting: `Rooting`

One action per allocation an operation makes. `call` holds the C variables of the running
operation, `pc` the allocation it waits for; at each allocation the heap may shrink to what is
reachable from the stack, the globals, the intern table and the compiler chain
(`Survivors`). `Operations` selects which instructions, host calls or compiler steps the
program uses. Four of them lose what they hold (`PopsFirst`: `t[k] = v`, `mj_set_global`,
`mj_set_table`, and an inner function whose compilation has ended); what the C code does after
that is undefined, so the model stops there, and `HeldAllocated` says that no other
operation does it.

### Calls: `Calls`

`stack` and `frames` are those of the VM, `active` is the C stack: activations of `run(target)`
and of natives, innermost last. `Raise` is `vm_runtime_error` with `reset_stack`. What an
instruction computes is left open (`Compute` pushes any value or pops one of the frame's
own); that compiled code pops only what its function has pushed is assumed here. Natives
are external: with `NativesCall` they use the host calls, but take off the stack only what
they have pushed. If a function called by a native fails, the native's return moves
`stack_top` below the stack; the model stops there (kind `"broken"`), because the C behaviour
is undefined. Natives that load sources, and the parts of the host API on tables, globals and
userdata, are not in this module.

### Closures: `Variables`, `Upvalues`

`Upvalues` has `capture_upvalue`, `close_upvalues` and the instructions around them; the
searches of the sorted list are the lengths of prefixes (`Passed`, `Closing`), stopping where
the loops stop. `OP_CLOSURE` captures one variable per step. `home` and `of` are history
variables: which variable a slot or an upvalue stands for. In `Variables` slots and closures
refer to variables, and a variable has one value. The refinement mapping takes a variable's
value from its slot, or else from its upvalue.

`OP_POP` tests nothing (vm.c:281) and neither does the model. The compiler emits it for locals that no function
captures, but takes the local's index for its slot, which is wrong after an expression statement without
a semicolon: `compiler.c:712` accepts one and leaves its value on the stack, and `examples/host_demo.c:179-203` is a script
of such statements. An upvalue whose slot is popped is `stranded`: it stays in the list and points
above the top. Reading through it yields any value, writing through it is lost, and once another
value is pushed there it reads and writes that. `CloseUpvalues` closes it with the others. The outermost function is a script,
whose end pops its result and one more value (vm.c:429-442): its closure, unless such statements have left values above
it. These leftovers stay on the stack below the next script. In `Variables` the step `Lose` stands for an `OP_POP` that strands an upvalue;
from there until no upvalue is stranded any more nothing is promised (`lost`).
Functions that the host calls directly (see the hazard at vm.c:435) are left out here.

### Scopes: `Scopes`

One record per `Compiler`. The source text is the nondeterminism: which name is declared, used
or captured next, which scope or function begins or ends. `Entries` is the recursion of
`resolve_upvalue` as a recursive function. History: `var` numbers declarations, `slot` and
`height` say where values are at run time. After an error the compiler produces no code, so
the model stops. Global variables are resolved by name at run time and have no state here.

### Lexer: `Lexer`, `Lexicon`

The scanner is a state machine with one step per character its loops consume: `mode` is the
loop it is in, `start`, `current` and `line` are the lexer's fields. A text is a sequence of
characters, none of them the terminator, which is what reading behind the text yields. The parser's `advance` drops error tokens and asks again, so the
scanner runs to the end of the text in one go (hence weak fairness). `Lexicon` says, without a
scanner, where a gap, a word, a number, a string or a comment that begins at a position ends, and
which tokens and errors a text therefore has. `import` is no keyword in either: the code
asks for seven characters, the last of them the terminator of `"mport"` (lexer.c:153), which no word has,
so that `import` is an identifier.

### From tokens to effects: `Tokens`, `Values`, `Compiler`, `Machine`

`Compiler` is the one-pass compiler, token in, byte out: the rules table (`Precedence`,
`IsPrefix`, `Prefix`, `Infix`), `parse_precedence` with its `can_assign`, every statement, jumps
and loops with their two-digit offsets, constants, locals, the error flag, panic mode and
`synchronize`, and functions: `p` is the compiler of the current one, those around it are in `enclosing`,
their upvalues in `upvalues`, and `end_compiler` makes the finished function a constant (`Prototype`)
of the one around it. `resolve_upvalue` climbs to the nearest `Owners` and comes back down through
`AddUpvalue`, one entry per function on the way. The C functions call each other recursively; here the calls still to be made are a list
(`todo`), in front of which a function puts what it will do, and the code positions the C
functions keep in variables (`loop_start`, `exit_jump`) are the stack `marks`. `Compile` is
therefore one loop over `Do`, without mutual recursion. The sizes of a byte and of an offset
are the constants `MaxByte` and `JumpBase`.

`Machine` is `vm_interpret`: `Translate` compiles, then each action is an instruction or a group
of instructions that differ in what they compute, `TimedOut` is the step limit. Frames, closures and
upvalues are those of `vm.c`; an open upvalue is one with a `location` in the stack, and the sorted list
that the code searches for it, which `Upvalues` has, is left out. The script's own closure is the first.
`heights` is a history variable. Numbers are whole: of floating-point arithmetic only what whole
numbers show is modelled, and `/` is left out. `% 0` ends the process, as the code's division of
two `long`s does, and so does calling the missing infix function of `typeof` or `length`.
Reading code or the stack where there is none is not defined by the code and has no step here:
TLC would stop at it.

`Grammar` and `Meaning` are what these are compared with. `Grammar` gives the trees of a text by
nested levels of operators, with no notion of a current token, and says which trees name variables well:
no name declared twice in a scope, no initializer that mentions its own name, a `return` only in
functions. `Meaning` evaluates a tree with scopes of cells in a store: a function keeps the scopes it was
made in, so that variables are shared without upvalues, and there is no code, slot or stack. They say what the code's language is, not
what a document says: the repository has no grammar of its own.

## 3. Runs

| Run | Shows | States |
|---|---|---|
| `table` | `TypeOK`, `CountIsUsed`, `ProbeTerminates`, `EveryKeyFound`, `RefinesMap` | 4 keys, 3 colliding; arrays of 4, 8, 16 slots: growth, tombstones filling the array and reuse all happen |
| `collector` | `TypeOK`, `NoDangling`, `BlackIsClosed`, `StringsStay`, `CollectionEnds`, `RefinesAtomicHeap` | every graph on 3 objects, cycles included; collections in array and object allocations, the second collection of `allocate_object` with its stale mark, and freed memory met because of one; 477,784 states, 1.5 min |
| `accounting` | `TypeOK`, `CounterDrift`, `LimitUpToDrift`, `OverdueOnlyAfterUnderflow` | a 7-bit counter, 3 objects, arrays allocated ahead of them with up to one escape, with a limit and without, enough collections to underflow; 4.1 million states, 1 min |
| `rooting` | `TypeOK`, `HeldAllocated`, `ReachableAllocated` | a table, a string, two functions, a userdata or closure; all operations, a stack of 3, a function inside a script |
| `calls` | `TypeOK`, `FramesNested`, `RunsOwnFrames`, `NativesFindArguments`, `CallerUntouched` | 3 frames, 1 parameter, a stack of 7, 4 activations: script, native and function nest and return |
| `runs_end` | `RunsEnd` (liveness) | 6 steps, 2 frames |
| `upvalues` | `TypeOK`, `OpenSorted`, `OpenAtHome`, `RefinesVariables` | 2 frames, a stack of 4, 2 closures with 2 upvalues: insertion in the middle, sharing, passing on, closing one and many, stranding one and closing it later, a second script above the leftovers of the first; 855,799 states, 1.5 min |
| `lexer` | `TypeOK`, `TokensRight`, `LexerEnds` (liveness) | every text of up to 6 characters of comments and of strings, 5 of numbers and 4 of a mix, every keyword and its misspellings |
| `scripts` | `TypeOK`, `AcceptsGrammar`, `RunsAsWritten`, `HeightsAgree` | 24004 scripts (below), a byte of 15, offsets up to 48, 4 frames, 80 steps |
| `scopes` | `TypeOK`, `UpvaluesLead`, `LexicalScope`, `CapturedMarked`, `LocalsAtSlots` | 3 nested functions, 3 declarations of 2 names, limits small enough to be hit |

Bounds. Each cfg names its own. They are the smallest at which the interesting cases occur:
a table that grows twice and reuses tombstones; a cycle, a string and an allocation in
between; a script that calls a native that calls a function; a third upvalue between two
others; an upvalue passed through a function that does not use it. After an error `calls` keeps
the stack shorter (`MaxPending`), for its invariants are about what happens before. `calls`
uses a VIEW that omits what no guard and no property of that run reads, `rooting` one that
omits the contents of freed objects, `upvalues` one that identifies states that differ in the
names of variables only. Symmetry is declared for the two functions of `rooting` and the two
names of `scopes`, which are interchangeable. `CHECK_DEADLOCK FALSE` is used where the program
can stop (exit, failed compilation, undefined stack pointer, lost operand, a collection in freed memory) or where only a bound stops the
model (`upvalues`).

The scripts of `scripts` are: every text of at most four tokens over three vocabularies
(expressions; table literals; statements with an unscannable character), most of which are no programs; two
operators, binary or prefix, between operands of all types; tables with their properties, elements,
calls and assignments to each; loops and conditions nested in two levels, with and without
locals that hide globals, with bodies whose last statement lacks its semicolon; closures that count up,
hide or hand on a local of a block, a loop's clause, a loop's body or a function, share it with a second
closure, and are called when it is gone; functions that call themselves, too deep, with too few or too
many arguments, while the caller has a value on the stack. `MaxByte` = 15 and
`JumpBase` = 7 (offsets up to 48) are small enough that the longest of them exceed each
limit and large enough that most do not; 80 steps let every loop that ends end, and stop the others;
4 frames let a recursion of depth 2 return and one of depth 3 overflow.
`RunsAsWritten` and `HeightsAgree` are exact for scripts whose expression statements all have
their semicolon: without it the code leaves the value on the stack, which moves the
locals declared later (`compiler.c:712`) and makes a loop grow the stack. It also moves what `end_scope`
closes: in `let g; { let c = 1; let a = 2; g = fn() { return a; }; 5 } print(g());` the upvalue of `a` stays
open behind the end of the stack, and the interpreter prints `print` itself (`<native fn>`), not 2.

Fairness. `Lexer`: weak fairness of its steps, one call of one thread. `Collector`: weak fairness of the collector's own steps (`Run`): straight-line code of the
one thread. `Calls`: weak fairness of the interpreter loop and of natives that return;
`RunsEnd` is checked with natives that do not call back, because a native that loops is the
host's own. No fairness is put on the host or on what a script does: the step limit alone ends
infinite loops and recursion.

### Disagreements with what the repository says

Each is a run that ends in a violation, and a finding in `PROJECT.json`.

| Run | Property | What happens |
|---|---|---|
| `set_index` | `OperandsSurvive` | `t[k] = v` pops its operands before the table grows; the value is freed, and the dangling pointer stored |
| `sticky_error` | `MemoryErrorsOnly` | `error_message` is never cleared: after any error every entry returns `RESULT_OUT_OF_MEMORY` at once and leaves its frame behind |

The same models show more of the kind, for which there is no run. The collector frees reachable
objects: `Live \subseteq objects`, without the exception of `NoDangling`, fails in `MCCollector` after a trace of 30 states. A collection frees an
object and refunds its header twice, so that the counter wraps; the second test of the next `allocate_object` succeeds and it links an object
with its mark set (object.c:58-69); a new object is referred to from that one only; the next collection does not look into it and frees
the new object. In 38 states a later collection follows the reference into freed memory (`pc = "broken"`).
`OverdueOnlyAfterUnderflow` says when the second test succeeds; a wrapped counter also makes the next allocation collect again
or, with a limit, end the program (as `examples/gc_debug6.mj` shows). With other members of
`PopsFirst` in `Operations`, `OperandsSurvive` fails for `mj_set_global` and `mj_set_table`, which pop the
value before `table_set` may collect, and for inner functions, which are in no root while the
constants of the enclosing function grow. `CounterDrift` implies that more than
`--max-memory` can be in use: `sweep` refunds each header twice. It also implies that a literal with escapes
leaves the counter a byte too high for each, once its characters are freed. A full frame array is reported as
`RESULT_RUNTIME_ERROR` (nothing returns `RESULT_STACK_OVERFLOW`), and steps are counted
over all entries since the limit was set. `AcceptsGrammar` states the texts that stop the compiler
(`a length`), and `Machine` the instruction that stops the interpreter (`1 % 0`); the C program ends with
a signal on both.

## 4. Theorems

`tlapm` checks every proof to the last leaf.

**Hash table** (`TableProofs`), for any keys, hash function and values and any minimum
capacity of at least two (`TableAssumption`; the code has 8): `TableTypeOK`, `TableCountIsUsed`,
`TableProbeTerminates`, `TableEveryKeyFound`, and `TableRefinesMap` (the table implements `Map`). `CountIsUsed` alone is not
inductive: that an insertion fits needs what the growth rule left free (`GrowthInv`: capacity is
zero or at least the minimum, and the pending insertion finds room), and that the fresh array of a
rehash holds exactly the entries moved so far (`RehashInv`). `IndInv` is the conjunction of
`TypeOK`, `CountIsUsed`, `EveryKeyFound`, `GrowthInv` and `RehashInv`. The heart is a lemma on
probing: a search always meets a never-used slot, and storing a key in the slot `FindEntry`
returns keeps the search paths of all other keys.

**Collector** (`CollectorProofs`), for any set of objects, strings and root sources (`CollectorAssumption`): `CollectorTypeOK`,
`CollectorNoDangling`, `CollectorBlackIsClosed`, `CollectorStringsStay` and `CollectorRefines` (mark and sweep implements `AtomicHeap`).
None of them assumes anything of the counters but what `AccountingOverdue` shows: that they are not over the threshold
right after a collection unless an object has been freed. `IndInv` adds to the checked invariants: what the roots and
all objects but the `Blind` ones (stale or skipped) hold is kept (`HeapInv`); an object is pending between its allocation and its linking
(`PendingInv`); between collections only stale marks are set, and that of the pending object (`RestInv`); the second test succeeds
only after an object was freed (`RefundInv`); while marking, every root source seen has only marked objects, and what is marked
is `Found`, reachable without passing through a stale object, or stale itself (`MarkInv`); and sweeping clears the marks of what it passes, so that
all that is still marked is still to be visited (`SweepInv`). At the end of marking the first half of `MarkInv` and `BlackIsClosed`
together say that the marked objects are exactly the found and the stale ones, which is what `AtomicHeap` keeps.

The table's theorems cover the removal of white keys and the search by text: `IndInv` holds between any
two deletions of the collector's loop, and each step of it is a step of `Map`.

**Closures** (`UpvaluesProofs`), for any variables and values, any depth of calls and any bounds
(`UpvaluesAssumption`): `UpvaluesTypeOK`, `UpvaluesOpenSorted` and `UpvaluesOpenAtHome`. The three hold only
together: the searches of `capture_upvalue` and `close_upvalues` stop at the first upvalue that is low
enough, so they see everything they must only if the list is sorted (`SearchComplete`, `Closes`), and
the list stays sorted, and no upvalue but a stranded one is left pointing above the stack, only if the searches do. `IndInv`
adds the bound of the stack and `FramesStacked` (the frames' slots increase and the stack reaches the newest),
which a return needs: the caller's frame is below what is popped. `Insertion` is the lemma on the
list itself. Nothing is assumed of the compiler: `OP_POP` pops captured slots, and scripts end with values left behind.

The last theorem is the refinement: `UpvaluesRefineVariables`. As long as no upvalue is stranded every action is a step
of `Variables` (`AsStep`), an `OP_POP` that strands one is its `Lose`, and afterwards `Variables` allows anything until none is. The
promise has to be true again at that point, so the invariant `VarInv` holds throughout. It says who has a variable (`Owned`): no two slots
have one variable and no two upvalues were made for one; open upvalues lie at or above the lowest slot of the running script (`Base`:
what earlier scripts have left below it no function can name, `BaseKept`); the variable of a closed or stranded
upvalue has no slot from there on, so that a variable's value is in one place (`ReadsOne`). And every upvalue is one of
some closure (`AllHeld`), so that the variables with a slot or an upvalue are those that `Variables` keeps (`LastingNow`). Then each action
is checked by reading every slot and every upvalue after it (`ValuesNext`): `CloseUpvalues` moves values without changing
what is read (`DerefKept`), and that is where the search must not stop early (`CloseAbove`).

**Rooting** (`RootingProofs`), for any finite or infinite sets of tables, strings, functions and other objects,
which are disjoint (`RootingAssumption`), and any bounds: `RootingTypeOK`, `RootingReachableAllocated` (what the roots reach is allocated)
and `RootingHeldAllocated` (so is what the running operation still holds in C variables, but for the four that
lose it). `IndInv` adds what a collection at an allocation needs: as long as nothing held has been freed, nothing
reachable from it has (`HeldReach`: a collection keeps an object and all it refers to, or neither); at every allocation but the
interning of a new string, what is held is on the stack or in another root, `PopsFirst` excepted (`HeldRooted`), so that
`Survivors` keeps it; every operation waits only at its own allocations and holds what it has when it gets there (`CallInv`);
every allocated string is interned, the one being made excepted (`StringsInterned`), which is why operands that are strings
may leave the stack early. `Survive` is the lemma on one collection, whatever part of the garbage it takes.

**Calls** (`CallsProofs`), for any `MJ_FRAMES_MAX` and arity and any bounds (`CallsAssumption`): `CallsTypeOK`,
`CallsFramesNested`, `CallsRunsOwnFrames`, `CallsNativesFindArguments`, and the action property `CallsCallerUntouched`
(no step of a function changes the stack below its own frame). The invariants hold for frames and C activations
only together (`Nested`): frames do not overlap (`FramesApart`); every activation of `run` has a frame of its own, which lies above
what the natives outside it have (`RunsHaveFrames`, `RunsApart`); and a native's arguments lie above every frame that was
there when it was called (`NativesApart`). `Raise` empties
the stack and the frames at once, and from then on the C stack unwinds through frames that no longer exist: `Nested` is required only without an error, `HeightBound` always.

**Accounting** (`AccountingProofs`), for any objects, sizes, limits and thresholds (`AccountingAssumption`, `CounterAssumption`):
`AccountingTypeOK`, `AccountingCounterDrift` (the counter is what is really allocated plus the drift of swept headers, replaced messages
and freed escapes, modulo the size of a `size_t`), `AccountingLimit` (what is allocated plus the drift stays within the limit) and `AccountingOverdue`
(between collections the counter passes `next_gc` only after an underflow). Every step
charges what it allocates, refunds what it frees, is a sweep, or does none of these (`Still`, `Charged`, `Refunded`, `Reclaimed`: `StepCounts`), and each of the four invariants follows from the class of the step.
The lemmas on wrapping (`WrapOnce` and others) need `CounterAssumption`, which tells a small count from a negative one.
The four are inductive with `MessageAsked` (the error message's size is one that was asked for) and `NothingAhead` (an array
is ahead of its object only between the two allocations).

**Scopes** (`ScopesProofs`), for any names and any bounds (`ScopesAssumption`, `NoNameAssumption`): `ScopesTypeOK`, `ScopesUpvaluesLead`,
`ScopesLexicalScope`, `ScopesCapturedMarked` and `ScopesLocalsAtSlots`, all from `ScopesInv`. `IndInv` says of the compilers
what the properties leave out. Declarations are numbered in lexical order and no two locals are the same one (`Ordered`): so the
first match of the backward search of `resolve_local`, in the innermost function that has one, is the latest declaration in scope
(`NameResolved`), and marking it marks no other. Every upvalue is one step from a local or an upvalue of the function around it that is of the same
variable (`Leading`): so `end_scope` may drop only locals that nothing outside leads to, since functions end first.
Only the newest local lacks its initializer (`Filled`, `Initialized`), so that its value is
the only one that the stack may lack (`Awaited`, `Slotted`); a named function's own local lacks it while the function is compiled. `EnclosedNamed` is the step in which `resolve_upvalue` adds a descriptor to
every function between the use and the owner: each new entry is one step from the one before (`ChainLeads`), and what was there keeps its
place (`Extended`). What `Reaches` and `Entries` compute by recursion over the nesting is shown without induction: a least function at which the claim
fails would have the claim for the one around it (`LeastNatural`, `ReachesMadeFor`).

**Lexer** (`LexerProofs`), for any set of texts, of any length, over any characters but the terminator (`SourcesAssumption`): `LexerTypeOK`,
`LexerTokensRight` and `LexerProgress`.
`IndInv` adds to the types that inside an identifier, a number or a string the first character is behind (`InLoop`), so that an unterminated string is reported at one,
and that there are no more line feeds than characters read (`Within`). `Reading` is the fact about the lookahead: a character that is not
the terminator has another position behind it, the terminator's at the latest.
`LexerTokensRight` says that the scanner hands out what `Lexicon` finds. Its invariant is `Scanned`. `line` counts the line feeds before `current`.
The tokens and errors so far, followed by those that `Lexicon` finds from some position on, are those of the whole text (`Whole`);
the position depends on the loop the scanner is in (`InPlace`): `current` between tokens, the end of the comment inside a comment, `start`
inside a token. Of a token not yet finished it keeps what the loop has established: only letters and
digits so far (`InWord`), digits (`InDigits`), digits and one point with a digit behind it (`InFraction`), no closing quote
so far and no half-read escape (`InString`). The lemmas have the rest: where a word, a number or a string ends according to `Lexicon` is where the loop with
that knowledge stops, an even run of backslashes being the one difficulty of strings (`Run`); a text that satisfies a
rule of `identifier_type` is that keyword and no other (`SpellsWord`, `WordType`); and `Scan` has a value at every position
although it is recursive, since a greatest position without one would be behind a greater one.
`LexerProgress` is the safety half of `LexerEnds`: every step lessens `Left`, a natural number that is at most 5 n + 3 for a text of n
characters. What it leaves to TLC is that some step is always possible.

**Only model-checked**: all liveness (`CollectionEnds`, `RunsEnd`, `LexerEnds`), which the proof system does not
reach; and `Scripts`, for `Compiler`, `Grammar` and `Meaning` are recursive over the text.

## 5. Plan

What is left, in this order.

1. *Collections in `Machine`*, between any two instructions, with open upvalues and table growth: today
   `Rooting` has the allocations and `Machine` the instructions.
2. *The value stack's size*: what `adjust_capacity` pushes (table.c:68) against `MJ_STACK_MAX`.

## 6. Not modelled

- The escapes of strings, `/`, and the line numbers of errors.
- The host's calls in compiled scripts: `Calls` has them, with what a script does left open.
- Floating-point arithmetic, number formatting, `strtod`: outside TLC.
- Printing, the disassembler, file and option handling: pure I/O.
- Failure of the system allocator: it exits as the limit does.
- `table_add_all`: nothing calls it, and it is a loop of `table_set`.
- Vendored trees (`cmake-3.29.0-windows-x86_64`, `tcc`, `contrib`, `share`, `man`, ...) and build files.
  The JavaScript in the tree is the search page of CMake's own manual, and the `.ts` files under
  `build_clean` are CMake's empty time stamps: neither is part of MJ, whose code is the C of `src/src`.

Checking: `tlc -config X.cfg M` for a run, `tlapm M.tla` for the proofs.
