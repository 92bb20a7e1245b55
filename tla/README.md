# A TLA+ model of the whack compiler

Whack is a small statically typed language; this repository holds its
compiler, a single-threaded C++17 program over LLVM 6. The specifications in
this directory model the parts of it whose correctness depends on the order
in which things happen: how a grammar becomes parsers and what these make of a
text, how statements become basic blocks, how declarations fill and consult the
tables of a module, how the variables of a function are named, found again and
constructed, and how closures capture them. They are checked with TLC on small
instances and, where it matters most, proved with TLAPS for all.

## The system

A source file is parsed by *mpc* (a vendored parser-combinator library) with
the grammar in `whack.grammar`. `Module::traverse` (module.hpp) walks the AST
and makes an object of each top-level element. `Module::codegen` compiles the
elements in order into one `llvm::Module`, runs one pass (`pass::Ctor`) and
hands the module on to be verified and emitted. Errors are values
(`llvm::Error`, `llvm::Expected`), not exceptions; an error ends the element it
occurs in, and what that element had already done to the module stays done.

| Part | State it keeps | Operations | Status |
|---|---|---|---|
| Statement lowering (`buildFunction`, `Body`, `If`, `While`, `For`, `Match`, `TypeSwitch`, `Return`, `Break`, `Continue`, `Defer`) | the function's blocks and their order, the builder's insertion point, block members of `If` and `While`, a body's list of deferrals | `codegen`, `runScopeExit`, `applyDefer`, the searches of break and continue | modelled |
| Module tables (`metadata.hpp`, `Ident::isUnique`, `Type`, `Alias`, `Structure`, `Interface`, `Enumeration`, `DataClass`) | LLVM's named struct types, four lists of named metadata, the symbol table | one `codegen` each; lookups by name; `Interface::cast`, `DataClass::construct` | modelled |
| Functions (`Function`, `StructFunc`, `StructOp`, `ExternFunc`) | symbols of the module | declaration, replacement when the return type is deduced, calls, conversions | declaration and lookup modelled |
| Module pipeline (`Module::codegen`) | joined errors | compile each element, hand on or fail | modelled |
| Let scoping, constructor pass (`letexpr.hpp`, `pass/ctor.hpp`) | a function's symbol table, allocas, "new" rows | declare, rename, look up, insert constructor calls | modelled |
| Closures, partial application (`closure.hpp`, `ident.hpp`, `funccall.hpp`, `function.hpp`) | functions under construction, their symbol tables, environments and the rows that name an environment's fields | capture, look up, return a closure, call, bind | modelled for data of one type; trampolines' memory is not |
| Parser wrapper (`parser.hpp`) | the grammar's parsers | build, optimise, parse, destroy | modelled |
| mpc: input and its three sources | place in the text, marks, a pipe's buffer, a file's own position | `mpc_input_*` | modelled |
| mpc: pool | cells in use | allocate, grow, free, export | modelled for values and results, not for errors |
| mpc: parse engine, errors, folds, syntax trees | the C stack, results, errors so far | `mpc_parse_run`, `mpc_err_*`, folds, traversal | modelled but for printing and ready-made parsers |
| mpc: grammar language, ownership, optimiser | parsers, which are retained | construct, define, undefine, optimise, clean up | modelled but for reading the grammar's text |
| Traversal (`module.hpp`) | the list of elements | walk the syntax tree | the walk is modelled (`MpcAst`), the choice of element by tag is not |
| Overloaded operators (`structop.hpp`, `lexp.hpp`, `term.hpp`, `preop.hpp`, `postop.hpp`) | mangled names | register, look up | not modelled |
| Expressions, literals, stubs, module uses and exports, scripts | none, or only parsed | | not modelled |

How the parts interact. `Parser` has mpc read `whack.grammar` and build a graph
of parsers from it, optimises the last one, parses a file with it and frees the
graph when it is destroyed. `mpc_parse_run` calls itself along that graph; every
parser reads from the one input, and those that try something mark the input
and go back to the mark. The tree it returns is what `Module::traverse` walks.
A function element first enters its symbol in the
module's tables, then lowers its body; a body's statements may again enter
types and aliases in the tables of the *module* (they are not taken back at the
end of the scope). Lowering calls back into the statement tree twice: `codegen`
walks down it, then `runScopeExit` walks down it again to place deferred
statements, and `applyDefer` walks the control-flow graph built so far.
break and continue walk the same graph backwards through predecessor lists,
while it is unfinished.

A closure's body is compiled while the function it stands in is still open: the
new function's names are looked up in its own table, then in its environment,
then in the module.

What is hard here. Nothing is concurrent. The hazards are of other kinds:
marks that every early return must leave as it found them; memory whose owner
changes from a pool to a caller; a graph of parsers each of which belongs to
another, rewritten in place; recursion over a graph while it is being built,
with cycles in it; blocks
that are created, inserted and moved at three different times; members that
one pass sets and another reads; the builder's insertion point, which the
guards that should restore it do not restore; errors in the middle of an
element, which leave half of it in the tables; names that may be defined
twice, where each table answers for itself which definition is meant; calls
whose result is used unchecked. `PROJECT.json` lists them at their lines.

What makes each part correct:

* *Lowering*: every block of a finished function ends in its only terminator
  and none is forgotten or placed twice; a jump belongs to the innermost loop;
  a deferred statement runs once on every path that passed it, newest first;
  errors surface; it always comes to an end.
* *Tables*: a type is made of types that exist; a name goes on meaning what it
  meant; the rows that describe a type agree with the type; nothing incomplete
  is handed on; the compiler reports errors and does not die of them.
* *Scopes*: a name goes on meaning the variable it was given to until the
  statement that owns it ends, and then means nothing; every object is
  constructed as often as a declaration or a let asks for.
* *Closures*: a name in a body is the variable it names in the text, and stands
  for its value; a call reaches the function's parameters, all of them.
* *mpc input and engine*: the input is a cursor over the text, whatever it is
  read from; a parser matches what its combinators say; who fails has taken
  nothing; marks are balanced, values are freed once or returned; an error
  tells of the furthest place; parsing ends.
* *mpc grammar*: every parser has one owner; the optimised parsers match and
  build what the grammar says; nothing is left when they are destroyed.

## Modules

| Module | What it is |
|---|---|
| `IRBuilder` | The part of LLVM the statements rely on: blocks with instructions, predecessors in use-list order, insertion point, layout. External code, modelled from the calls made to it. Pure operators. |
| `Lowering` | `buildFunction` and every statement that touches control flow. |
| `LoweringSupport` | For which functions the handlers' block order works, and what it promises of their blocks. |
| `LoweringProps` | What else lowering promises of them. |
| `LoweringInv` | The inductive invariants. |
| `LoweringProofs` | Lemmas about the operators of `IRBuilder` and the theorems; where the blocks end up; what has compiled. |
| `WellFormedProofs` | How the blocks of a supported function end. |
| `Declarations` | `Module::codegen`: the elements of a module and the tables. |
| `DeclarationsProps` | What the tables promise. |
| `DeclarationsInv`, `DeclarationsProofs` | The inductive invariants; the theorems about types and about what a lookup finds. |
| `Scopes` | The variables of one function, and `pass::Ctor` over the finished function. |
| `ScopesProps` | What names and objects may be relied on for. |
| `ScopesInv`, `ScopesProofs` | The inductive invariant; the theorems. |
| `Closures`, `ClosuresProps` | Closures, the names in their bodies, calls and partial applications; what they promise. |
| `ClosuresInv`, `ClosuresProofs` | The inductive invariant; the theorems. |
| `Cursor` | The abstract specification of an input: a place in a text, marked and taken back. |
| `MpcInput` | `mpc_input_t` and the pool, as records and the functions on them. Pure operators. |
| `MpcParse` | `mpc_parse_run` and `mpc_parse_input`: the engine on an input. |
| `MpcCursor` | The refinement mapping from the engine to `Cursor`. |
| `MpcMarks` | What marks and failures promise, and what makes it inductive. |
| `MpcErrors`, `MpcValues` | What the error of a parse tells, and who owns the values; what makes it inductive. |
| `MpcParseProps` | What else a grammar may rely on the engine for: what it matches, and that it ends. |
| `MpcCursorProofs`, `MpcMarksProofs`, `MpcValuesProofs` | The refinement; the theorems about marks and failures and about the error; those about the values. Each extends the one before. |
| `MpcAst` | Syntax trees, the folds that make them, the walk over them. Pure operators. |
| `MpcGrammar`, `MpcGrammarProps` | How the parsers of a grammar are built, optimised and destroyed; what they are then. |
| `MCLowering`, `MCDeclarations`, `MCScopes`, `MCClosures`, `MCMpcParse`, `MCMpcGrammar` | Families of small programs, parsers and grammars for TLC. |

`LoweringProps` extends `LoweringSupport`, which extends `Lowering`, which extends
`IRBuilder`; `MpcParse` extends
`MpcInput`, `MpcCursor` instantiates `Cursor`, and `MpcMarks`, `MpcErrors`, `MpcValues` and
`MpcParseProps` extend it in that order; `MpcGrammar` extends `MpcAst`.
The parts are specified apart: what passes between them (a syntax tree, a table
of names) is a constant of the module that receives it.

### Lowering

The C++ is recursive, so the call stack is a variable: `stack` holds a record
for each active call (`act`: build, codegen, exit or apply; `n`: the statement;
`pc`: how far it is; `x`, `y`: its local blocks; `todo`: the rest of a range it
iterates over). A step is what a call does up to the next call it makes; there
is an action for each such stretch of each handler (`BodyStmt`, `BodyEnd`,
`IfStart`, ..., `Apply...`). `blocks` is every block ever created, `layout` the
ones inserted in the function in order, `ip` the insertion point (at the end of
a block or before its last instruction), `held` the members `thenBlock_`,
`elseBlock_` and `deferBlock_`, `deferrals` the list `deferrals_` of each body.
`lowered` is a history variable. `status` tells how `buildFunction` ended:
`done`, `error`, `crash` (a null dereference, `back()` of an empty block, a block
without a function) or `overflow` (the C++ stack is exhausted).

Abstractions. An expression is one instruction or an error (`ok`). A condition
is carried by the conditional branch (`of`). A match alternative is one value;
the default arm is the last kid; a match over data classes, or one whose first
option is the default, lowers to nothing, as the code has it (`nop`). A
typeswitch names the option it selects. Left out: the value a For starts with,
the variables of if-let and their renaming at scope exit, attributes set by
tags, warnings, local alias and struct statements (they are in
`Declarations`). An expression is assumed to ask the current block for its
function, as looking up any name does. A condition lowered again by a defer
is assumed to compile as it did the first time. Members of a match arm that is
lowered again keep their old values. The searches of break and continue are
one step and do not count against the stack.

`Supported` (LoweringSupport) describes the functions for which the handlers'
block order works. It is part of what the model shows: outside it, for
instance with an empty branch, a defer in front of a loop, or a statement after a
return, the same handlers give a function LLVM's verifier rejects, recurse
until the stack is full, or read an empty block. An `if` or a loop in an option of a
typeswitch is outside it too: `TypeSwitch::codegen` ends the option's scope at once, which
takes the builder back into a block of the `if`, and what follows is emitted behind
that block's terminator. `SupportedIsLowered` and
`WellFormed` say that inside it they do not.

### Declarations

The tables are variables: `types` (LLVM's named struct types in creation
order), `structures`, `interfaces`, `classes`, `aliases` (rows of named metadata),
`functions` and `globals` (the symbol table). A type is a basic type or the
place of a struct type in `types`, with one level of pointers. LLVM renames a
struct or function whose name is taken (`Given`); the metadata row keeps the
name that was written. Lookups return the first row of a name, in the order of
the tables `Type::getFromTypeName` asks (`Meaning`).

An element is compiled in one step (`Structure`, `Alias`, `Enumeration`,
`Interface`, `DataClass`, `ExternFunc`, `Function`, `StructFunc`, `StructOp`);
statements of a function are steps of their own (`Let`, `Call`, `Access`, `Cast`,
`Construct`, and the declarations again). Each has its early returns as
disjuncts, with what it leaves in the tables. `Fail` joins an error and ends
the element; `Crash` ends the compiler. `FunctionEnd` is the replacement of a
function whose return type is deduced; `Finish` hands the module on. `Asserts`
says whether the compiler was built with assertions: with them, binding a
member function or casting to an interface ends in `llvm::cast`.

Abstractions. Function signatures are reduced to "a function pointer" and
taken to match; arguments, variadic types, arrays, tags, initial values,
`_` and aliases of void are left out; a name that is reserved is refused where the
code refuses it, for variables (`Reserved`): an alias may take the name of a basic
type and is then never found, as `Type::getFromTypeName` asks for the basic types first; a call has no arguments;
a deduced function is taken to return something; the byte array in a data
class's body is not represented. Enumeration options are globals destroyed at
the end of the statement that makes them; what happens afterwards is
undefined and modelled as a choice between a crash and nothing.

### Scopes

`table` is the function's `ValueSymbolTable`: arguments, named blocks, variables
and addresses of members share it, and LLVM gives a name to the first that asks
(`Named`). `code` is the list of instructions made so far, each with its type
and first operand; `rows` are the names in the function's "new" rows;
`scopes` is the stack of open bodies, ifs and fors, each with the variables its
SCOPE_EXIT will rename, its `deferrals_` and what its statements deferred;
`ctors` are the constructor calls inserted, by the instruction each is behind.

An expression is compiled in two steps, as in the code. `Factor` is what `getFactor`
chooses and its codegen: of a variable that is the alloca itself. `Eval` adds what
`Term` does with it: an alloca is loaded, unless its type is a struct or points to
one. So `let y = x` gives y the value of an int and the address of a struct, `delete x`
of an int is an error, and `new(x) T` casts what x holds. `&x` and the left side of an
assignment are factors and not loaded.

The function is not given in advance: while `status` is "compile" any statement
of the family may come next (`Compile`), or the innermost statement ends
(`Close`). A let takes a step for each name (`LetStart`, `LetPart`, `LetValue`,
`LetEnd`), because each is declared before the next value is compiled. `BodyEnd`
starts the scope exit, `FunctionEnd` the pass, which visits the instructions and
then the rows one at a time (`VisitInstruction`, `VisitRow`). `Fail` includes the
SCOPE_EXITs an error runs on its way out, which die of a variable `_`: it
is in the list of names and has no value. A value past the second of a list
is looked for at a wrong child of its node (`Child`); past the last child any
outcome is possible (`OutOfReach`).

Abstractions. The code is one list, not blocks: which block a deferred
statement is compiled in, and how often, is the subject of `Lowering`, so here
its code goes to the end, once, again or never (`Advance`, `Skip`). An else is a
body; conditions, comparisons and steps of a for only use names. Names LLVM
itself invents (`.tmp.x`, `malloccall`, the copy of a struct a member list is
collected in) and reserved words are left out; members are ints. Uses LLVM
only asserts against (a cast, load or member of something that is no pointer)
are crashes (`Breaks`).

### Closures

`functions` are the functions made so far, the module's first, each with its
symbol table and the row that names the fields of its environment; `building` is
the stack of those under construction: a closure's captures are looked up and
stored before its body is compiled (`Open`) and its value, a trampoline with the
environment bound, is made after it (`Close`). `holds` tells which variables hold a
function, `calls` the calls the last statement emitted. A statement is compiled
by an operator that returns what it comes to (`LetComesTo`, `ClosureComesTo`,
`CallComesTo`): it goes on, or ends in `error`, `crash` or `undefined`. A name is
looked up as `Ident::codegen` does (`Compile`): the function's own table, the row
of its environment, the functions of the module. `meant` is a history variable:
what each name means to a reader of the program, which no step looks at.

Abstractions. All data are of one pointer type, which a bound argument has to
have (function.hpp:108), and the build is one without assertions (with them, every
trampoline ends in `llvm::cast`). Explicit captures are kept by the parser in a
map, so they come in any order. A call that returns a function, and a closure's
variadic arguments, are left out. So is the memory of trampolines in the emitted
program: it is freed before it is called (function.hpp:116), and that this does
no harm rests on `VirtualFree` refusing the arguments it is given (runtime.c:41).

### mpc: input and engine

An input (`MpcInput`) is a record of the text, the parser's place in it
(position, row, column), the character before, the marks with their slots, the
counters of backtracking and suppression, and for a file or pipe the stream's own
position, its end-of-file indicator and the buffer. Its operators are the
functions of `mpc_input_t`, up to the order of `fgetc`, `ungetc` and `fseek`. A
store is the pool's cells and the blocks that came from it or from the heap, each
with its size or the fact that it was freed; `misused` records a block used or freed
after that.

`MpcParse` is `mpc_parse_run`. `prog` is a graph of parsers; `stack` has a record for
each active call with the parser, how many results it has, the results, the
array they were moved to, and, as history, the place it started at; `ret` is what the
last call returned until its caller looks at it; `err` is the error gathered so
far; `furthest` is history. A step is what a call does up to the next call or its
return, so each type of parser has an action that enters it and one for each way
its kid may return.

Abstractions. Characters are few and `/` ends a line. What a value says is left out;
a value is the block it occupies. What an error expects is a set of labels, since each
is kept once (mpc.c:752). Memory of errors is not modelled. The limits of
the source are constants: the size of the result array on the stack
(`StackMin`, 4 in the source, 2 in the runs), the number of pool cells
(`PoolCells`, 512 and 2) and the pointers one has room for (`PoolFits`, 8 and 3), the
initial number of marks (`MarksMin`, 32 and 1); the C stack has room for
`MaxDepth` = 12 calls and the heap for `MaxResults` = 5 results of one repetition,
more than any parser of the runs needs that comes to an end.

`Cursor` says what an input promises: a place that only moves forward, can be marked,
and goes back to the newest mark only; `MpcCursor` maps the engine to it for strings
and files (`IsCursor`). Nothing is promised of a pipe.

### mpc: grammars

A grammar is the sequence of calls that reading it makes: literals, names, places,
repetitions, terms and alternatives, innermost first. `heap` is every parser ever
made, with its type, kids, whether it is retained (named) and whether it still
lives; `values` and `stmts` are what the parser of the grammar language holds;
`parsers` is how much of the argument list was read; `calls` is the recursion of
`mpc_optimise_unretained`, which rewrites one parser per step (`MergeLast`,
`MergeFirst`, `DropNeutral`). `SyntaxError` may happen at any point of the text and runs
the destructors. `Define` copies a parser over a named one; `Undefine` and `Delete`
are `mpc_cleanup`.

Abstractions. The wrappers that give a literal or reference its tag are one node
with it; a regular expression is built and optimised within the rule that it stands
in and is one node afterwards. The grammar language's own text and parser are left
out. `Eval` in the properties tells whether a parser succeeds, what it tries in
which order and the tree it returns, when certain literals and rules succeed;
what is repeated is tried once.

## Runs

| Run | Question | Instance |
|---|---|---|
| `lowering_wide` | Does any function, supported or not, break the layout, end a scope early, forget a block, or keep lowering for ever? | all bodies of up to two statements out of leaves and one level of nesting, and two deeper ones |
| `lowering_sound` | Are supported functions lowered, do jumps belong to the innermost loop, on which paths and how often do deferred statements run, do returns agree with the type and errors surface? | loops around branches, matches, jumps and loops; up to three of statement, defer, early exit, split, nested twice; ill-typed statements in every position under three declared types |
| `lowering_stray`, `lowering_break` | Two diagnostics that are not true (below). | one function each |
| `declarations_types` | What do names mean, what do types hold, what does a failed declaration leave? | all modules of up to 4 elements from a family of 25, assertions on |
| `declarations_uses` | Which modules kill the compiler? | all modules of up to 5 elements from a family of 28, assertions off |
| `declarations_parents` | Does an interface hold what it lists? (No, below.) | interfaces with two parents |
| `scopes_all` | What does a name mean, and until when? What does the pass construct, how often, when does it die? | all functions of up to 4 statements from a family of 39 |
| `scopes_iflet` | Is an object of an if constructed? (No, below.) | up to 3 statements from a family of 5 |
| `closures` | What is each name in a body found to be, what compiles, fails or crashes, do calls reach the parameters? | all programs of up to 3 statements from a family of sixty, closures up to three deep |
| `mpc_parse` | What is matched, given back, freed, and reported? Is the input a cursor? | 843 parsers, every type inside every other, on 18 texts of up to 4 characters, from a string, a file and a pipe |
| `mpc_grammar` | Who owns which parser, do optimised parsers do what the grammar says, is all of it freed? | 843 grammars of none to three rules over three names |

Bounds. `MaxNode` is the size of the largest tree, so nothing is cut off.
`MaxStack = 30` is more than any terminating call chain of these trees needs;
overflow is reached only where the recursion is endless. A module of 4 or 5
elements is enough for a definition, its redefinition, something that refers to
it, and an earlier failure; two names and two members are enough for
shadowing and for a clash, and the name of a basic type is a third. The families contain, for each table, an
element that fills it, one that fails half way, and one that shadows it.
`MaxStatements = 4` in `scopes_all` is enough to declare, rename, declare the name
again and look it up, and to open a scope, declare in it and defer a use;
`MaxCode = 14` lets each deferred statement be compiled several times. Three
statements of `closures` are a variable, a closure that captures it, and a
closure or call in that one's body. The bounds of the engine are scaled down so
that each is crossed: two results fill the array on the stack and three move
them; two values fill the pool; two marks make the list of marks grow and
shrink; texts of four characters let a repetition grow its array twice.

Deadlock is checked in every run: a step that does nothing (`Ended`, `Stopped`) is only
possible when the program has ended, so a stuck handler would be reported.

Fairness. `FairSpec` in `Lowering` and in `MpcGrammar` assumes `WF_vars(Next)` and
nothing else: one thread runs the code, and while it is in a call it goes on.
The liveness properties are `Ends` (lowering ends, or exhausts the stack) and
`Finishes` (building, optimising and freeing a grammar's parsers comes to an end).
That parsing ends is a safety property instead (`StopsUnlessIllFounded`): a parser
that would not come back exhausts the stack or the memory of its results,
or, taking nothing, repeats for ever and fills them.

### What the runs show

* Supported, well-typed functions are lowered to well-formed blocks, unless a
  break or continue comes after another loop or a continue of its loop.
* `lowering_stray`: "could not find a loop to continue with"
  (continuestmt.hpp:33-34) is not said of a continue behind a finished loop,
  which jumps back into that loop.
* `lowering_break`: "could not find a loop to break out of"
  (breakstmt.hpp:33-34) is said of `while c { break; }`.
* `declarations_parents`: an interface with two parents (as in main.w:18) lists
  the functions of both; its struct type has places for the last parent's only.
* `CrashesExplained` is the complete list, within the model, of what kills a
  compiler built without assertions.
* Outside the heads of ifs and fors a variable keeps its name and its place,
  and the names in the heads are taken back exactly (`NamesAreKept`,
  `ScopesAreExact`); so what deferred statements and the pass find later is what
  was meant, unless a row names a variable of a head.
* The pass constructs every object as often as it is meant to, and survives,
  if no variable of "new" is in a head, third in its let or given a number
  (`new(x) int`), and no argument is cast by `new(p) S*` to the type it has, where
  there is no instruction to follow (`ConstructedAsMeant`, which also says that
  nothing else kills it).
* `scopes_iflet`: "we also call ctor over "new" struct allocas" (ctor.hpp:61)
  does not hold in the head of an if or for.
* A name in a closure means the variable it names in the text, however closures
  are nested, except in a closure that declares a variable of a name it captured:
  a default capture in it takes the outer one (closure.hpp:132,
  `NamesMeanTheirVariables`). It stands for the value except where a default
  capture took the address of a local, and from the second use on in a
  closure that captured it (`ValuesUnlessAddressed`).
* A closure that captures nothing crashes the compiler when its body names
  anything that is not its own, even a function (ident.hpp:45-46,
  `CompilesAsMeant`). Of partial applications only one compiles to something
  defined: of a module's function, with one argument at most (`PartialApplications`).
* Parsers match what their combinators say, on strings and files always
  (`RunsAsMeant`); on a pipe, taking back the only mark drops the buffer and with it
  what was read since (mpc.c:336), so that only `mpc_predictive` parsers that look one
  character ahead are safe. What fails has taken nothing, but for COUNT, CHECK and what
  is under `mpc_predictive` (`FailureRestores`: its place is the one it began at; on a pipe, the
  text from there on may be gone). A COUNT of none writes results past the end
  of its array, and a value that does not pass its CHECK is lost.
* The error of a failed parse is about the furthest place where anything was found
  wrong, unless a parser counts none: `mpc_count` of 0 succeeds when its parser fails at once
  (mpc.c:1190), and what that failure said is dropped, where `mpc_many` would gather it.
  A failed parse may then be explained by an earlier place (`ErrorIsFurthest` leaves
  such grammars out; the runs hold one).
* Every value is freed once or returned, and no two live ones are in the same cell of
  the pool (`ValuesOnce`), but for lifted values, which are not the engine's to free.
* The optimiser keeps what a rule matches (`ParsesAsWritten`). It changes the tree
  where a sequence of more than two has fewer than two trees to show
  (`TreesAsWritten`): merged, the fold sees them all at once and adds a root.
* A count of 33, 42, 43 or 63, modulo 256, is taken for an operator (mpc.c:3307);
  a parser asked for by its place is the last one read until then (mpc.c:3361);
  asked for behind the end, it is a null pointer or past the arguments
  (`EndsExplained`). What a rule with an unknown name holds, and what a second rule of a
  name replaces, is never freed (`CleansUp`).
* Modelled but without a property, because nothing says it should be
  otherwise: the number of options an enumeration may have is `2 xor bits`;
  structs and functions may be defined again; local types outlive their scope;
  a variable may not have the name of a block, or of a member used before it.

## Proofs

TLC checks the formulas on the families above. The theorems hold for every
value of the constants that satisfies the named assumptions (`NodeAssumption`,
`ProgramAssumption`, `DeclAssumption`, `StackAssumption`; `ElementAssumption`,
`BoundAssumption`; `NameAssumption`, `TypeAssumption`, `ParamsAssumption`,
`StatementsAssumption`, `SizeAssumption`; `NamesAssumption` and
`StatementsAssumption` of `Closures`; `InputAssumption`, `ParseAssumption`,
`GrammarAssumption`, `FailureAssumption`, `FoldAssumption`): any tree, any set of elements, any function, any parser and
text, any bound. Each inductive invariant was first checked by TLC as an invariant
of the run whose properties it proves.

*Lowering* (`LoweringProofs`). `Invariance` proves `Spec => []IInv`; from it follow
`TypeCorrect`, `EntryFirst` (no jump goes to the entry and nothing displaces it)
and `ScopeExitSafe` (`runScopeExit` runs only on statements whose `codegen` has
returned, so it never reads an unset block member). None of these is
inductive alone: that a scope exit is safe rests on what each call on the
stack knows about the statements below it, so `IInv` says for each frame which
sub-statements have been lowered (`FrameOK`), and counts what the call above it
will have lowered when it returns (`Promised`). The proof separates what every
step has in common (`Grows`: blocks and instructions are added, members are set)
from what each action does to the stack; there is one lemma per action.
Its first part holds the facts about predecessors, insertion and moves.

*Blocks* (`LoweringProofs`, second part). `BlocksPlaced` proves `Spec => []PlacedOnce`: no block is
inserted twice, and none is forgotten by a function that is done. That a block is
inserted once cannot be seen from the layout, as it may be inserted long after it was
made, by another stretch of the call that made it. `Placement` (LoweringInv)
therefore counts claims: `Waits` says which blocks each active call still has to
insert, by its place in the handler, and every block is in the layout once or waits
with exactly one call. A step replaces the running call, so the proof shows of
each action that the blocks the call had waiting, and the new ones, are
inserted or waiting again, once each (`Lists`, `InsertedOnce`, `MovedOnce`).

*What compiles* (`LoweringProofs`, third part). `RightHolds` proves
`Spec => []OnlyRightIsLowered`, for statement trees of any shape: when `buildFunction`
succeeds, every statement it lowered compiles, and all values returned have its type. It
is assumed of a tree that expressions and jumps contain no statements and that a
comment, a defer, a break and a continue have no expression of their own to fail
(`WellFormedNode`). A statement's own expressions are looked at by its `codegen` and the
tags of the bodies in it by its `runScopeExit`, which a match and a typeswitch call from
their `codegen` and all others leave to the statement around them. `Rightness` (LoweringInv)
keeps the account: `Passed` says what has compiled when `codegen` has returned, `Seen` what
a call has seen so far, and `Returning` that a scope exit which returns has seen all of its
statement (`Right`), also when it ends in a last call to another one (`Owes`). That the
statements lowered with one are itself and those lowered with its parts (`CompiledInIs`) needs
no induction: the least sets closed under the parts satisfy the equation, for any tree.

*How blocks end* (`WellFormedProofs`). `EndsHold` proves `Spec => []WellFormed`: every block of
a supported function that is done ends in its only terminator, for statement trees of any
size. While a function is lowered most blocks have no terminator for some time, and which
ones those are depends on every call under way. `Wholeness` (LoweringInv, third part) says
that they are the builder's own block and the ones the active calls will move it to
(`Pending`), each with one call; that the builder's block is open wherever a statement is
about to be lowered, and as the last statement left it where one has been (`Finds`: what
`Leaves` and `EndsFilled` tell from the tree); and that of the blocks of a body that is done
only the last can be open, to which `buildFunction` adds the return (`Blocks`). The latter rests on the
order of the layout, which whiles change: behind the builder's block there are only
the two blocks of the innermost while, which are moved (`Order`). Each of these needs more.
What an active call is about bounds what can be above it on the stack (`Chain`): in an arm of a match
no branch or loop, in a scope exit only the expressions of defers, outside loops no jump.
A defer is lowered in the block it was reached in, or in front of a terminator
(`Remembered`), and a statement's list of defers is empty until it starts (`Starts`). The
proof first shows that what holds of all of a statement holds of its parts, then how each
handler hands on (`WholeCall`, `WholeGoes`, `WholeReturn`), and for each action that its blocks and
its block order are such a step's.

*Declarations* (`DeclarationsProofs`). `TablesInvariance` proves `Spec => []IInv`;
from it follow `TablesTypeCorrect` (every type in a table names a struct that
exists), `NoForwardTypes` (a struct is made of earlier structs or itself) and
`WholeWhenEmitted` (nothing incomplete is handed on). The invariant adds to
these that what an alias stands for has a name, without which the symbol of a
conversion to it would have none; that only an error or a crash leaves a
struct without a body; and that an open function's element is still to be
counted, without which `compiled` could pass its bound. A step is split into how
codegen goes on (`GoOnSettles`, `FailSettles`, `CrashSettles`, `BeginSettles`) and
which table grows (`TablesStay`, `TypesGrow`, `AliasesGrow`); each action combines
one of each. That joining the parents' function lists gives a list of
functions (`FlattenSeqTyped`) is an induction, done by least counterexample from
the well-foundedness of the naturals.

*Lookups* (`DeclarationsProofs`, second part). `LookupsInvariance` proves `Spec => []Lookups`, on top of `IInv`;
from it follow `FieldsFound` (the fields listed under a name are those of the
type under it), `ClassesFound`, `AliasesFound`, `MeaningsKept` (only a struct definition
changes what a name means) and `CrashesHaveCauses` (nothing but the causes
`CrashesExplained` lists kills a compiler without assertions). Several tables
answer for one name, and a lookup takes the first row in each: what keeps them in
step is that every element enters its type and its rows together or fails
(`StructsHaveRows`, `ClassesHaveTypes`, `VariantsOwned`), that LLVM renames a type whose
name is taken (`NamesDiffer`), and that aliases and interfaces ask before they enter
(`AliasNamesDiffer`, `InterfacesAgree`). `Extends` describes what a lookup finds in a
table that has grown; each element is then a growth of some tables.

*Scopes* (`ScopesProofs`). `Invariance` proves `Spec => []IInv`; from it follow `TypesHold`,
`ScopesHold` (ScopesAreExact), `NamesHold` (NamesAreKept) and `ConstructionHolds`
(ConstructedAsMeant). Between two statements the names of heads are exactly the ones
that will be taken back; while the lets of a head are compiled, the names they have
declared so far belong to no open scope (`Pending`), and the invariant says that
those, too, are in the table, kept nowhere and in no other head (`NamesInv`). For
the pass, `RowsMean` says where each row leads as long as lets and rows agree: to an
instruction that is followed by the store of the object meant, and that is itself
no object, so that a call inserted earlier is never mistaken for that store. `Tally`
then counts: the calls made for an instruction are those owed by the instructions
and rows the cursor has passed. What all actions before the pass have in common
is `Compiles` (code only grows, kept names stay, values refer to instructions that
exist); each has a lemma that it `Goes` on so, and `CompilerKeeps` and `PassKeeps` put
the two halves together.

*Closures* (`ClosuresProofs`). `Invariance` proves `Spec => []IInv`, and from it follow all
five properties of `ClosuresProps`, for every set of names, of functions and of
statements, and programs of any length: `NamesMean` (NamesMeanTheirVariables),
`ValuesMean` (ValuesUnlessAddressed), `TextDecides` (CompilesAsMeant), `CallsReach`
(CallsReachParameters) and `ApplicationsMean` (PartialApplications). It is assumed that names are
finitely many, that a function and a variable do not share one, and that statements
are what the grammar lets them be. None of the five is inductive: that a name in a
body means its variable rests on the enclosing function's names having meant
theirs when it was captured, and on the fields being listed in the order of
their names. `Agrees` therefore says of each function under construction what it
knows every name by: a variable of its own by the argument or alloca of that name
(`OwnName`), a captured one by the first field of its name, and by the address of
that field as well once the body used it (`CapturedName`). Only what shadows a
captured name is free, and no closure loses an enclosing function's agreement while its
body is compiled, since that stands still. What the compilation of any sequence of names finds
and comes to follows by least counterexample (`CompileComesTo`); with it the
properties are read off, and each statement is a change of one function's table
that keeps `Agrees` (`DeclarationKeeps`, `CloseKeeps`) or the start of a function that has
it (`PushKeeps`). For calls, `CallablesAgree` says of each value that can be called that
an environment is bound exactly where there is one, and that a bound argument has a
nest parameter to arrive in.

*The input as a cursor* (`MpcCursorProofs`). `InputIsCursor` proves
`Spec => IsCursor`: every behaviour of the engine on a string or a file, with any parser,
is one of `Cursor` under the mapping of `MpcCursor`. The assumptions are that the
newline is a character and neither end marker is, and that a parser's kids are
parsers. Nothing is assumed of what folds, applications and values do.
The mapping alone is not inductive: that a failing AND goes back to *its* mark and
not to another's rests on every call that is under way having made the mark it
will drop. `Inv` therefore adds to `Sound` (row, column, previous character and the
stream's position are those of the place the input is at, and of each mark) that
`backtrack` is one less the predictive calls under way, and that there are as many
marks as calls of AND and NOT under way outside them. The first part shows
what each function of the input does to a sound one (`Reads`, `Moves`, `Looks`), the words
of `mpc_input_string` by least counterexample; the second takes each
action to one cursor step or none, with one lemma per group of parsers (`LeafSteps`,
`EnterSteps`, `UnarySteps`, `SeveralSteps`).

*Marks and failures* (`MpcMarksProofs`), for strings, files and pipes alike. `MarksHold`
proves `Spec => []MarksBelong`: the marks are those of the calls of AND and NOT that
have called and are not under a predict, in order, each at the place its call began.
`FailuresHold` proves `Spec => FailureRestores`, for grammars without COUNT, CHECK and
predict. Both follow from `MarksInv`: what the input holds is `Owned` by the calls under
way, so that the newest mark is the top call's own when it drops it (`NewestMark`); a call
that has made none stands at its start (`StandsAtStart`); and a call that hands on
the failure of another was called where that one began (`FailuresReturn`), so that the
failure of the inner is at the start of the outer one. `Owned` goes up by what a call
`Asks` for and down by what it `GivesBack`; each action is one or the other, calls on
unchanged, or ends the run.

*The error* (`MpcMarksProofs`, second part). `ErrorHolds` proves `Spec => []ErrorIsFurthest`, for
grammars that count no none. It is assumed that a count's number is an integer and
that the texts of failures are not the mark for "no failure" (`FailureAssumption`). The error
that is shown is merged from the errors of alternatives, of ended repetitions and of the
last failure, each dropped or handed on by another action. `ErrInv` therefore adds to
`MarksInv` that the furthest place is always held by one of two: the error gathered, or
that of the failure just returned (`ErrorsGathered`); that both say what the text has
where they are about (`ErrorSound`, which no character taken or given back disturbs,
since the text stays); that under suppression no error is returned, which rests on the
counters of `MarksInv`; and that a count under way has not reached its number (`CountsOn`),
so that it cannot succeed with a failure in hand. One lemma for each group of actions
shows that it `Gathers`.

*Values* (`MpcValuesProofs`). `ValuesHold` proves `Spec => []ValuesOnce`, for grammars
without a lifted value, at every size of the pool, of the array on the stack and of the room
in a cell; `SmashHolds` that such a parse writes past that array only where a parser counts
none (the second half of `StopsUnlessIllFounded`). It is assumed that a parser's fold is one
of those modelled, and that what may gather no value is not folded to its first
(`FoldAssumption`; `mpcf_fst` of no values reads a value that is not there). `ValInv` adds to
`ErrInv` an account of the store: each cell is used by the block that is in it and no other
(`StoreSound`); each live block is held by one call, once, or is what was returned last
(`Accounted`, `Tidy`); unless a CHECK dropped one, every live block is (`NoneLost`); and a call
has as many results as it has counted, in an array once they are too many for the stack
(`CallsOrderly`), so that what it frees, folds or hands on is what it holds. What
`FreeAll`, `ExportAll` and the folds do to a store is shown by least counterexample over the
results (`EachTakes`, `FoldGives`); a step then returns to a caller, calls on, or stops with what is
held changed accordingly (`ReturnAccounts`, `CallAccounts`, `StopAccounts`).

Only model-checked: of `Lowering`, `SupportedIsLowered`,
`JumpsBelongInside`, `DefersRunOnce`; the properties of `MpcGrammar`; and
of `MpcParse`, `RunsAsMeant` and that parses come to an end (`StopsUnlessIllFounded`).
Liveness (`Ends`, `Finishes`) stays with TLC: the prover does not handle fairness.
`LoweringProps`, `MpcParseProps` and `MpcGrammarProps` use recursive operators over trees,
so their properties cannot be stated in a module with theorems; the properties
proved are in modules without.

## Plan

1. Done: statement lowering, declarations, their invariants and theorems; let
   scoping and the constructor pass, with theirs; mpc's input, engine, grammars
   and trees; closures, with theirs; of the engine, proofs of the refinement of the
   input to a cursor, of marks, failures, errors and values.
2. Next, proofs: `OwnedOnce` of `MpcGrammar`, which needs a definition of what the parsers
   under a parser are without recursion.

## Not modelled

* Overloaded operators: an operator is registered as `struct::S::operator +`, and
  four of the places that look one up leave out the blank (structop.hpp:40). A model
  would have to assume that blank to show it; the lookups themselves are those
  of `Declarations`.
* The memory of trampolines in the emitted program (see *Closures*), and
  `mpc_mem_ptr`'s comparison with the end of the pool (mpc.c:232), which matters only
  where the heap begins right behind the pool.
* mpc's ready-made parsers (numbers, strings, expressions), which `whack.grammar`
  does not use; its printing; and the memory of errors.
* Expressions: each of them compiles to instructions or to an error; which
  operation on which types is a table over LLVM's types. Initializer lists and
  list comprehensions are parts of expressions and have no state of their own.
* Passes but for `pass::Ctor`, verification, JIT and object emission (calls into LLVM);
  literals (conversions of the standard library); send, receive, select, yield
  and streams (stubs); module uses and exports (parsed and stored only).
