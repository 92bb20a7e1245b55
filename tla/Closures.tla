------------------------------- MODULE Closures -------------------------------
(***************************************************************************)
(* Closures (closure.hpp), the names in their bodies (ident.hpp) and calls *)
(* and partial applications of what they yield (funccall.hpp).             *)
(*                                                                         *)
(* A closure becomes a function "::closure" of the module.  What it        *)
(* captures is copied into an environment, a struct whose fields are named *)
(* by a row of metadata.  The function takes the environment as a first    *)
(* parameter, marked nest, and its value is a trampoline that supplies it. *)
(* A name in the body is looked up in the function's own symbol table,     *)
(* then in the row of its environment, then among the module's functions.  *)
(* Partial application makes a trampoline that supplies an argument.       *)
(*                                                                         *)
(* The functions under construction are a stack: the body of a closure is  *)
(* compiled between its captures (Open) and its value (Close).  Programs   *)
(* are chosen statement by statement.  Beside each function under          *)
(* construction the model keeps what the names in it mean to a reader of   *)
(* the program (meant): no step of the compiler looks at that.             *)
(*                                                                         *)
(* All data are of one pointer type, as a bound argument must be           *)
(* (function.hpp, line 108), and the build is one without assertions.      *)
(***************************************************************************)
EXTENDS Naturals, Sequences, FiniteSets, SequencesExt

CONSTANTS
  Names,         \* identifiers of variables
  Functions,     \* the module's functions: from names to their types
  Statements,    \* the statements a program may be made of
  MaxStatements  \* how many of them it has at most

VARIABLES
  functions,  \* the functions made so far, those of the module first
  building,   \* which of them are under construction, the innermost last
  holds,      \* the variables whose value is a function, and that value
  calls,      \* the calls of the last statement
  outcome,    \* how compilation stands
  statements, \* how many statements were compiled
  meant       \* for each function under construction, what its names mean

vars == <<functions, building, holds, calls, outcome, statements, meant>>
code == <<functions, building, holds, calls>>

------------------------------------------------------------------------------
(* The source: let n = e, where e is a name or a literal; a closure with   *)
(* its default capture, its explicit ones, which give names to values, and *)
(* its parameters; and a call f -> g (a, b, ...), whose result n is given. *)

Datum == "datum"
Discard == "_"

(* A table where x stands for v.                                           *)
Binding(table, x, v) ==
  [y \in DOMAIN table \cup {x} |-> IF y = x THEN v ELSE table[y]]

Expressions == Names \cup DOMAIN Functions \cup {Datum}
Targets == Names \cup {Discard}

LetStmt(n, e) == [kind |-> "let", name |-> n, value |-> e]
ClosureStmt(default, captures, params) ==
  [kind |-> "closure", default |-> default, captures |-> captures, params |-> params]
CallStmt(callees, arguments, more, n) ==
  [kind |-> "call", callees |-> callees, arguments |-> arguments, more |-> more,
   name |-> n]
StatementsOf(kind) == {s \in Statements : s.kind = kind}

ASSUME NamesAssumption ==
  /\ IsFiniteSet(Names) /\ IsFiniteSet(DOMAIN Functions)
  /\ Names \cap DOMAIN Functions = {}
  /\ {Datum, Discard} \cap (Names \cup DOMAIN Functions) = {}
  /\ \A f \in DOMAIN Functions :
       Functions[f] \in [params : Nat, variadic : BOOLEAN]

ASSUME StatementsAssumption ==
  /\ \A s \in StatementsOf("let") : s.name \in Targets /\ s.value \in Expressions
  /\ \A s \in StatementsOf("closure") :
       /\ s.default \in {"none", "value", "reference"}
       /\ DOMAIN s.captures \subseteq Names /\ s.params \subseteq Names
       /\ s.captures \in [DOMAIN s.captures -> Expressions]
  /\ \A s \in StatementsOf("call") :
       /\ s.callees \in Seq(Expressions) /\ Len(s.callees) \in {1, 2}
       /\ s.arguments \in Seq(Expressions)
       /\ s.more \in BOOLEAN /\ s.name \in Targets

------------------------------------------------------------------------------
(* Values. *)

Module == SetToSeq(DOMAIN Functions)
Main == Len(Module) + 1

(* A variable: the function it belongs to (0: none) and its name.          *)
Variable(f, n) == [in |-> f, name |-> n]

(* An LLVM value: the instruction that gives it, and how many pointers     *)
(* more than the type of the variable "of" its type has.                   *)
Instructions == {"arg", "alloca", "gep", "load", "function", "constant", "bitcast"}
Value(i, levels, var) == [inst |-> i, levels |-> levels, of |-> var]
Constant == Value("constant", 0, Variable(0, Datum))

(* A function as a value, and how many of its parameters are supplied.     *)
Callable(f, bound) == [function |-> f, bound |-> bound]

LoadedFrom(v, insts) ==
  IF v.inst \in insts THEN [v EXCEPT !.inst = "load", !.levels = @ - 1] ELSE v
(* Term::codegen without an operator *)
Term(v) == LoadedFrom(v, {"alloca"})
(* FuncCall::getArgs *)
Argument(v) == LoadedFrom(Term(v), {"gep"})

HoldsFunction(v) == v.levels = 0 /\ v.of \in DOMAIN holds
IsDatum(v) == v.levels = 0 /\ v.of \notin DOMAIN holds

------------------------------------------------------------------------------
(* Names. *)

Top == Last(building)
Own == functions[Top]
Reading == Last(meant)

HasEnv(f) == f.names # <<>>
FieldOf(f, n) == SelectInSeq(f.names, LAMBDA m : m = n)

(* What a name means: the variable, and "let" if it is one of the same     *)
(* function, "value" for a parameter of it or a copy, "address" for a copy *)
(* of the address, and "shadow" if a closure on the way had a variable of  *)
(* its own of a name it had captured.                                      *)
Meaning(n) ==
  IF n \in DOMAIN Reading.scope THEN Reading.scope[n]
  ELSE [of |-> Variable(0, n),
        how |-> IF n \in DOMAIN Functions \cup {Datum} THEN "value" ELSE "nothing"]

(* A lookup; "again" if it is of a captured name used before in this body. *)
Repeated(c, n) ==
  /\ n \in Reading.captured /\ Meaning(n).of.in # Top
  /\ n \in Reading.used \/ \E i \in DOMAIN c.found : c.found[i].name = n
Lookup(c, n, v) ==
  [name |-> n, got |-> v, meaning |-> Meaning(n), again |-> Repeated(c, n)]

(* Ident::codegen, as a step of the compilation "c" of an expression: the  *)
(* symbol table, the values found so far, and what went wrong.             *)
Ident(c, n) ==
  LET field == FieldOf(Own, n)
      slot == Value("gep", Own.fields[field].levels + 1, Own.fields[field].of)
      found(v) == [c EXCEPT !.found = Append(@, Lookup(c, n, v))]
  IN  IF c.failed # "no" THEN c
      ELSE IF n = Datum THEN found(Constant)
      ELSE IF n \in DOMAIN c.table THEN found(c.table[n])
      ELSE IF Own.closure /\ ~HasEnv(Own) THEN [c EXCEPT !.failed = "crash"]
      ELSE IF Own.closure /\ field # 0
        THEN [found(LoadedFrom(slot, {"gep"})) EXCEPT !.table = Binding(@, n, slot)]
      ELSE IF n \in DOMAIN Functions THEN found(Value("function", 0, Variable(0, n)))
      ELSE [c EXCEPT !.failed = "error"]

(* Names are compiled one after the other, as long as none fails; those at *)
(* the positions "taken" are errors before that.                           *)
CompileUnless(taken, names) ==
  LET c[i \in 0 .. Len(names)] ==
        IF i = 0 THEN [table |-> Own.table, found |-> <<>>, failed |-> "no"]
        ELSE IF c[i - 1].failed = "no" /\ i \in taken
          THEN [c[i - 1] EXCEPT !.failed = "error"]
        ELSE Ident(c[i - 1], names[i])
  IN  c[Len(names)]
Compile(names) == CompileUnless({}, names)
Found(c) == [i \in DOMAIN c.found |-> c.found[i].got]

(* The names used in the function when a statement has compiled.           *)
Used(c) == Reading.used \cup {c.found[i].name : i \in DOMAIN c.found}

Stop(how) ==
  /\ outcome' = how
  /\ UNCHANGED <<code, meant>>

------------------------------------------------------------------------------
(* The end of LetExpr: a new variable for a value, unless it is discarded. *)
(* "function" says which function the value is, if it is one.              *)
CanDeclare(c, n) == n = Discard \/ n \notin DOMAIN c.table

Declared(c, n) ==
  IF n = Discard THEN c.table
  ELSE Binding(c.table, n, Value("alloca", 1, Variable(Top, n)))

Reads(c, n) ==
  [Reading EXCEPT !.used = Used(c),
     !.scope = IF n = Discard THEN Reading.scope
               ELSE Binding(Reading.scope, n, [of |-> Variable(Top, n), how |-> "let"])]

Keep(c, n, function) ==
  /\ holds' = IF n = Discard \/ function = {} THEN holds
              ELSE Binding(holds, Variable(Top, n), CHOOSE f \in function : TRUE)
  /\ meant' = [meant EXCEPT ![Len(meant)] = Reads(c, n)]

FunctionIn(v) == IF HoldsFunction(v) THEN {holds[v.of]} ELSE {}

(* LetExpr::codegen: let n = e.                                            *)
LetComesTo(c, n) ==
  IF c.failed # "no" THEN c.failed
  ELSE IF CanDeclare(c, n) THEN "compiling" ELSE "error"

Let(n, e) ==
  LET c == Compile(<<e>>)
  IN  IF LetComesTo(c, n) # "compiling" THEN Stop(LetComesTo(c, n))
      ELSE /\ functions' = [functions EXCEPT ![Top].table = Declared(c, n)]
           /\ Keep(c, n, FunctionIn(Term(Found(c)[1])))
           /\ calls' = {}
           /\ UNCHANGED <<building, outcome>>

------------------------------------------------------------------------------
(* Closure::codegen up to the body.  A default capture takes the fields of *)
(* the enclosing closure's environment, loaded, and then every named value *)
(* of the enclosing function: of a variable of its own, the address.       *)

Sized == SetToSeq(DOMAIN Own.table)

InheritedNames == IF Own.closure /\ HasEnv(Own) THEN Own.names ELSE <<>>
InheritedFields ==
  [i \in DOMAIN InheritedNames |->
     Value("load", Own.fields[i].levels, Own.fields[i].of)]

(* Mutant: what an enclosing closure captured comes last.                  *)
OwnNamesFirst(default) == IF default = "value" THEN Sized \o InheritedNames ELSE <<>>

DefaultNames(default) == IF default = "value" THEN InheritedNames \o Sized ELSE <<>>
DefaultFields(default) ==
  IF default = "value"
    THEN InheritedFields \o [i \in DOMAIN Sized |-> Own.table[Sized[i]]]
    ELSE <<>>

(* Mutant: a name may be captured twice.                                   *)
NeverTaken(default, n) == FALSE

(* The explicit captures, name = value, in the order of a hash table: a    *)
(* name that is taken is an error before its value is compiled.            *)
Taken(default, n) == Contains(DefaultNames(default), n)
Explicit(default, names, values) ==
  CompileUnless({i \in DOMAIN names : Taken(default, names[i])},
                [i \in DOMAIN names |-> values[names[i]]])
(* Mutant: an explicit capture is not loaded.                              *)
UnloadedFields(c) == [i \in DOMAIN c.found |-> c.found[i].got]

ExplicitFields(c) == [i \in DOMAIN c.found |-> Term(c.found[i].got)]

(* What a reader takes the names of the body to mean.                      *)
CapturedAs(n) ==
  LET m == Meaning(n)
      own == m.of.in = Top
  IN  CASE own /\ n \in Reading.captured -> [m EXCEPT !.how = "shadow"]
        [] own /\ n \notin Reading.captured /\ m.how = "let" -> [m EXCEPT !.how = "address"]
        [] OTHER -> m
Named(found) ==
  LET m == found.meaning
  IN  CASE m.how = "let" -> [m EXCEPT !.how = "value"]
        [] m.how = "value" /\ found.again -> [m EXCEPT !.how = "address"]
        [] OTHER -> m
Captures(c, default, names) ==
  LET inSight == IF default = "value" THEN DOMAIN Reading.scope ELSE {}
      from(n) == c.found[CHOOSE i \in DOMAIN names : names[i] = n]
  IN  [n \in inSight \cup ToSet(names) |->
         IF n \in inSight THEN CapturedAs(n) ELSE Named(from(n))]

ClosureComesTo(default, names, values, params) ==
  LET c == Explicit(default, names, values)
  IN  IF default = "reference" THEN "error"
      ELSE IF c.failed # "no" THEN c.failed
      ELSE IF params \cap ToSet(DefaultNames(default) \o names) # {} THEN "error"
      ELSE "compiling"

Open(default, names, values, params) ==
  LET c == Explicit(default, names, values)
      fieldNames == DefaultNames(default) \o names
      this == Len(functions) + 1
      closure ==
        [closure |-> TRUE, params |-> Cardinality(params), variadic |-> FALSE,
         nest |-> FALSE, names |-> fieldNames,
         fields |-> DefaultFields(default) \o ExplicitFields(c),
         table |-> [p \in params |-> Value("arg", 0, Variable(this, p))]]
      captures == Captures(c, default, names)
      comesTo == ClosureComesTo(default, names, values, params)
  IN  IF comesTo # "compiling" THEN Stop(comesTo)
      ELSE /\ functions' =
                Append([functions EXCEPT ![Top].table = c.table],
                       IF HasEnv(closure)
                         THEN [closure EXCEPT !.params = @ + 1, !.nest = TRUE]
                         ELSE closure)
           /\ building' = Append(building, this)
           /\ meant' = Append([meant EXCEPT ![Len(meant)].used = Used(c)],
                [scope |-> [n \in params \cup DOMAIN captures |->
                   IF n \in params THEN [of |-> Variable(this, n), how |-> "value"]
                   ELSE captures[n]],
                 captured |-> DOMAIN captures, used |-> {}])
           /\ calls' = {}
           /\ UNCHANGED <<holds, outcome>>

------------------------------------------------------------------------------
(* Closure::codegen from the body on: the closure's value is the function, *)
(* or a trampoline for it if it has an environment.  The enclosing         *)
(* function lets the name n have it.  Its own end ends compilation.        *)

FinishModule == Len(building) = 1 /\ Stop("done")

BoundParameters(f) == IF HasEnv(functions[f]) THEN 1 ELSE 0

Close(n) ==
  LET enclosing == building[Len(building) - 1]
      table == functions[enclosing].table
      outer == Variable(enclosing, n)
  IN  /\ Len(building) > 1
      /\ IF n \in DOMAIN table THEN Stop("error")
         ELSE /\ building' = Front(building)
              /\ functions' = IF n = Discard THEN functions
                   ELSE [functions EXCEPT ![enclosing].table =
                           Binding(@, n, Value("alloca", 1, outer))]
              /\ holds' = IF n = Discard THEN holds
                   ELSE Binding(holds, outer, Callable(Top, BoundParameters(Top)))
              /\ meant' = IF n = Discard THEN Front(meant)
                   ELSE [Front(meant) EXCEPT ![Len(meant) - 1].scope =
                           Binding(@, n, [of |-> outer, how |-> "let"])]
              /\ calls' = {}
              /\ UNCHANGED outcome

------------------------------------------------------------------------------
(* FuncCall::call: let n = f -> g (a, b, ...).  The functions are compiled *)
(* first, then the arguments; a last argument "..." asks for a partial     *)
(* application of f, and g is called with what the call of f gave.         *)

(* A value a call is to be made to, and what it takes.                     *)
Callee(v) == holds[v.of]
(* Mutant: a trampoline keeps the type of the function it leads to.        *)
AllParams(v) == functions[Callee(v).function].params

ParamsLeft(v) == functions[Callee(v).function].params - Callee(v).bound
IsVariadic(v) == functions[Callee(v).function].variadic

(* FuncCall::checkTransformArgs, for n arguments and those among them that *)
(* are not "...".                                                          *)
Accepts(v, n, arguments) ==
  /\ HoldsFunction(v)
  /\ IsVariadic(v) \/ (ParamsLeft(v) = n /\ \A a \in ToSet(arguments) : IsDatum(a))

CallTo(v, n) ==
  [function |-> Callee(v).function, bound |-> Callee(v).bound, given |-> n]

(* The function is read as an llvm::Function before anything is bound, and *)
(* again after the first argument was.                                     *)
(* Mutant: any number of arguments can be bound.                           *)
BindsAll(v, n) == v.inst = "function"

PartiallyApplicable(v, n) == v.inst = "function" /\ n <= 1
ApplyFails(v, n) == v.inst = "function" /\ ParamsLeft(v) <= n

(* CallInst::init: a call needs an argument for each parameter.            *)
Malformed(v, n) == n < ParamsLeft(v)

Apply(v, n) == Callable(Callee(v).function, Callee(v).bound + n)

CallComesTo(callees, arguments, more, n) ==
  LET c == Compile(callees \o arguments)
      found == Found(c)
      given == Len(arguments)
      f == Term(found[1])
      g == Term(found[Len(callees)])
      args == [i \in 1 .. given |-> Argument(found[Len(callees) + i])]
      piped == Len(callees) = 2
      size == IF more THEN given + 1 ELSE given
  IN  IF c.failed # "no" THEN c.failed
      ELSE IF ~Accepts(f, size, args) THEN "error"
      ELSE IF more /\ ApplyFails(f, given) THEN "error"
      ELSE IF more /\ ~PartiallyApplicable(f, given) THEN "undefined"
      ELSE IF ~more /\ Malformed(f, given) THEN "undefined"
      ELSE IF piped /\ (~Accepts(g, 1, <<>>) \/ (more /\ ~IsVariadic(g))) THEN "error"
      ELSE IF piped /\ Malformed(g, 1) THEN "undefined"
      ELSE IF CanDeclare(c, n) THEN "compiling" ELSE "error"

Call(callees, arguments, more, n) ==
  LET c == Compile(callees \o arguments)
      given == Len(arguments)
      f == Term(Found(c)[1])
      g == Term(Found(c)[Len(callees)])
      piped == Len(callees) = 2
      comesTo == CallComesTo(callees, arguments, more, n)
  IN  IF comesTo # "compiling" THEN Stop(comesTo)
      ELSE /\ functions' =
                LET declared == [functions EXCEPT ![Top].table = Declared(c, n)]
                IN  IF more /\ given = 1
                      THEN [declared EXCEPT ![Callee(f).function].nest = TRUE]
                      ELSE declared
           /\ calls' = (IF more THEN {} ELSE {CallTo(f, given)})
                     \cup (IF piped THEN {CallTo(g, 1)} ELSE {})
           /\ Keep(c, n, IF more /\ ~piped THEN {Apply(f, given)} ELSE {})
           /\ UNCHANGED <<building, outcome>>

------------------------------------------------------------------------------
Init ==
  \E params \in SUBSET Names :
    /\ functions =
         [f \in 1 .. Main |->
            IF f = Main
              THEN [closure |-> FALSE, params |-> Cardinality(params), variadic |-> FALSE,
                    nest |-> FALSE, names |-> <<>>, fields |-> <<>>,
                    table |-> [p \in params |-> Value("arg", 0, Variable(Main, p))]]
              ELSE [closure |-> FALSE, params |-> Functions[Module[f]].params,
                    variadic |-> Functions[Module[f]].variadic, nest |-> FALSE,
                    names |-> <<>>, fields |-> <<>>, table |-> <<>>]]
    /\ building = <<Main>>
    /\ holds = [v \in {Variable(0, f) : f \in DOMAIN Functions} |->
                  Callable(CHOOSE i \in DOMAIN Module : Module[i] = v.name, 0)]
    /\ meant = <<[scope |-> [p \in params |->
                    [of |-> Variable(Main, p), how |-> "value"]],
                  captured |-> {}, used |-> {}]>>
    /\ calls = {}
    /\ outcome = "compiling"
    /\ statements = 0

Statement ==
  /\ statements < MaxStatements
  /\ statements' = statements + 1
  /\ \/ \E s \in StatementsOf("let") : Let(s.name, s.value)
     \/ \E s \in StatementsOf("closure") :
          \E names \in SetToSeqs(DOMAIN s.captures) :
            Open(s.default, names, s.captures, s.params)
     \/ \E s \in StatementsOf("call") : Call(s.callees, s.arguments, s.more, s.name)

End ==
  /\ UNCHANGED statements
  /\ (\E n \in Targets : Close(n)) \/ FinishModule

Ended == outcome # "compiling" /\ UNCHANGED vars

Next == (outcome = "compiling" /\ (Statement \/ End)) \/ Ended
Spec == Init /\ [][Next]_vars
==============================================================================
