----------------------------- MODULE Declarations -----------------------------
(***************************************************************************)
(* Module::codegen (module.hpp): the elements of a whack module are        *)
(* compiled one after the other, in source order, into one llvm::Module.   *)
(* What an element declares goes into tables that later elements look      *)
(* names up in: LLVM's named struct types, its symbol table, and the named *)
(* metadata "structures", "interfaces", "classes" and "aliases".           *)
(*                                                                         *)
(* An element is compiled in one step, except a function, whose statements *)
(* are steps of their own: statements declare types and aliases too.  An   *)
(* element that fails leaves behind what it had already entered; its error *)
(* is kept and the next element is compiled.                               *)
(***************************************************************************)
EXTENDS Integers, Sequences, SequencesExt

CONSTANTS
  Name,         \* identifiers of types, functions and variables
  Member,       \* identifiers of fields, struct functions, options and ctors
  Elements,     \* the elements a module may be made of
  MaxElements,  \* how many of them a module has at most
  Asserts       \* TRUE: the compiler was built with its assertions

------------------------------------------------------------------------------
(* The source. *)

Basic == {"bool", "char", "int", "double", "auto"}

(* A type as it is written: a name or a pointer to it.                     *)
TypeExpr == [name : Name \cup Basic, ptr : BOOLEAN]

AliasDecl == [kind : {"alias"}, names : Seq(Name), types : Seq(TypeExpr)]
StructDecl ==
  {d \in [kind : {"structure"}, name : Name, fields : Seq(Member),
          types : Seq(TypeExpr)] : Len(d.fields) = Len(d.types)}
EnumDecl ==
  {d \in [kind : {"enumeration"}, name : Name, under : Name \cup Basic,
          options : Seq(Member)] : d.options # <<>>}

Statement ==
  AliasDecl \cup StructDecl \cup EnumDecl
  \cup [kind : {"let"}, name : Name, type : TypeExpr]
  \cup [kind : {"access"}, var : Name \cup {"this"}, member : Member]
  \cup [kind : {"call"}, name : Name]
  \cup [kind : {"cast"}, var : Name \cup {"this"}, to : TypeExpr]
  \cup [kind : {"construct"}, class : Name, ctor : Member]

CtorDecl == [name : Member, types : Seq(TypeExpr)]
ClassDecl ==
  {d \in [kind : {"dataclass"}, name : Name, ctors : Seq(CtorDecl)] :
     d.ctors # <<>>}
InterfaceDecl ==
  {d \in [kind : {"interface"}, name : Name, parents : Seq(Name),
          funcs : Seq(Member), types : Seq(TypeExpr)] :
     d.funcs # <<>> /\ Len(d.funcs) = Len(d.types)}
ExternDecl == [kind : {"externfunc"}, name : Name, types : Seq(TypeExpr)]
FuncDecl ==
  [kind : {"function"}, name : Name, types : Seq(TypeExpr),
   deduced : BOOLEAN, body : Seq(Statement)]
(* A function or an overloaded operator of a struct, and an operator that  *)
(* converts it to a type.  default: "= default" in place of a body.        *)
MethodDecl ==
  [kind : {"structfunc"}, of : Name, func : Member, types : Seq(TypeExpr),
   deduced : BOOLEAN, default : BOOLEAN, body : Seq(Statement)]
ConversionDecl ==
  [kind : {"conversion"}, of : Name, to : TypeExpr, types : Seq(TypeExpr),
   deduced : BOOLEAN, default : BOOLEAN, body : Seq(Statement)]

Element ==
  AliasDecl \cup StructDecl \cup EnumDecl \cup ClassDecl \cup InterfaceDecl
  \cup ExternDecl \cup FuncDecl \cup MethodDecl \cup ConversionDecl

ASSUME ElementAssumption == Elements \subseteq Element
ASSUME BoundAssumption == MaxElements \in Nat
ASSUME AssertsAssumption == Asserts \in BOOLEAN

------------------------------------------------------------------------------
VARIABLES
  types,       \* LLVM's named struct types, in creation order
  structures,  \* the rows of the named metadata
  interfaces,
  classes,
  aliases,
  functions,   \* the module's symbols: its functions
  globals,     \* and the options of its enumerations
  inside,      \* the function whose body is being compiled (0: none)
  body,        \* the statements of it still to come
  locals,      \* its variables
  compiled,    \* how many elements are done
  errors,      \* the errors joined so far
  status       \* "compiling", or how codegen ended

tables == <<types, structures, interfaces, classes, aliases>>
symbols == <<functions, globals>>
running == <<inside, body, locals>>
vars == <<tables, symbols, running, compiled, errors, status>>

(* Struct types share one name space: "A", "interface::A", "class::A",     *)
(* "class::A::m".  LLVM renames a newcomer whose name is taken.            *)
StructName == {"struct", "interface", "class"} \X Name
VariantName == {"variant"} \X Name \X Member
Renamed == <<"renamed">>

(* A type: basic, or a struct type given by its place in "types".          *)
TypeIn(n) ==
  {t \in [base : Basic \cup {"struct", "func"}, at : 0..n, ptr : BOOLEAN] :
     t.base = "struct" => t.at # 0}
Plain(b) == [base |-> b, at |-> 0, ptr |-> FALSE]
StructAt(i) == [base |-> "struct", at |-> i, ptr |-> FALSE]
PointerTo(t) == [t EXCEPT !.ptr = TRUE]
FuncPtr == [base |-> "func", at |-> 0, ptr |-> TRUE]

(* whole: the struct has its body.                                         *)
StructType(n) ==
  [name : StructName \cup VariantName \cup {Renamed}, whole : BOOLEAN,
   body : Seq(TypeIn(n))]

(* The symbols of functions: "m", "struct::A::m", "struct::A::operator T". *)
FuncName ==
  {"free"} \X Name \cup {"struct"} \X Name \X Member
  \cup {"operator"} \X Name \X (Name \cup Basic) \X BOOLEAN \cup {Renamed}

Diagnostics == {"type", "exists", "count", "integral", "size", "function",
                "parent", "struct", "default", "variable", "call", "member",
                "implement", "cast", "class"}
Statuses == {"compiling", "done", "failed", "crash"}

FieldsRow == [name : StructName, fields : Seq(Member)]
InterfaceRow == [name : Name, funcs : Seq(Member)]
CtorsRow == [name : Name, ctors : Seq(Member)]
AliasRow(n) == [name : Name, type : TypeIn(n)]
Symbol == [name : FuncName, deduced : BOOLEAN, used : BOOLEAN]
Option == [name : Name \X Member, value : Nat]
Variable(n) == [name : Name \cup {"this"}, type : TypeIn(n)]

TypeOK ==
  /\ types \in Seq(StructType(Len(types)))
  /\ structures \in Seq(FieldsRow)
  /\ interfaces \in Seq(InterfaceRow)
  /\ classes \in Seq(CtorsRow)
  /\ aliases \in Seq(AliasRow(Len(types)))
  /\ functions \in Seq(Symbol)
  /\ globals \in Seq(Option)
  /\ inside \in 0..Len(functions)
  /\ body \in Seq(Statement)
  /\ locals \in Seq(Variable(Len(types)))
  /\ compiled \in 0..MaxElements
  /\ errors \in Seq(Diagnostics)
  /\ status \in Statuses

------------------------------------------------------------------------------
(* Lookups: the first row of a table with a name.                          *)

Taken(table, n) == \E i \in DOMAIN table : table[i].name = n
First(table, n) ==
  CHOOSE i \in DOMAIN table :
    table[i].name = n /\ \A j \in DOMAIN table : j < i => table[j].name # n
Row(table, n) == table[First(table, n)]

(* The name a new struct type or function gets.                            *)
Given(table, n) == IF Taken(table, n) THEN Renamed ELSE n

(* Type::getFromTypeName: what a type name stands for; the set is empty    *)
(* when it stands for nothing.  Data classes are not found by their name.  *)
Meaning(ts, n) ==
  IF n \in Basic THEN {Plain(n)}
  ELSE IF Taken(ts, <<"struct", n>>) THEN {StructAt(First(ts, <<"struct", n>>))}
  ELSE IF Taken(ts, <<"interface", n>>)
       THEN {StructAt(First(ts, <<"interface", n>>))}
  ELSE {Row(aliases, n).type : i \in {j \in {1} : Taken(aliases, n)}}

Resolve(ts, e) == {IF e.ptr THEN PointerTo(t) ELSE t : t \in Meaning(ts, e.name)}
Resolves(ts, es) == \A i \in DOMAIN es : Resolve(ts, es[i]) # {}
Resolved(ts, es) ==
  [i \in 1..Len(es) |-> CHOOSE t \in Resolve(ts, es[i]) : TRUE]

(* Mutants: aliases, or interfaces, are forgotten.                         *)
UniqueButAliases(n) ==
  /\ ~Taken(functions, <<"free", n>>)
  /\ ~Taken(structures, <<"struct", n>>)
  /\ ~Taken(interfaces, n) /\ ~Taken(classes, n)
UniqueButInterfaces(n) ==
  /\ ~Taken(functions, <<"free", n>>)
  /\ ~Taken(structures, <<"struct", n>>)
  /\ ~Taken(classes, n) /\ ~Taken(aliases, n)

(* Ident::isUnique(module, ...): it does not ask for reserved words, so    *)
(* what codegen declares in a module may have the name of a basic type.    *)
IsUnique(n) ==
  /\ ~Taken(functions, <<"free", n>>)
  /\ ~Taken(structures, <<"struct", n>>)
  /\ ~Taken(interfaces, n)
  /\ ~Taken(classes, n)
  /\ ~Taken(aliases, n)

(* The types Type::getBitSize comes back from: the others hold, by value,  *)
(* a struct without a body or themselves.                                  *)
Sized[i \in DOMAIN types] ==
  /\ types[i].whole
  /\ \A k \in DOMAIN types[i].body :
       LET f == types[i].body[k]
       IN  ~f.ptr => /\ f.base # "auto"
                     /\ f.base = "struct" => f.at < i /\ Sized[f.at]
SizedType(t) ==
  t.ptr \/ (t.base # "auto" /\ (t.base = "struct" => Sized[t.at]))

------------------------------------------------------------------------------
(* The element or statement compiled next. *)

(* Mutant: one element too many.                                           *)
PendingOne ==
  IF status # "compiling" THEN {}
  ELSE IF inside # 0 THEN {body[i] : i \in DOMAIN body \cap {1}}
  ELSE {d \in Elements : compiled <= MaxElements}

Pending ==
  IF status # "compiling" THEN {}
  ELSE IF inside # 0 THEN {body[i] : i \in DOMAIN body \cap {1}}
  ELSE {d \in Elements : compiled < MaxElements}

(* A declaration is done: the next statement, or the next element.         *)
GoOn ==
  /\ IF inside # 0 THEN body' = Tail(body) /\ UNCHANGED compiled
                   ELSE compiled' = compiled + 1 /\ UNCHANGED body
  /\ UNCHANGED <<inside, locals, errors, status>>

(* An error ends the whole element; it is joined to those before it.       *)
Fail(what) ==
  /\ errors' = Append(errors, what)
  /\ compiled' = compiled + 1
  /\ inside' = 0 /\ body' = <<>> /\ locals' = <<>>
  /\ UNCHANGED status

Crash == status' = "crash" /\ UNCHANGED <<running, compiled, errors>>

(* The body of a new function comes next.                                  *)
Begin(d, first) ==
  /\ inside' = Len(functions) + 1
  /\ body' = d.body
  /\ locals' = first
  /\ UNCHANGED <<compiled, errors, status>>

NewFunction(name, deduced) ==
  functions' = Append(functions, [name |-> Given(functions, name),
                                  deduced |-> deduced, used |-> FALSE])

------------------------------------------------------------------------------
(* Declarations that functions may hold too. *)

(* Mutants: a struct of that name is found and defined again, and an       *)
(* unknown field type is not reported.                                     *)
StructureAgain(d) ==
  /\ d.kind = "structure"
  /\ LET name == <<"struct", d.name>>
         made == IF Taken(types, name) THEN types
                 ELSE Append(types, [name |-> name, whole |-> FALSE, body |-> <<>>])
         n == First(made, name)
     IN  IF Resolves(made, d.types)
         THEN /\ types' = [made EXCEPT ![n].whole = TRUE,
                                       ![n].body = Resolved(made, d.types)]
              /\ structures' = Append(structures, [name   |-> name,
                                                   fields |-> d.fields])
              /\ GoOn
         ELSE types' = made /\ UNCHANGED structures /\ Fail("type")
  /\ UNCHANGED <<interfaces, classes, aliases, symbols>>

StructureSilent(d) ==
  /\ d.kind = "structure"
  /\ LET made == Append(types, [name  |-> Given(types, <<"struct", d.name>>),
                                whole |-> FALSE, body |-> <<>>])
         n == Len(made)
     IN  IF Resolves(made, d.types)
         THEN /\ types' = [made EXCEPT ![n].whole = TRUE,
                                       ![n].body = Resolved(made, d.types)]
              /\ structures' = Append(structures, [name   |-> <<"struct", d.name>>,
                                                   fields |-> d.fields])
              /\ GoOn
         ELSE types' = made /\ UNCHANGED structures /\ GoOn
  /\ UNCHANGED <<interfaces, classes, aliases, symbols>>

(* Structure::codegen.  The type exists before its fields are looked up,   *)
(* and stays without a body when one of them is unknown.  Nothing asks     *)
(* whether the name is taken.                                              *)
Structure(d) ==
  /\ d.kind = "structure"
  /\ LET made == Append(types, [name  |-> Given(types, <<"struct", d.name>>),
                                whole |-> FALSE, body |-> <<>>])
         n == Len(made)
     IN  IF Resolves(made, d.types)
         THEN /\ types' = [made EXCEPT ![n].whole = TRUE,
                                       ![n].body = Resolved(made, d.types)]
              /\ structures' = Append(structures, [name   |-> <<"struct", d.name>>,
                                                   fields |-> d.fields])
              /\ GoOn
         ELSE types' = made /\ UNCHANGED structures /\ Fail("type")
  /\ UNCHANGED <<interfaces, classes, aliases, symbols>>

(* Alias::add takes the names one by one and stops at the first one taken. *)
Free(names, i) ==
  IsUnique(names[i]) /\ \A j \in 1..i-1 : names[j] # names[i]
FreeUpTo(names, n) ==
  /\ \A i \in 1..n : Free(names, i)
  /\ n < Len(names) => ~Free(names, n + 1)

AliasRows(d, n) ==
  [i \in 1..n |-> [name |-> d.names[i], type |-> Resolved(types, d.types)[i]]]

Alias(d) ==
  /\ d.kind = "alias"
  /\ \/ ~Resolves(types, d.types) /\ Fail("type") /\ UNCHANGED aliases
     \/ /\ Resolves(types, d.types) /\ Len(d.types) # Len(d.names)
        /\ Fail("count") /\ UNCHANGED aliases
     \/ /\ Resolves(types, d.types) /\ Len(d.types) = Len(d.names)
        /\ \E n \in 0..Len(d.names) :
             /\ FreeUpTo(d.names, n)
             /\ aliases' = aliases \o AliasRows(d, n)
             /\ IF n = Len(d.names) THEN GoOn ELSE Fail("exists")
  /\ UNCHANGED <<types, structures, interfaces, classes, symbols>>

(* How many options Enumeration::codegen allows: "2 ^ bits", where ^ is    *)
(* C++'s exclusive or.                                                     *)
Bits == [bool |-> 1, char |-> 8, int |-> 32]
XorTwo(n) == IF (n \div 2) % 2 = 1 THEN n - 2 ELSE n + 2
MostOptions(t) == XorTwo(Bits[t.base])
Integral(t) == t.base \in DOMAIN Bits /\ ~t.ptr

(* The value of the i-th option, in a type of so many bits.                *)
OptionValue(i, t) == IF t.base = "bool" THEN (i - 1) % 2 ELSE i - 1

NewOption(d, i) ==
  /\ ~Taken(globals, <<d.name, d.options[i]>>)
  /\ \A j \in 1..i-1 : d.options[j] # d.options[i]
OptionRows(d, t, n) ==
  [i \in 1..n |-> [name |-> <<d.name, d.options[i]>>, value |-> OptionValue(i, t)]]

(* Enumeration::codegen enters a global for each option, up to one that is *)
(* there already, then the name as an alias.  Each global is a temporary   *)
(* that is gone at the end of its statement while the module still lists   *)
(* it: whatever happens next is undefined, a crash as well as the intended.*)
EnumGlobals(d, t) ==
  \E n \in 0..Len(d.options) :
    /\ \A i \in 1..n : NewOption(d, i)
    /\ n < Len(d.options) => ~NewOption(d, n + 1)
    /\ globals' = globals \o OptionRows(d, t, n)
    /\ \/ n < Len(d.options) /\ Fail("exists") /\ UNCHANGED aliases
       \/ /\ n = Len(d.options) /\ ~IsUnique(d.name)
          /\ Fail("exists") /\ UNCHANGED aliases
       \/ /\ n = Len(d.options) /\ IsUnique(d.name)
          /\ aliases' = Append(aliases, [name |-> d.name, type |-> t])
          /\ GoOn
       \/ n > 0 /\ Crash /\ UNCHANGED aliases

Enumeration(d) ==
  /\ d.kind = "enumeration"
  /\ LET under == Meaning(types, d.under)
     IN  \/ under = {} /\ Fail("type") /\ UNCHANGED <<aliases, globals>>
         \/ \E t \in under :
              \/ ~Integral(t) /\ Fail("integral") /\ UNCHANGED <<aliases, globals>>
              \/ /\ Integral(t) /\ Len(d.options) > MostOptions(t)
                 /\ Fail("size") /\ UNCHANGED <<aliases, globals>>
              \/ /\ Integral(t) /\ Len(d.options) <= MostOptions(t)
                 /\ EnumGlobals(d, t)
  /\ UNCHANGED <<types, structures, interfaces, classes, functions>>

------------------------------------------------------------------------------
(* Declarations of a module only. *)

(* Interface::getFuncsInfo for each parent.  What an interface lists is    *)
(* all of them; its struct type is made from the last parent's, because    *)
(* std::tie overwrites what the parents before it gave.                    *)
Listed(d) ==
  FlattenSeq([i \in 1..Len(d.parents) |-> Row(interfaces, d.parents[i]).funcs])
  \o d.funcs
LastParents(d) ==
  IF d.parents = <<>> THEN <<>> ELSE Row(interfaces, Last(d.parents)).funcs
Held(d) == LastParents(d) \o d.funcs

(* A function of its own may not repeat one of those.                      *)
FunctionsOK(d) ==
  /\ Resolves(types, d.types)
  /\ \A i \in 1..Len(d.funcs) : d.funcs[i] \notin ToSet(LastParents(d))
  /\ IsInjective(d.funcs)

(* Interface::codegen enters nothing unless all of it is right.            *)
Interface(d) ==
  /\ d.kind = "interface"
  /\ \/ /\ ~IsUnique(d.name)
        /\ Fail("exists") /\ UNCHANGED <<types, structures, interfaces>>
     \/ /\ IsUnique(d.name)
        /\ \E p \in ToSet(d.parents) : ~Taken(interfaces, p)
        /\ Fail("parent") /\ UNCHANGED <<types, structures, interfaces>>
     \/ /\ IsUnique(d.name)
        /\ \A p \in ToSet(d.parents) : Taken(interfaces, p)
        /\ IF FunctionsOK(d)
           THEN /\ types' = Append(types,
                              [name  |-> Given(types, <<"interface", d.name>>),
                               whole |-> TRUE,
                               body  |-> [i \in 1..Len(Held(d)) |-> FuncPtr]])
                /\ interfaces' = Append(interfaces,
                                    [name |-> d.name, funcs |-> Listed(d)])
                /\ structures' = Append(structures,
                                    [name   |-> <<"interface", d.name>>,
                                     fields |-> Held(d)])
                /\ GoOn
           ELSE Fail("function") /\ UNCHANGED <<types, structures, interfaces>>
  /\ UNCHANGED <<classes, aliases, symbols>>

(* DataClass::codegen: "class::C" without a body, a type for each          *)
(* constructor (its tag, then its fields) and, when all are there, the     *)
(* body.  Type::getBitSize is asked for the size of each constructor.      *)
KnownCtor(c) == Resolves(types, c.types)
SizedCtor(c) == \A i \in 1..Len(c.types) : SizedType(Resolved(types, c.types)[i])
CtorType(d, i) ==
  LET name == <<"variant", d.name, d.ctors[i].name>>
  IN  [name  |-> IF \E j \in 1..i-1 : d.ctors[j].name = d.ctors[i].name
                 THEN Renamed ELSE Given(types, name),
       whole |-> TRUE,
       body  |-> <<Plain("char")>> \o Resolved(types, d.ctors[i].types)]

(* Mutant: no type for the last constructor.                               *)
ClassTypesButLast(d, n, whole) ==
  types \o <<[name |-> <<"class", d.name>>, whole |-> whole, body |-> <<>>]>>
        \o [i \in 1..n-1 |-> CtorType(d, i)]

ClassTypes(d, n, whole) ==
  types \o <<[name |-> <<"class", d.name>>, whole |-> whole, body |-> <<>>]>>
        \o [i \in 1..n |-> CtorType(d, i)]
ClassRow(d) ==
  [name |-> d.name, ctors |-> [i \in 1..Len(d.ctors) |-> d.ctors[i].name]]

DataClass(d) ==
  /\ d.kind = "dataclass"
  /\ \/ /\ Taken(types, <<"struct", d.name>>) \/ Taken(types, <<"class", d.name>>)
        /\ Fail("exists") /\ UNCHANGED <<types, classes>>
     \/ /\ ~Taken(types, <<"struct", d.name>>) /\ ~Taken(types, <<"class", d.name>>)
        /\ \E n \in 0..Len(d.ctors) :
             /\ \A i \in 1..n : KnownCtor(d.ctors[i])
             /\ \A i \in 1..n-1 : SizedCtor(d.ctors[i])
             /\ \/ /\ n > 0 /\ ~SizedCtor(d.ctors[n])
                   /\ types' = ClassTypes(d, n, FALSE)
                   /\ Crash /\ UNCHANGED classes
                \/ /\ n > 0 => SizedCtor(d.ctors[n])
                   /\ n < Len(d.ctors) /\ ~KnownCtor(d.ctors[n + 1])
                   /\ types' = ClassTypes(d, n, FALSE)
                   /\ Fail("type") /\ UNCHANGED classes
                \/ /\ n > 0 => SizedCtor(d.ctors[n])
                   /\ n = Len(d.ctors)
                   /\ types' = ClassTypes(d, n, TRUE)
                   /\ classes' = Append(classes, ClassRow(d))
                   /\ GoOn
  /\ UNCHANGED <<structures, interfaces, aliases, symbols>>

(* Function::Create does not ask whether the name is taken either.         *)
ExternFunc(d) ==
  /\ d.kind = "externfunc"
  /\ IF Resolves(types, d.types)
     THEN NewFunction(<<"free", d.name>>, FALSE) /\ GoOn
     ELSE UNCHANGED functions /\ Fail("type")
  /\ UNCHANGED <<tables, globals>>

Function(d) ==
  /\ d.kind = "function"
  /\ IF Resolves(types, d.types)
     THEN NewFunction(<<"free", d.name>>, d.deduced) /\ Begin(d, <<>>)
     ELSE UNCHANGED functions /\ Fail("type")
  /\ UNCHANGED <<tables, globals>>

(* StructFunc::codegen and StructOp::codegen, once the struct is there and *)
(* the function's name is known.                                           *)
MethodNamed(d, name) ==
  \/ Taken(functions, name) /\ UNCHANGED functions /\ Fail("exists")
  \/ /\ ~Taken(functions, name)
     /\ \/ ~Resolves(types, d.types) /\ UNCHANGED functions /\ Fail("type")
        \/ /\ Resolves(types, d.types)
           /\ NewFunction(name, d.deduced)
           /\ IF d.default THEN Fail("default")
              ELSE Begin(d, <<[name |-> "this",
                     type |-> PointerTo(StructAt(First(types, <<"struct", d.of>>)))]>>)

StructFunc(d) ==
  /\ d.kind = "structfunc"
  /\ \/ /\ ~Taken(types, <<"struct", d.of>>)
        /\ UNCHANGED functions /\ Fail("struct")
     \/ /\ Taken(types, <<"struct", d.of>>)
        /\ MethodNamed(d, <<"struct", d.of, d.func>>)
  /\ UNCHANGED <<tables, globals>>

(* getTypeName drops "interface::"; a conversion is found by that name.    *)
ConversionName(n, t) ==
  <<"operator", n, IF t.base = "struct" THEN types[t.at].name[2] ELSE t.base, t.ptr>>

StructOp(d) ==
  /\ d.kind = "conversion"
  /\ \/ /\ ~Taken(types, <<"struct", d.of>>)
        /\ UNCHANGED functions /\ Fail("struct")
     \/ /\ Taken(types, <<"struct", d.of>>)
        /\ Resolve(types, d.to) \subseteq {Plain("auto")}
        /\ UNCHANGED functions /\ Fail("type")
     \/ /\ Taken(types, <<"struct", d.of>>)
        /\ \E t \in Resolve(types, d.to) \ {Plain("auto")} :
             MethodNamed(d, ConversionName(d.of, t))
  /\ UNCHANGED <<tables, globals>>

------------------------------------------------------------------------------
(* Statements of a function that look names up. *)

(* Ident::isUnique(builder, ...): reserved words are no variables.         *)
Reserved == Basic \cup {"this"}
IsNewLocal(n) == n \notin Reserved /\ ~Taken(locals, n) /\ IsUnique(n)

(* DeclAssign::codegen, without an initialiser.                            *)
Let(d) ==
  /\ d.kind = "let"
  /\ \/ Resolve(types, d.type) = {} /\ Fail("type")
     \/ /\ Resolve(types, d.type) # {}
        /\ ~IsNewLocal(d.name)
        /\ Fail("exists")
     \/ /\ IsNewLocal(d.name)
        /\ \E t \in Resolve(types, d.type) :
             locals' = Append(locals, [name |-> d.name, type |-> t])
        /\ body' = Tail(body)
        /\ UNCHANGED <<inside, compiled, errors, status>>
  /\ UNCHANGED <<tables, symbols>>

MarkUsed(name) ==
  functions' = [functions EXCEPT ![First(functions, name)].used = TRUE]

(* FuncCall::call of a function without arguments.                         *)
Call(d) ==
  /\ d.kind = "call"
  /\ \/ Taken(locals, d.name) /\ Fail("call") /\ UNCHANGED functions
     \/ /\ ~Taken(locals, d.name) /\ Taken(functions, <<"free", d.name>>)
        /\ MarkUsed(<<"free", d.name>>) /\ GoOn
     \/ /\ ~Taken(locals, d.name) /\ ~Taken(functions, <<"free", d.name>>)
        /\ Fail("variable") /\ UNCHANGED functions
  /\ UNCHANGED <<tables, globals>>

(* A variable is a pointer to its value, and "this" is a pointer itself.   *)
HoldsStruct(v) == v.type.base = "struct" /\ (v.type.ptr <=> v.name = "this")

(* bindFirstFuncArgument casts a bitcast to llvm::Function: an assertion.  *)
Bind == IF Asserts THEN Crash ELSE GoOn

MethodName(t, m) ==
  IF types[t.at].name[1] = "struct" THEN <<"struct", types[t.at].name[2], m>>
                                    ELSE Renamed
HasMethod(t, m) == MethodName(t, m) # Renamed /\ Taken(functions, MethodName(t, m))
HasField(t, m) ==
  /\ Taken(structures, types[t.at].name)
  /\ m \in ToSet(Row(structures, types[t.at].name).fields)
(* Mutant: counted from one too far.                                       *)
FieldAfter(t, m) ==
  LET fields == Row(structures, types[t.at].name).fields
  IN  1 + CHOOSE i \in DOMAIN fields :
            fields[i] = m /\ \A j \in 1..i-1 : fields[j] # m
FieldAt(t, m) ==
  LET fields == Row(structures, types[t.at].name).fields
  IN  CHOOSE i \in DOMAIN fields :
        fields[i] = m /\ \A j \in 1..i-1 : fields[j] # m

(* StructMember::codegen.  A field's place comes from the first row of     *)
(* that name in "structures", the struct from the variable.                *)
Access(d) ==
  /\ d.kind = "access"
  /\ \/ ~Taken(locals, d.var) /\ Fail("variable") /\ UNCHANGED functions
     \/ /\ Taken(locals, d.var) /\ ~HoldsStruct(Row(locals, d.var))
        /\ Fail("member") /\ UNCHANGED functions
     \/ /\ Taken(locals, d.var) /\ HoldsStruct(Row(locals, d.var))
        /\ LET t == Row(locals, d.var).type
           IN  \/ /\ HasField(t, d.member) /\ UNCHANGED functions
                  /\ IF FieldAt(t, d.member) <= Len(types[t.at].body)
                     THEN GoOn ELSE Crash
               \/ /\ ~HasField(t, d.member) /\ HasMethod(t, d.member)
                  /\ MarkUsed(MethodName(t, d.member)) /\ Bind
               \/ /\ ~HasField(t, d.member) /\ ~HasMethod(t, d.member)
                  /\ Fail("member") /\ UNCHANGED functions
  /\ UNCHANGED <<tables, globals>>

(* Interface::cast: the struct has each function the interface lists, and  *)
(* each goes to its place in the interface's struct type.                  *)
Missing(t, n) == {f \in ToSet(Row(interfaces, n).funcs) : ~HasMethod(t, f)}
MarkAllUsed(names) ==
  functions' = [i \in DOMAIN functions |->
                  IF \E n \in names : Taken(functions, n) /\ i = First(functions, n)
                  THEN [functions[i] EXCEPT !.used = TRUE] ELSE functions[i]]
CastToInterface(t, to) ==
  LET n     == types[to.at].name[2]
      funcs == Row(interfaces, n).funcs
      done  == MarkAllUsed({MethodName(t, f) : f \in ToSet(funcs) \ Missing(t, n)})
  IN  \/ /\ Asserts /\ funcs # <<>> /\ HasMethod(t, funcs[1])
         /\ UNCHANGED functions /\ Crash
      \/ /\ Missing(t, n) # {} /\ ~(Asserts /\ HasMethod(t, funcs[1]))
         /\ UNCHANGED functions /\ Fail("implement")
      \/ /\ Missing(t, n) = {} /\ ~(Asserts /\ funcs # <<>>)
         /\ done /\ IF Len(funcs) <= Len(types[to.at].body) THEN GoOn ELSE Crash

IsInterface(t) == t.base = "struct" /\ types[t.at].name[1] = "interface"
Converts(t, to) ==
  /\ types[t.at].name[1] = "struct"
  /\ Taken(functions, ConversionName(types[t.at].name[2], to))

(* A char variable is a pointer to a char, so it is taken for a string:    *)
(* other pointers can be had from it; a struct trips LLVM's own assertion. *)
CastText(d) ==
  \E to \in Resolve(types, d.to) :
    \/ to.ptr /\ GoOn
    \/ ~to.ptr /\ to.base \in {"bool", "char", "int", "double"} /\ Fail("cast")
    \/ ~to.ptr /\ to.base \notin {"bool", "char", "int", "double"} /\ Crash

(* FnCast::codegen of a variable.                                          *)
Cast(d) ==
  /\ d.kind = "cast"
  /\ \/ ~Taken(locals, d.var) /\ Fail("variable") /\ UNCHANGED functions
     \/ /\ Taken(locals, d.var) /\ Resolve(types, d.to) = {}
        /\ Fail("type") /\ UNCHANGED functions
     \/ /\ Taken(locals, d.var) /\ Resolve(types, d.to) # {}
        /\ ~HoldsStruct(Row(locals, d.var)) /\ UNCHANGED functions
        /\ IF Row(locals, d.var).type = Plain("char")
           THEN CastText(d) ELSE Fail("cast")
     \/ /\ Taken(locals, d.var) /\ HoldsStruct(Row(locals, d.var))
        /\ \E to \in Resolve(types, d.to) :
             LET t == Row(locals, d.var).type
             IN  \/ IsInterface(to) /\ CastToInterface(t, to)
                 \/ /\ ~IsInterface(to) /\ Converts(t, to)
                    /\ MarkUsed(ConversionName(types[t.at].name[2], to)) /\ GoOn
                 \/ /\ ~IsInterface(to) /\ ~Converts(t, to)
                    /\ Fail("cast") /\ UNCHANGED functions
  /\ UNCHANGED <<tables, globals>>

(* DataClass::construct.  Its place among the constructors is looked up    *)
(* once its type is found, and asserted not to be zero.  A failure reaches *)
(* FuncCall::codegen, which drops it unlooked at: an abort where LLVM      *)
(* checks that errors are looked at.                                       *)
HasCtor(d) ==
  /\ Taken(classes, d.class)
  /\ d.ctor \in ToSet(Row(classes, d.class).ctors)

Construct(d) ==
  /\ d.kind = "construct"
  /\ \/ /\ ~Taken(types, <<"variant", d.class, d.ctor>>)
        /\ IF Asserts THEN Crash ELSE Fail("class")
     \/ /\ Taken(types, <<"variant", d.class, d.ctor>>)
        /\ ~HasCtor(d) \/ (Asserts /\ d.ctor = Row(classes, d.class).ctors[1])
        /\ Crash
     \/ /\ Taken(types, <<"variant", d.class, d.ctor>>) /\ HasCtor(d)
        /\ ~(Asserts /\ d.ctor = Row(classes, d.class).ctors[1])
        /\ GoOn
  /\ UNCHANGED <<tables, symbols>>

------------------------------------------------------------------------------
(* buildFunction, after the body: a function whose return type is deduced  *)
(* is replaced by one of the right type and erased, its uses and all.      *)
FunctionEnd ==
  /\ status = "compiling" /\ inside # 0 /\ body = <<>>
  /\ IF functions[inside].deduced /\ functions[inside].used
     THEN Crash
     ELSE /\ inside' = 0 /\ locals' = <<>>
          /\ compiled' = compiled + 1
          /\ UNCHANGED <<body, errors, status>>
  /\ UNCHANGED <<tables, symbols>>

(* The module is handed on only if no element failed.                      *)
Finish ==
  /\ status = "compiling" /\ inside = 0
  /\ status' = IF errors = <<>> THEN "done" ELSE "failed"
  /\ UNCHANGED <<tables, symbols, running, compiled, errors>>

Ended == status # "compiling" /\ UNCHANGED vars

Init ==
  /\ types = <<>> /\ structures = <<>> /\ interfaces = <<>>
  /\ classes = <<>> /\ aliases = <<>>
  /\ functions = <<>> /\ globals = <<>>
  /\ inside = 0 /\ body = <<>> /\ locals = <<>>
  /\ compiled = 0 /\ errors = <<>> /\ status = "compiling"

Compile(d) ==
  \/ Structure(d) \/ Alias(d) \/ Enumeration(d)
  \/ Interface(d) \/ DataClass(d) \/ ExternFunc(d)
  \/ Function(d) \/ StructFunc(d) \/ StructOp(d)
  \/ Let(d) \/ Call(d) \/ Access(d) \/ Cast(d) \/ Construct(d)

Next == (\E d \in Pending : Compile(d)) \/ FunctionEnd \/ Finish \/ Ended

Spec == Init /\ [][Next]_vars
==============================================================================
