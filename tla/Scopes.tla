-------------------------------- MODULE Scopes --------------------------------
(***************************************************************************)
(* The variables of one function, and who constructs them.  A function has *)
(* one symbol table, which LLVM keeps: the names of its arguments, its     *)
(* blocks and any instruction that was given one.  LetExpr and DeclAssign  *)
(* (letexpr.hpp, declassign.hpp) enter variables, If and For rename theirs *)
(* when they end, StructMember names the address of a member, and Ident    *)
(* looks all of them up.                                                   *)
(*                                                                         *)
(* Two things look a name up late: a deferred statement, compiled when the *)
(* body is done, and pass::Ctor (pass/ctor.hpp), which runs over the       *)
(* finished function and finds the variables that hold a "new" object by   *)
(* the name a let wrote in a row of metadata.                              *)
(*                                                                         *)
(* The source of the function is chosen statement by statement.  A binding *)
(* of a let is a step of its own.  Where in the function's blocks a        *)
(* deferred statement goes, and how often, is the business of Lowering:    *)
(* here its code goes to the end, never, once or again.                    *)
(***************************************************************************)
EXTENDS Naturals, Sequences, Functions

CONSTANTS
  Var,            \* identifiers, the names of blocks among them
  Struct,         \* struct types
  Constructed,    \* those with a __ctor
  Field,          \* their members, all of them ints
  Params,         \* the function's arguments: a function from names to types
  Globals,        \* names taken at module level
  Statements,     \* the statements the function may be made of
  MaxStatements,  \* how many of them it has at most
  MaxCode         \* past so many instructions nothing is deferred again

------------------------------------------------------------------------------
(* Types: a base and how many pointers lead to it. *)

Base == Struct \cup {"int", "char", "pair", "func", "label"}
Type == [base : Base, ptr : Nat]
Plain(b) == [base |-> b, ptr |-> 0]
PointerTo(t) == [t EXCEPT !.ptr = @ + 1]
Element(t) == [t EXCEPT !.ptr = @ - 1]
(* Type::isStructKind.  A call that returns several values returns a       *)
(* struct without a name.                                                  *)
IsStructKind(t) == t.base \in Struct \cup {"pair"} /\ t.ptr <= 1

(* A value: the instruction that computes it (0: an argument, a constant,  *)
(* a block or a function) and its type.                                    *)
Value == [at : Nat, type : Type]
Constant == [at |-> 0, type |-> Plain("int")]
Function == [at |-> 0, type |-> PointerTo(Plain("func"))]
Label == [at |-> 0, type |-> Plain("label")]

------------------------------------------------------------------------------
(* The source. *)

Discard == "_"

(* A literal, a call, new T, new(x) T, x, &x, *x and x.m.                  *)
Variable ==
  [kind : {"var"}, var : Var] \cup [kind : {"member"}, var : Var, member : Field]
Expr ==
  Variable \cup [kind : {"const"}] \cup [kind : {"call", "new"}, type : Type]
  \cup [kind : {"place"}, var : Var, type : Type]
  \cup [kind : {"addr", "deref"}, var : Var]

LetExpr ==
  {s \in [kind : {"let"}, names : Seq(Var \cup {Discard}), values : Seq(Expr)] :
     s.names # <<>> /\ s.values # <<>>}
(* A variable of a struct type; its members may be given values.           *)
DeclAssign ==
  [kind : {"decl"}, name : Var, struct : Struct, members : Seq(Field)]
Simple ==
  LetExpr \cup DeclAssign \cup [kind : {"delete"}, of : Expr]
  \cup [kind : {"assign"}, of : Variable]
Statement ==
  Simple \cup [kind : {"body"}] \cup [kind : {"if"}, lets : Seq(LetExpr)]
  \cup {s \in [kind : {"for"}, lets : Seq(LetExpr)] : Len(s.lets) = 1}
  \cup [kind : {"defer"}, stmt : Simple]

ASSUME NameAssumption ==
  /\ Field \subseteq Var /\ Globals \subseteq Var
  /\ {"entry", "then", "for", "cont"} \subseteq Var /\ Discard \notin Var
ASSUME TypeAssumption ==
  /\ Constructed \subseteq Struct
  /\ Struct \cap {"int", "char", "pair", "func", "label"} = {}
ASSUME ParamsAssumption ==
  DOMAIN Params \subseteq Var /\ \A n \in DOMAIN Params : Params[n] \in Type
ASSUME StatementsAssumption == Statements \subseteq Statement
ASSUME SizeAssumption == MaxStatements \in Nat /\ MaxCode \in Nat

------------------------------------------------------------------------------
VARIABLES
  code,     \* the instructions, in the order they were made
  table,    \* the function's symbol table: names to values
  rows,     \* the names in the "new" rows of this function
  binding,  \* the let being compiled
  scopes,   \* the open bodies, ifs and fors, the innermost last
  todo,     \* the deferred statements still to be compiled
  written,  \* how many statements there are so far
  ctors,    \* the calls of __ctor inserted, by the instruction each is behind
  cursor,   \* how many instructions, then rows, pass::Ctor has looked at
  status,
  error,    \* what was reported, and of which name
  kept,     \* history: the variables that no if or for renames
  news      \* history: what lets meant to have constructed

compiler == <<code, table, rows, binding, scopes, todo, written>>
pass == <<ctors, cursor>>
history == <<kept, news>>
vars == <<compiler, pass, status, error, history>>

Inst(op, type, arg) == [op |-> op, type |-> type, arg |-> arg]
Ops == {"alloca", "store", "load", "call", "malloc", "cast", "extract",
        "gep", "br", "ret"}
(* arg: the instruction that computes the first operand, or 0.             *)
Instruction(n) ==
  {i \in [op : Ops, type : Type, arg : 0..n] : i.op = "alloca" => i.type.ptr > 0}

(* vars: the names an if or for will rename; defers: deferrals_ of the     *)
(* body, newest first; exits: what runScopeExit of its statements compiles.*)
Frame ==
  [kind : {"body", "if", "for"}, vars : Seq(Var \cup {Discard}),
   defers : Seq(Simple), exits : Seq(Simple)]

(* lets: this let and those after it; at: the name it has come to (0: it   *)
(* has not begun); from: the value it takes apart; opens: the statement    *)
(* the lets belong to, vars: the names of its lets so far.                 *)
Binding ==
  [lets : Seq(LetExpr), at : Nat, from : Value, opens : {"none", "if", "for"},
   vars : Seq(Var \cup {Discard})]
Binds(lets, opens) ==
  [lets |-> lets, at |-> 0, from |-> Constant, opens |-> opens, vars |-> <<>>]
NoBinding == Binds(<<>>, "none")
Idle == binding.lets = <<>>

New == [of : Value, kept : BOOLEAN, nth : Nat]
Statuses == {"compile", "exit", "pass", "done", "failed", "crash"}

TypeOK ==
  /\ code \in Seq(Instruction(Len(code)))
  /\ DOMAIN table \subseteq Var
  /\ \A n \in DOMAIN table : table[n] \in Value /\ table[n].at <= Len(code)
  /\ rows \in Seq(Var)
  /\ binding \in Binding /\ binding.from.at <= Len(code)
  /\ scopes \in Seq(Frame)
  /\ todo \in Seq(Simple)
  /\ written \in 0..MaxStatements
  /\ ctors \in Seq(1..Len(code))
  /\ cursor \in 0..Len(code) + Len(rows)
  /\ status \in Statuses
  /\ error \in [what : {"none", "count", "exists", "value"}, name : Var \cup {Discard}]
  /\ DOMAIN kept \subseteq Var
  /\ \A n \in DOMAIN kept : kept[n] \in 1..Len(code)
  /\ news \in Seq(New)

------------------------------------------------------------------------------
(* The symbol table. *)

(* LLVM gives a name to the first that asks; others are renamed, to a name *)
(* nobody writes.                                                          *)
Named(names, n, v) ==
  [m \in DOMAIN names \cup {n} |-> IF m \in DOMAIN names THEN names[m] ELSE v]

(* Mutant: the function's own names are not looked at.                     *)
IsUniqueInModule(names, n) == n \notin Globals

(* Ident::isUnique(builder, ...), of a name that is not reserved.          *)
IsUnique(names, n) == n \notin DOMAIN names /\ n \notin Globals

(* Ident::codegen: the value of a name, if it has one.                     *)
Lookup(n) ==
  {table[m] : m \in DOMAIN table \cap {n}}
  \cup {Function : m \in (Globals \ DOMAIN table) \cap {n}}

------------------------------------------------------------------------------
(* Expressions: what the code, the symbol table and the value are when one *)
(* is compiled.  A set, empty if an error is reported.                     *)

Result(is, names, v) == [code |-> is, table |-> names, value |-> v]
Emitted(is, names) ==
  Result(code \o is, names,
         [at |-> Len(code) + Len(is), type |-> is[Len(is)].type])

(* One more instruction, on the value of r.                                *)
Then(r, op, t) ==
  Result(Append(r.code, Inst(op, t, r.value.at)), r.table,
         [at |-> Len(r.code) + 1, type |-> t])

(* Term::codegen of a single factor: a variable is loaded, but not one of  *)
(* a struct type.                                                          *)
Term(r) ==
  IF r.value.at # 0 /\ r.code[r.value.at].op = "alloca" /\ ~IsStructKind(r.value.type)
  THEN Then(r, "load", Element(r.value.type)) ELSE r

Ident(n) == {Result(code, table, v) : v \in Lookup(n)}

(* NewExpr::codegen: malloc and a cast to the type; or a cast of what is   *)
(* given, which for a function is a constant.                              *)
NewExpr(t) ==
  <<Inst("malloc", PointerTo(Plain("char")), 0),
    Inst("cast", PointerTo(t), Len(code) + 1)>>
Loaded(n) == {Term(r) : r \in Ident(n)}
Placed(r, t, constant) ==
  IF r.value.type = t THEN r
  ELSE IF constant THEN [r EXCEPT !.value = [at |-> 0, type |-> t]]
  ELSE Then(r, "cast", t)

(* Deref::codegen loads the pointer, then what it points to.               *)
Deref(v) ==
  <<Inst("load", Element(v.type), v.at),
    Inst("load", Element(Element(v.type)), Len(code) + 1)>>

(* StructMember::codegen gives the member's address the member's name.     *)
StructMember(v, m) ==
  Emitted(<<Inst("gep", PointerTo(Plain("int")), v.at)>>,
          Named(table, m, [at |-> Len(code) + 1, type |-> PointerTo(Plain("int"))]))

Variables(n) == {table[m] : m \in DOMAIN table \cap {n}}

(* getFactor, and the codegen of what it gives.                            *)
Factor(e) ==
  CASE e.kind = "const"  -> {Result(code, table, Constant)}
    [] e.kind = "call"   -> {Emitted(<<Inst("call", e.type, 0)>>, table)}
    [] e.kind = "new"    -> {Emitted(NewExpr(e.type), table)}
    [] e.kind \in {"var", "addr"} -> Ident(e.var)
    [] e.kind = "place"  -> {Placed(r, e.type, e.var \notin DOMAIN table) : r \in Loaded(e.var)}
    [] e.kind = "deref"  -> {Emitted(Deref(v), table) :
                              v \in {w \in Lookup(e.var) : w.type.ptr > 0}}
    [] e.kind = "member" -> {StructMember(v, e.member) :
                              v \in {w \in Variables(e.var) :
                                       w.type.base \in Struct /\ IsStructKind(w.type)}}

(* getExpressionValue: AddrOf gives a factor's value as it is, and Lexp    *)
(* what Term makes of it.                                                  *)
Eval(e) == IF e.kind = "addr" THEN Factor(e) ELSE {Term(r) : r \in Factor(e)}

(* The uses of a value LLVM has no type for: a cast, a load or the address *)
(* of a member of what is not a pointer.                                   *)
Breaks(e) ==
  \/ e.kind = "place" /\ \E r \in Loaded(e.var) :
       r.value.type # e.type /\ (r.value.type.ptr = 0 \/ e.type.ptr = 0)
  \/ e.kind = "deref" /\ \E v \in Lookup(e.var) : v.type.ptr = 1
  \/ e.kind = "member" /\ \E v \in Variables(e.var) :
                             v.type.base \in Struct /\ v.type.ptr = 0

------------------------------------------------------------------------------
(* How a step ends. *)

(* An error ends the function; what it had compiled is dropped with the    *)
(* module.  On the way out every open if and for renames its variables,    *)
(* and dies of "_", which it does not find.                                *)
Fail(what, n) ==
  /\ error' = [what |-> what, name |-> n]
  /\ status' = IF \E i \in DOMAIN scopes :
                    \E j \in DOMAIN scopes[i].vars : scopes[i].vars[j] = Discard
               THEN "crash" ELSE "failed"
  /\ UNCHANGED <<compiler, pass, history>>

Crash == status' = "crash" /\ UNCHANGED <<compiler, pass, error, history>>

(* A statement is compiled; a deferred one may have to be compiled again.  *)
Advance ==
  /\ \/ status = "compile" /\ written' = written + 1 /\ todo' = todo
     \/ status = "exit" /\ written' = written /\ todo' = Tail(todo)
     \/ /\ status = "exit" /\ Len(code) < MaxCode
        /\ written' = written /\ todo' = todo
  /\ UNCHANGED <<status, error, pass>>

(* Mutant: one statement too many.                                         *)
ComingOne ==
  IF ~Idle THEN {}
  ELSE IF status = "compile" THEN {s \in Statements : written <= MaxStatements}
  ELSE IF status = "exit" THEN {todo[i] : i \in DOMAIN todo \cap {1}}
  ELSE {}

(* The statement compiled next.                                            *)
Coming ==
  IF ~Idle THEN {}
  ELSE IF status = "compile" THEN {s \in Statements : written < MaxStatements}
  ELSE IF status = "exit" THEN {todo[i] : i \in DOMAIN todo \cap {1}}
  ELSE {}

------------------------------------------------------------------------------
(* LetExpr::codegen. *)

BeginLet(s) ==
  /\ s.kind = "let"
  /\ binding' = Binds(<<s>>, "none")
  /\ UNCHANGED <<code, table, rows, scopes, todo, written, pass, status, error,
                 history>>

Letting == status \in {"compile", "exit"} /\ ~Idle
Let == Head(binding.lets)
TakesApart == Len(Let.names) > Len(Let.values)
NextName == [binding EXCEPT !.at = @ + 1]

LetStart ==
  /\ Letting /\ binding.at = 0
  /\ \/ Len(Let.values) > Len(Let.names) /\ Fail("count", Discard)
     \/ /\ Len(Let.values) = Len(Let.names)
        /\ binding' = NextName
        /\ UNCHANGED <<code, table, rows, scopes, todo, written, pass, status,
                       error, history>>
     \/ TakesApart /\ Breaks(Let.values[1]) /\ Crash
     \/ /\ TakesApart /\ ~Breaks(Let.values[1]) /\ Eval(Let.values[1]) = {}
        /\ Fail("value", Discard)
     \/ /\ TakesApart /\ ~Breaks(Let.values[1])
        /\ \E r \in Eval(Let.values[1]) :
             /\ code' = r.code /\ table' = r.table
             /\ binding' = [NextName EXCEPT !.from = r.value]
        /\ UNCHANGED <<rows, scopes, todo, written, pass, status, error, history>>

(* The variable is an alloca, and the value is stored in it right away.    *)
Alloca(v) == <<Inst("alloca", PointerTo(v.type), 0), Inst("store", Plain("int"), v.at)>>
NewName == Let.names[binding.at]
Keep(n, at) ==
  kept' = IF binding.opens # "none" THEN kept
          ELSE [m \in DOMAIN kept \cup {n} |-> IF m = n THEN at ELSE kept[m]]
Declare(is, names, v) ==
  LET at == Len(is) + 1
  IN  /\ code' = is \o Alloca(v)
      /\ table' = Named(names, NewName, [at |-> at, type |-> PointerTo(v.type)])
      /\ Keep(NewName, at)
      /\ binding' = NextName

(* More names than values: the first value is a pair and is taken apart.   *)
LetPart ==
  /\ Letting /\ binding.at \in 1..Len(Let.names) /\ TakesApart
  /\ \/ /\ NewName = Discard
        /\ binding' = NextName
        /\ UNCHANGED <<code, table, status, error, kept>>
        /\ UNCHANGED <<rows, scopes, todo, written, pass, news>>
     \/ /\ NewName # Discard /\ ~IsUnique(table, NewName)
        /\ Fail("exists", NewName)
     \/ /\ NewName # Discard /\ IsUnique(table, NewName)
        /\ \/ (binding.from.type # Plain("pair") \/ binding.at > 2) /\ Crash
           \/ /\ binding.from.type = Plain("pair") /\ binding.at <= 2
              /\ LET is == Append(code, Inst("extract", Plain("int"), binding.from.at))
                 IN  Declare(is, table, [at |-> Len(is), type |-> Plain("int")])
              /\ UNCHANGED <<rows, scopes, todo, written, pass, status, error, news>>

(* Whether the i-th of so many values is a "newexpr" is asked of a child   *)
(* of the list's node: values stand at its children 0, 2, 4 and so on.     *)
(* Past the last child whatever lies there is read.                        *)
(* Mutant: commas are counted twice.                                       *)
ChildAfter(i) == 3 * (i - 1)
Child(i) == IF i = 1 THEN 0 ELSE 3 * (i - 1) - 1
IsNew(e) == e.kind \in {"new", "place"}
OutOfReach(values, i) == Len(values) > 1 /\ Child(i) > 2 * Len(values) - 2
SeemsNew(values, i) ==
  IF Len(values) = 1 THEN {IsNew(values[1])}
  ELSE IF OutOfReach(values, i) THEN BOOLEAN
  ELSE {Child(i) % 2 = 0 /\ IsNew(values[Child(i) \div 2 + 1])}

(* A value for each name.  The row is only written for a variable.         *)
LetValue ==
  /\ Letting /\ binding.at \in 1..Len(Let.names) /\ ~TakesApart
  /\ LET e == Let.values[binding.at]
     IN  \/ Breaks(e) /\ Crash
         \/ ~Breaks(e) /\ Eval(e) = {} /\ Fail("value", Discard)
         \/ /\ ~Breaks(e)
            /\ \E r \in Eval(e) :
                 \/ /\ NewName = Discard
                    /\ code' = r.code /\ table' = r.table
                    /\ binding' = NextName
                    /\ UNCHANGED <<rows, scopes, todo, written, pass, status,
                                   error, history>>
                 \/ /\ NewName # Discard /\ ~IsUnique(r.table, NewName)
                    /\ Fail("exists", NewName)
                 \/ /\ NewName # Discard /\ IsUnique(r.table, NewName)
                    /\ \/ r.value.type = Plain("label") /\ Crash
                       \/ OutOfReach(Let.values, binding.at) /\ Crash
                       \/ /\ r.value.type # Plain("label")
                          /\ Declare(r.code, r.table, r.value)
                          /\ \E new \in SeemsNew(Let.values, binding.at) :
                               /\ rows' = IF new THEN Append(rows, NewName) ELSE rows
                               /\ news' = IF new \/ IsNew(e)
                                          THEN Append(news,
                                                 [of |-> r.value, nth |-> binding.at,
                                                  kept |-> binding.opens = "none"])
                                          ELSE news
                          /\ UNCHANGED <<scopes, todo, written, pass, status, error>>

------------------------------------------------------------------------------
(* If, For and Body. *)

Opened(kind, names) ==
  Append(scopes, [kind |-> kind, vars |-> names, defers |-> <<>>, exits |-> <<>>])

Branch == Inst("br", Plain("int"), 0)

(* An if makes its block when its lets and its condition are compiled, a   *)
(* for before them.                                                        *)
Enter(kind, names) ==
  /\ scopes' = Opened(kind, names)
  /\ code' = Append(code, Branch)
  /\ table' = IF kind = "if" THEN Named(table, "then", Label) ELSE table

LetEnd ==
  /\ Letting /\ binding.at > Len(Let.names)
  /\ LET names == binding.vars \o Let.names
     IN  \/ /\ Tail(binding.lets) # <<>>
            /\ binding' = [binding EXCEPT !.lets = Tail(@), !.at = 0, !.vars = names]
            /\ UNCHANGED <<code, table, scopes, todo, written, pass, status, error>>
         \/ /\ Tail(binding.lets) = <<>>
            /\ binding' = NoBinding
            /\ IF binding.opens = "none" THEN UNCHANGED <<code, table, scopes>>
                                         ELSE Enter(binding.opens, names)
            /\ Advance
  /\ UNCHANGED <<rows, history>>

OpenBody(s) ==
  /\ s.kind = "body"
  /\ scopes' = Opened("body", <<>>)
  /\ Advance
  /\ UNCHANGED <<code, table, rows, binding, history>>

OpenIf(s) ==
  /\ s.kind = "if"
  /\ IF s.lets = <<>>
     THEN Enter("if", <<>>) /\ Advance /\ UNCHANGED binding
     ELSE /\ binding' = Binds(s.lets, "if")
          /\ UNCHANGED <<code, table, scopes, todo, written, pass, status, error>>
  /\ UNCHANGED <<rows, history>>

OpenFor(s) ==
  /\ s.kind = "for"
  /\ table' = Named(Named(table, "for", Label), "cont", Label)
  /\ binding' = Binds(s.lets, "for")
  /\ UNCHANGED <<code, rows, scopes, todo, written, pass, status, error, history>>

(* Mutant: the last of an if's or for's variables keeps its name.          *)
LeavesButLast(f) == {f.vars[i] : i \in 1..Len(f.vars) - 1}

(* The SCOPE_EXIT of If and For.                                           *)
Leaves(f) == {f.vars[i] : i \in DOMAIN f.vars}

(* A statement with a scope ends.  What its statements deferred is         *)
(* compiled, and after that what it deferred itself, when the scopes       *)
(* around it get there.                                                    *)
Close ==
  /\ status = "compile" /\ Idle /\ Len(scopes) > 1
  /\ LET n     == Len(scopes)
         inner == scopes[n]
         known == IF inner.kind = "if" THEN Named(table, "cont", Label) ELSE table
     IN  IF Discard \in Leaves(inner) THEN Crash
         ELSE /\ table' = Restrict(known, DOMAIN known \ Leaves(inner))
              /\ code' = IF inner.kind = "body" THEN code ELSE Append(code, Branch)
              /\ scopes' = [SubSeq(scopes, 1, n - 1) EXCEPT
                              ![n - 1].exits = @ \o inner.exits \o inner.defers]
              /\ UNCHANGED <<rows, binding, todo, written, pass, status, error,
                             history>>

------------------------------------------------------------------------------
(* The other statements. *)

(* Defer::codegen does nothing; Body::codegen remembers the statement.     *)
Defer(s) ==
  /\ s.kind = "defer"
  /\ scopes' = [scopes EXCEPT ![Len(scopes)].defers = <<s.stmt>> \o @]
  /\ Advance
  /\ UNCHANGED <<code, table, rows, binding, history>>

(* DeclAssign::codegen.  Values for members are collected in a struct of   *)
(* their own (MemberInitList::codegen), which is then copied.              *)
MemberCode(s, at) ==
  [i \in 1..2 * Len(s.members) |->
     IF i % 2 = 1 THEN Inst("gep", PointerTo(Plain("int")), at)
                  ELSE Inst("store", Plain("int"), 0)]
Initialised(s, at) ==
  LET t == PointerTo(Plain(s.struct))
      members == MemberCode(s, at + 1)
      last == at + 2 + Len(members)
  IN  <<Inst("alloca", t, 0), Inst("alloca", t, 0)>> \o members
      \o <<Inst("load", Plain(s.struct), at + 1), Inst("store", Plain("int"), last)>>
DeclCode(s, at) ==
  IF s.members = <<>> THEN <<Inst("alloca", PointerTo(Plain(s.struct)), 0)>>
                      ELSE Initialised(s, at)

MemberAddress(s, m, at) ==
  LET i == CHOOSE j \in DOMAIN s.members : s.members[j] = m
  IN  [at |-> at + 2 * i, type |-> PointerTo(Plain("int"))]
DeclNames(s, at) ==
  [m \in DOMAIN table \cup {s.name} \cup {s.members[i] : i \in DOMAIN s.members} |->
     IF m \in DOMAIN table THEN table[m]
     ELSE IF m = s.name THEN [at |-> at, type |-> PointerTo(Plain(s.struct))]
     ELSE MemberAddress(s, m, at)]

DeclAssignStmt(s) ==
  /\ s.kind = "decl"
  /\ IF IsUnique(table, s.name)
     THEN LET at == Len(code) + 1
          IN  /\ code' = code \o DeclCode(s, at)
              /\ table' = DeclNames(s, at)
              /\ kept' = [m \in DOMAIN kept \cup {s.name} |->
                            IF m = s.name THEN at ELSE kept[m]]
              /\ Advance
              /\ UNCHANGED <<rows, binding, scopes, news>>
     ELSE Fail("exists", s.name)

(* What is emitted for a statement with one expression, given its value.   *)
Finish(r, is) ==
  /\ code' = r.code \o is /\ table' = r.table
  /\ Advance
  /\ UNCHANGED <<rows, binding, scopes, history>>

(* Delete::codegen: a cast for free, and the call.                         *)
Delete(s) ==
  /\ s.kind = "delete"
  /\ \/ Breaks(s.of) /\ Crash
     \/ ~Breaks(s.of) /\ Eval(s.of) = {} /\ Fail("value", Discard)
     \/ /\ ~Breaks(s.of)
        /\ \E r \in Eval(s.of) :
             \/ r.value.type.ptr = 0 /\ Fail("value", Discard)
             \/ /\ r.value.type.ptr > 0
                /\ Finish(r, <<Inst("cast", PointerTo(Plain("char")), r.value.at),
                               Inst("call", Plain("int"), Len(r.code) + 1)>>)

(* Assign::codegen of an int: the variable is a factor and not loaded.     *)
Assign(s) ==
  /\ s.kind = "assign"
  /\ \/ Breaks(s.of) /\ Crash
     \/ ~Breaks(s.of) /\ Factor(s.of) = {} /\ Fail("value", Discard)
     \/ /\ ~Breaks(s.of)
        /\ \E r \in Factor(s.of) :
             \/ r.value.type.ptr = 0 /\ Crash
             \/ /\ r.value.type.ptr > 0
                /\ r.value.type # PointerTo(Plain("int"))
                /\ Fail("value", Discard)
             \/ /\ r.value.type = PointerTo(Plain("int"))
                /\ Finish(r, <<Inst("store", Plain("int"), 0)>>)

(* buildFunction: the body is compiled, then what was deferred, then the   *)
(* function returns and pass::Ctor gets it.                                *)
BodyEnd ==
  /\ status = "compile" /\ Idle /\ Len(scopes) = 1
  /\ status' = "exit"
  /\ todo' = scopes[1].exits \o scopes[1].defers
  /\ scopes' = <<>>
  /\ UNCHANGED <<code, table, rows, binding, written, pass, error, history>>

Skip ==
  /\ status = "exit" /\ Idle /\ todo # <<>>
  /\ todo' = Tail(todo)
  /\ UNCHANGED <<code, table, rows, binding, scopes, written, pass, status, error,
                 history>>

FunctionEnd ==
  /\ status = "exit" /\ Idle /\ todo = <<>>
  /\ code' = Append(code, Inst("ret", Plain("int"), 0))
  /\ status' = "pass"
  /\ UNCHANGED <<table, rows, binding, scopes, todo, written, pass, error, history>>

------------------------------------------------------------------------------
(* Ctor::runOnFunction. *)

IsConstructed(t) == t.ptr = 1 /\ t.base \in Constructed

(* __ctor: a call right behind the instruction, if there is a constructor. *)
Construct(i) ==
  ctors' = IF IsConstructed(code[i].type) THEN Append(ctors, i) ELSE ctors

(* The first loop visits every alloca.                                     *)
VisitInstruction ==
  /\ status = "pass" /\ cursor < Len(code)
  /\ LET i == cursor + 1
     IN  IF code[i].op = "alloca" THEN Construct(i) ELSE UNCHANGED ctors
  /\ cursor' = cursor + 1
  /\ UNCHANGED <<compiler, status, error, history>>

(* What the instruction behind i has for its first operand: the object     *)
(* itself if that is a constructor call.                                   *)
Called(i) == \E k \in DOMAIN ctors : ctors[k] = i
OperandBehind(i) == IF Called(i) THEN i ELSE code[i + 1].arg

(* The second loop looks each row's variable up by its name and constructs *)
(* what the instruction behind it stores.  It trusts that there is such an *)
(* instruction, with an operand that is a pointer and an instruction.      *)
Row == rows[cursor - Len(code) + 1]
Dangles(i) == OperandBehind(i) = 0 \/ code[OperandBehind(i)].type.ptr = 0

VisitRow ==
  /\ status = "pass" /\ cursor \in Len(code)..Len(code) + Len(rows) - 1
  /\ LET found == {v.at : v \in Variables(Row)} \ {0}
     IN  \/ /\ found = {}
            /\ cursor' = cursor + 1
            /\ UNCHANGED <<compiler, ctors, status, error, history>>
         \/ \E i \in found :
              IF Dangles(i) THEN Crash
              ELSE /\ Construct(OperandBehind(i))
                   /\ cursor' = cursor + 1
                   /\ UNCHANGED <<compiler, status, error, history>>

PassEnd ==
  /\ status = "pass" /\ cursor = Len(code) + Len(rows)
  /\ status' = "done"
  /\ UNCHANGED <<compiler, pass, error, history>>

Ended == status \in {"done", "failed", "crash"} /\ UNCHANGED vars

------------------------------------------------------------------------------
Init ==
  /\ code = <<>> /\ rows = <<>> /\ todo = <<>> /\ written = 0
  /\ table = Named([n \in DOMAIN Params |-> [at |-> 0, type |-> Params[n]]],
                   "entry", Label)
  /\ binding = NoBinding
  /\ scopes = <<[kind |-> "body", vars |-> <<>>, defers |-> <<>>, exits |-> <<>>]>>
  /\ ctors = <<>> /\ cursor = 0
  /\ status = "compile" /\ error = [what |-> "none", name |-> Discard]
  /\ kept = [n \in {} |-> 0] /\ news = <<>>

Compile(s) ==
  \/ BeginLet(s) \/ OpenBody(s) \/ OpenIf(s) \/ OpenFor(s)
  \/ Defer(s) \/ DeclAssignStmt(s) \/ Delete(s) \/ Assign(s)

Next ==
  \/ \E s \in Coming : Compile(s)
  \/ LetStart \/ LetPart \/ LetValue \/ LetEnd
  \/ Close \/ BodyEnd \/ Skip \/ FunctionEnd
  \/ VisitInstruction \/ VisitRow \/ PassEnd
  \/ Ended

Spec == Init /\ [][Next]_vars
==============================================================================
