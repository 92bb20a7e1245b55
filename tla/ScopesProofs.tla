----------------------------- MODULE ScopesProofs -----------------------------
(***************************************************************************)
(* What names and objects may be relied on for, in every function.         *)
(*                                                                         *)
(* The compiler only ever adds to the code, and a name keeps its value     *)
(* until the if or for that declared it takes it back: Compiles says so of *)
(* every step before pass::Ctor, and the rest of the invariant follows     *)
(* action by action.  The pass changes nothing but its cursor and the list *)
(* of calls, and there the calls are counted.                              *)
(***************************************************************************)
EXTENDS ScopesInv, FiniteSetTheorems, SequenceTheorems, TLAPS

------------------------------------------------------------------------------
(* Code and tables *)

(* Instructions whose operands come before the end.                        *)
Coded(is) == is \in Seq(Instruction(Len(is)))

(* The code is, with more behind it.                                       *)
Extends(is, js) ==
  Len(is) <= Len(js) /\ \A i \in 1..Len(is) : js[i] = is[i]

(* The names, and what they stand for in the code is.                      *)
Tabled(is, names) ==
  /\ DOMAIN names \subseteq Var
  /\ \A n \in DOMAIN names : names[n] \in Value /\ Refers(is, names[n])

(* The names s, with the values they had, and maybe others.                *)
Enlarges(s, t) ==
  DOMAIN s \subseteq DOMAIN t /\ \A n \in DOMAIN s : t[n] = s[n]

(* A type is a record, and the kinds of types the compiler builds are      *)
(* types.                                                                  *)
LEMMA Types ==
  /\ \A t \in Type : t.base \in Base /\ t.ptr \in Nat
  /\ \A t \in Type : PointerTo(t) \in Type /\ PointerTo(t).ptr = t.ptr + 1
  /\ \A t \in Type : t.ptr > 0 => Element(t) \in Type /\ Element(t).ptr = t.ptr - 1
  /\ \A b \in Base : Plain(b) \in Type /\ Plain(b).ptr = 0 /\ Plain(b).base = b
  /\ {"int", "char", "pair", "func", "label"} \cup Struct \subseteq Base
<1>1. \A t \in Type : t.base \in Base /\ t.ptr \in Nat
  BY DEF Type
<1>2. \A t \in Type : PointerTo(t) = [base |-> t.base, ptr |-> t.ptr + 1]
  BY DEF Type, PointerTo
<1>3. \A t \in Type : Element(t) = [base |-> t.base, ptr |-> t.ptr - 1]
  BY DEF Type, Element
<1>4. \A b \in Base : Plain(b) \in Type /\ Plain(b).ptr = 0 /\ Plain(b).base = b
  BY DEF Type, Plain
<1>5. \A t \in Type : PointerTo(t) \in Type /\ PointerTo(t).ptr = t.ptr + 1
  BY <1>1, <1>2 DEF Type
<1>6. \A t \in Type : t.ptr > 0 => Element(t) \in Type /\ Element(t).ptr = t.ptr - 1
  BY <1>1, <1>3 DEF Type
<1> QED
  BY <1>1, <1>4, <1>5, <1>6 DEF Base

(* The values that are not computed.                                       *)
LEMMA Values0 ==
  /\ Constant \in Value /\ Constant.at = 0
  /\ Function \in Value /\ Function.at = 0
  /\ Label \in Value /\ Label.at = 0
  /\ \A is : Refers(is, Constant) /\ Refers(is, Function) /\ Refers(is, Label)
BY Types DEF Value, Constant, Function, Label, Refers

(* More code keeps what an instruction computes.                           *)
LEMMA RefersLater ==
  ASSUME NEW is, NEW js, Len(is) \in Nat, Len(js) \in Nat, Extends(is, js),
         NEW v \in Value, Refers(is, v)
  PROVE  Refers(js, v)
BY DEF Extends, Refers, Value

(* More code after it keeps a table.                                       *)
LEMMA TabledLater ==
  ASSUME NEW is, NEW js, Coded(is), Coded(js), Extends(is, js), NEW names,
         Tabled(is, names)
  PROVE  Tabled(js, names)
<1>1. Len(is) \in Nat /\ Len(js) \in Nat
  BY LenProperties DEF Coded
<1> QED
  BY <1>1, RefersLater DEF Tabled

(* Adding to the code twice is adding to it.                               *)
LEMMA ExtendsFurther ==
  ASSUME NEW is, NEW js, NEW ks, Coded(is), Coded(js), Coded(ks),
         Extends(is, js), Extends(js, ks)
  PROVE  Extends(is, ks)
<1>1. Len(is) \in Nat /\ Len(js) \in Nat /\ Len(ks) \in Nat
  BY LenProperties DEF Coded
<1> QED
  BY <1>1 DEF Extends

LEMMA ExtendsItself == \A is : Coded(is) => Extends(is, is)
<1>1. \A is : Coded(is) => Len(is) \in Nat
  BY LenProperties DEF Coded
<1> QED
  BY <1>1 DEF Extends

(* Instructions put behind the code, their operands in it or among them.   *)
LEMMA Emits ==
  ASSUME NEW is, Coded(is), NEW js,
         js \in Seq(Instruction(Len(is) + Len(js)))
  PROVE  /\ Coded(is \o js) /\ Extends(is, is \o js)
         /\ Len(is) \in Nat /\ Len(js) \in Nat
         /\ Len(is \o js) = Len(is) + Len(js)
         /\ \A i \in 1..Len(js) : (is \o js)[Len(is) + i] = js[i]
<1>1. Len(is) \in Nat /\ Len(js) \in Nat
  BY LenProperties DEF Coded
<1>2. Instruction(Len(is)) \subseteq Instruction(Len(is) + Len(js))
  BY <1>1 DEF Instruction
<1> DEFINE I == Instruction(Len(is) + Len(js))
<1>3. is \in Seq(I) /\ js \in Seq(I)
  BY <1>2, SeqMonotonic DEF Coded
<1> HIDE DEF I
<1>4. /\ is \o js \in Seq(I)
      /\ Len(is \o js) = Len(is) + Len(js)
      /\ \A i \in 1 .. Len(is) + Len(js) : (is \o js)[i] =
                     IF i <= Len(is) THEN is[i] ELSE js[i - Len(is)]
  BY <1>3, ConcatProperties
<1>5. \A i \in 1..Len(is) : (is \o js)[i] = is[i]
  BY <1>1, <1>4
<1>6. \A i \in 1..Len(js) : (is \o js)[Len(is) + i] = js[i]
  BY <1>1, <1>4
<1>7. Coded(is \o js)
  BY <1>4 DEF Coded, I
<1> QED
  BY <1>1, <1>4, <1>5, <1>6, <1>7 DEF Extends

(* One instruction, and two.                                               *)
LEMMA EmitsOne ==
  ASSUME NEW is, Coded(is), NEW x \in Instruction(Len(is) + 1)
  PROVE  /\ <<x>> \in Seq(Instruction(Len(is) + Len(<<x>>)))
         /\ Len(<<x>>) = 1 /\ <<x>>[1] = x
OBVIOUS

LEMMA EmitsTwo ==
  ASSUME NEW is, Coded(is), NEW x \in Instruction(Len(is) + 2),
         NEW y \in Instruction(Len(is) + 2)
  PROVE  /\ <<x, y>> \in Seq(Instruction(Len(is) + Len(<<x, y>>)))
         /\ Len(<<x, y>>) = 2 /\ <<x, y>>[1] = x /\ <<x, y>>[2] = y
OBVIOUS

(* An instruction that ends the code.                                      *)
LEMMA Appends ==
  ASSUME NEW is, Coded(is), NEW x \in Instruction(Len(is) + 1)
  PROVE  /\ Coded(Append(is, x)) /\ Extends(is, Append(is, x))
         /\ Len(is) \in Nat
         /\ Len(Append(is, x)) = Len(is) + 1
         /\ Append(is, x)[Len(is) + 1] = x
<1>1. Len(is) \in Nat
  BY LenProperties DEF Coded
<1> DEFINE I == Instruction(Len(is) + 1)
<1>2. is \in Seq(I)
  <2>1. Instruction(Len(is)) \subseteq I
    BY <1>1 DEF Instruction
  <2> HIDE DEF I
  <2> QED
    BY <2>1, SeqMonotonic DEF Coded
<1> HIDE DEF I
<1>3. /\ Append(is, x) \in Seq(I)
      /\ Len(Append(is, x)) = Len(is) + 1
      /\ \A i \in 1.. Len(is) : Append(is, x)[i] = is[i]
      /\ Append(is, x)[Len(is) + 1] = x
  BY <1>2, AppendProperties DEF I
<1>4. Coded(Append(is, x))
  BY <1>3 DEF Coded, I
<1> QED
  BY <1>1, <1>3, <1>4 DEF Extends

(* A name that is entered is added, or kept by the one that has it.        *)
LEMMA Names ==
  ASSUME NEW is, NEW names, Tabled(is, names), NEW n \in Var,
         NEW v \in Value, Refers(is, v)
  PROVE  /\ Tabled(is, Named(names, n, v)) /\ Enlarges(names, Named(names, n, v))
         /\ DOMAIN Named(names, n, v) = DOMAIN names \cup {n}
         /\ n \notin DOMAIN names => Named(names, n, v)[n] = v
<1>1. /\ DOMAIN Named(names, n, v) = DOMAIN names \cup {n}
      /\ \A m \in DOMAIN names : Named(names, n, v)[m] = names[m]
      /\ n \notin DOMAIN names => Named(names, n, v)[n] = v
  BY DEF Named
<1>2. ASSUME NEW m \in DOMAIN Named(names, n, v)
      PROVE  Named(names, n, v)[m] \in Value /\ Refers(is, Named(names, n, v)[m])
  <2>1. CASE m \in DOMAIN names
    BY <2>1, <1>1 DEF Tabled
  <2>2. CASE m \notin DOMAIN names
    BY <2>2, <1>1
  <2> QED
    BY <2>1, <2>2
<1> QED
  BY <1>1, <1>2 DEF Tabled, Enlarges

LEMMA EnlargesItself == \A s : Enlarges(s, s)
BY DEF Enlarges

LEMMA EnlargesFurther ==
  ASSUME NEW s, NEW t, NEW u, Enlarges(s, t), Enlarges(t, u)
  PROVE  Enlarges(s, u)
BY DEF Enlarges

------------------------------------------------------------------------------
(* Expressions *)

Store == Coded(code) /\ Tabled(code, table)

(* What compiling an expression leaves: more code, perhaps the name of a   *)
(* member, and a value the code computes.                                  *)
Yields(r) ==
  /\ Coded(r.code) /\ Extends(code, r.code)
  /\ Tabled(r.code, r.table) /\ Enlarges(table, r.table)
  /\ DOMAIN r.table \subseteq DOMAIN table \cup Field
  /\ r.value \in Value /\ Refers(r.code, r.value)

LEMMA EmittedYields ==
  ASSUME Store, NEW js, js \in Seq(Instruction(Len(code) + Len(js))), js # <<>>,
         NEW names, Tabled(code \o js, names), Enlarges(table, names),
         DOMAIN names \subseteq DOMAIN table \cup Field
  PROVE  /\ Yields(Emitted(js, names))
         /\ Emitted(js, names).value.type = js[Len(js)].type
<1>1. /\ Coded(code \o js) /\ Extends(code, code \o js)
      /\ Len(code) \in Nat /\ Len(js) \in Nat
      /\ Len(code \o js) = Len(code) + Len(js)
      /\ \A i \in 1..Len(js) : (code \o js)[Len(code) + i] = js[i]
  BY Emits DEF Store
<1>2. Len(js) > 0
  BY <1>1, EmptySeq, LenProperties
<1> DEFINE v == [at |-> Len(code) + Len(js), type |-> js[Len(js)].type]
<1>3. js[Len(js)] \in Instruction(Len(code) + Len(js))
  BY <1>1, <1>2, ElementOfSeq
<1>4. v \in Value
  BY <1>1, <1>3 DEF Value, Instruction
<1>5. Refers(code \o js, v)
  BY <1>1, <1>2 DEF Refers
<1>6. /\ Emitted(js, names).code = code \o js
      /\ Emitted(js, names).table = names
      /\ Emitted(js, names).value = v
  BY DEF Emitted, Result
<1>7. v.type = js[Len(js)].type
  OBVIOUS
<1> HIDE DEF v
<1> QED
  BY <1>1, <1>4, <1>5, <1>6, <1>7 DEF Yields

(* The same, when no name is entered.                                      *)
LEMMA EmittedYieldsOnly ==
  ASSUME Store, NEW js, js \in Seq(Instruction(Len(code) + Len(js))), js # <<>>
  PROVE  /\ Yields(Emitted(js, table))
         /\ Emitted(js, table).value.type = js[Len(js)].type
<1>1. Coded(code \o js) /\ Extends(code, code \o js)
  BY Emits DEF Store
<1>2. Tabled(code \o js, table)
  BY <1>1, TabledLater DEF Store
<1> QED
  BY <1>2, EmittedYields, EnlargesItself

(* A name stands for a value the code computes.                            *)
LEMMA Finds ==
  ASSUME Store, NEW n, NEW v, v \in Lookup(n) \/ v \in Variables(n)
  PROVE  v \in Value /\ Refers(code, v)
<1>1. CASE v = Function
  BY <1>1, Values0
<1>2. CASE \E m \in DOMAIN table : v = table[m]
  BY <1>2 DEF Store, Tabled
<1> QED
  BY <1>1, <1>2 DEF Lookup, Variables

(* What is known of an expression of each kind.                            *)
LEMMA Kinds ==
  ASSUME NEW e \in Expr
  PROVE  /\ e.kind \in {"const", "call", "new", "var", "addr", "place", "deref", "member"}
         /\ e.kind \in {"call", "new", "place"} => e.type \in Type
         /\ e.kind = "member" => e.member \in Field
BY DEF Expr, Variable

(* An instruction whose operand comes before the n-th.                     *)
LEMMA Insts ==
  ASSUME NEW op \in Ops, NEW t \in Type, NEW n \in Nat, NEW a \in 0..n,
         op = "alloca" => t.ptr > 0
  PROVE  Inst(op, t, a) \in Instruction(n) /\ Inst(op, t, a).type = t
         /\ Inst(op, t, a).arg = a /\ Inst(op, t, a).op = op
BY DEF Inst, Instruction

(* One more instruction on a value yields the value it computes.           *)
LEMMA ThenYields ==
  ASSUME Store, NEW r, Yields(r), NEW op \in Ops, op # "alloca", NEW t \in Type
  PROVE  Yields(Then(r, op, t))
<1>1. PICK is : is = r.code
  OBVIOUS
<1>2. Coded(is) /\ Extends(code, is) /\ Coded(code) /\ Len(is) \in Nat
  BY <1>1, LenProperties DEF Yields, Store, Coded
<1>3. PICK a : a = r.value.at
  OBVIOUS
<1>4. a \in 0..(Len(is) + 1)
  BY <1>1, <1>2, <1>3 DEF Yields, Value, Refers
<1>5. PICK x : x = Inst(op, t, a)
  OBVIOUS
<1>6. x \in Instruction(Len(is) + 1) /\ x.type = t
  BY <1>2, <1>4, <1>5, Insts
<1>7. PICK js : js = Append(is, x)
  OBVIOUS
<1>8. /\ Coded(js) /\ Extends(is, js) /\ Len(js) = Len(is) + 1
      /\ js[Len(is) + 1] = x
  BY <1>2, <1>6, <1>7, Appends
<1>9. Extends(code, js)
  BY <1>2, <1>8, ExtendsFurther
<1>10. PICK names : names = r.table
  OBVIOUS
<1>11. Tabled(is, names)
  BY <1>1, <1>10 DEF Yields
<1>12. Tabled(js, names)
  BY <1>2, <1>8, <1>11, TabledLater
<1>13. PICK v : v = [at |-> Len(is) + 1, type |-> t]
  OBVIOUS
<1>14. v \in Value /\ Refers(js, v)
  BY <1>2, <1>6, <1>8, <1>13 DEF Value, Refers
<1>15. Then(r, op, t) = [code |-> js, table |-> names, value |-> v]
  BY <1>1, <1>3, <1>5, <1>7, <1>10, <1>13 DEF Then, Result
<1>16. /\ Then(r, op, t).code = js /\ Then(r, op, t).table = names
       /\ Then(r, op, t).value = v
  BY <1>15
<1> QED
  BY <1>8, <1>9, <1>10, <1>12, <1>14, <1>16 DEF Yields

(* A load of an alloca, or nothing more.                                   *)
LEMMA TermYields ==
  ASSUME Store, NEW r, Yields(r)
  PROVE  Yields(Term(r))
<1>1. CASE Term(r) = r
  BY <1>1
<1>2. CASE /\ r.value.at # 0 /\ r.code[r.value.at].op = "alloca"
           /\ Term(r) = Then(r, "load", Element(r.value.type))
  <2>1. PICK is : is = r.code
    OBVIOUS
  <2>2. PICK a : a = r.value.at
    OBVIOUS
  <2>3. Coded(is) /\ a \in 1..Len(is) /\ is[a].type = r.value.type
    BY <1>2, <2>1, <2>2 DEF Yields, Refers
  <2>4. is[a] \in Instruction(Len(is))
    BY <2>3, ElementOfSeq DEF Coded
  <2>5. is[a].op = "alloca"
    BY <1>2, <2>1, <2>2
  <2>6. is[a].type \in Type /\ is[a].type.ptr > 0
    BY <2>4, <2>5 DEF Instruction
  <2>7. Element(r.value.type) \in Type
    BY <2>3, <2>6, Types
  <2>8. "load" \in Ops /\ "load" # "alloca"
    BY DEF Ops
  <2> QED
    BY <1>2, <2>7, <2>8, ThenYields
<1> QED
  BY <1>1, <1>2 DEF Term

(* A factor that compiles yields a value.                                  *)
LEMMA Factors ==
  ASSUME Store, NEW e \in Expr, ~Breaks(e), NEW r \in Factor(e)
  PROVE  Yields(r)
<1> USE DEF Ops
<1>0. Len(code) \in Nat /\ Coded(code) /\ Extends(code, code) /\ Tabled(code, table)
  BY LenProperties, ExtendsItself DEF Store, Coded
<1>1. ASSUME NEW v \in Value, Refers(code, v)
      PROVE  Yields(Result(code, table, v))
  BY <1>0, <1>1, EnlargesItself DEF Yields, Result
<1>2. ASSUME NEW v, v \in Lookup(e.var) \/ v \in Variables(e.var)
      PROVE  /\ v \in Value /\ Refers(code, v)
             /\ v.type \in Type /\ v.type.ptr \in Nat
             /\ v.at \in 0..Len(code)
  <2>1. v \in Value /\ Refers(code, v)
    BY <1>2, Finds
  <2> QED
    BY <2>1, <1>0, Types DEF Value, Refers
<1>3. CASE e.kind = "const"
  <2>1. r = Result(code, table, Constant)
    BY <1>3 DEF Factor
  <2> QED
    BY <2>1, <1>1, <1>3, Values0
<1>4. CASE e.kind = "call"
  <2> DEFINE x == Inst("call", e.type, 0)
  <2>1. r = Emitted(<<x>>, table)
    BY <1>4 DEF Factor
  <2>2. x \in Instruction(Len(code) + 1)
    BY <1>4, <1>0, Kinds, Insts
  <2> HIDE DEF x
  <2>3. <<x>> \in Seq(Instruction(Len(code) + Len(<<x>>))) /\ <<x>> # <<>>
    BY <2>2, <1>0, EmitsOne
  <2> QED
    BY <2>1, <2>3, <1>4, EmittedYieldsOnly
<1>5. CASE e.kind = "new"
  <2> DEFINE x == Inst("malloc", PointerTo(Plain("char")), 0)
             y == Inst("cast", PointerTo(e.type), Len(code) + 1)
  <2>1. r = Emitted(<<x, y>>, table)
    BY <1>5 DEF Factor, NewExpr
  <2>2. /\ PointerTo(e.type) \in Type /\ PointerTo(e.type).ptr > 0
        /\ PointerTo(Plain("char")) \in Type
    BY <1>5, Kinds, Types
  <2>3. /\ x \in Instruction(Len(code) + 2)
        /\ y \in Instruction(Len(code) + 2) /\ y.type = PointerTo(e.type)
    BY <2>2, <1>0, Insts
  <2> HIDE DEF x, y
  <2>4. /\ <<x, y>> \in Seq(Instruction(Len(code) + Len(<<x, y>>)))
        /\ <<x, y>> # <<>> /\ <<x, y>>[Len(<<x, y>>)] = y
    BY <2>3, <1>0, EmitsTwo
  <2> QED
    BY <2>1, <2>2, <2>3, <2>4, EmittedYieldsOnly
<1>6. CASE e.kind \in {"var", "addr"}
  <2>1. PICK v \in Lookup(e.var) : r = Result(code, table, v)
    BY <1>6 DEF Factor, Ident
  <2> QED
    BY <2>1, <1>1, <1>2
<1>7. CASE e.kind = "place"
  <2>1. PICK q \in Ident(e.var) : r = Placed(Term(q), e.type, e.var \notin DOMAIN table)
    BY <1>7 DEF Factor, Loaded
  <2>2. PICK v \in Lookup(e.var) : q = Result(code, table, v)
    BY <2>1 DEF Ident
  <2>3. Yields(q)
    BY <2>2, <1>1, <1>2
  <2>4. PICK p : p = Term(q)
    OBVIOUS
  <2>5. Yields(p)
    BY <2>3, <2>4, TermYields
  <2>6. PICK t : t = e.type
    OBVIOUS
  <2>7. t \in Type /\ "cast" \in Ops /\ "cast" # "alloca"
    BY <2>6, <1>7, Kinds
  <2>8. CASE r = p
    BY <2>5, <2>8
  <2>9. CASE r = Then(p, "cast", t)
    BY <2>5, <2>7, <2>9, ThenYields
  <2>10. CASE r = [p EXCEPT !.value = [at |-> 0, type |-> t]]
    <3>1. PICK w : w = [at |-> 0, type |-> t]
      OBVIOUS
    <3>2. w \in Value /\ \A is : Refers(is, w)
      BY <3>1, <2>7 DEF Value, Refers
    <3>3. p = Result(p.code, p.table, p.value)
      BY <2>2, <2>4 DEF Term, Then, Result
    <3>4. r.code = p.code /\ r.table = p.table /\ r.value = w
      BY <2>10, <3>1, <3>3 DEF Result
    <3> QED
      BY <2>5, <3>2, <3>4 DEF Yields
  <2> QED
    BY <2>1, <2>4, <2>6, <2>8, <2>9, <2>10 DEF Placed
<1>8. CASE e.kind = "deref"
  <2>1. PICK v \in Lookup(e.var) : v.type.ptr > 0 /\ r = Emitted(Deref(v), table)
    BY <1>8 DEF Factor
  <2> DEFINE x == Inst("load", Element(v.type), v.at)
             y == Inst("load", Element(Element(v.type)), Len(code) + 1)
  <2>2. v.type.ptr # 1
    BY <1>8, <2>1 DEF Breaks
  <2>3. Element(v.type) \in Type /\ Element(Element(v.type)) \in Type
    BY <2>1, <2>2, <1>2, Types
  <2>4. x \in Instruction(Len(code) + 2) /\ y \in Instruction(Len(code) + 2)
    BY <2>3, <1>0, <1>2, Insts
  <2>5. Deref(v) = <<x, y>>
    BY DEF Deref
  <2> HIDE DEF x, y
  <2>6. /\ <<x, y>> \in Seq(Instruction(Len(code) + Len(<<x, y>>)))
        /\ <<x, y>> # <<>>
    BY <2>4, <1>0, EmitsTwo
  <2> QED
    BY <2>1, <2>5, <2>6, <1>8, EmittedYieldsOnly
<1>9. CASE e.kind = "member"
  <2>1. PICK v \in Variables(e.var) : r = StructMember(v, e.member)
    BY <1>9 DEF Factor
  <2> DEFINE t == PointerTo(Plain("int"))
             x == Inst("gep", t, v.at)
             w == [at |-> Len(code) + 1, type |-> t]
  <2>2. r = Emitted(<<x>>, Named(table, e.member, w))
    BY <2>1 DEF StructMember
  <2>3. t \in Type /\ e.member \in Field /\ e.member \in Var
    BY <1>9, Kinds, Types, NameAssumption
  <2>4. x \in Instruction(Len(code) + 1) /\ x.type = t
    BY <2>3, <1>0, <1>2, Insts
  <2>5. w \in Value /\ w.at = Len(code) + 1 /\ w.type = t
    BY <2>3, <1>0 DEF Value
  <2> HIDE DEF x, t, w
  <2>6. /\ <<x>> \in Seq(Instruction(Len(code) + Len(<<x>>))) /\ <<x>> # <<>>
        /\ Len(<<x>>) = 1 /\ <<x>>[1] = x
    BY <2>4, <1>0, EmitsOne
  <2>7. /\ Coded(code \o <<x>>) /\ Extends(code, code \o <<x>>)
        /\ Len(code \o <<x>>) = Len(code) + 1
        /\ (code \o <<x>>)[Len(code) + 1] = x
    <3>1. PICK js : js = <<x>>
      OBVIOUS
    <3>2. js \in Seq(Instruction(Len(code) + Len(js)))
      BY <3>1, <2>6
    <3>3. /\ Coded(code \o js) /\ Extends(code, code \o js)
          /\ Len(code \o js) = Len(code) + Len(js)
          /\ \A i \in 1..Len(js) : (code \o js)[Len(code) + i] = js[i]
      BY <3>2, <1>0, Emits
    <3>4. Len(js) = 1 /\ js[1] = x
      BY <3>1, <2>6
    <3> QED
      BY <3>1, <3>3, <3>4
  <2>8. Refers(code \o <<x>>, w)
    BY <2>4, <2>5, <2>7, <1>0 DEF Refers
  <2>9. Tabled(code \o <<x>>, table)
    BY <2>7, <1>0, TabledLater
  <2>10. /\ Tabled(code \o <<x>>, Named(table, e.member, w))
         /\ Enlarges(table, Named(table, e.member, w))
         /\ DOMAIN Named(table, e.member, w) \subseteq DOMAIN table \cup Field
    <3>1. PICK js : js = code \o <<x>>
      OBVIOUS
    <3>2. Tabled(js, table) /\ Refers(js, w)
      BY <3>1, <2>8, <2>9
    <3>3. PICK m : m = e.member
      OBVIOUS
    <3>4. m \in Var /\ m \in Field
      BY <3>3, <2>3
    <3>5. PICK u : u = w
      OBVIOUS
    <3>6. u \in Value /\ Refers(js, u)
      BY <3>2, <3>5, <2>5
    <3>7. /\ Tabled(js, Named(table, m, u)) /\ Enlarges(table, Named(table, m, u))
          /\ DOMAIN Named(table, m, u) = DOMAIN table \cup {m}
      BY ONLY <3>2, <3>4, <3>6, Names
    <3> QED
      BY <3>1, <3>3, <3>4, <3>5, <3>7
  <2> QED
    BY <2>2, <2>6, <2>10, <1>9, EmittedYields
<1> QED
  BY <1>3, <1>4, <1>5, <1>6, <1>7, <1>8, <1>9, Kinds

(* So does an expression.                                                  *)
LEMMA Evaluates ==
  ASSUME Store, NEW e \in Expr, ~Breaks(e), NEW r \in Eval(e)
  PROVE  Yields(r)
<1>1. CASE r \in Factor(e)
  BY <1>1, Factors
<1>2. CASE \E q \in Factor(e) : r = Term(q)
  BY <1>2, Factors, TermYields
<1> QED
  BY <1>1, <1>2 DEF Eval

------------------------------------------------------------------------------
(* The source *)

(* What is known of a statement of each kind.                              *)
LEMMA StatementKinds ==
  ASSUME NEW s \in Statement
  PROVE  /\ s.kind = "let" => s \in LetExpr
         /\ s.kind = "decl" => /\ s.name \in Var /\ s.struct \in Struct
                               /\ s.members \in Seq(Field)
         /\ s.kind = "delete" => s.of \in Expr
         /\ s.kind = "assign" => s.of \in Expr
         /\ s.kind = "if" => s.lets \in Seq(LetExpr)
         /\ s.kind = "for" => s.lets \in Seq(LetExpr) /\ s.lets # <<>>
         /\ s.kind = "defer" => s.stmt \in Simple
         /\ s \in Simple => s.kind \in {"let", "decl", "delete", "assign"}
<1>1. s \in LetExpr => s.kind = "let"
  BY DEF LetExpr
<1>2. s \in DeclAssign => /\ s.kind = "decl" /\ s.name \in Var /\ s.struct \in Struct
                          /\ s.members \in Seq(Field)
  BY DEF DeclAssign
<1>3. s \in [kind : {"delete"}, of : Expr] => s.kind = "delete" /\ s.of \in Expr
  OBVIOUS
<1>4. s \in [kind : {"assign"}, of : Variable] => s.kind = "assign" /\ s.of \in Variable
  OBVIOUS
<1>5. s \in [kind : {"body"}] => s.kind = "body"
  OBVIOUS
<1>6. s \in [kind : {"if"}, lets : Seq(LetExpr)] =>
        s.kind = "if" /\ s.lets \in Seq(LetExpr)
  OBVIOUS
<1>7. s \in {t \in [kind : {"for"}, lets : Seq(LetExpr)] : Len(t.lets) = 1} =>
        s.kind = "for" /\ s.lets \in Seq(LetExpr) /\ s.lets # <<>>
  <2>1. Len(<<>>) # 1
    OBVIOUS
  <2> QED
    BY <2>1
<1>8. s \in [kind : {"defer"}, stmt : Simple] => s.kind = "defer" /\ s.stmt \in Simple
  OBVIOUS
<1>9. s \in Simple =>
        \/ s.kind = "let" /\ s \in LetExpr
        \/ /\ s.kind = "decl" /\ s.name \in Var /\ s.struct \in Struct
           /\ s.members \in Seq(Field)
        \/ s.kind = "delete" /\ s.of \in Expr
        \/ s.kind = "assign" /\ s.of \in Expr
  <2>1. Variable \subseteq Expr
    BY DEF Expr
  <2> QED
    BY <1>1, <1>2, <1>3, <1>4, <2>1 DEF Simple
<1>10. \/ s \in Simple \/ s \in [kind : {"body"}]
       \/ s \in [kind : {"if"}, lets : Seq(LetExpr)]
       \/ s \in {t \in [kind : {"for"}, lets : Seq(LetExpr)] : Len(t.lets) = 1}
       \/ s \in [kind : {"defer"}, stmt : Simple]
  BY DEF Statement
<1> QED
  BY <1>5, <1>6, <1>7, <1>8, <1>9, <1>10

LEMMA LetKinds ==
  ASSUME NEW s \in LetExpr
  PROVE  /\ s.names \in Seq(Var \cup {Discard}) /\ s.values \in Seq(Expr)
         /\ Len(s.names) \in Nat /\ Len(s.values) \in Nat
         /\ Len(s.names) > 0 /\ Len(s.values) > 0
         /\ \A i \in 1..Len(s.names) : s.names[i] \in Var \cup {Discard}
         /\ \A i \in 1..Len(s.values) : s.values[i] \in Expr
<1>1. /\ s.names \in Seq(Var \cup {Discard}) /\ s.values \in Seq(Expr)
      /\ s.names # <<>> /\ s.values # <<>>
  BY DEF LetExpr
<1> QED
  BY <1>1, LenProperties, ElementOfSeq, EmptySeq

(* A let under way.                                                        *)
LEMMA BindingKinds ==
  ASSUME binding \in Binding
  PROVE  /\ binding.lets \in Seq(LetExpr) /\ binding.at \in Nat
         /\ binding.from \in Value /\ binding.opens \in {"none", "if", "for"}
         /\ binding.vars \in Seq(Var \cup {Discard})
         /\ ~Idle => Let \in LetExpr /\ Tail(binding.lets) \in Seq(LetExpr)
<1>1. /\ binding.lets \in Seq(LetExpr) /\ binding.at \in Nat
      /\ binding.from \in Value /\ binding.opens \in {"none", "if", "for"}
      /\ binding.vars \in Seq(Var \cup {Discard})
  BY DEF Binding
<1>2. ~Idle => Let \in LetExpr /\ Tail(binding.lets) \in Seq(LetExpr)
  BY <1>1, HeadTailProperties DEF Idle, Let
<1> QED
  BY <1>1, <1>2

LEMMA NextNames ==
  ASSUME binding \in Binding, NEW v \in Value
  PROVE  /\ NextName \in Binding /\ NextName.lets = binding.lets
         /\ NextName.at = binding.at + 1 /\ NextName.from = binding.from
         /\ NextName.opens = binding.opens /\ NextName.vars = binding.vars
         /\ [NextName EXCEPT !.from = v] \in Binding
         /\ [NextName EXCEPT !.from = v].lets = binding.lets
         /\ [NextName EXCEPT !.from = v].at = binding.at + 1
         /\ [NextName EXCEPT !.from = v].from = v
         /\ [NextName EXCEPT !.from = v].opens = binding.opens
         /\ [NextName EXCEPT !.from = v].vars = binding.vars
<1>1. NextName = [lets |-> binding.lets, at |-> binding.at + 1,
                  from |-> binding.from, opens |-> binding.opens,
                  vars |-> binding.vars]
  BY DEF NextName, Binding
<1>2. PICK b : b = NextName
  OBVIOUS
<1>3. [b EXCEPT !.from = v] = [lets |-> binding.lets, at |-> binding.at + 1,
                               from |-> v, opens |-> binding.opens,
                               vars |-> binding.vars]
  BY <1>1, <1>2
<1> QED
  BY <1>1, <1>2, <1>3, BindingKinds DEF Binding

(* What a binding is when lets begin.                                      *)
LEMMA Begins ==
  ASSUME NEW lets \in Seq(LetExpr), NEW opens \in {"none", "if", "for"}
  PROVE  /\ Binds(lets, opens) \in Binding
         /\ Binds(lets, opens).lets = lets /\ Binds(lets, opens).at = 0
         /\ Binds(lets, opens).from = Constant
         /\ Binds(lets, opens).opens = opens /\ Binds(lets, opens).vars = <<>>
<1>1. Constant \in Value /\ <<>> \in Seq(Var \cup {Discard}) /\ 0 \in Nat
  BY Values0, EmptySeq
<1> QED
  BY <1>1 DEF Binds, Binding

(* A frame, and its parts.                                                 *)
LEMMA FrameKinds ==
  ASSUME NEW f \in Frame
  PROVE  /\ f.kind \in {"body", "if", "for"} /\ f.vars \in Seq(Var \cup {Discard})
         /\ f.defers \in Seq(Simple) /\ f.exits \in Seq(Simple)
BY DEF Frame

------------------------------------------------------------------------------
(* What every step before the pass does *)

Kept ==
  DOMAIN kept \subseteq Var /\ \A n \in DOMAIN kept : kept[n] \in 1..Len(code)

Typed ==
  /\ rows \in Seq(Var) /\ binding \in Binding /\ scopes \in Seq(Frame)
  /\ todo \in Seq(Simple) /\ written \in 0..MaxStatements /\ status \in Statuses
  /\ error \in [what : {"none", "count", "exists", "value"}, name : Var \cup {Discard}]
  /\ news \in Seq(New)

Compiling == status \in {"compile", "exit"}

(* A let or another statement may end here: there is one to count.         *)
Counted ==
  /\ status = "compile" => written < MaxStatements
  /\ status = "exit" => todo # <<>>

(* The code and the kept variables are only added to, and nothing of       *)
(* pass::Ctor begins.                                                      *)
Compiles ==
  /\ Store' /\ Extends(code, code')
  /\ Kept' /\ Enlarges(kept, kept')
  /\ Refers(code', binding'.from)
  /\ UNCHANGED pass
  /\ status' # "done"
  /\ status' = "pass" => \A n \in DOMAIN table' : table'[n].at < Len(code')

(* An action before the pass does that and keeps the rest in shape.        *)
Goes == Compiles /\ Typed' /\ Shape' /\ NamesInv'

(* What the invariant says of the state such an action starts in.          *)
Ready ==
  /\ Compiling /\ Store /\ Kept /\ Typed /\ Refers(code, binding.from)
  /\ Shape /\ NamesInv

LEMMA IInvReady == IInv /\ Compiling => Ready
<1>1. ASSUME IInv
      PROVE  Store
  <2>1. Len(code) \in Nat
    BY <1>1, LenProperties DEF IInv, TypeOK
  <2> QED
    BY <1>1, <2>1 DEF IInv, TypeOK, Values, Store, Coded, Tabled
<1> QED
  BY <1>1 DEF IInv, TypeOK, Values, Ready, Kept, Typed

LEMMA ComingIs ==
  ASSUME Ready, NEW s \in Coming
  PROVE  /\ Idle /\ Counted /\ s \in Statement
         /\ status = "exit" => s \in Simple
<1>1. Idle
  BY DEF Coming
<1>2. CASE status = "compile"
  BY <1>1, <1>2, StatementsAssumption DEF Coming, Counted
<1>3. CASE status = "exit"
  <2>1. PICK i \in DOMAIN todo \cap {1} : s = todo[i]
    BY <1>1, <1>3 DEF Coming
  <2>2. todo \in Seq(Simple)
    BY DEF Ready, Typed
  <2>3. s \in Simple /\ todo # <<>>
    BY <2>1, <2>2, ElementOfSeq, LenProperties, EmptySeq
  <2>4. Simple \subseteq Statement
    BY DEF Statement
  <2> QED
    BY <2>3, <2>4, <1>1, <1>3 DEF Counted
<1> QED
  BY <1>2, <1>3 DEF Ready, Compiling

(* A statement is done.                                                    *)
LEMMA Advances ==
  ASSUME Ready, Counted, Advance
  PROVE  /\ written' \in 0..MaxStatements /\ todo' \in Seq(Simple)
         /\ UNCHANGED <<status, error, pass>>
<1>1. /\ written \in 0..MaxStatements /\ todo \in Seq(Simple)
      /\ MaxStatements \in Nat
  BY SizeAssumption DEF Ready, Typed
<1>2. UNCHANGED <<status, error, pass>>
  BY DEF Advance
<1>3. CASE status = "compile" /\ written' = written + 1 /\ todo' = todo
  BY <1>1, <1>2, <1>3 DEF Counted
<1>4. CASE status = "exit" /\ written' = written /\ todo' = Tail(todo)
  BY <1>1, <1>2, <1>4, HeadTailProperties DEF Counted
<1>5. CASE written' = written /\ todo' = todo
  BY <1>1, <1>2, <1>5
<1> QED
  BY <1>3, <1>4, <1>5 DEF Advance

(* The heads of ifs and fors are as they were.                             *)
SameHeads ==
  Heads' = Heads /\ \A i \in Heads : HeadNames(i)' = HeadNames(i)

LEMMA SameScopes == scopes' = scopes => SameHeads
BY DEF SameHeads, Heads, HeadNames

(* New names that are blocks' or members' disturb no others.               *)
LEMMA NamesStay ==
  ASSUME NamesInv, SameHeads, Pending' = Pending, Enlarges(table, table'),
         DOMAIN table' \subseteq DOMAIN table \cup Given, kept' = kept
  PROVE  NamesInv'
<1>1. Scoped' = Scoped
  BY DEF SameHeads, Scoped
<1>2. \A n \in DOMAIN kept : n \in DOMAIN table' /\ table'[n] = table[n]
  BY DEF NamesInv, Enlarges
<1>3. Scoped \cup Pending \subseteq DOMAIN table' \ DOMAIN kept
  BY DEF NamesInv, Enlarges
<1>4. DOMAIN table' \subseteq Scoped \cup Pending \cup DOMAIN kept \cup Given
  BY DEF NamesInv
<1>5. \A i \in Heads' : HeadNames(i)' \cap Pending' = {}
  BY DEF NamesInv, SameHeads
<1>6. \A i, j \in Heads' : i # j => HeadNames(i)' \cap HeadNames(j)' = {}
  BY DEF NamesInv, SameHeads
<1>7. Given' = Given
  BY DEF Given
<1>8. \A n \in DOMAIN kept : n \in DOMAIN table /\ table[n].at = kept[n]
  BY DEF NamesInv
<1>9. \A n \in DOMAIN kept' : n \in DOMAIN table' /\ table'[n].at = kept'[n]
  BY <1>2, <1>8
<1> QED
  BY <1>1, <1>3, <1>4, <1>5, <1>6, <1>7, <1>9 DEF NamesInv

------------------------------------------------------------------------------
(* Steps that leave the code, or only add to it *)

LEMMA GrownCompiles ==
  ASSUME Ready, Coded(code'), Extends(code, code'), Tabled(code', table'),
         kept' = kept, Refers(code', binding'.from), UNCHANGED pass,
         status' \notin {"done", "pass"}
  PROVE  Compiles
<1>1. Len(code) \in Nat /\ Len(code') \in Nat
  BY LenProperties DEF Coded, Ready, Store
<1>2. Kept'
  BY <1>1 DEF Kept, Extends, Ready
<1> QED
  BY <1>2, EnlargesItself DEF Compiles, Store

LEMMA StillCompiles ==
  ASSUME Ready, UNCHANGED <<code, table, kept, pass>>,
         Refers(code, binding'.from), status' \notin {"done", "pass"}
  PROVE  Compiles
<1>1. Coded(code) /\ Tabled(code, table) /\ Extends(code, code)
  BY ExtendsItself DEF Ready, Store
<1> QED
  BY <1>1, GrownCompiles

LEMMA SamePending == binding' = binding => Pending' = Pending
BY DEF Pending, Idle, Let

LEMMA ShapeStays ==
  ASSUME Ready, UNCHANGED <<scopes, pass, written, todo, status>>,
         ~Idle' => /\ Counted
                   /\ binding'.at > 0 => Len(Let'.values) <= Len(Let'.names)
  PROVE  Shape'
BY DEF Ready, Shape, Counted, Compiling, Let, pass

(* An error, and an end without one.                                       *)
LEMMA FailGoes ==
  ASSUME Ready, NEW what \in {"none", "count", "exists", "value"},
         NEW n \in Var \cup {Discard}, Fail(what, n)
  PROVE  Goes
<1>1. /\ error' = [what |-> what, name |-> n] /\ status' \in {"crash", "failed"}
      /\ UNCHANGED <<code, table, rows, binding, scopes, todo, written, pass,
                     kept, news>>
  BY DEF Fail, compiler, history
<1>2. Compiles
  BY <1>1, StillCompiles DEF Ready
<1>3. Typed'
  BY <1>1 DEF Ready, Typed, Statuses
<1>4. Shape'
  BY <1>1 DEF Ready, Shape, Idle, Let
<1>5. NamesInv'
  BY <1>1, NamesStay, SameScopes, SamePending, EnlargesItself DEF Ready
<1> QED
  BY <1>2, <1>3, <1>4, <1>5 DEF Goes

LEMMA CrashGoes ==
  ASSUME Ready, Crash
  PROVE  Goes
<1>1. /\ status' = "crash"
      /\ UNCHANGED <<code, table, rows, binding, scopes, todo, written, pass,
                     error, kept, news>>
  BY DEF Crash, compiler, history
<1>2. Compiles
  BY <1>1, StillCompiles DEF Ready
<1>3. Typed'
  BY <1>1 DEF Ready, Typed, Statuses
<1>4. Shape'
  BY <1>1 DEF Ready, Shape, Idle, Let
<1>5. NamesInv'
  BY <1>1, NamesStay, SameScopes, SamePending, EnlargesItself DEF Ready
<1> QED
  BY <1>2, <1>3, <1>4, <1>5 DEF Goes

(* Nothing is pending where no let is under way, or one just begins.       *)
LEMMA NonePending ==
  ASSUME NEW b, binding' = b, 
         b.lets = <<>> \/ b.opens = "none" \/ (b.at = 0 /\ b.vars = <<>>)
  PROVE  Pending' = {}
<1>1. CASE b.lets = <<>> \/ b.opens = "none"
  BY <1>1 DEF Pending, Idle
<1>2. CASE b.at = 0 /\ b.vars = <<>>
  <2>1. 1..(b.at - 1) = {}
    BY <1>2
  <2>2. Range(b.vars) = {}
    BY <1>2 DEF Range
  <2> QED
    BY <2>1, <2>2 DEF Pending
<1> QED
  BY <1>1, <1>2

LEMMA IdlePending == Idle => Pending = {}
BY DEF Pending

LEMMA BeginLetGoes ==
  ASSUME Ready, NEW s \in Coming, BeginLet(s)
  PROVE  Goes
<1>1. /\ binding' = Binds(<<s>>, "none")
      /\ UNCHANGED <<code, table, rows, scopes, todo, written, pass, status, error,
                     kept, news>>
  BY DEF BeginLet, history
<1>2. s \in LetExpr /\ Idle /\ Counted
  BY ComingIs, StatementKinds DEF BeginLet
<1>3. <<s>> \in Seq(LetExpr)
  BY <1>2
<1>4. /\ binding' \in Binding /\ binding'.at = 0 /\ binding'.opens = "none"
      /\ binding'.from = Constant
  BY <1>1, <1>3, Begins
<1>5. Compiles
  BY <1>1, <1>4, StillCompiles, Values0 DEF Ready, Compiling
<1>6. Typed'
  BY <1>1, <1>4 DEF Ready, Typed
<1>7. Shape'
  BY <1>1, <1>2, <1>4, ShapeStays
<1>8. Pending' = Pending
  BY <1>2, <1>4, NonePending, IdlePending
<1>9. NamesInv'
  BY <1>1, <1>8, NamesStay, SameScopes, EnlargesItself DEF Ready
<1> QED
  BY <1>5, <1>6, <1>7, <1>9 DEF Goes

(* The code and the table an expression leaves.                            *)
LEMMA YieldsGoes ==
  ASSUME Ready, NEW r, Yields(r), code' = r.code, table' = r.table, kept' = kept,
         UNCHANGED <<status, pass>>, Refers(code', binding'.from),
         SameHeads, Pending' = Pending
  PROVE  Compiles /\ NamesInv'
<1>1. Field \subseteq Given
  BY DEF Given
<1>2. Compiles
  BY GrownCompiles DEF Yields, Ready, Compiling
<1>3. NamesInv'
  BY <1>1, NamesStay DEF Yields, Ready
<1> QED
  BY <1>2, <1>3

LEMMA LetStartGoes ==
  ASSUME Ready, LetStart
  PROVE  Goes
<1>1. /\ ~Idle /\ binding.at = 0 /\ Counted
      /\ binding \in Binding /\ binding.lets \in Seq(LetExpr)
      /\ Let \in LetExpr /\ Let.values[1] \in Expr
      /\ Len(Let.values) \in Nat /\ Len(Let.names) \in Nat
  BY BindingKinds, LetKinds DEF LetStart, Letting, Ready, Typed, Shape, Counted, Compiling
<1>2. Discard \in Var \cup {Discard}
  OBVIOUS
<1>3. CASE Fail("count", Discard) \/ Fail("value", Discard)
  BY <1>3, <1>2, FailGoes
<1>4. CASE Crash
  BY <1>4, CrashGoes
<1>5. ASSUME NEW v \in Value, binding' = [NextName EXCEPT !.from = v],
             Refers(code', v), Len(Let.values) <= Len(Let.names),
             UNCHANGED <<rows, scopes, todo, written, pass, status, error, kept, news>>
      PROVE  /\ Typed' /\ Shape' /\ SameHeads /\ Pending' = Pending
             /\ Refers(code', binding'.from)
  <2>1. /\ binding' \in Binding /\ binding'.lets = binding.lets
        /\ binding'.from = v /\ binding'.at = 1 /\ binding'.opens = binding.opens
        /\ binding'.vars = binding.vars
    BY <1>1, <1>5, NextNames
  <2>2. Let' = Let /\ Idle' = Idle
    BY <2>1 DEF Let, Idle
  <2>3. Typed'
    BY <1>5, <2>1 DEF Ready, Typed
  <2>4. Shape'
    BY <1>1, <1>5, <2>1, <2>2, ShapeStays
  <2>5. Pending' = Pending
    <3>1. 1..(binding.at - 1) = {} /\ 1..(binding'.at - 1) = {}
      BY <1>1, <2>1
    <3> QED
      BY <2>1, <2>2, <3>1 DEF Pending
  <2> QED
    BY <1>5, <2>1, <2>3, <2>4, <2>5, SameScopes
<1>6. CASE /\ Len(Let.values) = Len(Let.names) /\ binding' = NextName
           /\ UNCHANGED <<code, table, rows, scopes, todo, written, pass, status,
                          error, history>>
  <2>1. /\ binding.from \in Value /\ NextName.from = binding.from
        /\ NextName = [NextName EXCEPT !.from = binding.from]
    BY <1>1, BindingKinds DEF Binding, NextName
  <2>2. Refers(code', binding.from)
    BY <1>6 DEF Ready
  <2>3. /\ Typed' /\ Shape' /\ SameHeads /\ Pending' = Pending
        /\ Refers(code', binding'.from)
    BY <1>1, <1>5, <1>6, <2>1, <2>2 DEF history
  <2>4. Compiles
    BY <1>6, <2>3, StillCompiles DEF Ready, Compiling, history
  <2>5. NamesInv'
    BY <1>6, <2>3, NamesStay, EnlargesItself DEF Ready, history
  <2> QED
    BY <2>3, <2>4, <2>5 DEF Goes
<1>7. ASSUME TakesApart, ~Breaks(Let.values[1]), NEW r \in Eval(Let.values[1]),
             code' = r.code, table' = r.table,
             binding' = [NextName EXCEPT !.from = r.value],
             UNCHANGED <<rows, scopes, todo, written, pass, status, error, history>>
      PROVE  Goes
  <2>1. Yields(r)
    BY <1>1, <1>7, Evaluates DEF Ready
  <2>2. r.value \in Value /\ Refers(code', r.value) /\ Len(Let.values) <= Len(Let.names)
    BY <2>1, <1>1, <1>7 DEF Yields, TakesApart
  <2>3. /\ Typed' /\ Shape' /\ SameHeads /\ Pending' = Pending
        /\ Refers(code', binding'.from)
    BY <1>5, <1>7, <2>2 DEF history
  <2>4. Compiles /\ NamesInv'
    BY <1>7, <2>1, <2>3, YieldsGoes DEF history
  <2> QED
    BY <2>3, <2>4 DEF Goes
<1> QED
  BY <1>3, <1>4, <1>6, <1>7 DEF LetStart

------------------------------------------------------------------------------
(* Variables *)

(* A let has come past a name.                                             *)
LEMMA NextPending ==
  ASSUME binding \in Binding, ~Idle, binding.at \in 1..Len(Let.names),
         binding'.lets = binding.lets, binding'.at = binding.at + 1,
         binding'.opens = binding.opens, binding'.vars = binding.vars
  PROVE  /\ binding.opens = "none" \/ NewName = Discard => Pending' = Pending
         /\ binding.opens # "none" /\ NewName # Discard =>
              Pending' = Pending \cup {NewName}
<1>1. Len(Let.names) \in Nat /\ binding.at \in Nat
  BY BindingKinds, LetKinds
<1>2. Let' = Let /\ Idle' = Idle
  BY DEF Let, Idle
<1> DEFINE I == 1..Len(Let.names) \cap 1..(binding.at - 1)
           J == 1..Len(Let.names) \cap 1..(binding.at + 1 - 1)
<1>3. J = I \cup {binding.at}
  BY <1>1
<1> HIDE DEF I, J
<1>4. {Let.names[i] : i \in J} = {Let.names[i] : i \in I} \cup {NewName}
  BY <1>3 DEF NewName
<1>5. CASE binding.opens = "none"
  BY <1>5 DEF Pending
<1>6. CASE binding.opens # "none"
  <2>1. Pending = (Range(binding.vars) \cup {Let.names[i] : i \in I}) \ {Discard}
    BY <1>6 DEF Pending, I
  <2>2. Pending' = (Range(binding.vars) \cup {Let.names[i] : i \in J}) \ {Discard}
    BY <1>2, <1>6 DEF Pending, J
  <2> QED
    BY <2>1, <2>2, <1>4, <1>6
<1> QED
  BY <1>5, <1>6

(* The shape and the types of a let that goes on.                          *)
LEMMA LetGoesOn ==
  ASSUME Ready, ~Idle, binding.at \in 1..Len(Let.names), binding' = NextName,
         rows' \in Seq(Var), news' \in Seq(New),
         UNCHANGED <<scopes, todo, written, pass, status, error>>
  PROVE  Typed' /\ Shape' /\ SameHeads
<1>1. /\ binding \in Binding /\ Len(Let.names) \in Nat /\ binding.at > 0
      /\ Len(Let.values) <= Len(Let.names) /\ Counted
  BY BindingKinds, LetKinds DEF Ready, Typed, Shape, Counted
<1>2. PICK v : v = binding.from
  OBVIOUS
<1>3. v \in Value
  BY <1>1, <1>2, BindingKinds
<1>4. /\ NextName \in Binding /\ NextName.lets = binding.lets
      /\ NextName.at = binding.at + 1
  BY <1>1, <1>3, NextNames
<1>5. Let' = Let
  BY <1>4 DEF Let
<1>6. Typed'
  BY <1>4 DEF Ready, Typed
<1>7. Shape'
  BY <1>1, <1>5, ShapeStays
<1> QED
  BY <1>6, <1>7, SameScopes

(* The name of the let a variable is declared for.                         *)
LEMMA NewNames ==
  ASSUME binding \in Binding, ~Idle, binding.at \in 1..Len(Let.names)
  PROVE  NewName \in Var \cup {Discard}
BY BindingKinds, LetKinds DEF NewName

(* A new variable: its memory, the store of its value, and its name.       *)
LEMMA Declares ==
  ASSUME Ready, ~Idle, binding.at \in 1..Len(Let.names), NewName # Discard,
         NEW is, Coded(is), Extends(code, is),
         NEW names, Tabled(is, names), Enlarges(table, names),
         DOMAIN names \subseteq DOMAIN table \cup Given, NewName \notin DOMAIN names,
         NEW v, v \in Value, Refers(is, v), Declare(is, names, v),
         rows' \in Seq(Var), news' \in Seq(New),
         UNCHANGED <<scopes, todo, written, pass, status, error>>
  PROVE  /\ Goes /\ Coded(code') /\ Extends(is, code')
         /\ Len(code') = Len(is) + 2 /\ Len(is) \in Nat
         /\ code'[Len(is) + 1].type = PointerTo(v.type)
         /\ code'[Len(is) + 2].arg = v.at
         /\ binding.opens = "none" =>
              NewName \in DOMAIN kept' /\ kept'[NewName] = Len(is) + 1
<1>1. /\ code' = is \o Alloca(v)
      /\ table' = Named(names, NewName, [at |-> Len(is) + 1, type |-> PointerTo(v.type)])
      /\ Keep(NewName, Len(is) + 1)
      /\ binding' = NextName
  BY DEF Declare
<1>2. /\ v.at \in Nat /\ v.type \in Type /\ PointerTo(v.type) \in Type
      /\ PointerTo(v.type).ptr > 0
      /\ Plain("int") \in Type /\ Len(is) \in Nat /\ v.at \in 0..Len(is)
  <2>1. v.at \in Nat /\ v.type \in Type /\ Len(is) \in Nat
    BY LenProperties DEF Value, Coded
  <2> QED
    BY <2>1, Types DEF Refers
<1>3. /\ Coded(code') /\ Extends(is, code') /\ Len(code') = Len(is) + 2
      /\ code'[Len(is) + 1].type = PointerTo(v.type)
      /\ code'[Len(is) + 2].arg = v.at
  <2>1. PICK x : x = Inst("alloca", PointerTo(v.type), 0)
    OBVIOUS
  <2>2. PICK y : y = Inst("store", Plain("int"), v.at)
    OBVIOUS
  <2>3. x \in Instruction(Len(is) + 2) /\ x.type = PointerTo(v.type)
    BY <2>1, <1>2, Insts DEF Ops
  <2>4. y \in Instruction(Len(is) + 2) /\ y.arg = v.at
    BY <2>2, <1>2, Insts DEF Ops
  <2>5. PICK js : js = <<x, y>>
    OBVIOUS
  <2>6. js \in Seq(Instruction(Len(is) + Len(js)))
    BY <2>3, <2>4, <2>5, EmitsTwo
  <2>7. Len(js) = 2 /\ js[1] = x /\ js[2] = y
    BY <2>5
  <2>8. /\ Coded(is \o js) /\ Extends(is, is \o js)
        /\ Len(is \o js) = Len(is) + Len(js)
        /\ \A i \in 1..Len(js) : (is \o js)[Len(is) + i] = js[i]
    BY <2>6, Emits
  <2>9. code' = is \o js
    BY <1>1, <2>1, <2>2, <2>5 DEF Alloca
  <2> QED
    BY <2>3, <2>4, <2>7, <2>8, <2>9
<1>4. Extends(code, code')
  BY <1>3, ExtendsFurther DEF Ready, Store
<1>5. binding \in Binding /\ NewName \in Var /\ Refers(code, binding.from)
  BY NewNames DEF Ready, Typed
<1>6. /\ Tabled(code', table') /\ Enlarges(table, table')
      /\ DOMAIN table' = DOMAIN names \cup {NewName}
      /\ table'[NewName].at = Len(is) + 1
  <2>1. PICK w : w = [at |-> Len(is) + 1, type |-> PointerTo(v.type)]
    OBVIOUS
  <2>2. w \in Value /\ Refers(code', w) /\ w.at = Len(is) + 1
    BY <2>1, <1>2, <1>3 DEF Value, Refers
  <2>3. Tabled(code', names)
    BY <1>3, TabledLater
  <2>4. PICK n : n = NewName
    OBVIOUS
  <2>5. /\ Tabled(code', Named(names, n, w)) /\ Enlarges(names, Named(names, n, w))
        /\ DOMAIN Named(names, n, w) = DOMAIN names \cup {n}
        /\ Named(names, n, w)[n] = w
    BY <2>2, <2>3, <2>4, <1>5, Names
  <2> QED
    BY <2>1, <2>2, <2>4, <2>5, <1>1, EnlargesFurther
<1>7. Typed' /\ Shape' /\ SameHeads
  BY <1>1, LetGoesOn
<1>8. /\ binding'.from = binding.from /\ binding'.lets = binding.lets
      /\ binding'.at = binding.at + 1 /\ binding'.opens = binding.opens
      /\ binding'.vars = binding.vars
  <2>1. PICK u : u = binding.from
    OBVIOUS
  <2>2. u \in Value
    BY <2>1, <1>5, BindingKinds
  <2> QED
    BY <2>2, <1>1, <1>5, NextNames
<1>9. Refers(code', binding'.from)
  BY <1>2, <1>3, <1>4, <1>5, <1>8, BindingKinds, RefersLater, LenProperties
  DEF Ready, Store, Coded
<1>10. /\ binding.opens # "none" => kept' = kept
       /\ binding.opens = "none" =>
            kept' = [m \in DOMAIN kept \cup {NewName} |->
                       IF m = NewName THEN Len(is) + 1 ELSE kept[m]]
  BY <1>1 DEF Keep
<1>11. DOMAIN kept \subseteq DOMAIN table /\ NewName \notin DOMAIN table
  BY DEF Ready, NamesInv, Enlarges
<1>12. Kept' /\ Enlarges(kept, kept')
  <2>1. \A n \in DOMAIN kept : n \in Var /\ kept[n] \in 1..Len(code')
    BY <1>2, <1>3, <1>4, LenProperties DEF Ready, Kept, Extends, Store, Coded
  <2>2. CASE binding.opens # "none"
    BY <2>1, <2>2, <1>10 DEF Kept, Enlarges
  <2>3. CASE binding.opens = "none"
    BY <2>1, <2>3, <1>2, <1>3, <1>5, <1>10, <1>11 DEF Kept, Enlarges
  <2> QED
    BY <2>2, <2>3
<1>13. Compiles
  BY <1>3, <1>4, <1>6, <1>9, <1>12 DEF Compiles, Store, Ready, Compiling
<1>14. NamesInv'
  <2>1. /\ Scoped' = Scoped /\ Given' = Given /\ Heads' = Heads
        /\ \A i \in Heads : HeadNames(i)' = HeadNames(i)
    BY <1>7 DEF SameHeads, Scoped, Given
  <2>2. /\ \A n \in DOMAIN kept : n \in DOMAIN table /\ table[n].at = kept[n]
        /\ Scoped \cup Pending \subseteq DOMAIN table \ DOMAIN kept
        /\ DOMAIN table \subseteq Scoped \cup Pending \cup DOMAIN kept \cup Given
        /\ \A i \in Heads : HeadNames(i) \cap Pending = {}
        /\ \A i, j \in Heads : i # j => HeadNames(i) \cap HeadNames(j) = {}
    BY DEF Ready, NamesInv
  <2>3. \A n \in DOMAIN kept : n \in DOMAIN table' /\ table'[n].at = kept[n]
    BY <2>2, <1>6 DEF Enlarges
  <2>4. DOMAIN table \subseteq DOMAIN table'
    BY <1>6 DEF Enlarges
  <2>5. CASE binding.opens = "none"
    <3>1. Pending' = Pending
      BY <2>5, <1>5, <1>8, NextPending
    <3>2. DOMAIN kept' = DOMAIN kept \cup {NewName}
      BY <2>5, <1>10
    <3>3. \A n \in DOMAIN kept' : n \in DOMAIN table' /\ table'[n].at = kept'[n]
      BY <2>3, <2>5, <1>6, <1>10, <1>11
    <3>4. Scoped' \cup Pending' \subseteq DOMAIN table' \ DOMAIN kept'
      BY <2>1, <2>2, <2>4, <3>1, <3>2, <1>11
    <3>5. DOMAIN table' \subseteq Scoped' \cup Pending' \cup DOMAIN kept' \cup Given'
      BY <2>1, <2>2, <3>1, <3>2, <1>6
    <3> QED
      BY <2>1, <2>2, <3>1, <3>3, <3>4, <3>5 DEF NamesInv
  <2>6. CASE binding.opens # "none"
    <3>1. Pending' = Pending \cup {NewName}
      BY <2>6, <1>5, <1>8, NextPending
    <3>2. kept' = kept
      BY <2>6, <1>10
    <3>3. \A i \in Heads : HeadNames(i) \cap Pending' = {}
      <4>1. \A i \in Heads : HeadNames(i) \subseteq DOMAIN table
        BY <2>2 DEF Scoped
      <4> QED
        BY <4>1, <3>1, <2>2, <1>11
    <3>4. Scoped' \cup Pending' \subseteq DOMAIN table' \ DOMAIN kept'
      BY <2>1, <2>2, <2>4, <3>1, <3>2, <1>6, <1>11
    <3>5. DOMAIN table' \subseteq Scoped' \cup Pending' \cup DOMAIN kept' \cup Given'
      BY <2>1, <2>2, <3>1, <3>2, <1>6
    <3> QED
      BY <2>1, <2>2, <2>3, <3>2, <3>3, <3>4, <3>5 DEF NamesInv
  <2> QED
    BY <2>5, <2>6
<1>15. binding.opens = "none" =>
         NewName \in DOMAIN kept' /\ kept'[NewName] = Len(is) + 1
  BY <1>10
<1> QED
  BY <1>2, <1>3, <1>7, <1>13, <1>14, <1>15 DEF Goes

(* A name of a let that declares nothing.                                  *)
LEMMA PassesBy ==
  ASSUME Ready, ~Idle, binding.at \in 1..Len(Let.names), NewName = Discard,
         binding' = NextName,
         UNCHANGED <<rows, scopes, todo, written, pass, status, error, kept, news>>
  PROVE  /\ Typed' /\ Shape' /\ SameHeads /\ Pending' = Pending
         /\ binding'.from = binding.from
<1>1. binding \in Binding /\ rows \in Seq(Var) /\ news \in Seq(New)
  BY DEF Ready, Typed
<1>2. Typed' /\ Shape' /\ SameHeads
  BY <1>1, LetGoesOn
<1>3. /\ binding'.from = binding.from /\ binding'.lets = binding.lets
      /\ binding'.at = binding.at + 1 /\ binding'.opens = binding.opens
      /\ binding'.vars = binding.vars
  <2>1. PICK u : u = binding.from
    OBVIOUS
  <2>2. u \in Value
    BY <2>1, <1>1, BindingKinds
  <2> QED
    BY <2>2, <1>1, NextNames
<1> QED
  BY <1>1, <1>2, <1>3, NextPending

LEMMA LetPartGoes ==
  ASSUME Ready, LetPart
  PROVE  Goes
<1>1. ~Idle /\ binding.at \in 1..Len(Let.names) /\ binding \in Binding
  BY DEF LetPart, Letting, Ready, Typed
<1>2. NewName \in Var \cup {Discard}
  BY <1>1, NewNames
<1>3. CASE /\ NewName = Discard /\ binding' = NextName
           /\ UNCHANGED <<code, table, status, error, kept>>
           /\ UNCHANGED <<rows, scopes, todo, written, pass, news>>
  <2>1. /\ Typed' /\ Shape' /\ SameHeads /\ Pending' = Pending
        /\ binding'.from = binding.from
    BY <1>1, <1>3, PassesBy
  <2>2. Compiles
    BY <2>1, <1>3, StillCompiles DEF Ready, Compiling
  <2>3. NamesInv'
    BY <2>1, <1>3, NamesStay, EnlargesItself DEF Ready
  <2> QED
    BY <2>1, <2>2, <2>3 DEF Goes
<1>4. CASE Fail("exists", NewName)
  BY <1>2, <1>4, FailGoes
<1>5. CASE Crash
  BY <1>5, CrashGoes
<1>6. ASSUME NewName # Discard, IsUnique(table, NewName),
             NEW is, is = Append(code, Inst("extract", Plain("int"), binding.from.at)),
             Declare(is, table, [at |-> Len(is), type |-> Plain("int")]),
             UNCHANGED <<rows, scopes, todo, written, pass, status, error, news>>
      PROVE  Goes
  <2>1. PICK v : v = [at |-> Len(is), type |-> Plain("int")]
    OBVIOUS
  <2>2. PICK x : x = Inst("extract", Plain("int"), binding.from.at)
    OBVIOUS
  <2>3. /\ Coded(code) /\ Len(code) \in Nat /\ Tabled(code, table)
        /\ Plain("int") \in Type
        /\ binding.from.at \in 0..(Len(code) + 1)
    <3>1. Coded(code) /\ Len(code) \in Nat /\ Tabled(code, table)
      BY LenProperties DEF Ready, Store, Coded
    <3>2. binding.from.at \in Nat
      BY <1>1, BindingKinds DEF Value
    <3> QED
      BY <3>1, <3>2, Types DEF Ready, Refers
  <2>4. x \in Instruction(Len(code) + 1) /\ x.type = Plain("int")
    BY <2>2, <2>3, Insts DEF Ops
  <2>5. /\ Coded(is) /\ Extends(code, is)
        /\ Len(is) = Len(code) + 1 /\ is[Len(code) + 1] = x
    BY <2>2, <2>3, <2>4, <1>6, Appends
  <2>6. v \in Value /\ Refers(is, v)
    BY <2>1, <2>3, <2>4, <2>5 DEF Value, Refers
  <2>7. Tabled(is, table)
    BY <2>3, <2>5, TabledLater
  <2>8. NewName \notin DOMAIN table
    BY <1>6 DEF IsUnique
  <2>9. rows' \in Seq(Var) /\ news' \in Seq(New)
    BY <1>6 DEF Ready, Typed
  <2>10. Declare(is, table, v)
    BY <2>1, <1>6
  <2> QED
    BY <1>1, <1>6, <2>5, <2>6, <2>7, <2>8, <2>9, <2>10, EnlargesItself, Declares
<1> QED
  BY <1>3, <1>4, <1>5, <1>6 DEF LetPart

(* A row goes on meaning what it did as the code grows.                    *)
LEMMA RowLater ==
  ASSUME Ready, Compiles, NEW k, RowMeans(k), k \in 1..Len(news),
         rows'[k] = rows[k], news'[k] = news[k]
  PROVE  RowMeans(k)'
<1> DEFINE n == rows[k]
           v == news[k].of
<1>1. /\ n \in DOMAIN kept /\ kept[n] + 1 \in 1..Len(code)
      /\ code[kept[n]].type.ptr > 1 /\ code[kept[n] + 1].arg = v.at
      /\ Refers(code, v) /\ v.type.ptr > 0
  BY DEF RowMeans
<1>2. v \in Value
  <2>1. news[k] \in New
    BY ElementOfSeq DEF Ready, Typed
  <2> QED
    BY <2>1 DEF New
<1>3. Len(code) \in Nat /\ Len(code') \in Nat /\ Extends(code, code')
  BY LenProperties DEF Ready, Compiles, Store, Coded
<1>4. kept[n] \in 1..Len(code)
  BY <1>1 DEF Ready, Kept
<1>5. n \in DOMAIN kept' /\ kept'[n] = kept[n]
  BY <1>1 DEF Compiles, Enlarges
<1>6. /\ code'[kept[n]] = code[kept[n]] /\ code'[kept[n] + 1] = code[kept[n] + 1]
      /\ kept[n] + 1 \in 1..Len(code')
  <2>1. PICK at : at = kept[n]
    OBVIOUS
  <2>2. at \in 1..Len(code) /\ at + 1 \in 1..Len(code)
    BY <2>1, <1>1, <1>4
  <2>3. /\ code'[at] = code[at] /\ code'[at + 1] = code[at + 1]
        /\ at + 1 \in 1..Len(code')
    BY <2>2, <1>3 DEF Extends
  <2> QED
    BY <2>1, <2>3
<1>7. Refers(code', v)
  <2>1. PICK is : is = code'
    OBVIOUS
  <2>2. PICK w : w = v
    OBVIOUS
  <2>3. Refers(is, w)
    BY <2>1, <2>2, <1>1, <1>2, <1>3, RefersLater
  <2> QED
    BY <2>1, <2>2, <2>3
<1> QED
  BY <1>1, <1>5, <1>6, <1>7 DEF RowMeans

LEMMA RowsStay ==
  ASSUME Ready, Compiles, RowsMean, rows' = rows, news' = news
  PROVE  RowsMean'
<1>1. rows \in Seq(Var) /\ DOMAIN rows = 1..Len(rows)
  BY LenProperties DEF Ready, Typed
<1>2. Clean' => Clean
  BY DEF Clean
<1>3. ASSUME Clean
      PROVE  Len(rows') = Len(news') /\ \A k \in DOMAIN rows' : RowMeans(k)'
  <2>1. Len(rows) = Len(news) /\ \A k \in DOMAIN rows : RowMeans(k)
    BY <1>3 DEF RowsMean
  <2>2. \A k \in DOMAIN rows : RowMeans(k)'
    BY <2>1, <1>1, RowLater
  <2> QED
    BY <2>1, <2>2
<1> QED
  BY <1>2, <1>3 DEF RowsMean

(* The first two values of a let are asked of the right children.          *)
LEMMA SeemsRight ==
  ASSUME NEW values \in Seq(Expr), NEW i \in 1..Len(values), i <= 2,
         NEW new \in SeemsNew(values, i)
  PROVE  new = IsNew(values[i])
<1>1. Len(values) \in Nat /\ i \in {1, 2}
  BY LenProperties
<1>2. CASE Len(values) = 1
  <2>1. i = 1
    BY <1>1, <1>2
  <2> QED
    BY <2>1, <1>2, Zenon DEF SeemsNew
<1>3. CASE Len(values) # 1
  <2>1. Child(i) = 2 * (i - 1)
    BY <1>1 DEF Child
  <2>2. ~OutOfReach(values, i)
    BY <2>1, <1>1 DEF OutOfReach
  <2>3. Child(i) % 2 = 0 /\ Child(i) \div 2 + 1 = i
    BY <2>1, <1>1
  <2>4. new = (Child(i) % 2 = 0 /\ IsNew(values[Child(i) \div 2 + 1]))
    BY <2>2, <1>3, Zenon DEF SeemsNew
  <2>5. values[Child(i) \div 2 + 1] = values[i]
    BY <2>3
  <2>6. new = (TRUE /\ IsNew(values[i]))
    BY <2>3, <2>4, <2>5, Zenon
  <2>7. IsNew(values[i]) \in BOOLEAN
    BY DEF IsNew
  <2> QED
    BY <2>6, <2>7, Zenon
<1> QED
  BY <1>2, <1>3

(* The row a let enters, where it means one: both or neither.              *)
LEMMA RowsGrow ==
  ASSUME Ready, Compiles, RowsMean, ~Idle, binding.at \in 1..Len(Let.names),
         ~TakesApart, NewName \in Var,
         NEW e, e = Let.values[binding.at], NEW r, Yields(r),
         Extends(r.code, code'), Len(code') = Len(r.code) + 2,
         code'[Len(r.code) + 1].type = PointerTo(r.value.type),
         code'[Len(r.code) + 2].arg = r.value.at,
         binding.opens = "none" =>
           NewName \in DOMAIN kept' /\ kept'[NewName] = Len(r.code) + 1,
         NEW new \in SeemsNew(Let.values, binding.at), new \in BOOLEAN,
         rows' = IF new THEN Append(rows, NewName) ELSE rows,
         news' = IF new \/ IsNew(e)
                 THEN Append(news, [of |-> r.value, nth |-> binding.at,
                                    kept |-> binding.opens = "none"])
                 ELSE news
  PROVE  RowsMean'
<1>1. PICK w : w = [of |-> r.value, nth |-> binding.at, kept |-> binding.opens = "none"]
  OBVIOUS
<1>2. CASE ~new /\ ~IsNew(e)
  <2>1. rows' = rows /\ news' = news
    BY <1>2
  <2> QED
    BY <2>1, RowsStay
<1>3. CASE new \/ IsNew(e)
  <2>1. news' = Append(news, w)
    BY <1>1, <1>3
  <2>2. /\ rows \in Seq(Var) /\ Len(rows) \in Nat /\ DOMAIN rows = 1..Len(rows)
        /\ news \in Seq(New) /\ Len(news) \in Nat /\ DOMAIN news = 1..Len(news)
    BY LenProperties DEF Ready, Typed
  <2>3. w \in New /\ w.of = r.value /\ w.nth = binding.at
        /\ (w.kept <=> binding.opens = "none")
    <3>1. binding.at \in Nat /\ r.value \in Value
      BY BindingKinds DEF Ready, Typed, Yields
    <3> QED
      BY <3>1, <1>1 DEF New
  <2>4. /\ Len(news') = Len(news) + 1 /\ news'[Len(news) + 1] = w
        /\ \A k \in 1..Len(news) : news'[k] = news[k]
        /\ DOMAIN news' = 1..Len(news) + 1
    BY <2>1, <2>2, <2>3, AppendProperties, LenProperties
  <2>5. SUFFICES ASSUME Clean'
                 PROVE  Len(rows') = Len(news') /\ \A k \in DOMAIN rows' : RowMeans(k)'
    BY DEF RowsMean
  <2>6. Clean
    BY <2>2, <2>4, <2>5 DEF Clean
  <2>7. binding.opens = "none" /\ binding.at <= 2 /\ r.value.type.ptr > 0
    <3>1. Len(news) + 1 \in DOMAIN news'
      BY <2>2, <2>4
    <3>2. w.kept /\ w.nth <= 2 /\ w.of.type.ptr > 0
      BY <3>1, <2>4, <2>5 DEF Clean
    <3> QED
      BY <3>2, <2>3
  <2>8. new = IsNew(e)
    <3>1. /\ Let.values \in Seq(Expr) /\ Len(Let.values) \in Nat
          /\ Len(Let.names) \in Nat
      BY BindingKinds, LetKinds DEF Ready, Typed
    <3>2. binding.at \in 1..Len(Let.values)
      BY <3>1 DEF TakesApart
    <3>3. PICK values : values = Let.values
      OBVIOUS
    <3>4. PICK i : i = binding.at
      OBVIOUS
    <3>5. /\ values \in Seq(Expr) /\ i \in 1..Len(values) /\ i <= 2
          /\ new \in SeemsNew(values, i)
      BY <3>1, <3>2, <3>3, <3>4, <2>7
    <3>6. new = IsNew(values[i])
      BY <3>5, SeemsRight
    <3> QED
      BY <3>3, <3>4, <3>6
  <2>9. new /\ IsNew(e)
    BY <2>8, <1>3, Zenon
  <2>10. /\ rows' = Append(rows, NewName)
         /\ Len(rows') = Len(rows) + 1 /\ rows'[Len(rows) + 1] = NewName
         /\ \A k \in 1..Len(rows) : rows'[k] = rows[k]
         /\ DOMAIN rows' = 1..Len(rows) + 1
    <3>1. rows' = Append(rows, NewName)
      BY <2>9
    <3>2. PICK n : n = NewName
      OBVIOUS
    <3>3. n \in Var /\ rows' = Append(rows, n)
      BY <3>1, <3>2
    <3>4. /\ Len(rows') = Len(rows) + 1 /\ rows'[Len(rows) + 1] = n
          /\ \A k \in 1..Len(rows) : rows'[k] = rows[k]
          /\ DOMAIN rows' = 1..Len(rows) + 1
      BY <3>3, <2>2, AppendProperties, LenProperties
    <3> QED
      BY <3>2, <3>3, <3>4
  <2>11. Len(rows) = Len(news) /\ \A k \in DOMAIN rows : RowMeans(k)
    BY <2>6 DEF RowsMean
  <2>12. \A k \in 1..Len(rows) : RowMeans(k)'
    BY <2>2, <2>4, <2>10, <2>11, RowLater
  <2>13. ASSUME NEW k, k = Len(rows) + 1
         PROVE  RowMeans(k)'
    <3>1. rows'[k] = NewName /\ news'[k] = w /\ w.of = r.value
      BY <2>3, <2>4, <2>10, <2>11, <2>13
    <3>2. PICK l : l = Len(r.code)
      OBVIOUS
    <3>3. l \in Nat /\ Len(code') = l + 2
      BY <3>2, LenProperties DEF Yields, Coded
    <3>4. NewName \in DOMAIN kept' /\ kept'[NewName] = l + 1
      BY <3>2, <2>7
    <3>5. code'[l + 1].type.ptr > 1 /\ r.value.type.ptr > 0
      <4>1. r.value.type.ptr > 0 /\ r.value.type \in Type
        BY <2>7 DEF Yields, Value
      <4>2. PointerTo(r.value.type).ptr = r.value.type.ptr + 1 /\ r.value.type.ptr \in Nat
        BY <4>1, Types
      <4>3. code'[l + 1].type = PointerTo(r.value.type)
        BY <3>2
      <4> QED
        BY <4>1, <4>2, <4>3
    <3>6. code'[l + 1 + 1].arg = r.value.at
      <4>1. l + 1 + 1 = l + 2
        BY <3>3
      <4> QED
        BY <4>1, <3>2
    <3>7. Refers(code', r.value)
      <4>1. PICK is : is = code'
        OBVIOUS
      <4>2. PICK js : js = r.code
        OBVIOUS
      <4>3. PICK v : v = r.value
        OBVIOUS
      <4>4. /\ v \in Value /\ Refers(js, v) /\ Extends(js, is)
            /\ Len(is) \in Nat /\ Len(js) \in Nat
        BY <4>1, <4>2, <4>3, <3>2, <3>3 DEF Yields
      <4>5. Refers(is, v)
        BY <4>4, RefersLater
      <4> QED
        BY <4>1, <4>3, <4>5
    <3>8. l + 1 + 1 \in 1..Len(code')
      BY <3>3
    <3> QED
      BY <3>1, <3>4, <3>5, <3>6, <3>7, <3>8 DEF RowMeans
  <2>14. \A k \in DOMAIN rows' : k \in 1..Len(rows) \/ k = Len(rows) + 1
    BY <2>2, <2>10
  <2> QED
    BY <2>4, <2>10, <2>11, <2>12, <2>13, <2>14
<1> QED
  BY <1>2, <1>3

(* What a let makes of a value: the object it may have meant.              *)
LEMMA LetValueGoes ==
  ASSUME Ready, LetValue
  PROVE  Goes /\ (RowsMean => RowsMean')
<1>1. ~Idle /\ binding.at \in 1..Len(Let.names) /\ binding \in Binding
  BY DEF LetValue, Letting, Ready, Typed
<1>2. NewName \in Var \cup {Discard}
  BY <1>1, NewNames
<1>3. PICK e : e = Let.values[binding.at]
  OBVIOUS
<1>4. e \in Expr
  <2>1. Let \in LetExpr
    BY <1>1, BindingKinds
  <2>2. binding.at \in 1..Len(Let.values)
    BY <2>1, <1>1, LetKinds DEF LetValue, TakesApart
  <2> QED
    BY <2>1, <2>2, <1>3, LetKinds
<1>5. CASE Crash
  <2>1. Goes /\ rows' = rows /\ news' = news
    BY <1>5, CrashGoes DEF Crash, compiler, history
  <2> QED
    BY <2>1, RowsStay DEF Goes
<1>6. CASE Fail("value", Discard) \/ Fail("exists", NewName)
  <2>1. Goes /\ rows' = rows /\ news' = news
    BY <1>2, <1>6, FailGoes DEF Fail, compiler, history
  <2> QED
    BY <2>1, RowsStay DEF Goes
<1>7. ASSUME ~Breaks(e), NEW r \in Eval(e), NewName = Discard,
             code' = r.code, table' = r.table, binding' = NextName,
             UNCHANGED <<rows, scopes, todo, written, pass, status, error, history>>
      PROVE  Goes /\ (RowsMean => RowsMean')
  <2>1. Yields(r)
    BY <1>4, <1>7, Evaluates DEF Ready
  <2>2. /\ Typed' /\ Shape' /\ SameHeads /\ Pending' = Pending
        /\ binding'.from = binding.from
    BY <1>1, <1>7, PassesBy DEF history
  <2>3. Refers(code', binding'.from)
    BY <2>1, <2>2, <1>1, <1>7, BindingKinds, RefersLater, LenProperties
    DEF Yields, Ready, Store, Coded
  <2>4. Compiles /\ NamesInv'
    BY <2>1, <2>2, <2>3, <1>7, YieldsGoes DEF history
  <2>5. RowsMean => RowsMean'
    BY <2>4, <1>7, RowsStay DEF history
  <2> QED
    BY <2>2, <2>4, <2>5 DEF Goes
<1>8. ASSUME ~Breaks(e), NEW r \in Eval(e), NewName # Discard,
             IsUnique(r.table, NewName), Declare(r.code, r.table, r.value),
             NEW new \in SeemsNew(Let.values, binding.at), new \in BOOLEAN,
             rows' = IF new THEN Append(rows, NewName) ELSE rows,
             news' = IF new \/ IsNew(e)
                     THEN Append(news, [of |-> r.value, nth |-> binding.at,
                                        kept |-> binding.opens = "none"])
                     ELSE news,
             UNCHANGED <<scopes, todo, written, pass, status, error>>
      PROVE  Goes /\ (RowsMean => RowsMean')
  <2>1. Yields(r)
    BY <1>4, <1>8, Evaluates DEF Ready
  <2>2. NewName \notin DOMAIN r.table
    BY <1>8 DEF IsUnique
  <2>3. rows' \in Seq(Var)
    BY <1>2, <1>8, AppendProperties DEF Ready, Typed
  <2>4. news' \in Seq(New)
    <3>1. PICK w : w = [of |-> r.value, nth |-> binding.at,
                        kept |-> binding.opens = "none"]
      OBVIOUS
    <3>2. w \in New
      BY <3>1, <2>1, <1>1, BindingKinds DEF Yields, New
    <3>3. Append(news, w) \in Seq(New) /\ news \in Seq(New)
      BY <3>2, AppendProperties DEF Ready, Typed
    <3> QED
      BY <3>1, <3>3, <1>8
  <2>5. DOMAIN r.table \subseteq DOMAIN table \cup Given
    BY <2>1 DEF Yields, Given
  <2>6. /\ Goes /\ Extends(r.code, code') /\ Len(code') = Len(r.code) + 2
        /\ code'[Len(r.code) + 1].type = PointerTo(r.value.type)
        /\ code'[Len(r.code) + 2].arg = r.value.at
        /\ binding.opens = "none" =>
             NewName \in DOMAIN kept' /\ kept'[NewName] = Len(r.code) + 1
    BY <1>1, <1>8, <2>1, <2>2, <2>3, <2>4, <2>5, Declares DEF Yields
  <2>7. Compiles /\ ~TakesApart /\ NewName \in Var
    BY <2>6, <1>2, <1>8 DEF Goes, LetValue
  <2>8. RowsMean => RowsMean'
    BY <1>1, <1>3, <1>8, <2>1, <2>6, <2>7, RowsGrow
  <2> QED
    BY <2>6, <2>8
<1>9. \A i : \A new \in SeemsNew(Let.values, i) : new \in BOOLEAN
  <2> SUFFICES ASSUME NEW i, NEW new \in SeemsNew(Let.values, i)
               PROVE  new \in BOOLEAN
    OBVIOUS
  <2>1. IsNew(Let.values[1]) \in BOOLEAN
    BY DEF IsNew
  <2>2. (Child(i) % 2 = 0 /\ IsNew(Let.values[Child(i) \div 2 + 1])) \in BOOLEAN
    OBVIOUS
  <2>3. \/ new = IsNew(Let.values[1]) \/ new \in BOOLEAN
        \/ new = (Child(i) % 2 = 0 /\ IsNew(Let.values[Child(i) \div 2 + 1]))
    BY Zenon DEF SeemsNew
  <2> QED
    BY <2>1, <2>2, <2>3
<1> QED
  <2>1. CASE Breaks(e) /\ Crash
    BY <2>1, <1>5
  <2>2. CASE ~Breaks(e) /\ Eval(e) = {} /\ Fail("value", Discard)
    BY <2>2, <1>6
  <2>3. ASSUME ~Breaks(e), NEW r \in Eval(e),
               \/ /\ NewName = Discard
                  /\ code' = r.code /\ table' = r.table
                  /\ binding' = NextName
                  /\ UNCHANGED <<rows, scopes, todo, written, pass, status,
                                 error, history>>
               \/ /\ NewName # Discard /\ ~IsUnique(r.table, NewName)
                  /\ Fail("exists", NewName)
               \/ /\ NewName # Discard /\ IsUnique(r.table, NewName)
                  /\ \/ r.value.type = Plain("label") /\ Crash
                     \/ OutOfReach(Let.values, binding.at) /\ Crash
                     \/ /\ r.value.type # Plain("label")
                        /\ Declare(r.code, r.table, r.value)
                        /\ \E new \in SeemsNew(Let.values, binding.at) :
                             /\ rows' = IF new THEN Append(rows, NewName) ELSE rows
                             /\ news' = IF new \/ IsNew(e)
                                        THEN Append(news,
                                               [of |-> r.value, nth |-> binding.at,
                                                kept |-> binding.opens = "none"])
                                        ELSE news
                        /\ UNCHANGED <<scopes, todo, written, pass, status, error>>
        PROVE  Goes /\ (RowsMean => RowsMean')
    <3>1. CASE NewName = Discard
      BY <3>1, <2>3, <1>7
    <3>2. CASE Fail("exists", NewName) \/ Crash
      BY <3>2, <1>5, <1>6
    <3>3. CASE /\ NewName # Discard /\ IsUnique(r.table, NewName)
               /\ Declare(r.code, r.table, r.value)
               /\ \E new \in SeemsNew(Let.values, binding.at) :
                    /\ rows' = IF new THEN Append(rows, NewName) ELSE rows
                    /\ news' = IF new \/ IsNew(e)
                               THEN Append(news,
                                      [of |-> r.value, nth |-> binding.at,
                                       kept |-> binding.opens = "none"])
                               ELSE news
               /\ UNCHANGED <<scopes, todo, written, pass, status, error>>
      BY <3>3, <2>3, <1>8, <1>9
    <3> QED
      BY <2>3, <3>1, <3>2, <3>3
  <2> QED
    BY <2>1, <2>2, <2>3, <1>3 DEF LetValue

------------------------------------------------------------------------------
(* Scopes *)

(* A frame is opened around what comes: of the open ones nothing changes.  *)
LEMMA Opens ==
  ASSUME Ready, NEW kind \in {"body", "if", "for"},
         NEW names \in Seq(Var \cup {Discard}), kind = "body" => names = <<>>,
         scopes' = Opened(kind, names), NEW h, h = Len(scopes) + 1
  PROVE  /\ scopes' \in Seq(Frame)
         /\ \A i \in DOMAIN scopes' : scopes'[i].kind = "body" => scopes'[i].vars = <<>>
         /\ status = "compile" => scopes' # <<>> /\ scopes'[1].kind = "body"
         /\ h \notin Heads /\ \A i \in Heads : HeadNames(i)' = HeadNames(i)
         /\ kind = "body" => SameHeads
         /\ kind # "body" => /\ Heads' = Heads \cup {h}
                             /\ HeadNames(h)' = Range(names) \ {Discard}
<1>1. PICK f : f = [kind |-> kind, vars |-> names, defers |-> <<>>, exits |-> <<>>]
  OBVIOUS
<1>2. f \in Frame /\ f.kind = kind /\ f.vars = names
  <2>1. <<>> \in Seq(Simple)
    BY EmptySeq
  <2> QED
    BY <1>1, <2>1 DEF Frame
<1>3. scopes \in Seq(Frame) /\ Len(scopes) \in Nat /\ DOMAIN scopes = 1..Len(scopes)
  BY LenProperties DEF Ready, Typed
<1>4. /\ scopes' \in Seq(Frame) /\ Len(scopes') = h /\ scopes'[h] = f
      /\ \A i \in 1..Len(scopes) : scopes'[i] = scopes[i]
  BY <1>1, <1>2, <1>3, AppendProperties DEF Opened
<1>5. DOMAIN scopes' = 1..h
  BY <1>4, LenProperties
<1>6. \A i \in DOMAIN scopes' : i \in DOMAIN scopes \/ i = h
  BY <1>3, <1>5
<1>7. \A i \in DOMAIN scopes : i \in DOMAIN scopes' /\ scopes'[i] = scopes[i] /\ i # h
  BY <1>3, <1>4, <1>5
<1>8. h \in DOMAIN scopes' /\ h \notin DOMAIN scopes
  BY <1>3, <1>5
<1>9. \A i \in DOMAIN scopes' : scopes'[i].kind = "body" => scopes'[i].vars = <<>>
  BY <1>2, <1>4, <1>6, <1>7 DEF Ready, Shape
<1>10. status = "compile" => scopes' # <<>> /\ scopes'[1].kind = "body"
  <2>1. ASSUME status = "compile" PROVE 1 \in DOMAIN scopes /\ scopes[1].kind = "body"
    BY <2>1, <1>3, EmptySeq DEF Ready, Shape
  <2> QED
    BY <2>1, <1>7, EmptySeq, <1>4
<1>11. h \notin Heads /\ \A i \in Heads : HeadNames(i)' = HeadNames(i)
  BY <1>7, <1>8 DEF Heads, HeadNames
<1>12. kind = "body" => Heads' = Heads
  BY <1>2, <1>4, <1>6, <1>7, <1>8 DEF Heads
<1>13. kind # "body" => Heads' = Heads \cup {h}
  BY <1>2, <1>4, <1>6, <1>7, <1>8 DEF Heads
<1>14. HeadNames(h)' = Range(names) \ {Discard}
  BY <1>2, <1>4 DEF HeadNames
<1> QED
  BY <1>4, <1>9, <1>10, <1>11, <1>12, <1>13, <1>14 DEF SameHeads

(* The names of a head belong to the scope that is opened.                 *)
LEMMA NamesMoved ==
  ASSUME NamesInv, NEW h, h \notin Heads, Heads' = Heads \cup {h},
         \A i \in Heads : HeadNames(i)' = HeadNames(i),
         HeadNames(h)' = Pending, Pending' = {}, Enlarges(table, table'),
         DOMAIN table' \subseteq DOMAIN table \cup Given, kept' = kept
  PROVE  NamesInv'
<1>1. /\ \A n \in DOMAIN kept : n \in DOMAIN table /\ table[n].at = kept[n]
      /\ Scoped \cup Pending \subseteq DOMAIN table \ DOMAIN kept
      /\ DOMAIN table \subseteq Scoped \cup Pending \cup DOMAIN kept \cup Given
      /\ \A i \in Heads : HeadNames(i) \cap Pending = {}
      /\ \A i, j \in Heads : i # j => HeadNames(i) \cap HeadNames(j) = {}
  BY DEF NamesInv
<1>2. Scoped' = Scoped \cup Pending
  BY DEF Scoped
<1>3. Given' = Given
  BY DEF Given
<1>4. \A n \in DOMAIN kept' : n \in DOMAIN table' /\ table'[n].at = kept'[n]
  BY <1>1 DEF Enlarges
<1>5. Scoped' \cup Pending' \subseteq DOMAIN table' \ DOMAIN kept'
  BY <1>1, <1>2 DEF Enlarges
<1>6. DOMAIN table' \subseteq Scoped' \cup Pending' \cup DOMAIN kept' \cup Given'
  BY <1>1, <1>2, <1>3
<1>7. \A i \in Heads' : HeadNames(i)' \cap Pending' = {}
  OBVIOUS
<1>8. \A i, j \in Heads' : i # j => HeadNames(i)' \cap HeadNames(j)' = {}
  BY <1>1
<1> QED
  BY <1>4, <1>5, <1>6, <1>7, <1>8 DEF NamesInv

(* A branch to a new block; the name of a block.                           *)
LEMMA Branches ==
  ASSUME Ready
  PROVE  /\ Coded(Append(code, Branch)) /\ Extends(code, Append(code, Branch))
         /\ Tabled(Append(code, Branch), table)
<1>1. Coded(code) /\ Tabled(code, table) /\ Len(code) \in Nat
  BY LenProperties DEF Ready, Store, Coded
<1>2. PICK x : x = Branch
  OBVIOUS
<1>3. x \in Instruction(Len(code) + 1)
  BY <1>1, <1>2, Insts, Types DEF Branch, Ops
<1>4. PICK is : is = Append(code, x)
  OBVIOUS
<1>5. Coded(is) /\ Extends(code, is)
  BY <1>1, <1>3, <1>4, Appends
<1>6. Tabled(is, table)
  BY <1>1, <1>5, TabledLater
<1> QED
  BY <1>2, <1>4, <1>5, <1>6

LEMMA BlockNames ==
  ASSUME NEW is, NEW names, Tabled(is, names), NEW n \in {"entry", "then", "for", "cont"}
  PROVE  /\ Tabled(is, Named(names, n, Label)) /\ Enlarges(names, Named(names, n, Label))
         /\ DOMAIN Named(names, n, Label) \subseteq DOMAIN names \cup Given
<1>1. n \in Var /\ n \in Given
  BY NameAssumption DEF Given
<1>2. PICK v : v = Label
  OBVIOUS
<1>3. v \in Value /\ Refers(is, v)
  BY <1>2, Values0
<1>4. /\ Tabled(is, Named(names, n, v)) /\ Enlarges(names, Named(names, n, v))
      /\ DOMAIN Named(names, n, v) = DOMAIN names \cup {n}
  BY <1>1, <1>3, Names
<1> QED
  BY <1>1, <1>2, <1>4

(* An if or for begins, with the names of its lets.                        *)
LEMMA Enters ==
  ASSUME Ready, Counted, NEW kind \in {"if", "for"},
         NEW names \in Seq(Var \cup {Discard}), Enter(kind, names), Advance,
         Pending = Range(names) \ {Discard}, binding' \in Binding, Idle',
         Refers(code, binding'.from), UNCHANGED <<rows, kept, news>>
  PROVE  Goes
<1>1. /\ scopes' = Opened(kind, names) /\ code' = Append(code, Branch)
      /\ table' = IF kind = "if" THEN Named(table, "then", Label) ELSE table
  BY DEF Enter
<1>2. PICK h : h = Len(scopes) + 1
  OBVIOUS
<1>3. /\ scopes' \in Seq(Frame)
      /\ \A i \in DOMAIN scopes' : scopes'[i].kind = "body" => scopes'[i].vars = <<>>
      /\ status = "compile" => scopes' # <<>> /\ scopes'[1].kind = "body"
      /\ h \notin Heads /\ \A i \in Heads : HeadNames(i)' = HeadNames(i)
      /\ Heads' = Heads \cup {h} /\ HeadNames(h)' = Range(names) \ {Discard}
  <2>1. kind \in {"body", "if", "for"} /\ kind # "body"
    OBVIOUS
  <2> QED
    BY <1>1, <1>2, <2>1, Opens
<1>4. /\ written' \in 0..MaxStatements /\ todo' \in Seq(Simple)
      /\ UNCHANGED <<status, error, pass>>
  BY Advances
<1>5. /\ Coded(code') /\ Extends(code, code') /\ Tabled(code', table)
      /\ Coded(code)
  BY <1>1, Branches DEF Ready, Store
<1>6. /\ Tabled(code', table') /\ Enlarges(table, table')
      /\ DOMAIN table' \subseteq DOMAIN table \cup Given
  BY <1>1, <1>5, BlockNames, EnlargesItself
<1>7. Refers(code', binding'.from)
  <2>1. binding'.from \in Value
    BY DEF Binding
  <2> QED
    BY <2>1, <1>5, RefersLater, LenProperties DEF Coded
<1>8. Compiles
  BY <1>4, <1>5, <1>6, <1>7, GrownCompiles DEF Ready, Compiling
<1>9. Typed'
  BY <1>3, <1>4 DEF Ready, Typed
<1>10. Shape'
  BY <1>3, <1>4 DEF Ready, Shape, pass
<1>11. NamesInv'
  <2>1. Pending' = {}
    BY DEF Pending
  <2> QED
    BY <2>1, <1>3, <1>6, NamesMoved DEF Ready
<1> QED
  BY <1>8, <1>9, <1>10, <1>11 DEF Goes

LEMMA LetEndGoes ==
  ASSUME Ready, LetEnd
  PROVE  Goes
<1>1. PICK names : names = binding.vars \o Let.names
  OBVIOUS
<1>2. /\ ~Idle /\ binding \in Binding /\ Counted
      /\ binding.at > Len(Let.names) /\ UNCHANGED <<rows, kept, news>>
  BY DEF LetEnd, Letting, Ready, Typed, Shape, Counted, history
<1>3. /\ binding.lets \in Seq(LetExpr) /\ Tail(binding.lets) \in Seq(LetExpr)
      /\ binding.at \in Nat /\ binding.from \in Value
      /\ binding.opens \in {"none", "if", "for"}
      /\ binding.vars \in Seq(Var \cup {Discard})
      /\ Let.names \in Seq(Var \cup {Discard}) /\ Len(Let.names) \in Nat
  BY <1>2, BindingKinds, LetKinds
<1>4. /\ names \in Seq(Var \cup {Discard})
      /\ Range(names) = Range(binding.vars) \cup Range(Let.names)
  <2>1. names \in Seq(Var \cup {Discard})
    BY <1>1, <1>3, ConcatProperties
  <2> QED
    BY <2>1, <1>1, <1>3, RangeConcatenation
<1>5. binding.opens # "none" => Pending = Range(names) \ {Discard}
  <2>1. 1..Len(Let.names) \cap 1..(binding.at - 1) = 1..Len(Let.names)
    BY <1>2, <1>3
  <2>2. DOMAIN Let.names = 1..Len(Let.names)
    BY <1>3, LenProperties
  <2>3. Range(Let.names) = {Let.names[i] : i \in 1..Len(Let.names)}
    BY <2>2 DEF Range
  <2> QED
    BY <2>1, <2>3, <1>2, <1>4 DEF Pending
<1>6. CASE /\ Tail(binding.lets) # <<>>
           /\ binding' = [binding EXCEPT !.lets = Tail(@), !.at = 0, !.vars = names]
           /\ UNCHANGED <<code, table, scopes, todo, written, pass, status, error>>
  <2>1. binding' = [lets |-> Tail(binding.lets), at |-> 0, from |-> binding.from,
                    opens |-> binding.opens, vars |-> names]
    BY <1>2, <1>6 DEF Binding
  <2>2. /\ binding' \in Binding /\ binding'.from = binding.from
        /\ binding'.opens = binding.opens /\ binding'.vars = names
        /\ binding'.at = 0 /\ binding'.lets # <<>>
    BY <2>1, <1>3, <1>4, <1>6 DEF Binding
  <2>3. Compiles
    BY <2>2, <1>2, <1>6, StillCompiles DEF Ready, Compiling
  <2>4. Typed'
    BY <2>2, <1>2, <1>6 DEF Ready, Typed
  <2>5. Shape'
    BY <2>2, <1>2, <1>6, ShapeStays
  <2>6. Pending' = Pending
    <3>1. CASE binding.opens = "none"
      BY <3>1, <2>2 DEF Pending
    <3>2. CASE binding.opens # "none"
      <4>1. 1..(binding'.at - 1) = {}
        BY <2>2
      <4>2. {Let'.names[i] : i \in 1..Len(Let'.names) \cap 1..(binding'.at - 1)} = {}
        BY <4>1
      <4>3. Pending' = (Range(names) \cup {}) \ {Discard}
        BY <3>2, <4>2, <2>2 DEF Pending, Idle
      <4> QED
        BY <4>3, <3>2, <1>5
    <3> QED
      BY <3>1, <3>2
  <2>7. NamesInv'
    BY <2>6, <1>2, <1>6, NamesStay, SameScopes, EnlargesItself DEF Ready
  <2> QED
    BY <2>3, <2>4, <2>5, <2>7 DEF Goes
<1>7. ASSUME binding' = NoBinding
      PROVE  /\ binding' \in Binding /\ Idle' /\ Refers(code, binding'.from)
             /\ Refers(code', binding'.from) /\ Pending' = {}
  <2>1. <<>> \in Seq(LetExpr)
    BY EmptySeq
  <2>2. /\ binding' \in Binding /\ binding'.lets = <<>> /\ binding'.from = Constant
    BY <2>1, <1>7, Begins DEF NoBinding
  <2> QED
    BY <2>2, Values0 DEF Idle, Pending
<1>8. CASE /\ binding' = NoBinding /\ binding.opens = "none"
           /\ UNCHANGED <<code, table, scopes>> /\ Advance
  <2>1. /\ written' \in 0..MaxStatements /\ todo' \in Seq(Simple)
        /\ UNCHANGED <<status, error, pass>>
    BY <1>2, <1>8, Advances
  <2>2. Compiles
    BY <2>1, <1>2, <1>7, <1>8, StillCompiles DEF Ready, Compiling
  <2>3. Typed'
    BY <2>1, <1>2, <1>7, <1>8 DEF Ready, Typed
  <2>4. Shape'
    BY <2>1, <1>7, <1>8 DEF Ready, Shape, pass
  <2>5. Pending' = Pending
    BY <1>7, <1>8 DEF Pending
  <2>6. NamesInv'
    BY <2>5, <1>2, <1>8, NamesStay, SameScopes, EnlargesItself DEF Ready
  <2> QED
    BY <2>2, <2>3, <2>4, <2>6 DEF Goes
<1>9. CASE /\ binding' = NoBinding /\ binding.opens # "none"
           /\ Enter(binding.opens, names) /\ Advance
  <2>1. PICK kind : kind = binding.opens
    OBVIOUS
  <2>2. kind \in {"if", "for"} /\ Enter(kind, names)
    BY <2>1, <1>3, <1>9
  <2> QED
    BY <2>2, <1>2, <1>4, <1>5, <1>7, <1>9, Enters
<1> QED
  BY <1>1, <1>6, <1>8, <1>9 DEF LetEnd

(* Where no let is under way before or after, none is pending.             *)
LEMMA IdleStays ==
  ASSUME Idle, binding' = binding
  PROVE  Idle' /\ Pending' = Pending /\ Pending = {}
BY SamePending, IdlePending DEF Idle

LEMMA OpenBodyGoes ==
  ASSUME Ready, NEW s \in Coming, OpenBody(s)
  PROVE  Goes
<1>1. /\ scopes' = Opened("body", <<>>) /\ Advance
      /\ UNCHANGED <<code, table, rows, binding, kept, news>>
  BY DEF OpenBody, history
<1>2. Idle /\ Counted
  BY ComingIs
<1>3. PICK h : h = Len(scopes) + 1
  OBVIOUS
<1>4. /\ scopes' \in Seq(Frame) /\ SameHeads
      /\ \A i \in DOMAIN scopes' : scopes'[i].kind = "body" => scopes'[i].vars = <<>>
      /\ status = "compile" => scopes' # <<>> /\ scopes'[1].kind = "body"
  <2>1. <<>> \in Seq(Var \cup {Discard})
    BY EmptySeq
  <2> QED
    BY <2>1, <1>1, <1>3, Opens
<1>5. /\ written' \in 0..MaxStatements /\ todo' \in Seq(Simple)
      /\ UNCHANGED <<status, error, pass>>
  BY <1>1, <1>2, Advances
<1>6. Compiles
  BY <1>1, <1>5, StillCompiles DEF Ready, Compiling
<1>7. Typed'
  BY <1>1, <1>4, <1>5 DEF Ready, Typed
<1>8. Shape'
  BY <1>1, <1>2, <1>4, <1>5, IdleStays DEF Ready, Shape, pass
<1>9. NamesInv'
  BY <1>1, <1>2, <1>4, NamesStay, EnlargesItself, IdleStays DEF Ready
<1> QED
  BY <1>6, <1>7, <1>8, <1>9 DEF Goes

LEMMA OpenIfGoes ==
  ASSUME Ready, NEW s \in Coming, OpenIf(s)
  PROVE  Goes
<1>1. s.kind = "if" /\ UNCHANGED <<rows, kept, news>>
  BY DEF OpenIf, history
<1>2. Idle /\ Counted /\ s.lets \in Seq(LetExpr)
  BY <1>1, ComingIs, StatementKinds
<1>3. CASE Enter("if", <<>>) /\ Advance /\ UNCHANGED binding
  <2>1. <<>> \in Seq(Var \cup {Discard}) /\ Range(<<>>) \ {Discard} = {}
    BY EmptySeq DEF Range
  <2>2. /\ Pending = Range(<<>>) \ {Discard} /\ Idle'
        /\ binding' \in Binding /\ Refers(code, binding'.from)
    BY <2>1, <1>2, <1>3, IdleStays DEF Ready, Typed
  <2>3. PICK names : names = <<>>
    OBVIOUS
  <2>4. /\ names \in Seq(Var \cup {Discard}) /\ Pending = Range(names) \ {Discard}
        /\ Enter("if", names)
    BY <2>1, <2>2, <2>3, <1>3
  <2> QED
    BY <2>2, <2>4, <1>1, <1>2, <1>3, Enters
<1>4. CASE /\ binding' = Binds(s.lets, "if")
           /\ UNCHANGED <<code, table, scopes, todo, written, pass, status, error>>
  <2>1. PICK lets : lets = s.lets
    OBVIOUS
  <2>2. /\ binding' \in Binding /\ binding'.from = Constant
        /\ binding'.at = 0 /\ binding'.vars = <<>>
    BY <2>1, <1>2, <1>4, Begins
  <2>3. Compiles
    BY <2>2, <1>1, <1>4, StillCompiles, Values0 DEF Ready, Compiling
  <2>4. Typed'
    BY <2>2, <1>1, <1>4 DEF Ready, Typed
  <2>5. Shape'
    BY <2>2, <1>2, <1>4, ShapeStays
  <2>6. Pending' = Pending
    BY <2>2, <1>2, NonePending, IdlePending
  <2>7. NamesInv'
    BY <2>6, <1>1, <1>4, NamesStay, SameScopes, EnlargesItself DEF Ready
  <2> QED
    BY <2>3, <2>4, <2>5, <2>7 DEF Goes
<1> QED
  BY <1>3, <1>4 DEF OpenIf

LEMMA OpenForGoes ==
  ASSUME Ready, NEW s \in Coming, OpenFor(s)
  PROVE  Goes
<1>1. /\ s.kind = "for" /\ binding' = Binds(s.lets, "for")
      /\ table' = Named(Named(table, "for", Label), "cont", Label)
      /\ UNCHANGED <<code, rows, scopes, todo, written, pass, status, error, kept, news>>
  BY DEF OpenFor, history
<1>2. Idle /\ Counted /\ s.lets \in Seq(LetExpr)
  BY <1>1, ComingIs, StatementKinds
<1>3. /\ binding' \in Binding /\ binding'.from = Constant
      /\ binding'.at = 0 /\ binding'.vars = <<>>
  <2>1. PICK lets : lets = s.lets
    OBVIOUS
  <2> QED
    BY <2>1, <1>1, <1>2, Begins
<1>4. /\ Tabled(code, table') /\ Enlarges(table, table')
      /\ DOMAIN table' \subseteq DOMAIN table \cup Given
  <2>1. PICK names : names = Named(table, "for", Label)
    OBVIOUS
  <2>2. /\ Tabled(code, names) /\ Enlarges(table, names)
        /\ DOMAIN names \subseteq DOMAIN table \cup Given
    BY <2>1, BlockNames DEF Ready, Store
  <2>3. /\ Tabled(code, Named(names, "cont", Label))
        /\ Enlarges(names, Named(names, "cont", Label))
        /\ DOMAIN Named(names, "cont", Label) \subseteq DOMAIN names \cup Given
    BY <2>2, BlockNames
  <2> QED
    BY <2>1, <2>2, <2>3, <1>1, EnlargesFurther
<1>5. Compiles
  BY <1>1, <1>3, <1>4, GrownCompiles, ExtendsItself, Values0 DEF Ready, Compiling, Store
<1>6. Typed'
  BY <1>1, <1>3 DEF Ready, Typed
<1>7. Shape'
  BY <1>1, <1>2, <1>3, ShapeStays
<1>8. Pending' = Pending
  BY <1>2, <1>3, NonePending, IdlePending
<1>9. NamesInv'
  BY <1>1, <1>4, <1>8, NamesStay, SameScopes DEF Ready
<1> QED
  BY <1>5, <1>6, <1>7, <1>9 DEF Goes

LEMMA DeferGoes ==
  ASSUME Ready, NEW s \in Coming, Defer(s)
  PROVE  Goes
<1>1. /\ s.kind = "defer" /\ Advance
      /\ scopes' = [scopes EXCEPT ![Len(scopes)].defers = <<s.stmt>> \o @]
      /\ UNCHANGED <<code, table, rows, binding, kept, news>>
  BY DEF Defer, history
<1>2. Idle /\ Counted /\ s.stmt \in Simple /\ status = "compile"
  BY <1>1, ComingIs, StatementKinds DEF Ready, Compiling
<1>3. /\ scopes \in Seq(Frame) /\ Len(scopes) \in Nat /\ Len(scopes) > 0
      /\ DOMAIN scopes = 1..Len(scopes)
  BY <1>2, LenProperties, EmptySeq DEF Ready, Typed, Shape
<1>4. PICK f : f = scopes[Len(scopes)]
  OBVIOUS
<1>5. f \in Frame
  BY <1>3, <1>4, ElementOfSeq
<1>6. PICK ds : ds = <<s.stmt>> \o f.defers
  OBVIOUS
<1>7. ds \in Seq(Simple)
  <2>1. <<s.stmt>> \in Seq(Simple)
    BY <1>2
  <2> QED
    BY <2>1, <1>5, <1>6, FrameKinds, ConcatProperties
<1>8. PICK g : g = [f EXCEPT !.defers = ds]
  OBVIOUS
<1>9. g \in Frame /\ g.kind = f.kind /\ g.vars = f.vars
  BY <1>5, <1>7, <1>8 DEF Frame
<1>10. scopes' = [scopes EXCEPT ![Len(scopes)] = g]
  BY <1>1, <1>3, <1>4, <1>6, <1>8
<1>11. /\ scopes' \in Seq(Frame) /\ Len(scopes') = Len(scopes)
       /\ \A i \in 1..Len(scopes) : scopes'[i] = IF i = Len(scopes) THEN g ELSE scopes[i]
  BY <1>3, <1>9, <1>10, ExceptSeq
<1>12. /\ \A i \in 1..Len(scopes) :
             scopes'[i].kind = scopes[i].kind /\ scopes'[i].vars = scopes[i].vars
       /\ DOMAIN scopes' = DOMAIN scopes /\ scopes' # <<>>
  <2>1. PICK t : t = scopes'
    OBVIOUS
  <2>2. t \in Seq(Frame) /\ Len(t) = Len(scopes)
    BY <2>1, <1>11
  <2>3. DOMAIN t = 1..Len(t) /\ t # <<>>
    BY <2>2, <1>3, LenProperties, EmptySeq
  <2>4. DOMAIN t = DOMAIN scopes
    BY <2>2, <2>3, <1>3
  <2>5. \A i \in 1..Len(scopes) :
          scopes'[i].kind = scopes[i].kind /\ scopes'[i].vars = scopes[i].vars
    BY <1>4, <1>9, <1>11
  <2> QED
    BY <2>1, <2>3, <2>4, <2>5, Zenon
<1>13. SameHeads
  BY <1>3, <1>12 DEF SameHeads, Heads, HeadNames
<1>14. /\ written' \in 0..MaxStatements /\ todo' \in Seq(Simple)
       /\ UNCHANGED <<status, error, pass>>
  BY <1>1, <1>2, Advances
<1>15. Compiles
  BY <1>1, <1>14, StillCompiles DEF Ready, Compiling
<1>16. Typed'
  BY <1>1, <1>11, <1>14 DEF Ready, Typed
<1>17. Shape'
  <2>1. \A i \in DOMAIN scopes' : scopes'[i].kind = "body" => scopes'[i].vars = <<>>
    BY <1>3, <1>12 DEF Ready, Shape
  <2>2. scopes' # <<>>
    BY <1>12
  <2>3. scopes[1].kind = "body" /\ 1 \in 1..Len(scopes)
    BY <1>2, <1>3 DEF Ready, Shape
  <2>4. scopes'[1].kind = "body"
    BY <2>3, <1>12
  <2> QED
    BY <2>1, <2>2, <2>4, <1>1, <1>2, <1>14, IdleStays DEF Ready, Shape, pass
<1>18. NamesInv'
  BY <1>1, <1>2, <1>13, NamesStay, EnlargesItself, IdleStays DEF Ready
<1> QED
  BY <1>15, <1>16, <1>17, <1>18 DEF Goes

(* A statement with one expression: the code it ends with refers to what   *)
(* came before.                                                            *)
LEMMA FinishGoes ==
  ASSUME Ready, Idle, Counted, NEW r, Yields(r),
         NEW js, js \in Seq(Instruction(Len(r.code) + Len(js))), Finish(r, js)
  PROVE  Goes
<1>1. /\ code' = r.code \o js /\ table' = r.table /\ Advance
      /\ UNCHANGED <<rows, binding, scopes, kept, news>>
  BY DEF Finish, history
<1>2. PICK is : is = r.code
  OBVIOUS
<1>3. Coded(is \o js) /\ Extends(is, is \o js) /\ Coded(is) /\ Extends(code, is)
  BY <1>2, Emits DEF Yields
<1>4. /\ Coded(code') /\ Extends(code, code') /\ Tabled(code', table')
  <2>1. Extends(is, code') /\ Coded(code') /\ Tabled(is, table')
    BY <1>1, <1>2, <1>3 DEF Yields
  <2> QED
    BY <2>1, <1>3, ExtendsFurther, TabledLater DEF Ready, Store
<1>5. /\ written' \in 0..MaxStatements /\ todo' \in Seq(Simple)
      /\ UNCHANGED <<status, error, pass>>
  BY <1>1, Advances
<1>6. Refers(code', binding'.from)
  BY <1>1, <1>4, BindingKinds, RefersLater, LenProperties
  DEF Ready, Store, Coded, Typed
<1>7. Compiles
  BY <1>1, <1>4, <1>5, <1>6, GrownCompiles DEF Ready, Compiling
<1>8. Typed'
  BY <1>1, <1>5 DEF Ready, Typed
<1>9. Shape'
  BY <1>1, <1>5, IdleStays DEF Ready, Shape, pass
<1>10. NamesInv'
  <2>1. Field \subseteq Given
    BY DEF Given
  <2> QED
    BY <2>1, <1>1, NamesStay, SameScopes, IdleStays DEF Ready, Yields
<1> QED
  BY <1>7, <1>8, <1>9, <1>10 DEF Goes

LEMMA DeleteGoes ==
  ASSUME Ready, NEW s \in Coming, Delete(s)
  PROVE  Goes
<1>1. Idle /\ Counted /\ s.of \in Expr
  BY ComingIs, StatementKinds DEF Delete
<1>2. CASE Crash
  BY <1>2, CrashGoes
<1>3. CASE Fail("value", Discard)
  BY <1>3, FailGoes
<1>4. ASSUME ~Breaks(s.of), NEW r \in Eval(s.of),
             Finish(r, <<Inst("cast", PointerTo(Plain("char")), r.value.at),
                         Inst("call", Plain("int"), Len(r.code) + 1)>>)
      PROVE  Goes
  <2>1. Yields(r)
    BY <1>1, <1>4, Evaluates DEF Ready
  <2>2. PICK x : x = Inst("cast", PointerTo(Plain("char")), r.value.at)
    OBVIOUS
  <2>3. PICK y : y = Inst("call", Plain("int"), Len(r.code) + 1)
    OBVIOUS
  <2>4. Len(r.code) \in Nat /\ r.value.at \in Nat /\ r.value.at <= Len(r.code)
    BY <2>1, LenProperties DEF Yields, Coded, Value, Refers
  <2>5. x \in Instruction(Len(r.code) + 2) /\ y \in Instruction(Len(r.code) + 2)
    <3>1. PointerTo(Plain("char")) \in Type /\ Plain("int") \in Type
      BY Types
    <3>2. /\ r.value.at \in 0..(Len(r.code) + 2)
          /\ Len(r.code) + 1 \in 0..(Len(r.code) + 2) /\ Len(r.code) + 2 \in Nat
      BY <2>4
    <3>3. "cast" \in Ops /\ "call" \in Ops
      BY DEF Ops
    <3> QED
      BY <3>1, <3>2, <3>3, <2>2, <2>3, Insts
  <2>6. PICK js : js = <<x, y>>
    OBVIOUS
  <2>7. js \in Seq(Instruction(Len(r.code) + Len(js)))
    BY <2>1, <2>5, <2>6, EmitsTwo DEF Yields
  <2>8. Finish(r, js)
    BY <1>4, <2>2, <2>3, <2>6
  <2> QED
    BY <1>1, <2>1, <2>7, <2>8, FinishGoes
<1> QED
  BY <1>2, <1>3, <1>4 DEF Delete

LEMMA AssignGoes ==
  ASSUME Ready, NEW s \in Coming, Assign(s)
  PROVE  Goes
<1>1. Idle /\ Counted /\ s.of \in Expr
  BY ComingIs, StatementKinds DEF Assign
<1>2. CASE Crash
  BY <1>2, CrashGoes
<1>3. CASE Fail("value", Discard)
  BY <1>3, FailGoes
<1>4. ASSUME ~Breaks(s.of), NEW r \in Factor(s.of),
             Finish(r, <<Inst("store", Plain("int"), 0)>>)
      PROVE  Goes
  <2>1. Yields(r)
    BY <1>1, <1>4, Factors DEF Ready
  <2>2. PICK x : x = Inst("store", Plain("int"), 0)
    OBVIOUS
  <2>3. Len(r.code) \in Nat
    BY <2>1, LenProperties DEF Yields, Coded
  <2>4. x \in Instruction(Len(r.code) + 1)
    BY <2>2, <2>3, Insts, Types DEF Ops
  <2>5. PICK js : js = <<x>>
    OBVIOUS
  <2>6. js \in Seq(Instruction(Len(r.code) + Len(js)))
    BY <2>1, <2>4, <2>5, EmitsOne DEF Yields
  <2>7. Finish(r, js)
    BY <1>4, <2>2, <2>5
  <2> QED
    BY <1>1, <2>1, <2>6, <2>7, FinishGoes
<1> QED
  BY <1>2, <1>3, <1>4 DEF Assign

LEMMA SkipGoes ==
  ASSUME Ready, Skip
  PROVE  Goes
<1>1. /\ Idle /\ todo # <<>> /\ todo' = Tail(todo)
      /\ UNCHANGED <<code, table, rows, binding, scopes, written, pass, status,
                     error, kept, news>>
  BY DEF Skip, history
<1>2. Compiles
  BY <1>1, StillCompiles DEF Ready, Compiling
<1>3. Typed'
  BY <1>1, HeadTailProperties DEF Ready, Typed
<1>4. Shape'
  BY <1>1, IdleStays DEF Ready, Shape, pass
<1>5. NamesInv'
  BY <1>1, NamesStay, SameScopes, EnlargesItself, IdleStays DEF Ready
<1> QED
  BY <1>2, <1>3, <1>4, <1>5 DEF Goes

LEMMA BodyEndGoes ==
  ASSUME Ready, BodyEnd
  PROVE  Goes
<1>1. /\ status = "compile" /\ Idle /\ Len(scopes) = 1
      /\ status' = "exit" /\ scopes' = <<>>
      /\ todo' = scopes[1].exits \o scopes[1].defers
      /\ UNCHANGED <<code, table, rows, binding, written, pass, error, kept, news>>
  BY DEF BodyEnd, history
<1>2. scopes \in Seq(Frame) /\ DOMAIN scopes = {1} /\ scopes[1].kind = "body"
  <2>1. scopes \in Seq(Frame) /\ scopes[1].kind = "body"
    BY <1>1 DEF Ready, Typed, Shape
  <2> QED
    BY <2>1, <1>1, LenProperties
<1>3. todo' \in Seq(Simple)
  <2>1. scopes[1] \in Frame
    <3>1. PICK t : t = scopes
      OBVIOUS
    <3>2. t \in Seq(Frame) /\ 1 \in 1..Len(t)
      BY <3>1, <1>1, <1>2
    <3> QED
      BY <3>1, <3>2, ElementOfSeq
  <2>2. PICK f : f = scopes[1]
    OBVIOUS
  <2>3. f.exits \o f.defers \in Seq(Simple)
    BY <2>1, <2>2, FrameKinds, ConcatProperties
  <2> QED
    BY <2>2, <2>3, <1>1
<1>4. Compiles
  BY <1>1, StillCompiles DEF Ready
<1>5. Typed'
  <2>1. <<>> \in Seq(Frame)
    BY EmptySeq
  <2> QED
    BY <2>1, <1>1, <1>3 DEF Ready, Typed, Statuses
<1>6. Shape'
  <2>1. DOMAIN <<>> = {}
    OBVIOUS
  <2> QED
    BY <2>1, <1>1, IdleStays DEF Ready, Shape, pass
<1>7. SameHeads
  <2>1. Heads = {} /\ Heads' = {}
    BY <1>1, <1>2 DEF Heads
  <2> QED
    BY <2>1 DEF SameHeads
<1>8. NamesInv'
  BY <1>1, <1>7, NamesStay, EnlargesItself, IdleStays DEF Ready
<1> QED
  BY <1>4, <1>5, <1>6, <1>8 DEF Goes

LEMMA FunctionEndGoes ==
  ASSUME Ready, FunctionEnd
  PROVE  Goes
<1>1. /\ Idle /\ code' = Append(code, Inst("ret", Plain("int"), 0))
      /\ status' = "pass"
      /\ UNCHANGED <<table, rows, binding, scopes, todo, written, pass, error, kept, news>>
  BY DEF FunctionEnd, history
<1>2. PICK x : x = Inst("ret", Plain("int"), 0)
  OBVIOUS
<1>3. Coded(code) /\ Tabled(code, table) /\ Len(code) \in Nat
  BY LenProperties DEF Ready, Store, Coded
<1>4. x \in Instruction(Len(code) + 1)
  BY <1>2, <1>3, Insts, Types DEF Ops
<1>5. Coded(code') /\ Extends(code, code') /\ Len(code') = Len(code) + 1
  BY <1>1, <1>2, <1>3, <1>4, Appends
<1>6. Tabled(code', table')
  BY <1>1, <1>3, <1>5, TabledLater
<1>7. Kept' /\ Enlarges(kept, kept')
  BY <1>1, <1>3, <1>5, EnlargesItself DEF Ready, Kept
<1>8. Refers(code', binding'.from)
  <2>1. PICK is : is = code'
    OBVIOUS
  <2>2. binding.from \in Value /\ Refers(code, binding.from) /\ Len(is) \in Nat
    BY <2>1, <1>3, <1>5, BindingKinds DEF Ready, Typed
  <2>3. Refers(is, binding.from)
    BY <2>1, <2>2, <1>3, <1>5, RefersLater
  <2> QED
    BY <2>1, <2>3, <1>1
<1>9. \A n \in DOMAIN table' : table'[n].at < Len(code')
  <2>1. \A n \in DOMAIN table : table[n].at \in Nat /\ table[n].at <= Len(code)
    BY <1>3 DEF Tabled, Value, Refers
  <2> QED
    BY <2>1, <1>1, <1>3, <1>5
<1>10. Compiles
  BY <1>1, <1>5, <1>6, <1>7, <1>8, <1>9 DEF Compiles, Store
<1>11. Typed'
  BY <1>1 DEF Ready, Typed, Statuses
<1>12. Shape'
  BY <1>1, IdleStays DEF Ready, Shape, pass
<1>13. NamesInv'
  BY <1>1, NamesStay, SameScopes, EnlargesItself, IdleStays DEF Ready
<1> QED
  BY <1>10, <1>11, <1>12, <1>13 DEF Goes

(* The frames below the innermost, one of which takes over what that       *)
(* deferred.                                                               *)
LEMMA FramesLeft ==
  ASSUME Ready, NEW n, n = Len(scopes), n > 1,
         scopes' = [SubSeq(scopes, 1, n - 1) EXCEPT
                      ![n - 1].exits = @ \o scopes[n].exits \o scopes[n].defers]
  PROVE  /\ scopes' \in Seq(Frame) /\ scopes' # <<>>
         /\ DOMAIN scopes = 1..n /\ DOMAIN scopes' = 1..n - 1 /\ n \in Nat
         /\ \A i \in 1..n - 1 :
              scopes'[i].kind = scopes[i].kind /\ scopes'[i].vars = scopes[i].vars
<1>1. scopes \in Seq(Frame) /\ n \in Nat /\ DOMAIN scopes = 1..n
  BY LenProperties DEF Ready, Typed
<1>2. PICK outer : outer = SubSeq(scopes, 1, n - 1)
  OBVIOUS
<1>3. /\ outer \in Seq(Frame) /\ Len(outer) = n - 1
      /\ \A i \in 1..n - 1 : outer[i] = scopes[i]
  <2>1. \A i \in 1..n - 1 : scopes[i] \in Frame
    BY <1>1, ElementOfSeq
  <2>2. n - 1 \in Int /\ 1 \in Int /\ 1 <= n - 1
    BY <1>1
  <2> QED
    BY <2>1, <2>2, <1>1, <1>2, SubSeqProperties
<1>4. PICK f : f = outer[n - 1]
  OBVIOUS
<1>5. PICK inner : inner = scopes[n]
  OBVIOUS
<1>6. f \in Frame /\ inner \in Frame /\ n - 1 \in 1..Len(outer)
  BY <1>1, <1>3, <1>4, <1>5, ElementOfSeq
<1>7. PICK ss : ss = f.exits \o inner.exits \o inner.defers
  OBVIOUS
<1>8. ss \in Seq(Simple)
  <2>1. f.exits \o inner.exits \in Seq(Simple)
    BY <1>6, FrameKinds, ConcatProperties
  <2> QED
    BY <2>1, <1>6, <1>7, FrameKinds, ConcatProperties
<1>9. PICK g : g = [f EXCEPT !.exits = ss]
  OBVIOUS
<1>10. g \in Frame /\ g.kind = f.kind /\ g.vars = f.vars
  BY <1>6, <1>8, <1>9 DEF Frame
<1>11. PICK left : left = [outer EXCEPT ![n - 1] = g]
  OBVIOUS
<1>12. scopes' = left
  <2>1. scopes' = [outer EXCEPT ![n - 1].exits = @ \o inner.exits \o inner.defers]
    BY <1>2, <1>5
  <2>2. DOMAIN outer = 1..Len(outer)
    BY <1>3, LenProperties
  <2> QED
    BY <2>1, <2>2, <1>4, <1>6, <1>7, <1>9, <1>11
<1>13. /\ left \in Seq(Frame) /\ Len(left) = n - 1
       /\ \A i \in 1..n - 1 : left[i] = IF i = n - 1 THEN g ELSE outer[i]
  BY <1>3, <1>6, <1>10, <1>11, ExceptSeq
<1>14. DOMAIN left = 1..n - 1 /\ left # <<>>
  BY <1>1, <1>13, LenProperties, EmptySeq
<1>15. \A i \in 1..n - 1 :
         left[i].kind = scopes[i].kind /\ left[i].vars = scopes[i].vars
  BY <1>3, <1>4, <1>10, <1>13
<1>16. /\ left \in Seq(Frame) /\ left # <<>> /\ DOMAIN left = 1..n - 1
       /\ \A i \in 1..n - 1 :
            left[i].kind = scopes[i].kind /\ left[i].vars = scopes[i].vars
  BY <1>13, <1>14, <1>15
<1> QED
  BY <1>1, <1>12, <1>16, Zenon

LEMMA CloseGoes ==
  ASSUME Ready, Close
  PROVE  Goes
<1>1. PICK n : n = Len(scopes)
  OBVIOUS
<1>2. PICK inner : inner = scopes[n]
  OBVIOUS
<1>3. PICK known : known = IF inner.kind = "if" THEN Named(table, "cont", Label) ELSE table
  OBVIOUS
<1>4. status = "compile" /\ Idle /\ n > 1
  BY <1>1 DEF Close
<1>5. CASE Crash
  BY <1>5, CrashGoes
<1>6. CASE /\ Discard \notin Leaves(inner)
           /\ table' = Restrict(known, DOMAIN known \ Leaves(inner))
           /\ code' = IF inner.kind = "body" THEN code ELSE Append(code, Branch)
           /\ scopes' = [SubSeq(scopes, 1, n - 1) EXCEPT
                           ![n - 1].exits = @ \o inner.exits \o inner.defers]
           /\ UNCHANGED <<rows, binding, todo, written, pass, status, error, history>>
  <2>1. /\ scopes' \in Seq(Frame) /\ scopes' # <<>>
        /\ DOMAIN scopes = 1..n /\ DOMAIN scopes' = 1..n - 1 /\ n \in Nat
        /\ \A i \in 1..n - 1 :
             scopes'[i].kind = scopes[i].kind /\ scopes'[i].vars = scopes[i].vars
    BY <1>1, <1>2, <1>4, <1>6, FramesLeft
  <2>2. /\ Coded(code') /\ Extends(code, code') /\ Tabled(code', table)
        /\ Len(code') \in Nat
    <3>1. Coded(code') /\ Extends(code, code') /\ Tabled(code', table)
      BY <1>6, Branches, ExtendsItself DEF Ready, Store
    <3> QED
      BY <3>1, LenProperties DEF Coded
  <2>3. /\ Tabled(code', known) /\ Enlarges(table, known)
        /\ DOMAIN known \subseteq DOMAIN table \cup Given
    BY <2>2, <1>3, BlockNames, EnlargesItself
  <2>4. /\ DOMAIN table' = DOMAIN known \ Leaves(inner)
        /\ \A m \in DOMAIN known \ Leaves(inner) : table'[m] = known[m]
    BY <1>6 DEF Restrict
  <2>5. Tabled(code', table')
    BY <2>3, <2>4 DEF Tabled
  <2>6. kept' = kept /\ UNCHANGED <<rows, binding, todo, written, pass, status, error, news>>
    BY <1>6 DEF history
  <2>7. Refers(code', binding'.from)
    BY <2>2, <2>6, BindingKinds, RefersLater, LenProperties
    DEF Ready, Store, Coded, Typed
  <2>8. Compiles
    BY <2>2, <2>5, <2>6, <2>7, <1>4, GrownCompiles DEF Ready
  <2>9. Typed'
    BY <2>1, <2>6 DEF Ready, Typed
  <2>10. Shape'
    <3>1. \A i \in DOMAIN scopes' : scopes'[i].kind = "body" => scopes'[i].vars = <<>>
      BY <2>1 DEF Ready, Shape
    <3>2. scopes'[1].kind = "body"
      <4>1. 1 \in 1..n - 1
        BY <2>1, <1>4
      <4> QED
        BY <4>1, <2>1, <1>4 DEF Ready, Shape
    <3> QED
      BY <3>1, <3>2, <2>1, <2>6, <1>4, IdleStays DEF Ready, Shape, pass
  <2>11. NamesInv'
    <3>1. /\ \A m \in DOMAIN kept : m \in DOMAIN table /\ table[m].at = kept[m]
          /\ Scoped \subseteq DOMAIN table \ DOMAIN kept
          /\ DOMAIN table \subseteq Scoped \cup DOMAIN kept \cup Given
          /\ \A i, j \in Heads : i # j => HeadNames(i) \cap HeadNames(j) = {}
      BY <1>4, IdlePending DEF Ready, NamesInv
    <3>2. Pending' = {} /\ Given' = Given
      BY <2>6, <1>4, IdleStays DEF Given
    <3>3. Heads' = Heads \ {n} /\ \A i \in Heads' : HeadNames(i)' = HeadNames(i)
      <4>1. \A i \in DOMAIN scopes' : i \in DOMAIN scopes /\ i # n
        BY <2>1
      <4>2. \A i \in DOMAIN scopes : i # n => i \in DOMAIN scopes'
        BY <2>1
      <4> QED
        BY <4>1, <4>2, <2>1 DEF Heads, HeadNames
    <3>4. /\ n \in Heads => HeadNames(n) = Leaves(inner)
          /\ n \notin Heads => Leaves(inner) = {}
      <4>1. n \in DOMAIN scopes
        BY <2>1, <1>4
      <4>2. Leaves(inner) = Range(inner.vars)
        BY DEF Leaves, Range
      <4>3. n \in Heads => HeadNames(n) = Leaves(inner)
        BY <4>2, <1>2, <1>6 DEF HeadNames
      <4>4. n \notin Heads => inner.vars = <<>>
        BY <4>1, <1>2 DEF Heads, Ready, Shape
      <4>5. inner.vars = <<>> => Leaves(inner) = {}
        BY DEF Leaves
      <4> QED
        BY <4>3, <4>4, <4>5
    <3>5. Scoped' = Scoped \ Leaves(inner) /\ Leaves(inner) \subseteq Scoped
      <4>1. CASE n \in Heads
        <5>1. Scoped' = UNION {HeadNames(i) : i \in Heads \ {n}}
          BY <3>3 DEF Scoped
        <5>2. \A i \in Heads \ {n} : HeadNames(i) \cap Leaves(inner) = {}
          BY <4>1, <3>1, <3>4
        <5> QED
          BY <5>1, <5>2, <4>1, <3>4 DEF Scoped
      <4>2. CASE n \notin Heads
        BY <4>2, <3>3, <3>4 DEF Scoped
      <4> QED
        BY <4>1, <4>2
    <3>6. \A m \in DOMAIN kept' : m \in DOMAIN table' /\ table'[m].at = kept'[m]
      BY <3>1, <3>5, <2>3, <2>4, <2>6 DEF Enlarges
    <3>7. Scoped' \cup Pending' \subseteq DOMAIN table' \ DOMAIN kept'
      BY <3>1, <3>2, <3>5, <2>3, <2>4, <2>6 DEF Enlarges
    <3>8. DOMAIN table' \subseteq Scoped' \cup Pending' \cup DOMAIN kept' \cup Given'
      BY <3>1, <3>2, <3>5, <2>3, <2>4, <2>6
    <3>9. \A i, j \in Heads' : i # j => HeadNames(i)' \cap HeadNames(j)' = {}
      BY <3>1, <3>3
    <3>10. \A i \in Heads' : HeadNames(i)' \cap Pending' = {}
      BY <3>2
    <3> QED
      BY <3>6, <3>7, <3>8, <3>9, <3>10 DEF NamesInv
  <2> QED
    BY <2>8, <2>9, <2>10, <2>11 DEF Goes
<1> QED
  BY <1>1, <1>2, <1>3, <1>5, <1>6 DEF Close

(* The code of a declaration: the variable first, the addresses of the     *)
(* members that are given values from the third on, each two apart.        *)
LEMMA DeclEmits ==
  ASSUME NEW is, Coded(is), NEW s, s.struct \in Struct, s.members \in Seq(Field),
         NEW js, js = DeclCode(s, Len(is) + 1)
  PROVE  /\ js \in Seq(Instruction(Len(is) + Len(js)))
         /\ 1 \in 1..Len(js) /\ js[1].type = PointerTo(Plain(s.struct))
         /\ \A i \in DOMAIN s.members :
              i \in Nat /\ 2 * i + 1 \in 1..Len(js)
              /\ js[2 * i + 1].type = PointerTo(Plain("int"))
<1>a. PICK l : l = Len(is)
  OBVIOUS
<1>b. PICK c : c = Len(s.members)
  OBVIOUS
<1> DEFINE at == l + 1
           t == PointerTo(Plain(s.struct))
           u == PointerTo(Plain("int"))
<1>1. /\ l \in Nat /\ c \in Nat /\ DOMAIN s.members = 1..c
      /\ t \in Type /\ u \in Type /\ Plain("int") \in Type /\ Plain(s.struct) \in Type
      /\ t.ptr > 0
  BY <1>a, <1>b, LenProperties, Types DEF Coded
<1> HIDE DEF t, u
<1>2. CASE s.members = <<>>
  <2>1. PICK x : x = Inst("alloca", t, 0)
    OBVIOUS
  <2>2. js = <<x>>
    BY <2>1, <1>2 DEF DeclCode, t
  <2>3. x \in Instruction(Len(is) + 1) /\ x.type = t
    BY <2>1, <1>1, Insts DEF Ops
  <2>4. js \in Seq(Instruction(Len(is) + Len(js))) /\ Len(js) = 1 /\ js[1] = x
    BY <2>2, <2>3, EmitsOne
  <2>5. DOMAIN s.members = {}
    BY <1>2
  <2> QED
    BY <2>3, <2>4, <2>5 DEF t
<1>3. CASE s.members # <<>>
  <2> DEFINE N == l + 2 * c + 4
             I == Instruction(N)
  <2>1. PICK x : x = Inst("alloca", t, 0)
    OBVIOUS
  <2>2. PICK ms : ms = MemberCode(s, at + 1)
    OBVIOUS
  <2>3. PICK y : y = Inst("load", Plain(s.struct), at + 1)
    OBVIOUS
  <2>4. PICK z : z = Inst("store", Plain("int"), at + 2 + Len(ms))
    OBVIOUS
  <2>5. js = <<x, x>> \o ms \o <<y, z>>
    BY <2>1, <2>2, <2>3, <2>4, <1>3, <1>a DEF DeclCode, Initialised, t
  <2>6. /\ ms \in Seq(I) /\ Len(ms) = 2 * c
        /\ \A i \in 1..c : 2 * i - 1 \in 1..2 * c /\ ms[2 * i - 1].type = u
    <3>1. PICK g : g = Inst("gep", u, at + 1)
      OBVIOUS
    <3>2. PICK h : h = Inst("store", Plain("int"), 0)
      OBVIOUS
    <3>3. g \in I /\ g.type = u /\ h \in I
      <4>1. at + 1 \in 0..N /\ N \in Nat /\ 0 \in 0..N
        BY <1>1
      <4>2. "gep" \in Ops /\ "store" \in Ops
        BY DEF Ops
      <4> HIDE DEF N
      <4> QED
        BY <4>1, <4>2, <3>1, <3>2, <1>1, Insts
    <3> HIDE DEF I
    <3>4. ms = [i \in 1..2 * c |-> IF i % 2 = 1 THEN g ELSE h]
      BY <2>2, <3>1, <3>2, <1>b DEF MemberCode, u
    <3>5. PICK n \in Nat : n = 2 * c
      BY <1>1
    <3>6. ms \in [1..n -> I]
      BY <3>3, <3>4, <3>5
    <3>7. ms \in Seq(I) /\ Len(ms) = n
      BY <3>6
    <3>8. \A i \in 1..c : 2 * i - 1 \in 1..2 * c /\ (2 * i - 1) % 2 = 1
      BY <1>1
    <3> QED
      BY <3>3, <3>4, <3>5, <3>7, <3>8
  <2>7. x \in I /\ y \in I /\ z \in I /\ x.type = t
    <3>1. 0 \in 0..N /\ at + 1 \in 0..N /\ at + 2 + Len(ms) \in 0..N /\ N \in Nat
      <4>1. PICK k : k = Len(ms)
        OBVIOUS
      <4>2. k = 2 * c
        BY <4>1, <2>6
      <4>3. k \in Nat /\ N = l + k + 4
        BY <4>2, <1>1
      <4> HIDE DEF N
      <4>4. N \in Nat /\ 0 <= N /\ l + 2 <= N /\ l + 3 + k <= N
        BY <4>3, <1>1
      <4>5. l + 3 + k \in Nat /\ l + 2 \in Nat /\ at + 1 = l + 2 /\ at + 2 + k = l + 3 + k
        BY <4>3, <1>1
      <4>6. 0 \in 0..N /\ at + 1 \in 0..N /\ at + 2 + k \in 0..N
        BY <4>4, <4>5
      <4> QED
        BY <4>1, <4>4, <4>6
    <3>2. /\ "alloca" \in Ops /\ "store" \in Ops /\ "load" \in Ops
          /\ "store" # "alloca" /\ "load" # "alloca"
      BY DEF Ops
    <3> HIDE DEF N
    <3> QED
      BY <3>1, <3>2, <2>1, <2>3, <2>4, <1>1, Insts
  <2> HIDE DEF I
  <2>8. /\ <<x, x>> \in Seq(I) /\ Len(<<x, x>>) = 2 /\ <<x, x>>[1] = x
        /\ <<y, z>> \in Seq(I) /\ Len(<<y, z>>) = 2
    BY <2>7
  <2>9. PICK front : front = <<x, x>> \o ms
    OBVIOUS
  <2>10. /\ front \in Seq(I) /\ Len(front) = 2 + 2 * c
         /\ front[1] = x
         /\ \A i \in 1..2 * c : front[i + 2] = ms[i]
    <3>1. PICK xs : xs = <<x, x>>
      OBVIOUS
    <3>2. xs \in Seq(I) /\ Len(xs) = 2 /\ xs[1] = x /\ front = xs \o ms
      BY <3>1, <2>8, <2>9
    <3>3. /\ front \in Seq(I) /\ Len(front) = Len(xs) + Len(ms)
          /\ \A i \in 1 .. Len(xs) + Len(ms) : front[i] =
               IF i <= Len(xs) THEN xs[i] ELSE ms[i - Len(xs)]
      BY <3>2, <2>6, ConcatProperties
    <3>4. /\ 1 \in 1..2 + 2 * c
          /\ \A i \in 1..2 * c : i + 2 \in 1..2 + 2 * c /\ i + 2 > 2 /\ i + 2 - 2 = i
      BY <1>1
    <3> QED
      BY <3>2, <3>3, <3>4, <2>6
  <2>11. /\ js \in Seq(I) /\ Len(js) = 2 * c + 4
         /\ \A i \in 1..2 + 2 * c : js[i] = front[i]
    <3>1. PICK ys : ys = <<y, z>>
      OBVIOUS
    <3>2. ys \in Seq(I) /\ js = front \o ys
      BY <3>1, <2>5, <2>8, <2>9
    <3>3. front \in Seq(I)
      BY <2>10
    <3>4. /\ js \in Seq(I) /\ Len(js) = Len(front) + Len(ys)
          /\ \A i \in 1 .. Len(front) + Len(ys) : js[i] =
               IF i <= Len(front) THEN front[i] ELSE ys[i - Len(front)]
      <4>1. /\ front \o ys \in Seq(I)
            /\ Len(front \o ys) = Len(front) + Len(ys)
            /\ \A i \in 1 .. Len(front) + Len(ys) : (front \o ys)[i] =
                 IF i <= Len(front) THEN front[i] ELSE ys[i - Len(front)]
        BY <3>2, <3>3, ConcatProperties
      <4> QED
        BY <3>2, <4>1
    <3>5. Len(ys) = 2
      BY <3>1
    <3> QED
      BY <3>4, <3>5, <2>10, <1>1
  <2>12. js \in Seq(Instruction(Len(is) + Len(js)))
    <3>1. N = Len(is) + Len(js)
      <4>1. PICK k : k = Len(js)
        OBVIOUS
      <4>2. k = 2 * c + 4
        BY <4>1, <2>11
      <4>3. N = l + k
        BY <4>2, <1>1
      <4> QED
        BY <4>1, <4>3, <1>a
    <3> QED
      BY <3>1, <2>11 DEF I
  <2>13. 1 \in 1..Len(js) /\ js[1].type = t
    <3>1. 1 \in 1..2 + 2 * c /\ 1 \in 1..2 * c + 4
      BY <1>1
    <3> QED
      BY <3>1, <2>7, <2>10, <2>11
  <2>14. ASSUME NEW i \in 1..c
         PROVE  i \in Nat /\ 2 * i + 1 \in 1..Len(js) /\ js[2 * i + 1].type = u
    <3>1. PICK k : k = 2 * i - 1
      OBVIOUS
    <3>2. /\ k \in 1..2 * c /\ ms[k].type = u /\ k + 2 \in 1..2 + 2 * c
          /\ k + 2 = 2 * i + 1 /\ i \in Nat
      BY <3>1, <2>6, <1>1
    <3>3. js[k + 2] = ms[k]
      BY <3>2, <2>10, <2>11
    <3>4. k + 2 \in 1..Len(js)
      BY <3>2, <2>11, <1>1
    <3> QED
      BY <3>2, <3>3, <3>4
  <2> QED
    BY <2>12, <2>13, <2>14, <1>1 DEF t, u
<1> QED
  BY <1>2, <1>3

(* The names of a declaration stand for what its code makes.               *)
LEMMA DeclTabled ==
  ASSUME Store, NEW s, s.name \in Var, s.struct \in Struct, s.members \in Seq(Field),
         s.name \notin DOMAIN table,
         NEW js, js = DeclCode(s, Len(code) + 1), NEW is, is = code \o js,
         NEW names, names = DeclNames(s, Len(code) + 1)
  PROVE  /\ Coded(is) /\ Extends(code, is) /\ Len(code) + 1 \in 1..Len(is)
         /\ Tabled(is, names) /\ Enlarges(table, names)
         /\ s.name \in DOMAIN names /\ names[s.name].at = Len(code) + 1
         /\ DOMAIN names \subseteq DOMAIN table \cup {s.name} \cup Field
<1> DEFINE at == Len(code) + 1
<1>1. Coded(code) /\ Len(code) \in Nat /\ Tabled(code, table)
  BY LenProperties DEF Store, Coded
<1>2. /\ js \in Seq(Instruction(Len(code) + Len(js)))
      /\ 1 \in 1..Len(js) /\ js[1].type = PointerTo(Plain(s.struct))
      /\ \A i \in DOMAIN s.members :
           i \in Nat /\ 2 * i + 1 \in 1..Len(js)
           /\ js[2 * i + 1].type = PointerTo(Plain("int"))
  BY <1>1, DeclEmits
<1>3. /\ Coded(is) /\ Extends(code, is) /\ Len(js) \in Nat
      /\ Len(is) = Len(code) + Len(js)
      /\ \A i \in 1..Len(js) : is[Len(code) + i] = js[i]
  BY <1>1, <1>2, Emits
<1>4. at \in 1..Len(is)
  BY <1>1, <1>2, <1>3
<1>5. Tabled(is, table)
  BY <1>1, <1>3, TabledLater
<1>6. PICK ms : ms = {s.members[i] : i \in DOMAIN s.members}
  OBVIOUS
<1>7. /\ DOMAIN names = DOMAIN table \cup {s.name} \cup ms
      /\ \A m \in DOMAIN names : names[m] =
           IF m \in DOMAIN table THEN table[m]
           ELSE IF m = s.name THEN [at |-> at, type |-> PointerTo(Plain(s.struct))]
           ELSE MemberAddress(s, m, at)
  BY <1>6 DEF DeclNames
<1>8. ms \subseteq Field /\ Field \subseteq Var
  BY <1>6, ElementOfSeq, LenProperties, NameAssumption
<1>9. PICK v : v = [at |-> at, type |-> PointerTo(Plain(s.struct))]
  OBVIOUS
<1>10. v \in Value /\ Refers(is, v) /\ v.at = at
  <2>1. PointerTo(Plain(s.struct)) \in Type
    BY Types
  <2>2. is[at].type = PointerTo(Plain(s.struct))
    BY <1>2, <1>3
  <2> QED
    BY <2>1, <2>2, <1>1, <1>4, <1>9 DEF Value, Refers
<1>11. ASSUME NEW m \in ms
       PROVE  MemberAddress(s, m, at) \in Value /\ Refers(is, MemberAddress(s, m, at))
  <2>1. PICK i : i = CHOOSE j \in DOMAIN s.members : s.members[j] = m
    OBVIOUS
  <2>2. i \in DOMAIN s.members
    BY <2>1, <1>6
  <2>3. PICK w : w = MemberAddress(s, m, at)
    OBVIOUS
  <2>4. w = [at |-> at + 2 * i, type |-> PointerTo(Plain("int"))]
    BY <2>1, <2>3 DEF MemberAddress
  <2>5. PICK k : k = 2 * i + 1
    OBVIOUS
  <2>6. /\ i \in Nat /\ k \in 1..Len(js) /\ js[k].type = PointerTo(Plain("int"))
    BY <2>2, <2>5, <1>2
  <2>7. at + 2 * i = Len(code) + k /\ at + 2 * i \in Nat /\ Len(code) + k \in 1..Len(is)
    BY <2>5, <2>6, <1>1, <1>3
  <2>8. is[Len(code) + k].type = PointerTo(Plain("int"))
    BY <2>6, <1>3
  <2>9. PointerTo(Plain("int")) \in Type
    BY Types
  <2>10. w.at = Len(code) + k /\ w.type = PointerTo(Plain("int")) /\ w \in Value
    BY <2>4, <2>7, <2>9 DEF Value
  <2> QED
    BY <2>3, <2>7, <2>8, <2>10 DEF Refers
<1>12. ASSUME NEW m \in DOMAIN names
       PROVE  names[m] \in Value /\ Refers(is, names[m])
  <2>1. CASE m \in DOMAIN table
    BY <2>1, <1>5, <1>7 DEF Tabled
  <2>2. CASE m \notin DOMAIN table /\ m = s.name
    BY <2>2, <1>7, <1>9, <1>10
  <2>3. CASE m \notin DOMAIN table /\ m # s.name
    BY <2>3, <1>7, <1>11
  <2> QED
    BY <2>1, <2>2, <2>3
<1>13. DOMAIN names \subseteq Var
  BY <1>5, <1>7, <1>8 DEF Tabled
<1>14. Enlarges(table, names)
  BY <1>7 DEF Enlarges
<1>15. s.name \in DOMAIN names /\ names[s.name].at = at
  BY <1>7, <1>9, <1>10
<1>16. DOMAIN names \subseteq DOMAIN table \cup {s.name} \cup Field
  BY <1>7, <1>8
<1> QED
  BY <1>3, <1>4, <1>12, <1>13, <1>14, <1>15, <1>16 DEF Tabled

LEMMA DeclAssignStmtGoes ==
  ASSUME Ready, NEW s \in Coming, DeclAssignStmt(s)
  PROVE  Goes
<1>1. /\ Idle /\ Counted /\ s.name \in Var /\ s.struct \in Struct
      /\ s.members \in Seq(Field)
  BY ComingIs, StatementKinds DEF DeclAssignStmt
<1>2. CASE Fail("exists", s.name)
  BY <1>1, <1>2, FailGoes
<1>3. PICK js : js = DeclCode(s, Len(code) + 1)
  OBVIOUS
<1>4. CASE /\ IsUnique(table, s.name)
           /\ code' = code \o js
           /\ table' = DeclNames(s, Len(code) + 1)
           /\ kept' = [m \in DOMAIN kept \cup {s.name} |->
                         IF m = s.name THEN Len(code) + 1 ELSE kept[m]]
           /\ Advance
           /\ UNCHANGED <<rows, binding, scopes, news>>
  <2>1. s.name \notin DOMAIN table /\ Store
    BY <1>4 DEF IsUnique, Ready
  <2>2. /\ Coded(code') /\ Extends(code, code') /\ Len(code) + 1 \in 1..Len(code')
        /\ Tabled(code', table') /\ Enlarges(table, table')
        /\ s.name \in DOMAIN table' /\ table'[s.name].at = Len(code) + 1
        /\ DOMAIN table' \subseteq DOMAIN table \cup {s.name} \cup Field
    <3>1. PICK is : is = code'
      OBVIOUS
    <3>2. PICK names : names = table'
      OBVIOUS
    <3>3. is = code \o js /\ names = DeclNames(s, Len(code) + 1)
      BY <3>1, <3>2, <1>4
    <3>4. /\ Coded(is) /\ Extends(code, is) /\ Len(code) + 1 \in 1..Len(is)
          /\ Tabled(is, names) /\ Enlarges(table, names)
          /\ s.name \in DOMAIN names /\ names[s.name].at = Len(code) + 1
          /\ DOMAIN names \subseteq DOMAIN table \cup {s.name} \cup Field
      BY <3>3, <2>1, <1>1, <1>3, DeclTabled
    <3> QED
      BY <3>1, <3>2, <3>4, Zenon
  <2>3. /\ DOMAIN kept' = DOMAIN kept \cup {s.name}
        /\ kept'[s.name] = Len(code) + 1
        /\ \A m \in DOMAIN kept : m # s.name => kept'[m] = kept[m]
    BY <1>4
  <2>4. DOMAIN kept \subseteq DOMAIN table
    BY DEF Ready, NamesInv
  <2>5. /\ written' \in 0..MaxStatements /\ todo' \in Seq(Simple)
        /\ UNCHANGED <<status, error, pass>>
    BY <1>1, <1>4, Advances
  <2>6. Kept' /\ Enlarges(kept, kept')
    <3>1. \A m \in DOMAIN kept : m \in Var /\ kept[m] \in 1..Len(code')
      <4>1. Len(code) \in Nat /\ Len(code') \in Nat
        BY <2>2, LenProperties DEF Ready, Store, Coded
      <4> QED
        BY <4>1, <2>2 DEF Ready, Kept, Extends
    <3>2. \A m \in DOMAIN kept' : m \in Var /\ kept'[m] \in 1..Len(code')
      BY <3>1, <2>1, <2>2, <2>3, <2>4, <1>1
    <3>3. Enlarges(kept, kept')
      BY <2>1, <2>3, <2>4 DEF Enlarges
    <3> QED
      BY <3>2, <3>3 DEF Kept
  <2>7. Refers(code', binding'.from)
    <3>1. PICK is : is = code'
      OBVIOUS
    <3>2. /\ binding.from \in Value /\ Refers(code, binding.from)
          /\ Len(is) \in Nat /\ Len(code) \in Nat /\ Extends(code, is)
      BY <3>1, <2>2, BindingKinds, LenProperties DEF Ready, Typed, Store, Coded
    <3>3. Refers(is, binding.from)
      BY <3>2, RefersLater
    <3> QED
      BY <3>1, <3>3, <1>4
  <2>8. Compiles
    BY <2>2, <2>5, <2>6, <2>7 DEF Compiles, Store, Ready, Compiling
  <2>9. Typed'
    BY <2>5, <1>4 DEF Ready, Typed
  <2>10. Shape'
    BY <2>5, <1>1, <1>4, IdleStays DEF Ready, Shape, pass
  <2>11. NamesInv'
    <3>1. /\ \A m \in DOMAIN kept : m \in DOMAIN table /\ table[m].at = kept[m]
          /\ Scoped \subseteq DOMAIN table \ DOMAIN kept
          /\ DOMAIN table \subseteq Scoped \cup DOMAIN kept \cup Given
          /\ \A i, j \in Heads : i # j => HeadNames(i) \cap HeadNames(j) = {}
      BY <1>1, IdlePending DEF Ready, NamesInv
    <3>2. /\ Pending' = {} /\ Given' = Given /\ SameHeads /\ Scoped' = Scoped
      <4>1. SameHeads
        BY <1>4, SameScopes
      <4> QED
        BY <4>1, <1>1, <1>4, IdleStays DEF Given, Scoped, SameHeads
    <3>3. \A m \in DOMAIN kept' : m \in DOMAIN table' /\ table'[m].at = kept'[m]
      BY <3>1, <2>1, <2>2, <2>3, <2>4 DEF Enlarges
    <3>4. Scoped' \cup Pending' \subseteq DOMAIN table' \ DOMAIN kept'
      BY <3>1, <3>2, <2>1, <2>2, <2>3 DEF Enlarges
    <3>5. DOMAIN table' \subseteq Scoped' \cup Pending' \cup DOMAIN kept' \cup Given'
      BY <3>1, <3>2, <2>2, <2>3 DEF Given
    <3>6. \A i, j \in Heads' : i # j => HeadNames(i)' \cap HeadNames(j)' = {}
      BY <3>1, <3>2 DEF SameHeads
    <3>7. \A i \in Heads' : HeadNames(i)' \cap Pending' = {}
      BY <3>2
    <3> QED
      BY <3>3, <3>4, <3>5, <3>6, <3>7 DEF NamesInv
  <2> QED
    BY <2>8, <2>9, <2>10, <2>11 DEF Goes
<1> QED
  BY <1>2, <1>3, <1>4 DEF DeclAssignStmt

------------------------------------------------------------------------------
(* The compiler as a whole *)

CompileStep ==
  \/ \E s \in Coming : Compile(s)
  \/ LetStart \/ LetPart \/ LetValue \/ LetEnd
  \/ Close \/ BodyEnd \/ Skip \/ FunctionEnd

PassStep == VisitInstruction \/ VisitRow \/ PassEnd

LEMMA CompilerCompiles == CompileStep => Compiling
<1>1. \A s \in Coming : Compiling
  BY DEF Coming, Compiling
<1> QED
  BY <1>1 DEF CompileStep, LetStart, LetPart, LetValue, LetEnd, Letting, Close,
              BodyEnd, Skip, FunctionEnd, Compiling

LEMMA CompilerGoes ==
  ASSUME Ready, RowsMean, CompileStep
  PROVE  Goes /\ RowsMean'
<1>1. ASSUME Goes, rows' = rows, news' = news
      PROVE  Goes /\ RowsMean'
  BY <1>1, RowsStay DEF Goes
<1> USE DEF compiler, history
<1>2. ASSUME NEW s \in Coming, Compile(s)
      PROVE  Goes /\ RowsMean'
  <2>1. CASE BeginLet(s)
    BY <2>1, <1>1, BeginLetGoes DEF BeginLet
  <2>2. CASE OpenBody(s)
    BY <2>2, <1>1, OpenBodyGoes DEF OpenBody
  <2>3. CASE OpenIf(s)
    BY <2>3, <1>1, OpenIfGoes DEF OpenIf
  <2>4. CASE OpenFor(s)
    BY <2>4, <1>1, OpenForGoes DEF OpenFor
  <2>5. CASE Defer(s)
    BY <2>5, <1>1, DeferGoes DEF Defer
  <2>6. CASE DeclAssignStmt(s)
    <3>1. rows' = rows /\ news' = news
      BY <2>6 DEF DeclAssignStmt, Fail
    <3> QED
      BY <2>6, <3>1, <1>1, DeclAssignStmtGoes
  <2>7. CASE Delete(s)
    <3>1. rows' = rows /\ news' = news
      BY <2>7 DEF Delete, Fail, Crash, Finish
    <3> QED
      BY <2>7, <3>1, <1>1, DeleteGoes
  <2>8. CASE Assign(s)
    <3>1. rows' = rows /\ news' = news
      BY <2>8 DEF Assign, Fail, Crash, Finish
    <3> QED
      BY <2>8, <3>1, <1>1, AssignGoes
  <2> QED
    BY <1>2, <2>1, <2>2, <2>3, <2>4, <2>5, <2>6, <2>7, <2>8 DEF Compile
<1>3. CASE LetStart
  <2>1. rows' = rows /\ news' = news
    BY <1>3 DEF LetStart, Fail, Crash
  <2> QED
    BY <2>1, <1>1, <1>3, LetStartGoes
<1>4. CASE LetPart
  <2>1. rows' = rows /\ news' = news
    BY <1>4 DEF LetPart, Fail, Crash
  <2> QED
    BY <2>1, <1>1, <1>4, LetPartGoes
<1>5. CASE LetValue
  BY <1>5, LetValueGoes
<1>6. CASE LetEnd
  BY <1>1, <1>6, LetEndGoes DEF LetEnd
<1>7. CASE Close
  <2>1. rows' = rows /\ news' = news
    BY <1>7 DEF Close, Crash
  <2> QED
    BY <2>1, <1>1, <1>7, CloseGoes
<1>8. CASE BodyEnd
  BY <1>1, <1>8, BodyEndGoes DEF BodyEnd
<1>9. CASE Skip
  BY <1>1, <1>9, SkipGoes DEF Skip
<1>10. CASE FunctionEnd
  BY <1>1, <1>10, FunctionEndGoes DEF FunctionEnd
<1> QED
  BY <1>2, <1>3, <1>4, <1>5, <1>6, <1>7, <1>8, <1>9, <1>10 DEF CompileStep

(* Before the pass no call is made, and none is owed.                      *)
LEMMA TallyBefore ==
  ASSUME ctors' = <<>>, cursor' = 0, status' # "done", Coded(code')
  PROVE  Tally'
<1>1. Len(code') \in Nat /\ DOMAIN code' = 1..Len(code')
  BY LenProperties DEF Coded
<1>2. ASSUME NEW i \in DOMAIN code'
      PROVE  Times(i)' = 0 /\ Owed(i)' = 0
  <2>1. {k \in DOMAIN ctors' : ctors'[k] = i} = {}
    OBVIOUS
  <2>2. {k \in 1..(cursor' - Len(code')) : news'[k].of.at = i} = {}
    <3>1. 1..(cursor' - Len(code')) = {}
      BY <1>1
    <3> QED
      BY <3>1
  <2>3. ~(i <= cursor')
    BY <1>1
  <2>4. Times(i)' = 0
    BY <2>1, FS_EmptySet DEF Times
  <2>5. Cardinality({k \in 1..(cursor' - Len(code')) : news'[k].of.at = i}) = 0
    BY <2>2, FS_EmptySet
  <2>6. Owed(i)' = 0
    BY <2>3, <2>5 DEF Owed
  <2> QED
    BY <2>4, <2>6
<1>3. DOMAIN ctors' = {}
  OBVIOUS
<1>4. ~(cursor' > 0)
  OBVIOUS
<1> QED
  BY <1>2, <1>3, <1>4 DEF Tally

LEMMA CompilerKeeps ==
  ASSUME IInv, CompileStep
  PROVE  IInv' /\ Compiles
<1>1. Ready /\ RowsMean /\ cursor = 0 /\ ctors = <<>>
  BY CompilerCompiles, IInvReady DEF IInv, Shape, Compiling
<1>2. Goes /\ RowsMean'
  BY <1>1, CompilerGoes
<1>3. /\ Coded(code') /\ Tabled(code', table') /\ Refers(code', binding'.from)
      /\ Kept' /\ Typed' /\ Shape' /\ NamesInv' /\ status' # "done"
      /\ cursor' = 0 /\ ctors' = <<>>
      /\ status' = "pass" => \A n \in DOMAIN table' : table'[n].at < Len(code')
  BY <1>1, <1>2 DEF Goes, Compiles, Store, pass
<1>4. Len(code') \in Nat /\ Len(rows') \in Nat
  BY <1>3, LenProperties DEF Coded, Typed
<1>5. TypeOK'
  <2>1. \A n \in DOMAIN table' : table'[n] \in Value /\ table'[n].at <= Len(code')
    BY <1>3, <1>4 DEF Tabled, Refers, Value
  <2>2. binding'.from.at <= Len(code')
    BY <1>3, <1>4 DEF Refers
  <2>3. ctors' \in Seq(1..Len(code')) /\ cursor' \in 0..Len(code') + Len(rows')
    BY <1>3, <1>4
  <2> QED
    BY <2>1, <2>2, <2>3, <1>3 DEF TypeOK, Coded, Tabled, Kept, Typed
<1>6. Values'
  BY <1>3 DEF Values, Tabled
<1>7. Tally'
  BY <1>3, TallyBefore
<1> QED
  BY <1>2, <1>3, <1>5, <1>6, <1>7 DEF IInv, Goes

------------------------------------------------------------------------------
(* pass::Ctor *)

(* How often j occurs among the first n.                                   *)
Count(f, n, j) == Cardinality({k \in 1..n : f[k] = j})

LEMMA Counts ==
  ASSUME NEW f, NEW n \in Nat, NEW j
  PROVE  /\ Count(f, n, j) \in Nat
         /\ Count(f, n + 1, j) = Count(f, n, j) + (IF f[n + 1] = j THEN 1 ELSE 0)
<1> DEFINE S == {k \in 1..n : f[k] = j}
           T == {k \in 1..n + 1 : f[k] = j}
<1>1. IsFiniteSet(S) /\ Cardinality(S) \in Nat
  <2>1. IsFiniteSet(1..n) /\ S \in SUBSET (1..n)
    BY FS_Interval
  <2> HIDE DEF S
  <2> QED
    BY <2>1, FS_Subset, FS_CardinalityType
<1>2. n + 1 \notin S
  OBVIOUS
<1>3. f[n + 1] = j => T = S \cup {n + 1}
  OBVIOUS
<1>4. f[n + 1] # j => T = S
  OBVIOUS
<1> HIDE DEF S, T
<1>5. Cardinality(T) = Cardinality(S) + (IF f[n + 1] = j THEN 1 ELSE 0)
  <2>1. CASE f[n + 1] = j
    BY <2>1, <1>1, <1>2, <1>3, FS_AddElement
  <2>2. CASE f[n + 1] # j
    BY <2>2, <1>1, <1>4
  <2> QED
    BY <2>1, <2>2
<1> QED
  BY <1>1, <1>5 DEF S, T, Count

(* One call more, for an object with a constructor.                        *)
LEMMA Constructs ==
  ASSUME ctors \in Seq(1..Len(code)), code' = code, NEW i \in 1..Len(code),
         Construct(i), \A k \in DOMAIN ctors : IsConstructed(code[ctors[k]].type)
  PROVE  /\ ctors' \in Seq(1..Len(code))
         /\ \A k \in DOMAIN ctors' : IsConstructed(code[ctors'[k]].type)
         /\ \A j : Times(j)' = Times(j) + (IF j = i /\ IsConstructed(code[i].type)
                                           THEN 1 ELSE 0)
         /\ \A j : Times(j) \in Nat
<1>1. PICK n \in Nat : n = Len(ctors) /\ DOMAIN ctors = 1..n
  BY LenProperties
<1>2. ASSUME NEW j
      PROVE  Times(j) = Count(ctors, n, j) /\ Times(j) \in Nat
  <2>1. Times(j) = Count(ctors, n, j)
    BY <1>1 DEF Times, Count
  <2> QED
    BY <2>1, Counts
<1>3. CASE IsConstructed(code[i].type)
  <2>1. ctors' = Append(ctors, i)
    BY <1>3 DEF Construct
  <2>2. PICK s : s = Append(ctors, i)
    OBVIOUS
  <2>3. /\ s \in Seq(1..Len(code)) /\ Len(s) = n + 1 /\ s[n + 1] = i
        /\ \A k \in 1..n : s[k] = ctors[k]
    BY <2>2, <1>1, AppendProperties
  <2>4. DOMAIN s = 1..n + 1
    BY <2>3, LenProperties
  <2>5. \A k \in DOMAIN s : IsConstructed(code[s[k]].type)
    <3>1. \A k \in DOMAIN s : k \in 1..n \/ k = n + 1
      BY <2>4, <1>1
    <3> QED
      BY <3>1, <2>3, <1>1, <1>3
  <2>6. ASSUME NEW j
        PROVE  Times(j)' = Times(j) + (IF j = i THEN 1 ELSE 0)
    <3>1. Times(j)' = Count(s, n + 1, j)
      BY <2>1, <2>2, <2>4 DEF Times, Count
    <3>2. Count(s, n, j) = Count(ctors, n, j)
      <4>1. {k \in 1..n : s[k] = j} = {k \in 1..n : ctors[k] = j}
        BY <2>3
      <4> QED
        BY <4>1 DEF Count
    <3>3. Count(s, n + 1, j) = Count(s, n, j) + (IF s[n + 1] = j THEN 1 ELSE 0)
      BY Counts
    <3> QED
      BY <3>1, <3>2, <3>3, <2>3, <1>2
  <2> QED
    BY <2>1, <2>2, <2>3, <2>5, <2>6, <1>2, <1>3
<1>4. CASE ~IsConstructed(code[i].type)
  <2>1. ctors' = ctors
    BY <1>4 DEF Construct
  <2>2. ASSUME NEW j
        PROVE  /\ Times(j) \in Nat
               /\ Times(j)' = Times(j) + (IF j = i /\ IsConstructed(code[i].type)
                                         THEN 1 ELSE 0)
    <3>1. Times(j)' = Times(j)
      BY <2>1 DEF Times
    <3> QED
      BY <3>1, <1>2, <1>4
  <2> QED
    BY <2>1, <2>2
<1> QED
  BY <1>3, <1>4

(* The pass disturbs nothing but its own count.                            *)
LEMMA PassKeeps ==
  ASSUME IInv, status = "pass", UNCHANGED <<compiler, error, history>>,
         status' \in {"pass", "done", "crash"}, ctors' \in Seq(1..Len(code)),
         cursor' \in 0..Len(code) + Len(rows), Tally'
  PROVE  IInv'
<1>1. UNCHANGED <<code, table, rows, binding, scopes, todo, written, error, kept, news>>
  BY DEF compiler, history
<1>2. TypeOK /\ Values /\ Shape /\ NamesInv /\ RowsMean
  BY DEF IInv
<1>3. TypeOK'
  BY <1>1, <1>2 DEF TypeOK, Statuses
<1>4. Values'
  BY <1>1, <1>2 DEF Values
<1>5. Shape'
  BY <1>1, <1>2 DEF Shape, Idle, Let
<1>6. NamesInv'
  BY <1>1, <1>2, NamesStay, SameScopes, SamePending, EnlargesItself
<1>7. RowsMean'
  <2>1. Clean' = Clean /\ \A k : RowMeans(k)' = RowMeans(k)
    BY <1>1 DEF Clean, RowMeans
  <2> QED
    BY <2>1, <1>1, <1>2 DEF RowsMean
<1> QED
  BY <1>3, <1>4, <1>5, <1>6, <1>7 DEF IInv

(* What the invariant says of the pass.                                    *)
LEMMA PassReady ==
  ASSUME IInv
  PROVE  /\ Coded(code) /\ Len(code) \in Nat /\ DOMAIN code = 1..Len(code)
         /\ rows \in Seq(Var) /\ Len(rows) \in Nat /\ DOMAIN rows = 1..Len(rows)
         /\ news \in Seq(New) /\ Len(news) \in Nat /\ DOMAIN news = 1..Len(news)
         /\ \A i \in 1..Len(code) : code[i] \in Instruction(Len(code))
         /\ ctors \in Seq(1..Len(code)) /\ cursor \in Nat
         /\ cursor <= Len(code) + Len(rows)
         /\ \A k \in DOMAIN ctors : IsConstructed(code[ctors[k]].type)
<1>1. Coded(code) /\ rows \in Seq(Var) /\ news \in Seq(New)
  BY DEF IInv, TypeOK, Coded
<1>2. Len(code) \in Nat /\ DOMAIN code = 1..Len(code)
  BY <1>1, LenProperties DEF Coded
<1>3. Len(rows) \in Nat /\ DOMAIN rows = 1..Len(rows)
  BY <1>1, LenProperties
<1>4. Len(news) \in Nat /\ DOMAIN news = 1..Len(news)
  BY <1>1, LenProperties
<1>5. \A i \in 1..Len(code) : code[i] \in Instruction(Len(code))
  BY <1>1, ElementOfSeq DEF Coded
<1>6. ctors \in Seq(1..Len(code)) /\ cursor \in 0..Len(code) + Len(rows)
  BY DEF IInv, TypeOK
<1> QED
  BY <1>1, <1>2, <1>3, <1>4, <1>5, <1>6 DEF IInv, Tally

(* Every struct on the stack, once.                                        *)
LEMMA VisitInstructionKeeps ==
  ASSUME IInv, VisitInstruction
  PROVE  IInv'
<1> DEFINE i == cursor + 1
<1>1. /\ status = "pass" /\ cursor < Len(code) /\ cursor' = i
      /\ IF code[i].op = "alloca" THEN Construct(i) ELSE UNCHANGED ctors
      /\ UNCHANGED <<compiler, status, error, history>>
  BY DEF VisitInstruction
<1>2. i \in 1..Len(code) /\ code' = code /\ rows' = rows /\ news' = news
  BY <1>1, PassReady DEF compiler, history
<1>3. /\ ctors' \in Seq(1..Len(code))
      /\ \A k \in DOMAIN ctors' : IsConstructed(code[ctors'[k]].type)
      /\ \A j : Times(j)' = Times(j) + (IF /\ j = i /\ code[i].op = "alloca"
                                           /\ IsConstructed(code[i].type)
                                        THEN 1 ELSE 0)
      /\ \A j : Times(j) \in Nat
  <2>1. CASE code[i].op = "alloca"
    <3>1. Construct(i)
      BY <1>1, <2>1
    <3> HIDE DEF i
    <3>2. /\ ctors' \in Seq(1..Len(code))
          /\ \A k \in DOMAIN ctors' : IsConstructed(code[ctors'[k]].type)
          /\ \A j : Times(j)' = Times(j) + (IF j = i /\ IsConstructed(code[i].type)
                                            THEN 1 ELSE 0)
          /\ \A j : Times(j) \in Nat
      BY <3>1, <1>2, PassReady, Constructs
    <3> QED
      BY <3>2, <2>1
  <2>2. CASE code[i].op # "alloca"
    <3>1. ctors' = ctors
      BY <1>1, <2>2
    <3>2. \A j : Times(j)' = Times(j)
      BY <3>1 DEF Times
    <3>3. \A j : Times(j) \in Nat
      <4>1. PICK n \in Nat : n = Len(ctors) /\ DOMAIN ctors = 1..n
        BY PassReady, LenProperties
      <4>2. \A j : Times(j) = Count(ctors, n, j)
        BY <4>1 DEF Times, Count
      <4> QED
        BY <4>2, Counts
    <3> QED
      BY <3>1, <3>2, <3>3, <2>2, PassReady
  <2> QED
    BY <2>1, <2>2
<1>4. \A j : Owed(j)' = Owed(j) + (IF /\ j = i /\ code[i].op = "alloca"
                                      /\ IsConstructed(code[i].type)
                                   THEN 1 ELSE 0) \/ j \notin DOMAIN code
  <2> SUFFICES ASSUME NEW j \in DOMAIN code
               PROVE  Owed(j)' = Owed(j) + (IF /\ j = i /\ code[i].op = "alloca"
                                               /\ IsConstructed(code[i].type)
                                            THEN 1 ELSE 0)
    OBVIOUS
  <2>1. 1..(cursor - Len(code)) = {} /\ 1..(cursor' - Len(code')) = {}
    BY <1>1, <1>2, PassReady
  <2>2. /\ Cardinality({k \in 1..(cursor - Len(code)) : news[k].of.at = j}) = 0
        /\ Cardinality({k \in 1..(cursor' - Len(code')) : news'[k].of.at = j}) = 0
    BY <2>1, FS_EmptySet
  <2>3. j \in Nat /\ cursor \in Nat
    BY PassReady
  <2>4. CASE IsConstructed(code[j].type)
    <3>1. Owed(j) = IF code[j].op = "alloca" /\ j <= cursor THEN 1 ELSE 0
      BY <2>2, <2>4 DEF Owed
    <3>2. Owed(j)' = IF code[j].op = "alloca" /\ j <= cursor' THEN 1 ELSE 0
      BY <2>2, <2>4, <1>2 DEF Owed
    <3> QED
      BY <3>1, <3>2, <2>3, <2>4, <1>1
  <2>5. CASE ~IsConstructed(code[j].type)
    BY <2>5, <1>2 DEF Owed
  <2> QED
    BY <2>4, <2>5
<1>5. Clean' = Clean
  BY <1>2 DEF Clean
<1>6. Tally'
  <2>1. Clean' => \A j \in DOMAIN code' : Times(j)' = Owed(j)'
    BY <1>2, <1>3, <1>4, <1>5 DEF IInv, Tally
  <2>2. status' = "pass"
    BY <1>1
  <2> QED
    BY <2>1, <2>2, <1>2, <1>3 DEF Tally
<1>7. cursor' \in 0..Len(code) + Len(rows)
  BY <1>1, PassReady
<1> QED
  BY <1>1, <1>3, <1>6, <1>7, PassKeeps

(* The operand that a row leads to is in the code.                         *)
LEMMA Operands ==
  ASSUME IInv, status = "pass", NEW n \in DOMAIN table, table[n].at # 0,
         ~Dangles(table[n].at)
  PROVE  OperandBehind(table[n].at) \in 1..Len(code)
<1>1. PICK i : i = table[n].at
  OBVIOUS
<1>2. i \in 1..Len(code) /\ i < Len(code)
  BY <1>1 DEF IInv, Values, Refers
<1>3. i + 1 \in 1..Len(code)
  BY <1>2, PassReady
<1>4. code[i + 1].arg \in 0..Len(code)
  BY <1>3, PassReady DEF Instruction
<1>5. OperandBehind(i) = i \/ OperandBehind(i) = code[i + 1].arg
  BY DEF OperandBehind
<1>6. OperandBehind(i) # 0
  BY <1>1 DEF Dangles
<1>7. OperandBehind(i) \in 1..Len(code)
  BY <1>2, <1>4, <1>5, <1>6, PassReady
<1> QED
  BY <1>1, <1>7

(* As long as lets and rows agree, a row leads to the object its let meant,*)
(* and to nothing only if no instruction made that.                        *)
LEMMA RowLeads ==
  ASSUME IInv, status = "pass", Clean, NEW n \in DOMAIN rows
  PROVE  /\ rows[n] \in DOMAIN table /\ table[rows[n]].at # 0 /\ n \in DOMAIN news
         /\ OperandBehind(table[rows[n]].at) = news[n].of.at
         /\ Dangles(table[rows[n]].at) <=> news[n].of.at = 0
<1>1. RowMeans(n) /\ Len(rows) = Len(news)
  BY DEF IInv, RowsMean
<1>2. PICK at : at = kept[rows[n]]
  OBVIOUS
<1>3. PICK v : v = news[n].of
  OBVIOUS
<1>4. /\ rows[n] \in DOMAIN kept /\ at + 1 \in 1..Len(code)
      /\ code[at].type.ptr > 1 /\ code[at + 1].arg = v.at
      /\ Refers(code, v) /\ v.type.ptr > 0
  BY <1>1, <1>2, <1>3 DEF RowMeans
<1>5. at \in 1..Len(code)
  BY <1>2, <1>4 DEF IInv, TypeOK
<1>6. rows[n] \in DOMAIN table /\ table[rows[n]].at = at
  BY <1>2, <1>4 DEF IInv, NamesInv
<1>7. n \in DOMAIN news
  BY <1>1, PassReady
<1>8. ~Called(at)
  <2>1. code[at].type.ptr # 1
    BY <1>4
  <2>2. ~IsConstructed(code[at].type)
    BY <2>1 DEF IsConstructed
  <2> QED
    BY <2>2, PassReady DEF Called
<1>9. OperandBehind(at) = v.at
  BY <1>4, <1>8 DEF OperandBehind
<1>10. v.at # 0 => code[v.at].type = v.type
  BY <1>4 DEF Refers
<1>11. Dangles(at) <=> v.at = 0
  <2>1. v.type.ptr # 0
    BY <1>4
  <2> QED
    BY <2>1, <1>9, <1>10 DEF Dangles
<1>12. at # 0
  BY <1>5, PassReady
<1> QED
  BY <1>3, <1>6, <1>7, <1>9, <1>11, <1>12

(* One more row is one more call for the object it leads to.               *)
LEMMA OwedMore ==
  ASSUME IInv, cursor >= Len(code), cursor' = cursor + 1,
         UNCHANGED <<compiler, history>>, NEW j \in DOMAIN code
  PROVE  Owed(j)' = Owed(j) + (IF /\ j = news[cursor - Len(code) + 1].of.at
                                  /\ IsConstructed(code[j].type)
                               THEN 1 ELSE 0)
<1>1. code' = code /\ news' = news /\ j \in 1..Len(code)
  BY PassReady DEF compiler, history
<1>2. PICK c \in Nat : c = cursor - Len(code)
  BY PassReady
<1>3. cursor' - Len(code') = c + 1
  <2>1. Len(code) \in Nat /\ cursor \in Nat
    BY PassReady
  <2>2. Len(code') = Len(code)
    BY <1>1
  <2> QED
    BY <1>2, <2>1, <2>2
<1>4. PICK f : f = [k \in Nat |-> news[k].of.at]
  OBVIOUS
<1>5. Cardinality({k \in 1..(cursor - Len(code)) : news[k].of.at = j}) = Count(f, c, j)
  <2>1. {k \in 1..c : news[k].of.at = j} = {k \in 1..c : f[k] = j}
    BY <1>4
  <2> QED
    BY <2>1, <1>2 DEF Count
<1>6. Cardinality({k \in 1..(cursor' - Len(code')) : news'[k].of.at = j})
      = Count(f, c + 1, j)
  <2>1. {k \in 1..c + 1 : news'[k].of.at = j} = {k \in 1..c + 1 : f[k] = j}
    BY <1>1, <1>4
  <2> QED
    BY <2>1, <1>3 DEF Count
<1>7. /\ Count(f, c, j) \in Nat
      /\ Count(f, c + 1, j) = Count(f, c, j) + (IF f[c + 1] = j THEN 1 ELSE 0)
  BY Counts
<1>8. f[c + 1] = news[cursor - Len(code) + 1].of.at
  BY <1>2, <1>4
<1>9. j <= cursor /\ j <= cursor'
  BY <1>1, PassReady
<1>10. CASE IsConstructed(code[j].type)
  <2>1. Owed(j) = Count(f, c, j) + (IF code[j].op = "alloca" THEN 1 ELSE 0)
    BY <1>5, <1>9, <1>10 DEF Owed
  <2>2. Owed(j)' = Count(f, c + 1, j) + (IF code[j].op = "alloca" THEN 1 ELSE 0)
    BY <1>1, <1>6, <1>9, <1>10 DEF Owed
  <2>3. PICK m \in Nat : m = Count(f, c, j)
    BY <1>7
  <2> QED
    BY <2>1, <2>2, <2>3, <1>7, <1>8, <1>10
<1>11. CASE ~IsConstructed(code[j].type)
  <2>1. Owed(j) = 0 /\ Owed(j)' = 0
    BY <1>1, <1>11 DEF Owed
  <2> QED
    BY <2>1, <1>11
<1> QED
  BY <1>10, <1>11

(* The calls do not change, nor what is owed.                              *)
LEMMA TimesStay ==
  ASSUME IInv, UNCHANGED <<compiler, pass, history>>
  PROVE  /\ Clean' = Clean
         /\ \A j : Times(j)' = Times(j) /\ Owed(j)' = Owed(j)
         /\ ctors' = ctors /\ code' = code /\ cursor' = cursor /\ news' = news
<1>1. ctors' = ctors /\ code' = code /\ cursor' = cursor /\ news' = news
  BY DEF compiler, pass, history
<1> QED
  BY <1>1 DEF Clean, Times, Owed

(* What rows lead to, each time a row does.                                *)
LEMMA VisitRowKeeps ==
  ASSUME IInv, VisitRow
  PROVE  IInv'
<1> DEFINE n == cursor - Len(code) + 1
           found == {v.at : v \in Variables(Row)} \ {0}
<1>1. /\ status = "pass" /\ n \in DOMAIN rows /\ cursor >= Len(code) /\ Row = rows[n]
      /\ cursor + 1 \in 0..Len(code) + Len(rows)
  BY PassReady DEF VisitRow, Row
<1>2. \A i \in found : rows[n] \in DOMAIN table /\ i = table[rows[n]].at /\ i # 0
  BY <1>1 DEF Variables
<1>3. rows[n] \in DOMAIN table /\ table[rows[n]].at # 0 => found # {}
  BY <1>1 DEF Variables
<1>4. CASE /\ found = {} /\ cursor' = cursor + 1
           /\ UNCHANGED <<compiler, ctors, status, error, history>>
  <2>1. ~Clean
    BY <1>1, <1>3, <1>4, RowLeads
  <2>2. Clean' = Clean /\ ctors' = ctors /\ code' = code
    BY <1>4 DEF Clean, history, compiler
  <2>3. Tally'
    BY <2>1, <2>2, <1>1, <1>4, PassReady DEF Tally
  <2>4. ctors' \in Seq(1..Len(code)) /\ cursor' \in 0..Len(code) + Len(rows)
        /\ status' = "pass"
    BY <2>2, <1>1, <1>4, PassReady
  <2> QED
    BY <1>1, <1>4, <2>3, <2>4, PassKeeps
<1>5. ASSUME NEW i \in found, Dangles(i), Crash
      PROVE  IInv'
  <2>1. UNCHANGED <<compiler, pass, error, history>> /\ status' = "crash"
    BY <1>5 DEF Crash
  <2>2. /\ Clean' = Clean /\ ctors' = ctors /\ code' = code
        /\ cursor' = cursor /\ news' = news
        /\ \A j : Times(j)' = Times(j) /\ Owed(j)' = Owed(j)
    BY <2>1, TimesStay
  <2>3. Clean => n \in DOMAIN news /\ news[n].of.at = 0
    BY <1>1, <1>2, <1>5, RowLeads
  <2> HIDE DEF n, found
  <2>4. Tally'
    <3>1. Clean' => \A j \in DOMAIN code' : Times(j)' = Owed(j)'
      BY <2>2 DEF IInv, Tally
    <3>2. \A k \in DOMAIN ctors' : IsConstructed(code'[ctors'[k]].type)
      BY <2>2, PassReady
    <3>3. Clean' => \E k \in DOMAIN news' : news'[k].of.at = 0
      BY <2>2, <2>3
    <3> QED
      BY <2>1, <3>1, <3>2, <3>3 DEF Tally
  <2>5. ctors' \in Seq(1..Len(code)) /\ cursor' \in 0..Len(code) + Len(rows)
    BY <2>2, PassReady DEF IInv, TypeOK
  <2> QED
    BY <1>1, <2>1, <2>4, <2>5, PassKeeps DEF pass
<1>6. ASSUME NEW i \in found, ~Dangles(i), Construct(OperandBehind(i)),
             cursor' = cursor + 1, UNCHANGED <<compiler, status, error, history>>
      PROVE  IInv'
  <2>1. PICK o : o = OperandBehind(i)
    OBVIOUS
  <2>2. o \in 1..Len(code) /\ code' = code /\ news' = news
    BY <1>1, <1>2, <1>6, <2>1, Operands DEF compiler, history
  <2>3. Clean => news[n].of.at = o
    BY <1>1, <1>2, <2>1, RowLeads
  <2>4. Construct(o)
    BY <1>6, <2>1
  <2>5. /\ ctors' \in Seq(1..Len(code))
        /\ \A k \in DOMAIN ctors' : IsConstructed(code[ctors'[k]].type)
        /\ \A j : Times(j)' = Times(j) + (IF j = o /\ IsConstructed(code[o].type)
                                          THEN 1 ELSE 0)
        /\ \A j : Times(j) \in Nat
    BY <2>2, <2>4, PassReady, Constructs
  <2>6. \A j \in DOMAIN code :
           Owed(j)' = Owed(j) + (IF j = news[n].of.at /\ IsConstructed(code[j].type)
                                 THEN 1 ELSE 0)
    BY <1>1, <1>6, OwedMore
  <2>7. Clean' = Clean
    BY <2>2 DEF Clean
  <2> HIDE DEF n, found
  <2>8. Tally'
    <3>1. Clean' => \A j \in DOMAIN code' : Times(j)' = Owed(j)'
      BY <2>2, <2>3, <2>5, <2>6, <2>7 DEF IInv, Tally
    <3>2. status' = "pass"
      BY <1>1, <1>6
    <3> QED
      BY <2>2, <2>5, <3>1, <3>2 DEF Tally
  <2>9. cursor' \in 0..Len(code) + Len(rows) /\ status' = "pass"
    BY <1>1, <1>6
  <2> QED
    BY <1>1, <1>6, <2>5, <2>8, <2>9, PassKeeps
<1> QED
  BY <1>4, <1>5, <1>6 DEF VisitRow

LEMMA PassEndKeeps ==
  ASSUME IInv, PassEnd
  PROVE  IInv'
<1>1. /\ status = "pass" /\ cursor = Len(code) + Len(rows) /\ status' = "done"
      /\ UNCHANGED <<compiler, pass, error, history>>
  BY DEF PassEnd
<1>2. /\ Clean' = Clean /\ ctors' = ctors /\ code' = code /\ cursor' = cursor
      /\ \A j : Times(j)' = Times(j) /\ Owed(j)' = Owed(j)
  BY <1>1, TimesStay
<1>3. Tally'
  BY <1>1, <1>2, PassReady DEF IInv, Tally, compiler
<1>4. ctors' \in Seq(1..Len(code)) /\ cursor' \in 0..Len(code) + Len(rows)
  BY <1>2, PassReady DEF IInv, TypeOK
<1> QED
  BY <1>1, <1>3, <1>4, PassKeeps

------------------------------------------------------------------------------
(* The invariant *)

LEMMA StartsTyped ==
  ASSUME Init
  PROVE  TypeOK /\ Kept /\ Tabled(code, table) /\ Coded(code)
<1>1. /\ code = <<>> /\ rows = <<>> /\ todo = <<>> /\ written = 0
      /\ ctors = <<>> /\ cursor = 0 /\ news = <<>> /\ status = "compile"
      /\ binding = NoBinding /\ kept = [n \in {} |-> 0]
      /\ error = [what |-> "none", name |-> Discard]
      /\ scopes = <<[kind |-> "body", vars |-> <<>>, defers |-> <<>>, exits |-> <<>>]>>
  BY DEF Init
<1>2. /\ Len(code) = 0 /\ Coded(code) /\ rows \in Seq(Var) /\ Len(rows) = 0
      /\ todo \in Seq(Simple) /\ news \in Seq(New)
  BY <1>1 DEF Coded
<1>3. PICK p : p = [n \in DOMAIN Params |-> [at |-> 0, type |-> Params[n]]]
  OBVIOUS
<1>4. /\ DOMAIN p = DOMAIN Params
      /\ \A n \in DOMAIN p : p[n] \in Value /\ p[n].at = 0
  BY <1>3, ParamsAssumption DEF Value
<1>5. table = Named(p, "entry", Label)
  BY <1>3 DEF Init
<1>6. /\ DOMAIN table \subseteq Var
      /\ \A n \in DOMAIN table : table[n] \in Value /\ table[n].at = 0
  BY <1>4, <1>5, Values0, ParamsAssumption, NameAssumption DEF Named
<1>7. binding \in Binding /\ binding.from.at = 0
  BY <1>1, Values0 DEF NoBinding, Binds, Binding
<1>8. scopes \in Seq(Frame)
  BY <1>1 DEF Frame
<1>9. ctors \in Seq(1..Len(code)) /\ cursor \in 0..Len(code) + Len(rows)
  BY <1>1, <1>2
<1>10. written \in 0..MaxStatements
  BY <1>1, SizeAssumption
<1>11. Kept /\ Tabled(code, table)
  BY <1>1, <1>6 DEF Kept, Tabled, Refers
<1>12. TypeOK
  <2>1. code \in Seq(Instruction(Len(code)))
    BY <1>2 DEF Coded
  <2>2. \A n \in DOMAIN table : table[n].at <= Len(code)
    BY <1>2, <1>6
  <2>3. binding.from.at <= Len(code)
    BY <1>2, <1>7
  <2>4. status \in Statuses
    BY <1>1 DEF Statuses
  <2>5. error \in [what : {"none", "count", "exists", "value"}, name : Var \cup {Discard}]
    BY <1>1
  <2>6. DOMAIN kept \subseteq Var /\ \A n \in DOMAIN kept : kept[n] \in 1..Len(code)
    BY <1>1
  <2> QED
    BY <1>2, <1>6, <1>7, <1>8, <1>9, <1>10, <2>1, <2>2, <2>3, <2>4, <2>5, <2>6
       DEF TypeOK
<1> QED
  BY <1>2, <1>11, <1>12

LEMMA StartsWell == Init => IInv
<1> SUFFICES ASSUME Init
             PROVE  IInv
  OBVIOUS
<1>1. /\ code = <<>> /\ rows = <<>> /\ ctors = <<>> /\ cursor = 0 /\ news = <<>>
      /\ status = "compile" /\ binding = NoBinding /\ kept = [n \in {} |-> 0]
      /\ scopes = <<[kind |-> "body", vars |-> <<>>, defers |-> <<>>, exits |-> <<>>]>>
  BY DEF Init
<1>2. /\ TypeOK /\ Len(code) = 0 /\ DOMAIN code = {} /\ DOMAIN rows = {}
      /\ Len(rows) = 0 /\ Len(news) = 0 /\ DOMAIN ctors = {}
  BY <1>1, StartsTyped
<1>3. Values
  <2>1. binding.from = Constant
    BY <1>1 DEF NoBinding, Binds
  <2> QED
    BY <1>1, <2>1, StartsTyped, Values0 DEF Values, Tabled
<1>4. Idle
  BY <1>1 DEF Idle, NoBinding, Binds
<1>5. /\ DOMAIN scopes = {1} /\ scopes[1].kind = "body" /\ scopes[1].vars = <<>>
      /\ scopes # <<>>
  BY <1>1
<1>6. Shape
  BY <1>1, <1>4, <1>5 DEF Shape
<1>7. NamesInv
  <2>1. Heads = {} /\ Pending = {} /\ DOMAIN kept = {}
    BY <1>1, <1>4, <1>5, IdlePending DEF Heads
  <2>2. Scoped = {}
    BY <2>1 DEF Scoped
  <2>3. DOMAIN table \subseteq Given
    BY DEF Init, Named, Given
  <2> QED
    BY <2>1, <2>2, <2>3 DEF NamesInv
<1>8. RowsMean
  BY <1>2 DEF RowsMean
<1>9. Tally
  BY <1>1, <1>2 DEF Tally
<1> QED
  BY <1>2, <1>3, <1>6, <1>7, <1>8, <1>9 DEF IInv

LEMMA NothingMoves ==
  ASSUME IInv, UNCHANGED vars
  PROVE  IInv'
<1>1. UNCHANGED <<compiler, pass, status, error, history>>
  BY DEF vars
<1>2. UNCHANGED <<code, table, rows, binding, scopes, todo, written, ctors, cursor,
                  status, error, kept, news>>
  BY <1>1 DEF compiler, pass, history
<1>3. TypeOK' /\ Values' /\ Shape'
  BY <1>2 DEF IInv, TypeOK, Values, Shape, Idle, Let
<1>4. NamesInv'
  BY <1>2, NamesStay, SameScopes, SamePending, EnlargesItself DEF IInv
<1>5. RowsMean'
  <2>1. Clean' = Clean /\ \A k : RowMeans(k)' = RowMeans(k)
    BY <1>2 DEF Clean, RowMeans
  <2> QED
    BY <2>1, <1>2 DEF IInv, RowsMean
<1>6. Tally'
  BY <1>1, <1>2, TimesStay DEF IInv, Tally
<1> QED
  BY <1>3, <1>4, <1>5, <1>6 DEF IInv

LEMMA Steps == [Next]_vars => CompileStep \/ PassStep \/ UNCHANGED vars
BY DEF Next, CompileStep, PassStep, Ended

LEMMA PassStepKeeps == IInv /\ PassStep => IInv'
BY VisitInstructionKeeps, VisitRowKeeps, PassEndKeeps DEF PassStep

(* The invariant holds in every state of a function's compilation.         *)
THEOREM Invariance == Spec => []IInv
<1>1. Init => IInv
  BY StartsWell
<1>2. IInv /\ [Next]_vars => IInv'
  <2> SUFFICES ASSUME IInv, [Next]_vars
               PROVE  IInv'
    OBVIOUS
  <2>1. CASE CompileStep
    BY <2>1, CompilerKeeps
  <2>2. CASE PassStep
    BY <2>2, PassStepKeeps
  <2>3. CASE UNCHANGED vars
    BY <2>3, NothingMoves
  <2> QED
    BY <2>1, <2>2, <2>3, Steps
<1> QED
  BY <1>1, <1>2, PTL DEF Spec

------------------------------------------------------------------------------
(* What follows *)

(* Whatever statements a function is made of, its code, its symbol table   *)
(* and the rows of its news are what codegen takes them for: operands come *)
(* before their uses and values refer to instructions that exist.          *)
THEOREM TypesHold == Spec => []TypeOK
<1>1. IInv => TypeOK
  BY DEF IInv
<1> QED
  BY <1>1, Invariance, PTL

(* The SCOPE_EXITs of If and For (ast/ifexpr.hpp, ast/forstmt.hpp) take    *)
(* back exactly the names of their own heads: in between statements the    *)
(* names of the open ones are found, no two heads share one, and no closed *)
(* one has left any.                                                       *)
THEOREM ScopesHold == Spec => []ScopesAreExact
<1>1. IInv => ScopesAreExact
  BY IdlePending DEF IInv, NamesInv, ScopesAreExact
<1> QED
  BY <1>1, Invariance, PTL

(* LetExpr and DeclAssign give a variable a name and a place that no later *)
(* statement of the function takes from it, and that pass::Ctor finds.     *)
THEOREM NamesHold == Spec => NamesAreKept
<1>1. IInv /\ [Next]_vars => [Keeps]_vars
  <2> SUFFICES ASSUME IInv, [Next]_vars
               PROVE  Keeps
    OBVIOUS
  <2>1. CASE CompileStep
    <3>1. NamesInv' /\ Enlarges(kept, kept')
      BY <2>1, CompilerKeeps DEF IInv, Compiles
    <3> QED
      BY <3>1 DEF NamesInv, Enlarges, Keeps
  <2>2. CASE PassStep \/ UNCHANGED vars
    <3>1. kept' = kept /\ table' = table
      BY <2>2 DEF PassStep, VisitInstruction, VisitRow, PassEnd, Crash, vars,
                  compiler, history
    <3> QED
      BY <3>1 DEF IInv, NamesInv, Keeps
  <2> QED
    BY <2>1, <2>2, Steps
<1> QED
  BY <1>1, Invariance, PTL DEF Spec, NamesAreKept

(* pass::Ctor constructs every struct on the stack once, and what a let    *)
(* gives to a variable of "new" each time it does, as long as no such      *)
(* variable is renamed or comes third in its let; it crashes then only at  *)
(* memory no instruction made.                                             *)
THEOREM ConstructionHolds == Spec => []ConstructedAsMeant
<1>1. IInv => ConstructedAsMeant
  <2> SUFFICES ASSUME IInv, Clean, status = "done", NEW i \in DOMAIN code
               PROVE  Times(i) = IF IsConstructed(code[i].type) THEN Meant(i) ELSE 0
    BY DEF IInv, Tally, ConstructedAsMeant
  <2>1. Times(i) = Owed(i) /\ cursor = Len(code) + Len(rows)
    BY DEF IInv, Tally
  <2>2. Len(rows) = Len(news)
    BY DEF IInv, RowsMean
  <2>3. /\ Len(code) \in Nat /\ DOMAIN code = 1..Len(code)
        /\ Len(news) \in Nat /\ DOMAIN news = 1..Len(news)
    BY PassReady
  <2>4. PICK r : r = Len(news)
    OBVIOUS
  <2>5. r \in Nat /\ DOMAIN news = 1..r /\ cursor - Len(code) = r
    BY <2>1, <2>2, <2>3, <2>4
  <2>6. i <= cursor
    BY <2>1, <2>2, <2>3, <2>4, <2>5
  <2> QED
    BY <2>1, <2>5, <2>6 DEF Owed, Meant
<1> QED
  BY <1>1, Invariance, PTL
==============================================================================
