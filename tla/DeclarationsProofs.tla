-------------------------- MODULE DeclarationsProofs --------------------------
(***************************************************************************)
(* The tables of a module keep their types, a struct holds earlier structs *)
(* or itself only, and what is emitted is whole; then, what a name finds:  *)
(* for every set of names, every family of elements and every length of a  *)
(* module.                                                                 *)
(***************************************************************************)
EXTENDS DeclarationsInv, WellFoundedInduction, SequenceTheorems, TLAPS

------------------------------------------------------------------------------
(* Sequences *)

Less == OpToRel(<, Nat)

(* Every non-empty set of natural numbers has a least element: what takes  *)
(* the place of induction below.                                           *)
LEMMA Least ==
  ASSUME NEW T, T \subseteq Nat, T # {}
  PROVE  \E x \in T : \A y \in T : ~(y < x)
<1>1. PICK x \in T : \A y \in T : ~(<<y, x>> \in Less)
  <2>1. IsWellFoundedOn(Less, Nat)  BY NatLessThanWellFounded DEF Less
  <2> QED  BY <2>1, WFMin
<1>2. \A y \in T : ~(y < x)
  BY <1>1 DEF Less, OpToRel
<1> QED  BY <1>2

(* The recursion of FlattenSeq, and that a function solves it: a shortest  *)
(* prefix of p without a solution could be solved from the one before it.  *)
Flattens(g, p, n) ==
  g = [i \in 1..n |-> IF i = 1 THEN p[i] ELSE g[i-1] \o p[i]]

LEMMA FlatteningIs ==
  ASSUME NEW S, NEW n \in Nat \ {0}, NEW p \in [1..n -> Seq(S)]
  PROVE  \E g : Flattens(g, p, n)
<1> DEFINE Flat(k, g) == g = [i \in 1..k |-> IF i = 1 THEN p[i] ELSE g[i-1] \o p[i]]
           Bad == {k \in 1..n : ~\E g \in [1..k -> Seq(S)] : Flat(k, g)}
<1>1. SUFFICES ASSUME Bad # {} PROVE FALSE
  <2>1. n \in 1..n  OBVIOUS
  <2>2. SUFFICES ASSUME NEW g \in [1..n -> Seq(S)], Flat(n, g)
                 PROVE  Flattens(g, p, n)
    <3>. HIDE DEF Flat
    <3> QED  BY <2>1
  <2> QED  BY <2>2 DEF Flattens
<1>2. PICK k \in Bad : \A y \in Bad : ~(y < k)
  <2>1. Bad \subseteq 1..n
    <3>. HIDE DEF Flat
    <3> QED  OBVIOUS
  <2>. HIDE DEF Bad
  <2>2. Bad \subseteq Nat  BY <2>1
  <2> QED  BY <1>1, <2>2, Least
<1>3. CASE k = 1
  <2> DEFINE g == [i \in 1..1 |-> p[i]]
  <2>1. g \in [1..1 -> Seq(S)]  OBVIOUS
  <2>2. Flat(1, g)  OBVIOUS
  <2> QED  BY <2>1, <2>2, <1>3, <1>2
<1>4. CASE k # 1
  <2>1. k - 1 \in 1..n /\ k - 1 < k /\ k \in 1..n  BY <1>4
  <2>2. PICK g \in [1..k-1 -> Seq(S)] : Flat(k - 1, g)  BY <2>1, <1>2
  <2> DEFINE h == [i \in 1..k |-> IF i = k THEN g[k-1] \o p[k] ELSE g[i]]
  <2>3. g[k-1] \o p[k] \in Seq(S)
    <3>1. g[k-1] \in Seq(S) /\ p[k] \in Seq(S)  BY <2>1, <2>2
    <3> QED  BY <3>1, ConcatProperties
  <2>4. h \in [1..k -> Seq(S)]  BY <2>1, <2>3
  <2>5. \A i \in 1..k-1 : g[i] = IF i = 1 THEN p[i] ELSE g[i-1] \o p[i]
    BY <2>1, <2>2
  <2>6. \A i \in 1..k : h[i] = IF i = 1 THEN p[i] ELSE h[i-1] \o p[i]
    <3>0. k \in Nat /\ k - 1 \in Nat /\ k \in 1..k /\ k - 1 \in 1..k /\ k - 1 # k
      BY <2>1
    <3>. HIDE DEF Flat, Bad
    <3>1. h[k] = g[k-1] \o p[k]  BY <3>0
    <3>2. \A i \in 1..k : i # k => h[i] = g[i]  BY <3>0
    <3>3. h[k] = h[k-1] \o p[k]  BY <3>0, <3>1, <3>2
    <3>. HIDE DEF h
    <3> SUFFICES ASSUME NEW i \in 1..k
                 PROVE  h[i] = IF i = 1 THEN p[i] ELSE h[i-1] \o p[i]
      OBVIOUS
    <3>4. CASE i = k
      BY <3>3, <3>4, <1>4
    <3>5. CASE i # k
      <4>1. i \in 1..k-1 /\ (i # 1 => i - 1 \in 1..k /\ i - 1 # k)  BY <3>0, <3>5
      <4>2. h[i] = g[i] /\ (i # 1 => h[i-1] = g[i-1])  BY <3>2, <3>5, <4>1
      <4> QED  BY <4>1, <4>2, <2>5
    <3> QED  BY <3>4, <3>5
  <2>7. Flat(k, h)  BY <2>6, <2>4
  <2>8. \E f \in [1..k -> Seq(S)] : Flat(k, f)
    <3>. HIDE DEF h, Flat
    <3> QED BY <2>4, <2>7
  <2> QED  BY <2>8, <1>2
<1> QED  BY <1>3, <1>4

(* Whatever solves that recursion holds sequences over S only.             *)
LEMMA FlatteningTyped ==
  ASSUME NEW S, NEW n \in Nat \ {0}, NEW p \in [1..n -> Seq(S)], NEW g,
         Flattens(g, p, n)
  PROVE  \A k \in 1..n : g[k] \in Seq(S)
<1> DEFINE Bad == {k \in 1..n : g[k] \notin Seq(S)}
<1>1. SUFFICES ASSUME Bad # {} PROVE FALSE
  OBVIOUS
<1>2. PICK k \in Bad : \A y \in Bad : ~(y < k)
  <2>1. Bad \subseteq Nat  OBVIOUS
  <2>. HIDE DEF Bad
  <2> QED  BY <1>1, <2>1, Least
<1>3. g[k] = IF k = 1 THEN p[k] ELSE g[k-1] \o p[k]
  BY DEF Flattens
<1>4. p[k] \in Seq(S)  OBVIOUS
<1>5. k # 1 /\ k - 1 \in 1..n /\ k - 1 < k
  BY <1>3, <1>4
<1>6. g[k-1] \in Seq(S)  BY <1>2, <1>5
<1>7. g[k] \in Seq(S)
  BY <1>3, <1>4, <1>5, <1>6, ConcatProperties
<1> QED  BY <1>7

(* Joining sequences over S gives a sequence over S.                       *)
LEMMA FlattenSeqTyped ==
  ASSUME NEW S, NEW s \in Seq(Seq(S))
  PROVE  FlattenSeq(s) \in Seq(S)
<1>1. Len(s) \in Nat /\ s \in [1..Len(s) -> Seq(S)]
  BY LenProperties
<1>2. CASE Len(s) = 0
  <2>1. s = <<>>  BY <1>2, EmptySeq
  <2> QED  BY <1>2, <2>1 DEF FlattenSeq
<1>3. CASE Len(s) # 0
  <2> DEFINE g == CHOOSE f : Flattens(f, s, Len(s))
  <2>0. Len(s) \in Nat \ {0} /\ Len(s) \in 1..Len(s)  BY <1>1, <1>3
  <2>1. Flattens(g, s, Len(s))
    BY <1>1, <2>0, FlatteningIs
  <2>2. FlattenSeq(s) = g[Len(s)]
    BY <1>3 DEF FlattenSeq, Flattens
  <2>. HIDE DEF g
  <2>3. \A k \in 1..Len(s) : g[k] \in Seq(S)
    BY <1>1, <2>0, <2>1, FlatteningTyped
  <2> QED  BY <2>0, <2>2, <2>3
<1> QED  BY <1>2, <1>3

(* A function on 1..k is a sequence.                                       *)
LEMMA FunSeq ==
  ASSUME NEW S, NEW k \in Nat, NEW f \in [1..k -> S]
  PROVE  f \in Seq(S) /\ Len(f) = k
OBVIOUS

(* A name that is taken is the name of its first row.                      *)
LEMMA FirstFound ==
  ASSUME NEW S, NEW table \in Seq(S), NEW n, Taken(table, n)
  PROVE  /\ First(table, n) \in 1..Len(table)
         /\ table[First(table, n)].name = n
         /\ Row(table, n) \in S
<1> DEFINE Rows == {i \in 1..Len(table) : table[i].name = n}
<1>1. DOMAIN table = 1..Len(table) /\ Len(table) \in Nat
  BY LenProperties
<1>2. Rows \subseteq Nat /\ Rows # {}
  BY <1>1 DEF Taken
<1>3. PICK x \in Rows : \A y \in Rows : ~(y < x)
  <2>. HIDE DEF Rows
  <2> QED  BY <1>2, Least
<1>4. x \in DOMAIN table /\ table[x].name = n
      /\ \A j \in DOMAIN table : j < x => table[j].name # n
  BY <1>1, <1>3
<1>5. /\ First(table, n) \in 1..Len(table)
      /\ table[First(table, n)].name = n
  BY <1>1, <1>4 DEF First
<1>6. table[First(table, n)] \in S
  BY <1>5, ElementOfSeq
<1> QED  BY <1>5, <1>6 DEF Row

------------------------------------------------------------------------------
(* Types *)

(* More struct types, more types.                                          *)
LEMMA TypeInMono ==
  ASSUME NEW i \in Nat, NEW j \in Nat, i <= j
  PROVE  TypeIn(i) \subseteq TypeIn(j)
<1>1. 0..i \subseteq 0..j  OBVIOUS
<1> QED  BY <1>1 DEF TypeIn

(* ... and more rows.                                                       *)
LEMMA RowsMono ==
  ASSUME NEW i \in Nat, NEW j \in Nat, i <= j
  PROVE  /\ StructType(i) \subseteq StructType(j)
         /\ AliasRow(i) \subseteq AliasRow(j)
         /\ Variable(i) \subseteq Variable(j)
<1>1. \A s \in Seq(TypeIn(i)) : s \in Seq(TypeIn(j))
  BY TypeInMono, SeqMonotonic
<1>2. TypeIn(i) \subseteq TypeIn(j)  BY TypeInMono
<1>3. StructType(i) \subseteq StructType(j)  BY <1>1 DEF StructType
<1> QED  BY <1>2, <1>3 DEF AliasRow, Variable

(* What a type name or a type stands for is a type.                        *)
LEMMA MeaningTyped ==
  ASSUME NEW k \in Nat, NEW ts \in Seq(StructType(k)), Len(ts) = k,
         aliases \in Seq(AliasRow(k)),
         NEW n, NEW t \in Meaning(ts, n)
  PROVE  t \in TypeIn(k)
<1>1. CASE n \in Basic
  <2>1. t = Plain(n)  BY <1>1 DEF Meaning
  <2>2. Plain(n) \in TypeIn(k)  BY <1>1 DEF Plain, TypeIn, Basic
  <2> QED  BY <2>1, <2>2
<1>2. CASE n \notin Basic /\ Taken(ts, <<"struct", n>>)
  <2>1. t = StructAt(First(ts, <<"struct", n>>))  BY <1>2 DEF Meaning
  <2>2. First(ts, <<"struct", n>>) \in 1..k  BY <1>2, FirstFound
  <2> QED  BY <2>1, <2>2 DEF StructAt, TypeIn
<1>3. CASE /\ n \notin Basic /\ ~Taken(ts, <<"struct", n>>)
           /\ Taken(ts, <<"interface", n>>)
  <2>1. t = StructAt(First(ts, <<"interface", n>>))  BY <1>3 DEF Meaning
  <2>2. First(ts, <<"interface", n>>) \in 1..k  BY <1>3, FirstFound
  <2> QED  BY <2>1, <2>2 DEF StructAt, TypeIn
<1>4. CASE /\ n \notin Basic /\ ~Taken(ts, <<"struct", n>>)
           /\ ~Taken(ts, <<"interface", n>>)
  <2>1. Taken(aliases, n) /\ t = Row(aliases, n).type
    BY <1>4 DEF Meaning
  <2>2. Row(aliases, n) \in AliasRow(k)  BY <2>1, FirstFound
  <2> QED  BY <2>1, <2>2 DEF AliasRow
<1> QED  BY <1>1, <1>2, <1>3, <1>4

(* A pointer to a type is a type.                                          *)
LEMMA PointerTyped ==
  ASSUME NEW k \in Nat, NEW t \in TypeIn(k)
  PROVE  /\ PointerTo(t) \in TypeIn(k)
         /\ PointerTo(t).base = t.base /\ PointerTo(t).at = t.at
BY DEF PointerTo, TypeIn

(* So is what a written type stands for,                                   *)
LEMMA ResolveTyped ==
  ASSUME NEW k \in Nat, NEW ts \in Seq(StructType(k)), Len(ts) = k,
         aliases \in Seq(AliasRow(k)),
         NEW e, NEW t \in Resolve(ts, e)
  PROVE  t \in TypeIn(k)
<1>1. PICK u \in Meaning(ts, e.name) : t = IF e.ptr THEN PointerTo(u) ELSE u
  BY DEF Resolve
<1>2. u \in TypeIn(k)  BY MeaningTyped
<1>3. PointerTo(u) \in TypeIn(k)  BY <1>2, PointerTyped
<1> QED  BY <1>1, <1>2, <1>3

(* and a list of them.                                                     *)
LEMMA ResolvedTyped ==
  ASSUME NEW k \in Nat, NEW ts \in Seq(StructType(k)), Len(ts) = k,
         aliases \in Seq(AliasRow(k)),
         NEW es \in Seq(TypeExpr), Resolves(ts, es)
  PROVE  /\ Resolved(ts, es) \in Seq(TypeIn(k))
         /\ Len(Resolved(ts, es)) = Len(es)
         /\ \A i \in 1..Len(es) : Resolved(ts, es)[i] \in Resolve(ts, es[i])
<1>1. Len(es) \in Nat /\ DOMAIN es = 1..Len(es)  BY LenProperties
<1>2. \A i \in 1..Len(es) : (CHOOSE t \in Resolve(ts, es[i]) : TRUE) \in Resolve(ts, es[i])
  BY <1>1 DEF Resolves
<1>3. \A i \in 1..Len(es) : (CHOOSE t \in Resolve(ts, es[i]) : TRUE) \in TypeIn(k)
  BY <1>2, ResolveTyped
<1>4. Resolved(ts, es) \in [1..Len(es) -> TypeIn(k)]
  BY <1>3 DEF Resolved
<1>5. \A i \in 1..Len(es) : Resolved(ts, es)[i] \in Resolve(ts, es[i])
  BY <1>2 DEF Resolved
<1> QED  BY <1>1, <1>4, <1>5, FunSeq

(* What a name that is written stands for has a name itself, so a          *)
(* conversion to it can be named.                                          *)
LEMMA MeaningNameable ==
  ASSUME TypeOK, AliasesNameable, NEW n \in Name \cup Basic,
         NEW t \in Meaning(types, n)
  PROVE  Nameable(t)
<1>0. types \in Seq(StructType(Len(types))) /\ Len(types) \in Nat
      /\ DOMAIN types = 1..Len(types)
      /\ aliases \in Seq(AliasRow(Len(types))) /\ DOMAIN aliases = 1..Len(aliases)
  BY LenProperties DEF TypeOK
<1>1. CASE n \in Basic
  BY <1>1 DEF Meaning, Plain, Nameable, Basic
<1>2. CASE n \notin Basic /\ Taken(types, <<"struct", n>>)
  <2>1. t = StructAt(First(types, <<"struct", n>>))  BY <1>2 DEF Meaning
  <2>2. /\ First(types, <<"struct", n>>) \in 1..Len(types)
        /\ types[First(types, <<"struct", n>>)].name = <<"struct", n>>
    BY <1>0, <1>2, FirstFound
  <2>3. <<"struct", n>> \in StructName  BY <1>2 DEF StructName
  <2> QED  BY <1>0, <2>1, <2>2, <2>3 DEF StructAt, Nameable
<1>3. CASE /\ n \notin Basic /\ ~Taken(types, <<"struct", n>>)
           /\ Taken(types, <<"interface", n>>)
  <2>1. t = StructAt(First(types, <<"interface", n>>))  BY <1>3 DEF Meaning
  <2>2. /\ First(types, <<"interface", n>>) \in 1..Len(types)
        /\ types[First(types, <<"interface", n>>)].name = <<"interface", n>>
    BY <1>0, <1>3, FirstFound
  <2>3. <<"interface", n>> \in StructName  BY <1>3 DEF StructName
  <2> QED  BY <1>0, <2>1, <2>2, <2>3 DEF StructAt, Nameable
<1>4. CASE /\ n \notin Basic /\ ~Taken(types, <<"struct", n>>)
           /\ ~Taken(types, <<"interface", n>>)
  <2>1. Taken(aliases, n) /\ t = Row(aliases, n).type
    BY <1>4 DEF Meaning
  <2>2. First(aliases, n) \in 1..Len(aliases)  BY <1>0, <2>1, FirstFound
  <2> QED  BY <1>0, <2>1, <2>2 DEF AliasesNameable, Row
<1> QED  BY <1>1, <1>2, <1>3, <1>4

(* Basic, function or struct, and where: what Resolve finds is typed and   *)
(* has a name.                                                             *)
LEMMA ResolveNameable ==
  ASSUME TypeOK, AliasesNameable, NEW e \in TypeExpr, NEW t \in Resolve(types, e)
  PROVE  Nameable(t) /\ t \in TypeIn(Len(types))
<1>0. types \in Seq(StructType(Len(types))) /\ Len(types) \in Nat
      /\ aliases \in Seq(AliasRow(Len(types)))
  BY LenProperties DEF TypeOK
<1>1. PICK u \in Meaning(types, e.name) : t = IF e.ptr THEN PointerTo(u) ELSE u
  BY DEF Resolve
<1>2. e.name \in Name \cup Basic  BY DEF TypeExpr
<1>3. Nameable(u)  BY <1>2, MeaningNameable
<1>4. u \in TypeIn(Len(types))  BY <1>0, MeaningTyped
<1>5. PointerTo(u).base = u.base /\ PointerTo(u).at = u.at
  BY <1>0, <1>4, PointerTyped
<1>6. Nameable(PointerTo(u))  BY <1>3, <1>5 DEF Nameable
<1>7. t \in TypeIn(Len(types))  BY <1>0, ResolveTyped
<1> QED  BY <1>1, <1>3, <1>6, <1>7

------------------------------------------------------------------------------
(* What is compiled next *)

(* Each statement and each element, by its kind.                           *)
LetDecl       == [kind : {"let"}, name : Name, type : TypeExpr]
CallDecl      == [kind : {"call"}, name : Name]
AccessDecl    == [kind : {"access"}, var : Name \cup {"this"}, member : Member]
CastDecl      == [kind : {"cast"}, var : Name \cup {"this"}, to : TypeExpr]
ConstructDecl == [kind : {"construct"}, class : Name, ctor : Member]

(* A statement or element of a kind is what the source says of that kind.  *)
LEMMA StatementKinds ==
  ASSUME NEW d \in Statement
  PROVE  \/ d.kind = "alias" /\ d \in AliasDecl
         \/ d.kind = "structure" /\ d \in StructDecl
         \/ d.kind = "enumeration" /\ d \in EnumDecl
         \/ d.kind = "let" /\ d \in LetDecl
         \/ d.kind = "access" /\ d \in AccessDecl
         \/ d.kind = "call" /\ d \in CallDecl
         \/ d.kind = "cast" /\ d \in CastDecl
         \/ d.kind = "construct" /\ d \in ConstructDecl
<1>1. CASE d \in AliasDecl  BY <1>1 DEF AliasDecl
<1>2. CASE d \in StructDecl  BY <1>2 DEF StructDecl
<1>3. CASE d \in EnumDecl  BY <1>3 DEF EnumDecl
<1>4. CASE d \in LetDecl  BY <1>4 DEF LetDecl
<1>5. CASE d \in AccessDecl  BY <1>5 DEF AccessDecl
<1>6. CASE d \in CallDecl  BY <1>6 DEF CallDecl
<1>7. CASE d \in CastDecl  BY <1>7 DEF CastDecl
<1>8. CASE d \in ConstructDecl  BY <1>8 DEF ConstructDecl
<1> QED
  BY <1>1, <1>2, <1>3, <1>4, <1>5, <1>6, <1>7, <1>8
     DEF Statement, LetDecl, CallDecl, AccessDecl, CastDecl, ConstructDecl

(* The same of an element.                                                 *)
LEMMA ElementKinds ==
  ASSUME NEW d \in Element
  PROVE  \/ d.kind = "alias" /\ d \in AliasDecl
         \/ d.kind = "structure" /\ d \in StructDecl
         \/ d.kind = "enumeration" /\ d \in EnumDecl
         \/ d.kind = "dataclass" /\ d \in ClassDecl
         \/ d.kind = "interface" /\ d \in InterfaceDecl
         \/ d.kind = "externfunc" /\ d \in ExternDecl
         \/ d.kind = "function" /\ d \in FuncDecl
         \/ d.kind = "structfunc" /\ d \in MethodDecl
         \/ d.kind = "conversion" /\ d \in ConversionDecl
<1>1. CASE d \in AliasDecl  BY <1>1 DEF AliasDecl
<1>2. CASE d \in StructDecl  BY <1>2 DEF StructDecl
<1>3. CASE d \in EnumDecl  BY <1>3 DEF EnumDecl
<1>4. CASE d \in ClassDecl  BY <1>4 DEF ClassDecl
<1>5. CASE d \in InterfaceDecl  BY <1>5 DEF InterfaceDecl
<1>6. CASE d \in ExternDecl  BY <1>6 DEF ExternDecl
<1>7. CASE d \in FuncDecl  BY <1>7 DEF FuncDecl
<1>8. CASE d \in MethodDecl  BY <1>8 DEF MethodDecl
<1>9. CASE d \in ConversionDecl  BY <1>9 DEF ConversionDecl
<1> QED
  BY <1>1, <1>2, <1>3, <1>4, <1>5, <1>6, <1>7, <1>8, <1>9 DEF Element

(* What is pending is a statement of the function inside, or an element    *)
(* still to be counted.                                                    *)
LEMMA PendingIs ==
  ASSUME IInv, NEW d \in Pending
  PROVE  /\ status = "compiling"
         /\ compiled \in Nat /\ compiled < MaxElements
         /\ inside = 0 => d \in Element
         /\ inside # 0 => body # <<>> /\ d \in Statement
<1>1. status = "compiling"  BY DEF Pending
<1>2. MaxElements \in Nat /\ compiled \in Nat
  BY BoundAssumption DEF IInv, Control
<1>3. CASE inside # 0
  <2>1. d \in {body[i] : i \in DOMAIN body \cap {1}}  BY <1>1, <1>3 DEF Pending
  <2>2. 1 \in DOMAIN body /\ d = body[1]  BY <2>1
  <2>3. body \in Seq(Statement)  BY DEF IInv, Control
  <2>4. DOMAIN body = 1..Len(body) /\ Len(body) \in Nat
    BY <2>3, LenProperties
  <2>5. body # <<>>  BY <2>2, <2>3, <2>4, EmptySeq
  <2>6. d \in Statement  BY <2>2, <2>3, <2>4, ElementOfSeq
  <2> QED  BY <1>1, <1>2, <1>3, <2>5, <2>6 DEF IInv, Control
<1>4. CASE inside = 0
  <2>1. d \in {e \in Elements : compiled < MaxElements}  BY <1>1, <1>4 DEF Pending
  <2> QED  BY <1>1, <1>2, <1>4, <2>1, ElementAssumption
<1> QED  BY <1>3, <1>4

------------------------------------------------------------------------------
(* How a step leaves codegen *)

(* The part of the invariant that is about where codegen stands and the    *)
(* variables it knows.                                                     *)
Settled ==
  /\ Control'
  /\ inside' \in 0..Len(functions')
  /\ locals' \in Seq(Variable(Len(types')))

(* An error or a crash is not forgotten.                                   *)
Remembered ==
  errors' = <<>> /\ status' # "crash" => errors = <<>> /\ status # "crash"

(* No struct type and no function is ever removed.                         *)
Grows ==
  /\ Len(types') \in Nat /\ Len(types) <= Len(types')
  /\ Len(functions') \in Nat /\ Len(functions) <= Len(functions')

(* Steps that keep the function's variables keep their types.              *)
LEMMA LocalsKept ==
  ASSUME IInv, Grows, UNCHANGED <<inside, locals>>
  PROVE  /\ inside' \in 0..Len(functions')
         /\ locals' \in Seq(Variable(Len(types')))
<1>1. Len(types) \in Nat /\ Len(functions) \in Nat
  BY LenProperties DEF IInv, TypeOK
<1>2. Variable(Len(types)) \subseteq Variable(Len(types'))
  BY <1>1, RowsMono DEF Grows
<1>3. locals \in Seq(Variable(Len(types)))  BY DEF IInv, TypeOK
<1>4. locals \in Seq(Variable(Len(types')))  BY <1>2, <1>3, SeqMonotonic
<1> QED  BY <1>1, <1>4 DEF IInv, TypeOK, Grows

(* A declaration that is done settles the step.                            *)
LEMMA GoOnSettles ==
  ASSUME IInv, NEW d \in Pending, GoOn, Grows
  PROVE  Settled /\ Remembered
<1>1. /\ inside' \in 0..Len(functions')
      /\ locals' \in Seq(Variable(Len(types')))
  BY LocalsKept DEF GoOn
<1>2. MaxElements \in Nat  BY BoundAssumption
<1>3. body' \in Seq(Statement)
  <2>1. body \in Seq(Statement)  BY DEF IInv, Control
  <2>2. inside # 0 => Tail(body) \in Seq(Statement)
    BY <2>1, PendingIs, HeadTailProperties
  <2> QED  BY <2>1, <2>2 DEF GoOn
<1>4. Control'
  BY <1>2, <1>3, PendingIs DEF GoOn, IInv, Control
<1> QED  BY <1>1, <1>4 DEF Settled, Remembered, GoOn

(* So does an error, which leaves the function.                            *)
LEMMA FailSettles ==
  ASSUME IInv, NEW d \in Pending, NEW what \in Diagnostics, Fail(what), Grows
  PROVE  Settled /\ Remembered /\ errors' # <<>>
<1>1. errors' \in Seq(Diagnostics) /\ errors' # <<>>
  <2>1. errors \in Seq(Diagnostics)  BY DEF IInv, Control
  <2>2. /\ Append(errors, what) \in Seq(Diagnostics)
        /\ Len(Append(errors, what)) = Len(errors) + 1
    BY <2>1, AppendProperties
  <2>3. Len(errors) \in Nat  BY <2>1, LenProperties
  <2>4. Append(errors, what) # <<>>  BY <2>2, <2>3, EmptySeq
  <2> QED  BY <2>2, <2>4 DEF Fail
<1>2. MaxElements \in Nat  BY BoundAssumption
<1>3. Control'
  BY <1>1, <1>2, PendingIs, EmptySeq DEF Fail, IInv, Control, Statuses
<1>4. Settled
  BY <1>3, EmptySeq DEF Settled, Fail, Grows
<1> QED  BY <1>1, <1>4 DEF Remembered

(* ... and a crash, which leaves everything as it is.                      *)
LEMMA CrashSettles ==
  ASSUME IInv, Crash, Grows
  PROVE  Settled /\ Remembered /\ status' = "crash"
<1>1. /\ inside' \in 0..Len(functions')
      /\ locals' \in Seq(Variable(Len(types')))
  BY LocalsKept DEF Crash, running
<1>2. Control'
  BY DEF Crash, running, IInv, Control, Statuses
<1> QED  BY <1>1, <1>2 DEF Settled, Remembered, Crash

(* A new function's body settles the step that made the function.          *)
LEMMA BeginSettles ==
  ASSUME IInv, NEW d \in Pending, inside = 0, NEW first, Begin(d, first),
         d.body \in Seq(Statement),
         first \in Seq(Variable(Len(types'))),
         Len(functions') = Len(functions) + 1, Grows
  PROVE  Settled /\ Remembered
<1>1. Len(functions) \in Nat  BY LenProperties DEF IInv, TypeOK
<1>2. Control'
  BY PendingIs DEF Begin, IInv, Control
<1> QED  BY <1>1, <1>2 DEF Settled, Remembered, Begin, Grows

------------------------------------------------------------------------------
(* What a step does to the tables *)

(* A step that leaves the tables alone.                                    *)
LEMMA TablesStay ==
  ASSUME IInv, UNCHANGED tables,
         functions' \in Seq(Symbol), globals' \in Seq(Option),
         Settled, Remembered
  PROVE  IInv'
<1>1. TypeOK'
  BY DEF IInv, TypeOK, Settled, Control, tables
<1>2. OnlyEarlierTypes'
  BY DEF IInv, OnlyEarlierTypes, tables
<1>3. AliasesNameable'
  BY DEF IInv, AliasesNameable, Nameable, tables
<1>4. WholeUnlessFailed'
  BY DEF IInv, WholeUnlessFailed, tables, Remembered
<1> QED  BY <1>1, <1>2, <1>3, <1>4 DEF IInv, Settled

(* A step that enters struct types, each of earlier ones and itself, with  *)
(* a body unless the step fails.                                           *)
LEMMA TypesGrow ==
  ASSUME IInv, NEW more \in Seq(StructType(Len(types'))),
         types' = types \o more,
         \A i \in 1..Len(more) : more[i].body \in Seq(TypeIn(Len(types) + i)),
         errors' = <<>> /\ status' # "crash" =>
           \A i \in 1..Len(more) : more[i].whole,
         structures' \in Seq(FieldsRow), interfaces' \in Seq(InterfaceRow),
         classes' \in Seq(CtorsRow), UNCHANGED <<aliases, symbols>>,
         Settled, Remembered
  PROVE  IInv'
<1>1. /\ types \in Seq(StructType(Len(types))) /\ Len(types) \in Nat
      /\ DOMAIN types = 1..Len(types)
  BY LenProperties DEF IInv, TypeOK
<1>2. /\ Len(more) \in Nat /\ Len(types') = Len(types) + Len(more)
      /\ \A i \in 1..Len(types) : types'[i] = types[i]
      /\ \A i \in 1..Len(more) : types'[Len(types) + i] = more[i]
      /\ DOMAIN types' = 1..Len(types')
  <2>1. /\ Len(more) \in Nat /\ Len(types') = Len(types) + Len(more)
        /\ \A i \in 1..Len(types') :
             types'[i] = IF i <= Len(types) THEN types[i] ELSE more[i - Len(types)]
    BY <1>1, ConcatProperties, LenProperties
  <2>2. types' \in Seq(StructType(Len(types)) \cup StructType(Len(types')))
    BY <1>1, ConcatProperties, SeqMonotonic
  <2>3. DOMAIN types' = 1..Len(types')  BY <2>2, LenProperties
  <2> QED  BY <1>1, <2>1, <2>3
<1>3. types' \in Seq(StructType(Len(types')))
  <2>1. StructType(Len(types)) \subseteq StructType(Len(types'))
    BY <1>1, <1>2, RowsMono
  <2>2. types \in Seq(StructType(Len(types')))
    BY <1>1, <2>1, SeqMonotonic
  <2> QED  BY <2>2, ConcatProperties
<1>4. aliases' \in Seq(AliasRow(Len(types')))
  <2>1. AliasRow(Len(types)) \subseteq AliasRow(Len(types'))
    BY <1>1, <1>2, RowsMono
  <2>2. aliases \in Seq(AliasRow(Len(types')))
    BY <2>1, SeqMonotonic DEF IInv, TypeOK
  <2> QED  BY <2>2
<1>5. TypeOK'
  BY <1>3, <1>4 DEF IInv, TypeOK, Settled, Control, symbols
<1>6. OnlyEarlierTypes'
  <2> SUFFICES ASSUME NEW i \in 1..Len(types')
               PROVE  types'[i].body \in Seq(TypeIn(i))
    BY <1>2 DEF OnlyEarlierTypes
  <2>1. CASE i \in 1..Len(types)
    BY <1>1, <1>2, <2>1 DEF IInv, OnlyEarlierTypes
  <2>2. CASE i \notin 1..Len(types)
    <3>1. i - Len(types) \in 1..Len(more) /\ Len(types) + (i - Len(types)) = i
      BY <1>1, <1>2, <2>2
    <3> QED  BY <3>1, <1>2
  <2> QED  BY <2>1, <2>2
<1>7. AliasesNameable'
  <2> SUFFICES ASSUME NEW i \in DOMAIN aliases, aliases[i].type.base = "struct"
               PROVE  /\ aliases[i].type.at \in DOMAIN types'
                      /\ types'[aliases[i].type.at].name \in StructName
    BY DEF IInv, AliasesNameable, Nameable
  <2>1. /\ aliases[i].type.at \in DOMAIN types
        /\ types[aliases[i].type.at].name \in StructName
    BY DEF IInv, AliasesNameable, Nameable
  <2> QED  BY <2>1, <1>1, <1>2
<1>8. WholeUnlessFailed'
  <2> SUFFICES ASSUME errors' = <<>>, status' # "crash", NEW i \in 1..Len(types')
               PROVE  types'[i].whole
    BY <1>2 DEF WholeUnlessFailed
  <2>1. CASE i \in 1..Len(types)
    BY <1>1, <1>2, <2>1 DEF IInv, WholeUnlessFailed, Remembered
  <2>2. CASE i \notin 1..Len(types)
    <3>1. i - Len(types) \in 1..Len(more) /\ Len(types) + (i - Len(types)) = i
      BY <1>1, <1>2, <2>2
    <3> QED  BY <3>1, <1>2
  <2> QED  BY <2>1, <2>2
<1> QED  BY <1>5, <1>6, <1>7, <1>8 DEF IInv, Settled

(* A step that enters aliases, each of a type that has a name.             *)
LEMMA AliasesGrow ==
  ASSUME IInv, NEW more \in Seq(AliasRow(Len(types))),
         aliases' = aliases \o more,
         \A i \in 1..Len(more) : Nameable(more[i].type),
         UNCHANGED <<types, structures, interfaces, classes, functions>>,
         globals' \in Seq(Option), Settled, Remembered
  PROVE  IInv'
<1>1. aliases \in Seq(AliasRow(Len(types))) /\ Len(aliases) \in Nat
      /\ Len(more) \in Nat /\ DOMAIN aliases = 1..Len(aliases)
  BY LenProperties DEF IInv, TypeOK
<1>2. /\ aliases' \in Seq(AliasRow(Len(types)))
      /\ Len(aliases') = Len(aliases) + Len(more)
      /\ \A i \in 1..Len(aliases') :
           aliases'[i] = IF i <= Len(aliases) THEN aliases[i] ELSE more[i - Len(aliases)]
  BY <1>1, ConcatProperties
<1>3. DOMAIN aliases' = 1..Len(aliases')  BY <1>2, LenProperties
<1>4. TypeOK'
  BY <1>2 DEF IInv, TypeOK, Settled, Control
<1>5. AliasesNameable'
  <2> SUFFICES ASSUME NEW i \in 1..Len(aliases') PROVE Nameable(aliases'[i].type)
    BY <1>3 DEF AliasesNameable, Nameable
  <2>1. CASE i <= Len(aliases)
    BY <1>1, <1>2, <2>1 DEF IInv, AliasesNameable
  <2>2. CASE ~(i <= Len(aliases))
    <3>1. i - Len(aliases) \in 1..Len(more)  BY <1>1, <1>2, <2>2
    <3> QED  BY <3>1, <1>2, <2>2
  <2> QED  BY <2>1, <2>2
<1>6. OnlyEarlierTypes'
  BY DEF IInv, OnlyEarlierTypes
<1>7. WholeUnlessFailed'
  BY DEF IInv, WholeUnlessFailed, Remembered
<1> QED  BY <1>4, <1>5, <1>6, <1>7 DEF IInv, Settled

(* A step that changes no table but the symbols, and goes on, fails or     *)
(* crashes.                                                                *)
LEMMA SymbolsStep ==
  ASSUME IInv, NEW d \in Pending, UNCHANGED tables,
         functions' \in Seq(Symbol), Len(functions) <= Len(functions'),
         globals' \in Seq(Option),
         GoOn \/ Crash \/ \E what \in Diagnostics : Fail(what)
  PROVE  IInv'
<1>1. Grows
  BY LenProperties DEF Grows, IInv, TypeOK, tables
<1>2. Settled /\ Remembered
  BY <1>1, GoOnSettles, FailSettles, CrashSettles
<1> QED  BY <1>2, TablesStay

(* ... not even a symbol.                                                  *)
LEMMA PlainStep ==
  ASSUME IInv, NEW d \in Pending, UNCHANGED tables, UNCHANGED symbols,
         GoOn \/ Crash \/ \E what \in Diagnostics : Fail(what)
  PROVE  IInv'
<1>1. functions' \in Seq(Symbol) /\ globals' \in Seq(Option)
      /\ Len(functions) <= Len(functions')
  BY LenProperties DEF IInv, TypeOK, symbols
<1> QED  BY <1>1, SymbolsStep

(* A step that enters one struct type.                                     *)
LEMMA OneTypeMore ==
  ASSUME IInv, NEW d \in Pending, NEW r \in StructType(Len(types) + 1),
         types' = Append(types, r),
         errors' = <<>> /\ status' # "crash" => r.whole,
         structures' \in Seq(FieldsRow), interfaces' \in Seq(InterfaceRow),
         classes' \in Seq(CtorsRow), UNCHANGED <<aliases, symbols>>,
         GoOn \/ Crash \/ \E what \in Diagnostics : Fail(what)
  PROVE  IInv'
<1>1. types \in Seq(StructType(Len(types))) /\ Len(types) \in Nat
  BY LenProperties DEF IInv, TypeOK
<1>2. types \in Seq(StructType(Len(types) + 1))
  <2>1. StructType(Len(types)) \subseteq StructType(Len(types) + 1)
    BY <1>1, RowsMono
  <2> QED  BY <1>1, <2>1, SeqMonotonic
<1>3. Len(types') = Len(types) + 1 /\ types' = types \o <<r>>
  BY <1>2, AppendProperties, AppendIsConcat
<1>4. Grows
  BY <1>1, <1>3, LenProperties DEF Grows, IInv, TypeOK, symbols
<1>5. Settled /\ Remembered
  BY <1>4, GoOnSettles, FailSettles, CrashSettles
<1>6. r.body \in Seq(TypeIn(Len(types) + 1))  BY DEF StructType
<1>7. /\ <<r>> \in Seq(StructType(Len(types'))) /\ Len(<<r>>) = 1
      /\ \A i \in 1..1 : <<r>>[i] = r
  BY <1>3
<1> DEFINE more == <<r>>
<1>8. /\ more \in Seq(StructType(Len(types'))) /\ Len(more) = 1
      /\ \A i \in 1..Len(more) : more[i] = r /\ i = 1
      /\ types' = types \o more
  BY <1>3, <1>7
<1>. HIDE DEF more
<1> QED  BY <1>5, <1>6, <1>8, TypesGrow

------------------------------------------------------------------------------
(* The actions *)

(* A new struct type is given a body in place.                             *)
Fill(seq, n, x, y) == [seq EXCEPT ![n].whole = x, ![n].body = y]

LEMMA Filled ==
  ASSUME NEW S, NEW seq \in Seq(S), NEW m, NEW w, NEW b, NEW x, NEW y
  PROVE  Fill(Append(seq, [name |-> m, whole |-> w, body |-> b]),
              Len(seq) + 1, x, y)
           = Append(seq, [name |-> m, whole |-> x, body |-> y])
<1> DEFINE r == [name |-> m, whole |-> w, body |-> b]
           q == [name |-> m, whole |-> x, body |-> y]
           made == Append(seq, r)
           want == Append(seq, q)
           n == Len(seq) + 1
           half == [made EXCEPT ![n].whole = x]
           all == [half EXCEPT ![n].body = y]
<1>1. PICK T : seq \in Seq(T) /\ r \in T /\ q \in T
  <2>1. seq \in Seq(S \cup {r, q})  BY SeqMonotonic
  <2> QED  BY <2>1
<1>2. /\ made \in Seq(T) /\ Len(made) = n /\ Len(seq) \in Nat
      /\ \A i \in 1..Len(seq) : made[i] = seq[i]
      /\ made[n] = r
  BY <1>1, AppendProperties, LenProperties
<1>3. /\ want \in Seq(T) /\ Len(want) = n
      /\ \A i \in 1..Len(seq) : want[i] = seq[i]
      /\ want[n] = q
  BY <1>1, AppendProperties, LenProperties
<1>4. [r EXCEPT !.whole = x, !.body = y] = q
  <2>1. [r EXCEPT !.whole = x] = [name |-> m, whole |-> x, body |-> b]
    OBVIOUS
  <2>2. [[name |-> m, whole |-> x, body |-> b] EXCEPT !.body = y] = q
    OBVIOUS
  <2> QED  BY <2>1, <2>2
<1>. HIDE DEF r, q, made, want
<1>5. made = [i \in 1..n |-> made[i]] /\ want = [i \in 1..n |-> want[i]] /\ n \in 1..n
  BY <1>2, <1>3
<1>6. half = [i \in 1..n |-> IF i = n THEN [r EXCEPT !.whole = x] ELSE made[i]]
  BY <1>2, <1>5
<1>7. all = [i \in 1..n |-> IF i = n THEN q ELSE made[i]]
  BY <1>4, <1>5, <1>6
<1>7a. want = [i \in 1..n |-> IF i = n THEN q ELSE made[i]]
  BY <1>2, <1>3, <1>5
<1>8. all = want  BY <1>7, <1>7a
<1> QED  BY <1>8 DEF made, want, r, q, Fill

(* A name that is taken, or free, is a name of a struct type.              *)
LEMMA GivenTyped ==
  ASSUME NEW table, NEW n \in StructName \cup VariantName
  PROVE  Given(table, n) \in StructName \cup VariantName \cup {Renamed}
BY DEF Given

(* What Structure::codegen enters: a type of that name, unless it is taken, *)
(* and its fields, or neither fields nor a body.                           *)
StructureMakes(d, r) ==
  /\ r \in StructType(Len(types) + 1) /\ types' = Append(types, r)
  /\ r.name = Given(types, <<"struct", d.name>>)
  /\ \/ /\ r.whole /\ Len(r.body) = Len(d.fields)
        /\ structures' = Append(structures, [name   |-> <<"struct", d.name>>,
                                             fields |-> d.fields])
        /\ GoOn
     \/ /\ structures' = structures
        /\ Fail("type")

LEMMA StructureEnters ==
  ASSUME IInv, NEW d \in Pending, Structure(d)
  PROVE  d \in StructDecl /\ \E r : StructureMakes(d, r)
<1>1. d \in StructDecl
  BY PendingIs, StatementKinds, ElementKinds DEF Structure
<1>2. /\ d.name \in Name /\ d.fields \in Seq(Member) /\ d.types \in Seq(TypeExpr)
      /\ Len(d.fields) = Len(d.types)
  BY <1>1 DEF StructDecl
<1> DEFINE k == Len(types) + 1
           name == Given(types, <<"struct", d.name>>)
           made == Append(types, [name |-> name, whole |-> FALSE, body |-> <<>>])
<1>3. /\ types \in Seq(StructType(Len(types))) /\ Len(types) \in Nat
      /\ k \in Nat
  BY LenProperties DEF IInv, TypeOK
<1>4. name \in StructName \cup VariantName \cup {Renamed}
  BY <1>2, GivenTyped DEF StructName
<1>5. /\ types \in Seq(StructType(k)) /\ aliases \in Seq(AliasRow(k))
  <2>1. /\ StructType(Len(types)) \subseteq StructType(k)
        /\ AliasRow(Len(types)) \subseteq AliasRow(k)
    BY <1>3, RowsMono
  <2> QED  BY <1>3, <2>1, SeqMonotonic DEF IInv, TypeOK
<1>. HIDE DEF name
<1>6. \A b \in Seq(TypeIn(k)), w \in BOOLEAN :
         [name |-> name, whole |-> w, body |-> b] \in StructType(k)
  BY <1>4 DEF StructType
<1>7. [name |-> name, whole |-> FALSE, body |-> <<>>] \in StructType(k)
  <2>1. <<>> \in Seq(TypeIn(k))  OBVIOUS
  <2> QED  BY <1>6, <2>1
<1>8. made \in Seq(StructType(k)) /\ Len(made) = k
  BY <1>5, <1>7, AppendProperties
<1>9. CASE Resolves(made, d.types)
  <2> DEFINE b == Resolved(made, d.types)
             r == [name |-> name, whole |-> TRUE, body |-> b]
  <2>1. b \in Seq(TypeIn(k)) /\ Len(b) = Len(d.fields)
    BY <1>2, <1>3, <1>5, <1>8, <1>9, ResolvedTyped
  <2>2. r \in StructType(k)  BY <1>6, <2>1
  <2>3. types' = Append(types, r)
    <3>1. types' = [made EXCEPT ![k].whole = TRUE, ![k].body = b]
      BY <1>8, <1>9 DEF Structure, name
    <3>2. types' = Fill(made, k, TRUE, b)
      <4>. HIDE DEF b, made, k
      <4> QED  BY <3>1 DEF Fill
    <3>3. \A w, x \in BOOLEAN :
            Fill(Append(types, [name |-> name, whole |-> w, body |-> <<>>]), k, x, b)
              = Append(types, [name |-> name, whole |-> x, body |-> b])
      <4>. HIDE DEF b
      <4> QED  BY <1>3, Filled
    <3>4. Fill(made, k, TRUE, b) = Append(types, r)
      <4>. HIDE DEF b, k
      <4> QED  BY <3>3
    <3> QED  BY <3>2, <3>4
  <2>4. /\ structures' = Append(structures, [name   |-> <<"struct", d.name>>,
                                             fields |-> d.fields])
        /\ GoOn
    <3>. HIDE DEF b, r
    <3> QED  BY <1>9 DEF Structure, name
  <2>5. r.name = name /\ r.whole /\ r.body = b  OBVIOUS
  <2>. HIDE DEF r, b
  <2>6. StructureMakes(d, r)
    BY <2>1, <2>2, <2>3, <2>4, <2>5 DEF StructureMakes, name
  <2> QED  BY <1>1, <2>6
<1>10. CASE ~Resolves(made, d.types)
  <2> DEFINE r == [name |-> name, whole |-> FALSE, body |-> <<>>]
  <2>1. types' = Append(types, r) /\ Fail("type") /\ structures' = structures
    BY <1>10 DEF Structure, name
  <2>2. r \in StructType(k) /\ r.name = name  BY <1>7
  <2>. HIDE DEF r
  <2>3. StructureMakes(d, r)  BY <2>1, <2>2 DEF StructureMakes, name
  <2> QED  BY <1>1, <2>3
<1> QED  BY <1>9, <1>10

(* Structure::codegen.                                                     *)
LEMMA StructureStep ==
  ASSUME IInv, NEW d \in Pending, Structure(d)
  PROVE  IInv'
<1>1. d \in StructDecl /\ \E r : StructureMakes(d, r)  BY StructureEnters
<1>2. PICK r : StructureMakes(d, r)  BY <1>1
<1>3. d.name \in Name /\ d.fields \in Seq(Member)  BY <1>1 DEF StructDecl
<1>4. structures' \in Seq(FieldsRow)
  <2>1. [name |-> <<"struct", d.name>>, fields |-> d.fields] \in FieldsRow
    BY <1>3 DEF FieldsRow, StructName
  <2>2. structures \in Seq(FieldsRow)  BY DEF IInv, TypeOK
  <2> QED  BY <1>2, <2>1, <2>2, AppendProperties DEF StructureMakes
<1>5. interfaces' \in Seq(InterfaceRow) /\ classes' \in Seq(CtorsRow)
      /\ UNCHANGED <<aliases, symbols>>
  BY DEF Structure, IInv, TypeOK
<1>6. "type" \in Diagnostics  BY DEF Diagnostics
<1>7. r.whole \/ errors' # <<>>
  <2>1. errors \in Seq(Diagnostics)  BY DEF IInv, TypeOK
  <2> QED  BY <1>2, <1>6, <2>1, AppendProperties DEF StructureMakes, Fail
<1>8. GoOn \/ Fail("type")  BY <1>2 DEF StructureMakes
<1>9. r \in StructType(Len(types) + 1) /\ types' = Append(types, r)
  BY <1>2 DEF StructureMakes
<1> QED  BY <1>4, <1>5, <1>6, <1>7, <1>8, <1>9, OneTypeMore

(* A step that enters aliases and goes on, fails or crashes.               *)
LEMMA AliasesStep ==
  ASSUME IInv, NEW d \in Pending, NEW more \in Seq(AliasRow(Len(types))),
         aliases' = aliases \o more,
         \A i \in 1..Len(more) : Nameable(more[i].type),
         UNCHANGED <<types, structures, interfaces, classes, functions>>,
         globals' \in Seq(Option),
         GoOn \/ Crash \/ \E what \in Diagnostics : Fail(what)
  PROVE  IInv'
<1>1. Grows  BY LenProperties DEF Grows, IInv, TypeOK
<1>2. Settled /\ Remembered
  BY <1>1, GoOnSettles, FailSettles, CrashSettles
<1> QED  BY <1>2, AliasesGrow

(* What Alias::add enters: the names, each for its type.                   *)
LEMMA AliasRowsTyped ==
  ASSUME IInv, NEW d \in AliasDecl, Resolves(types, d.types),
         Len(d.types) = Len(d.names), NEW n \in 0..Len(d.names)
  PROVE  /\ AliasRows(d, n) \in Seq(AliasRow(Len(types))) /\ Len(AliasRows(d, n)) = n
         /\ \A i \in 1..n : AliasRows(d, n)[i].name = d.names[i]
         /\ \A i \in 1..n : Nameable(AliasRows(d, n)[i].type)
<1>1. /\ d.names \in Seq(Name) /\ d.types \in Seq(TypeExpr)
      /\ Len(d.names) \in Nat /\ Len(d.types) \in Nat
  BY LenProperties DEF AliasDecl
<1>2. /\ types \in Seq(StructType(Len(types))) /\ Len(types) \in Nat
      /\ aliases \in Seq(AliasRow(Len(types)))
  BY LenProperties DEF IInv, TypeOK
<1>3. n \in Nat /\ \A i \in 1..n : i \in 1..Len(d.names)  BY <1>1
<1>4. \A i \in 1..n : /\ Resolved(types, d.types)[i] \in TypeIn(Len(types))
                      /\ Nameable(Resolved(types, d.types)[i])
  <2> TAKE i \in 1..n
  <2>1. Resolved(types, d.types)[i] \in Resolve(types, d.types[i])
    BY <1>1, <1>2, <1>3, ResolvedTyped
  <2>2. d.types[i] \in TypeExpr  BY <1>1, <1>3, ElementOfSeq
  <2> QED  BY <2>1, <2>2, ResolveNameable DEF IInv
<1>5. \A i \in 1..n : d.names[i] \in Name  BY <1>1, <1>3, ElementOfSeq
<1>6. \A i \in 1..n :
        [name |-> d.names[i], type |-> Resolved(types, d.types)[i]]
          \in AliasRow(Len(types))
  BY <1>4, <1>5 DEF AliasRow
<1>7. /\ AliasRows(d, n) \in [1..n -> AliasRow(Len(types))]
      /\ \A i \in 1..n : /\ AliasRows(d, n)[i].type = Resolved(types, d.types)[i]
                         /\ AliasRows(d, n)[i].name = d.names[i]
  BY <1>6 DEF AliasRows
<1>8. AliasRows(d, n) \in Seq(AliasRow(Len(types))) /\ Len(AliasRows(d, n)) = n
  BY <1>3, <1>7, FunSeq
<1> QED  BY <1>4, <1>7, <1>8

(* Alias::codegen.                                                         *)
LEMMA AliasStep ==
  ASSUME IInv, NEW d \in Pending, Alias(d)
  PROVE  IInv'
<1>1. d \in AliasDecl
  BY PendingIs, StatementKinds, ElementKinds DEF Alias
<1>2. {"type", "count", "exists"} \subseteq Diagnostics  BY DEF Diagnostics
<1>3. CASE (Fail("type") \/ Fail("count")) /\ UNCHANGED aliases
  <2>1. UNCHANGED tables /\ UNCHANGED symbols
    BY <1>3 DEF Alias, tables
  <2> QED  BY <1>2, <1>3, <2>1, PlainStep
<1>4. CASE /\ Resolves(types, d.types) /\ Len(d.types) = Len(d.names)
           /\ \E n \in 0..Len(d.names) :
                /\ FreeUpTo(d.names, n)
                /\ aliases' = aliases \o AliasRows(d, n)
                /\ IF n = Len(d.names) THEN GoOn ELSE Fail("exists")
  <2>1. PICK n \in 0..Len(d.names) :
          /\ aliases' = aliases \o AliasRows(d, n)
          /\ GoOn \/ Fail("exists")
    BY <1>4
  <2>2. /\ AliasRows(d, n) \in Seq(AliasRow(Len(types)))
        /\ \A i \in 1..Len(AliasRows(d, n)) : Nameable(AliasRows(d, n)[i].type)
    BY <1>1, <1>4, AliasRowsTyped
  <2>3. /\ UNCHANGED <<types, structures, interfaces, classes, functions>>
        /\ globals' \in Seq(Option)
    BY DEF Alias, symbols, IInv, TypeOK
  <2> QED  BY <1>2, <2>1, <2>2, <2>3, AliasesStep
<1> QED  BY <1>3, <1>4 DEF Alias

(* The value of an option is a natural number.                             *)
LEMMA OptionRowsTyped ==
  ASSUME NEW d \in EnumDecl, NEW t, NEW n \in 0..Len(d.options)
  PROVE  OptionRows(d, t, n) \in Seq(Option)
<1>1. d.name \in Name /\ d.options \in Seq(Member) /\ Len(d.options) \in Nat
  BY LenProperties DEF EnumDecl
<1>2. n \in Nat /\ \A i \in 1..n : d.options[i] \in Member
  BY <1>1, ElementOfSeq
<1>3. \A i \in 1..n : OptionValue(i, t) \in Nat
  <2> TAKE i \in 1..n
  <2>1. i - 1 \in Nat /\ (i - 1) % 2 \in Nat  BY <1>2
  <2> QED  BY <2>1 DEF OptionValue
<1>4. \A i \in 1..n : [name |-> <<d.name, d.options[i]>>, value |-> OptionValue(i, t)]
                        \in Option
  BY <1>1, <1>2, <1>3 DEF Option
<1>5. OptionRows(d, t, n) \in [1..n -> Option]
  BY <1>4 DEF OptionRows
<1> QED  BY <1>2, <1>5, FunSeq

(* Enumeration::codegen.                                                   *)
LEMMA EnumerationStep ==
  ASSUME IInv, NEW d \in Pending, Enumeration(d)
  PROVE  IInv'
<1>1. d \in EnumDecl
  BY PendingIs, StatementKinds, ElementKinds DEF Enumeration
<1>2. d.name \in Name /\ d.under \in Name \cup Basic
  BY <1>1 DEF EnumDecl
<1>3. {"type", "integral", "size", "exists"} \subseteq Diagnostics
  BY DEF Diagnostics
<1>4. UNCHANGED <<types, structures, interfaces, classes, functions>>
  BY DEF Enumeration
<1>5. CASE /\ Fail("type") \/ Fail("integral") \/ Fail("size")
           /\ UNCHANGED <<aliases, globals>>
  <2>1. UNCHANGED tables /\ UNCHANGED symbols
    BY <1>4, <1>5 DEF tables, symbols
  <2> QED  BY <1>3, <1>5, <2>1, PlainStep
<1>6. ASSUME NEW t \in Meaning(types, d.under), EnumGlobals(d, t)
      PROVE  IInv'
  <2>1. PICK n \in 0..Len(d.options) :
          /\ globals' = globals \o OptionRows(d, t, n)
          /\ \/ Fail("exists") /\ UNCHANGED aliases
             \/ aliases' = Append(aliases, [name |-> d.name, type |-> t]) /\ GoOn
             \/ Crash /\ UNCHANGED aliases
    BY <1>6 DEF EnumGlobals
  <2>2. globals' \in Seq(Option)
    <3>1. OptionRows(d, t, n) \in Seq(Option)  BY <1>1, OptionRowsTyped
    <3>2. globals \in Seq(Option)  BY DEF IInv, TypeOK
    <3> QED  BY <2>1, <3>1, <3>2, ConcatProperties
  <2>3. CASE (Fail("exists") \/ Crash) /\ UNCHANGED aliases
    <3>1. UNCHANGED tables /\ functions' \in Seq(Symbol)
          /\ Len(functions) <= Len(functions')
      BY <1>4, <2>3, LenProperties DEF tables, IInv, TypeOK
    <3> QED  BY <1>3, <2>2, <2>3, <3>1, SymbolsStep
  <2>4. CASE aliases' = Append(aliases, [name |-> d.name, type |-> t]) /\ GoOn
    <3> DEFINE r == [name |-> d.name, type |-> t]
               more == <<r>>
    <3>1. /\ types \in Seq(StructType(Len(types))) /\ Len(types) \in Nat
          /\ aliases \in Seq(AliasRow(Len(types)))
      BY LenProperties DEF IInv, TypeOK
    <3>2. t \in TypeIn(Len(types))  BY <3>1, MeaningTyped
    <3>3. Nameable(t)  BY <1>2, MeaningNameable DEF IInv
    <3>4. r \in AliasRow(Len(types)) /\ r.type = t  BY <1>2, <3>2 DEF AliasRow
    <3>5. aliases' = aliases \o more
      <4>. HIDE DEF r
      <4> QED  BY <2>4, <3>1, <3>4, AppendIsConcat DEF r
    <3>6. /\ more \in Seq(AliasRow(Len(types)))
          /\ \A i \in 1..Len(more) : Nameable(more[i].type)
      <4>. HIDE DEF r
      <4> QED  BY <3>3, <3>4
    <3>. HIDE DEF more
    <3> QED  BY <1>4, <2>2, <2>4, <3>5, <3>6, AliasesStep
  <2> QED  BY <2>1, <2>3, <2>4
<1> QED  BY <1>5, <1>6 DEF Enumeration

(* What an interface lists and what it holds are names of functions.       *)
LEMMA ListedTyped ==
  ASSUME IInv, NEW d \in InterfaceDecl,
         \A p \in ToSet(d.parents) : Taken(interfaces, p)
  PROVE  Listed(d) \in Seq(Member) /\ Held(d) \in Seq(Member)
<1>1. /\ d.parents \in Seq(Name) /\ d.funcs \in Seq(Member)
      /\ Len(d.parents) \in Nat
  BY LenProperties DEF InterfaceDecl
<1>2. \A i \in 1..Len(d.parents) : Row(interfaces, d.parents[i]).funcs \in Seq(Member)
  <2> TAKE i \in 1..Len(d.parents)
  <2>1. d.parents[i] \in ToSet(d.parents)
    BY <1>1, LenProperties DEF ToSet
  <2>2. interfaces \in Seq(InterfaceRow)  BY DEF IInv, TypeOK
  <2>3. Row(interfaces, d.parents[i]) \in InterfaceRow  BY <2>1, <2>2, FirstFound
  <2> QED  BY <2>3 DEF InterfaceRow
<1> DEFINE lists == [i \in 1..Len(d.parents) |-> Row(interfaces, d.parents[i]).funcs]
<1>3. lists \in [1..Len(d.parents) -> Seq(Member)]  BY <1>2
<1>4. lists \in Seq(Seq(Member))
  <2>. HIDE DEF lists
  <2> QED  BY <1>1, <1>3, FunSeq
<1>5. FlattenSeq(lists) \in Seq(Member)
  <2>. HIDE DEF lists
  <2> QED  BY <1>4, FlattenSeqTyped
<1>6. Listed(d) \in Seq(Member)
  BY <1>1, <1>5, ConcatProperties DEF Listed
<1>7. LastParents(d) \in Seq(Member)
  <2>1. CASE d.parents = <<>>  BY <2>1 DEF LastParents
  <2>2. CASE d.parents # <<>>
    <3>1. Len(d.parents) \in 1..Len(d.parents)  BY <1>1, <2>2, EmptySeq
    <3>2. Last(d.parents) = d.parents[Len(d.parents)]  BY DEF Last
    <3> QED  BY <1>2, <2>2, <3>1, <3>2 DEF LastParents
  <2> QED  BY <2>1, <2>2
<1> QED  BY <1>1, <1>6, <1>7, ConcatProperties DEF Held

(* What Interface::codegen enters: a type with a place for each function   *)
(* it holds, and its two rows.                                             *)
InterfaceMakes(d, r) ==
  /\ r \in StructType(Len(types) + 1) /\ types' = Append(types, r)
  /\ r.name = Given(types, <<"interface", d.name>>)
  /\ r.whole /\ Len(r.body) = Len(Held(d))
  /\ Held(d) \in Seq(Member) /\ Listed(d) \in Seq(Member)
  /\ interfaces' = Append(interfaces, [name |-> d.name, funcs |-> Listed(d)])
  /\ structures' = Append(structures, [name   |-> <<"interface", d.name>>,
                                       fields |-> Held(d)])
  /\ IsUnique(d.name) /\ GoOn

LEMMA InterfaceEnters ==
  ASSUME IInv, NEW d \in Pending, Interface(d)
  PROVE  /\ d \in InterfaceDecl
         /\ \/ (\E r : InterfaceMakes(d, r))
            \/ /\ Fail("exists") \/ Fail("parent") \/ Fail("function")
               /\ UNCHANGED <<types, structures, interfaces>>
<1>1. d \in InterfaceDecl
  BY PendingIs, StatementKinds, ElementKinds DEF Interface
<1>2. d.name \in Name  BY <1>1 DEF InterfaceDecl
<1>3. CASE /\ IsUnique(d.name)
           /\ \A p \in ToSet(d.parents) : Taken(interfaces, p)
           /\ types' = Append(types,
                         [name  |-> Given(types, <<"interface", d.name>>),
                          whole |-> TRUE,
                          body  |-> [i \in 1..Len(Held(d)) |-> FuncPtr]])
           /\ interfaces' = Append(interfaces,
                              [name |-> d.name, funcs |-> Listed(d)])
           /\ structures' = Append(structures,
                              [name   |-> <<"interface", d.name>>,
                               fields |-> Held(d)])
           /\ GoOn
  <2>1. Listed(d) \in Seq(Member) /\ Held(d) \in Seq(Member)
    BY <1>1, <1>3, ListedTyped
  <2>2. Len(types) \in Nat
    BY LenProperties DEF IInv, TypeOK
  <2> DEFINE name == Given(types, <<"interface", d.name>>)
             held == [i \in 1..Len(Held(d)) |-> FuncPtr]
             r == [name |-> name, whole |-> TRUE, body |-> held]
  <2>3. name \in StructName \cup VariantName \cup {Renamed}
    BY <1>2, GivenTyped DEF StructName
  <2>4. held \in Seq(TypeIn(Len(types) + 1)) /\ Len(held) = Len(Held(d))
    <3>1. FuncPtr \in TypeIn(Len(types) + 1)  BY <2>2 DEF FuncPtr, TypeIn
    <3>2. Len(Held(d)) \in Nat  BY <2>1, LenProperties
    <3>3. held \in [1..Len(Held(d)) -> TypeIn(Len(types) + 1)]  BY <3>1
    <3>. HIDE DEF held
    <3> QED  BY <3>2, <3>3, FunSeq
  <2>5. types' = Append(types, r)
    <3>. HIDE DEF name, held
    <3> QED  BY <1>3 DEF name, held
  <2>6. r \in StructType(Len(types) + 1)
    <3>. HIDE DEF name, held
    <3> QED  BY <2>3, <2>4 DEF StructType
  <2>7. r.name = name /\ r.whole /\ r.body = held
    <3>. HIDE DEF name, held
    <3> QED  OBVIOUS
  <2>. HIDE DEF r, held
  <2>8. InterfaceMakes(d, r)
    BY <1>3, <2>1, <2>4, <2>5, <2>6, <2>7 DEF InterfaceMakes
  <2> QED  BY <1>1, <2>8
<1> QED  BY <1>1, <1>3 DEF Interface

(* Interface::codegen.                                                     *)
LEMMA InterfaceStep ==
  ASSUME IInv, NEW d \in Pending, Interface(d)
  PROVE  IInv'
<1>1. {"exists", "parent", "function"} \subseteq Diagnostics
  BY DEF Diagnostics
<1>2. CASE /\ Fail("exists") \/ Fail("parent") \/ Fail("function")
           /\ UNCHANGED <<types, structures, interfaces>>
  <2>1. UNCHANGED tables /\ UNCHANGED symbols
    BY <1>2 DEF tables, Interface
  <2> QED  BY <1>1, <1>2, <2>1, PlainStep
<1>3. CASE \E r : InterfaceMakes(d, r)
  <2>1. PICK r : InterfaceMakes(d, r)  BY <1>3
  <2>2. /\ r \in StructType(Len(types) + 1) /\ types' = Append(types, r)
        /\ r.whole /\ GoOn
    BY <2>1 DEF InterfaceMakes
  <2>3. d.name \in Name  BY InterfaceEnters DEF InterfaceDecl
  <2>4. structures \in Seq(FieldsRow) /\ interfaces \in Seq(InterfaceRow)
    BY DEF IInv, TypeOK
  <2>5. structures' \in Seq(FieldsRow)
    <3>1. [name |-> <<"interface", d.name>>, fields |-> Held(d)] \in FieldsRow
      BY <2>1, <2>3 DEF FieldsRow, StructName, InterfaceMakes
    <3> QED  BY <2>1, <2>4, <3>1, AppendProperties DEF InterfaceMakes
  <2>6. interfaces' \in Seq(InterfaceRow)
    <3>1. [name |-> d.name, funcs |-> Listed(d)] \in InterfaceRow
      BY <2>1, <2>3 DEF InterfaceRow, InterfaceMakes
    <3> QED  BY <2>1, <2>4, <3>1, AppendProperties DEF InterfaceMakes
  <2>7. classes' \in Seq(CtorsRow) /\ UNCHANGED <<aliases, symbols>>
    BY DEF Interface, IInv, TypeOK
  <2> QED  BY <2>2, <2>5, <2>6, <2>7, OneTypeMore
<1> QED  BY <1>2, <1>3, InterfaceEnters

(* The type of a constructor whose field types are known.                  *)
LEMMA CtorTyped ==
  ASSUME IInv, NEW d \in ClassDecl, NEW i \in 1..Len(d.ctors), KnownCtor(d.ctors[i]),
         NEW k \in Nat, Len(types) <= k
  PROVE  CtorType(d, i) \in StructType(k) /\ CtorType(d, i).whole
<1>1. /\ d.name \in Name
      /\ d.ctors \in Seq(CtorDecl)
  BY DEF ClassDecl
<1>2. d.ctors[i].name \in Member /\ d.ctors[i].types \in Seq(TypeExpr)
  <2>1. d.ctors[i] \in CtorDecl  BY <1>1, ElementOfSeq
  <2> QED  BY <2>1 DEF CtorDecl
<1>3. /\ types \in Seq(StructType(Len(types))) /\ Len(types) \in Nat
      /\ aliases \in Seq(AliasRow(Len(types)))
  BY LenProperties DEF IInv, TypeOK
<1> DEFINE fields == <<Plain("char")>> \o Resolved(types, d.ctors[i].types)
           n == <<"variant", d.name, d.ctors[i].name>>
           name == IF \E j \in 1..i-1 : d.ctors[j].name = d.ctors[i].name
                   THEN Renamed ELSE Given(types, n)
<1>4. fields \in Seq(TypeIn(k))
  <2>1. Resolved(types, d.ctors[i].types) \in Seq(TypeIn(Len(types)))
    BY <1>2, <1>3, ResolvedTyped DEF KnownCtor
  <2>2. TypeIn(Len(types)) \subseteq TypeIn(k)  BY <1>3, TypeInMono
  <2>3. Resolved(types, d.ctors[i].types) \in Seq(TypeIn(k))
    BY <2>1, <2>2, SeqMonotonic
  <2>4. Plain("char") \in TypeIn(k)  BY DEF Plain, TypeIn, Basic
  <2>5. <<Plain("char")>> \in Seq(TypeIn(k))  BY <2>4
  <2> QED  BY <2>3, <2>5, ConcatProperties
<1>5. name \in StructName \cup VariantName \cup {Renamed}
  <2>1. n \in VariantName  BY <1>1, <1>2 DEF VariantName
  <2>2. Given(types, n) \in StructName \cup VariantName \cup {Renamed}
    BY <2>1, GivenTyped
  <2>. HIDE DEF n
  <2> QED  BY <2>2
<1>6. CtorType(d, i) = [name |-> name, whole |-> TRUE, body |-> fields]
  BY DEF CtorType
<1>. HIDE DEF name, fields
<1> QED  BY <1>4, <1>5, <1>6 DEF StructType

(* What DataClass::codegen enters: the type of the class, then those of    *)
(* its first constructors.                                                 *)
ClassMore(d, n, w, more) ==
  /\ Len(more) = n + 1
  /\ more[1].name = <<"class", d.name>> /\ more[1].whole = w
  /\ \A i \in 1..n : more[i + 1] = CtorType(d, i)

LEMMA ClassTypesGrow ==
  ASSUME IInv, NEW d \in ClassDecl, NEW n \in 0..Len(d.ctors), NEW w \in BOOLEAN,
         \A i \in 1..n : KnownCtor(d.ctors[i]),
         types' = ClassTypes(d, n, w)
  PROVE  /\ Len(types') \in Nat /\ Len(types) <= Len(types')
         /\ \E more \in Seq(StructType(Len(types'))) :
              /\ types' = types \o more
              /\ \A i \in 1..Len(more) : more[i].body \in Seq(TypeIn(Len(types) + i))
              /\ w => \A i \in 1..Len(more) : more[i].whole
              /\ ClassMore(d, n, w, more)
<1>1. /\ types \in Seq(StructType(Len(types))) /\ Len(types) \in Nat
      /\ n \in Nat /\ \A i \in 1..n : i \in 1..Len(d.ctors)
  <2>1. Len(d.ctors) \in Nat  BY LenProperties DEF ClassDecl
  <2> QED  BY <2>1, LenProperties DEF IInv, TypeOK
<1> DEFINE k == Len(types) + 1 + n
           r == [name |-> <<"class", d.name>>, whole |-> w, body |-> <<>>]
           ctors == [i \in 1..n |-> CtorType(d, i)]
           more == <<r>> \o ctors
<1>2. k \in Nat /\ Len(types) <= k  BY <1>1
<1>3. r \in StructType(k) /\ r.body = <<>> /\ r.whole = w
  <2>1. <<"class", d.name>> \in StructName  BY DEF StructName, ClassDecl
  <2>2. <<>> \in Seq(TypeIn(k))  OBVIOUS
  <2>. HIDE DEF k
  <2> QED  BY <2>1, <2>2 DEF StructType
<1>4. \A i \in 1..n : /\ CtorType(d, i) \in StructType(Len(types))
                      /\ CtorType(d, i) \in StructType(k)
                      /\ CtorType(d, i).whole
  BY <1>1, <1>2, CtorTyped
<1>5. /\ ctors \in [1..n -> StructType(k)]
      /\ \A i \in 1..n : ctors[i] = CtorType(d, i)
  BY <1>4
<1>6. types' = (types \o <<r>>) \o ctors  BY DEF ClassTypes
<1>. HIDE DEF r, ctors, k
<1>7. ctors \in Seq(StructType(k)) /\ Len(ctors) = n  BY <1>1, <1>5, FunSeq
<1>8. <<r>> \in Seq(StructType(k)) /\ Len(<<r>>) = 1 /\ <<r>>[1] = r  BY <1>3
<1>9. types \in Seq(StructType(k))
  <2>1. StructType(Len(types)) \subseteq StructType(k)  BY <1>1, <1>2, RowsMono
  <2> QED  BY <1>1, <2>1, SeqMonotonic
<1>10. types' = types \o more
  BY <1>6, <1>7, <1>8, <1>9, ConcatAssociative
<1>11. /\ more \in Seq(StructType(k)) /\ Len(more) = n + 1
       /\ \A i \in 1..n+1 : more[i] = IF i <= 1 THEN <<r>>[i] ELSE ctors[i - 1]
  BY <1>1, <1>7, <1>8, ConcatProperties
<1>. HIDE DEF more
<1>12. Len(types') = k
  <2>1. Len(types') = Len(types) + Len(more)
    BY <1>9, <1>10, <1>11, ConcatProperties
  <2> QED  BY <1>1, <1>11, <2>1 DEF k
<1>13. \A i \in 1..n+1 : \/ more[i] = r /\ i = 1
                         \/ i - 1 \in 1..n /\ more[i] = CtorType(d, i - 1)
  <2> TAKE i \in 1..n+1
  <2>1. CASE i = 1  BY <1>1, <1>8, <1>11, <2>1
  <2>2. CASE i # 1
    <3>1. i - 1 \in 1..n /\ ~(i <= 1)  BY <1>1, <2>2
    <3> QED  BY <3>1, <1>5, <1>11
  <2> QED  BY <2>1, <2>2
<1>14. \A i \in 1..Len(more) : more[i].body \in Seq(TypeIn(Len(types) + i))
  <2> TAKE i \in 1..Len(more)
  <2>1. i \in 1..n+1 /\ Len(types) + i \in Nat /\ Len(types) <= Len(types) + i
    BY <1>1, <1>11
  <2>2. CASE more[i] = r
    <3>1. <<>> \in Seq(TypeIn(Len(types) + i))  OBVIOUS
    <3> QED  BY <1>3, <2>2, <3>1
  <2>3. CASE i - 1 \in 1..n /\ more[i] = CtorType(d, i - 1)
    <3>1. CtorType(d, i - 1) \in StructType(Len(types))  BY <1>4, <2>3
    <3>2. StructType(Len(types)) \subseteq StructType(Len(types) + i)
      BY <1>1, <2>1, RowsMono
    <3>3. more[i] \in StructType(Len(types) + i)  BY <2>3, <3>1, <3>2
    <3> QED  BY <3>3 DEF StructType
  <2> QED  BY <1>13, <2>1, <2>2, <2>3
<1>15. w => \A i \in 1..Len(more) : more[i].whole
  BY <1>3, <1>4, <1>11, <1>13
<1>16. more \in Seq(StructType(Len(types')))  BY <1>11, <1>12
<1>17. Len(types') \in Nat /\ Len(types) <= Len(types')  BY <1>2, <1>12
<1>18. ClassMore(d, n, w, more)
  <2>1. more[1] = r
    <3>1. 1 \in 1..n+1 /\ 1 <= 1  BY <1>1
    <3> QED  BY <1>8, <1>11, <3>1
  <2>2. \A i \in 1..n : more[i + 1] = CtorType(d, i)
    <3> TAKE i \in 1..n
    <3>1. i + 1 \in 1..n+1 /\ ~(i + 1 <= 1) /\ (i + 1) - 1 = i  BY <1>1
    <3> QED  BY <3>1, <1>5, <1>11
  <2>3. r.name = <<"class", d.name>>  BY DEF r
  <2> QED  BY <1>3, <1>11, <2>1, <2>2, <2>3 DEF ClassMore
<1> QED  BY <1>10, <1>14, <1>15, <1>16, <1>17, <1>18

(* DataClass::codegen.                                                     *)
LEMMA DataClassStep ==
  ASSUME IInv, NEW d \in Pending, DataClass(d)
  PROVE  IInv'
<1>1. d \in ClassDecl
  BY PendingIs, StatementKinds, ElementKinds DEF DataClass
<1>2. {"exists", "type"} \subseteq Diagnostics  BY DEF Diagnostics
<1>3. UNCHANGED <<structures, interfaces, aliases, symbols>>  BY DEF DataClass
<1>4. CASE Fail("exists") /\ UNCHANGED <<types, classes>>
  <2>1. UNCHANGED tables /\ UNCHANGED symbols  BY <1>3, <1>4 DEF tables
  <2> QED  BY <1>2, <1>4, <2>1, PlainStep
<1>5. ASSUME NEW n \in 0..Len(d.ctors), NEW w \in BOOLEAN,
             \A i \in 1..n : KnownCtor(d.ctors[i]),
             types' = ClassTypes(d, n, w),
             \/ ~w /\ (Crash \/ Fail("type")) /\ UNCHANGED classes
             \/ w /\ classes' = Append(classes, ClassRow(d)) /\ GoOn
      PROVE  IInv'
  <2>1. /\ Len(types') \in Nat /\ Len(types) <= Len(types')
        /\ \E more \in Seq(StructType(Len(types'))) :
             /\ types' = types \o more
             /\ \A i \in 1..Len(more) : more[i].body \in Seq(TypeIn(Len(types) + i))
             /\ w => \A i \in 1..Len(more) : more[i].whole
    BY <1>1, <1>5, ClassTypesGrow
  <2>2. PICK more \in Seq(StructType(Len(types'))) :
             /\ types' = types \o more
             /\ \A i \in 1..Len(more) : more[i].body \in Seq(TypeIn(Len(types) + i))
             /\ w => \A i \in 1..Len(more) : more[i].whole
    BY <2>1
  <2>3. Grows
    BY <1>3, <2>1, LenProperties DEF Grows, IInv, TypeOK, symbols
  <2>4. GoOn \/ Crash \/ Fail("type")  BY <1>5
  <2>5. Settled /\ Remembered
    BY <1>2, <2>3, <2>4, GoOnSettles, FailSettles, CrashSettles
  <2>6. errors' = <<>> /\ status' # "crash" => w
    BY <1>2, <1>5, <2>3, FailSettles, CrashSettles
  <2>7. ClassRow(d) \in CtorsRow
    <3>1. /\ d.name \in Name
          /\ d.ctors \in Seq(CtorDecl)
          /\ Len(d.ctors) \in Nat
      BY <1>1, LenProperties DEF ClassDecl
    <3>2. \A i \in 1..Len(d.ctors) : d.ctors[i].name \in Member
      <4>1. \A i \in 1..Len(d.ctors) : d.ctors[i] \in CtorDecl
        BY <3>1, ElementOfSeq
      <4> QED  BY <4>1 DEF CtorDecl
    <3>3. [i \in 1..Len(d.ctors) |-> d.ctors[i].name] \in Seq(Member)
      BY <3>1, <3>2
    <3> QED  BY <3>1, <3>3 DEF ClassRow, CtorsRow
  <2>8. classes' \in Seq(CtorsRow)
    <3>1. classes \in Seq(CtorsRow)  BY DEF IInv, TypeOK
    <3>2. Append(classes, ClassRow(d)) \in Seq(CtorsRow)
      BY <2>7, <3>1, AppendProperties
    <3> QED  BY <1>5, <3>1, <3>2
  <2>9. /\ structures' \in Seq(FieldsRow) /\ interfaces' \in Seq(InterfaceRow)
        /\ UNCHANGED <<aliases, symbols>>
    BY <1>3 DEF IInv, TypeOK
  <2> QED  BY <2>2, <2>5, <2>6, <2>8, <2>9, TypesGrow
<1>6. CASE \E n \in 0..Len(d.ctors), w \in BOOLEAN :
             /\ \A i \in 1..n : KnownCtor(d.ctors[i])
             /\ types' = ClassTypes(d, n, w)
             /\ \/ ~w /\ (Crash \/ Fail("type")) /\ UNCHANGED classes
                \/ w /\ classes' = Append(classes, ClassRow(d)) /\ GoOn
  BY <1>5, <1>6
<1>7. CASE \E n \in 0..Len(d.ctors) :
             /\ \A i \in 1..n : KnownCtor(d.ctors[i])
             /\ \/ /\ types' = ClassTypes(d, n, FALSE)
                   /\ Crash \/ Fail("type")
                   /\ UNCHANGED classes
                \/ /\ types' = ClassTypes(d, n, TRUE)
                   /\ classes' = Append(classes, ClassRow(d)) /\ GoOn
  BY <1>6, <1>7
<1> QED  BY <1>4, <1>7 DEF DataClass

(* A symbol more.                                                          *)
LEMMA NewFunctionTyped ==
  ASSUME IInv, NEW name \in FuncName, NEW deduced \in BOOLEAN,
         NewFunction(name, deduced)
  PROVE  /\ functions' \in Seq(Symbol)
         /\ Len(functions) \in Nat /\ Len(functions') = Len(functions) + 1
<1>1. functions \in Seq(Symbol) /\ Len(functions) \in Nat
  BY LenProperties DEF IInv, TypeOK
<1>2. Given(functions, name) \in FuncName
  BY DEF Given, FuncName
<1> DEFINE r == [name |-> Given(functions, name), deduced |-> deduced, used |-> FALSE]
<1>3. r \in Symbol  BY <1>2 DEF Symbol
<1>4. functions' = Append(functions, r)  BY DEF NewFunction
<1>. HIDE DEF r
<1> QED  BY <1>1, <1>3, <1>4, AppendProperties

(* Function::codegen of an external function.                              *)
LEMMA ExternFuncStep ==
  ASSUME IInv, NEW d \in Pending, ExternFunc(d)
  PROVE  IInv'
<1>1. d \in ExternDecl
  BY PendingIs, StatementKinds, ElementKinds DEF ExternFunc
<1>2. <<"free", d.name>> \in FuncName  BY <1>1 DEF ExternDecl, FuncName
<1>3. "type" \in Diagnostics  BY DEF Diagnostics
<1>4. UNCHANGED tables /\ UNCHANGED globals  BY DEF ExternFunc
<1>5. CASE NewFunction(<<"free", d.name>>, FALSE) /\ GoOn
  <2>1. functions' \in Seq(Symbol) /\ Len(functions) <= Len(functions')
    <3>1. FALSE \in BOOLEAN  OBVIOUS
    <3>2. /\ functions' \in Seq(Symbol)
          /\ Len(functions) \in Nat /\ Len(functions') = Len(functions) + 1
      BY <1>2, <1>5, <3>1, NewFunctionTyped
    <3> QED  BY <3>2
  <2>2. globals' \in Seq(Option)  BY <1>4 DEF IInv, TypeOK
  <2> QED  BY <1>4, <1>5, <2>1, <2>2, SymbolsStep
<1>6. CASE UNCHANGED functions /\ Fail("type")
  BY <1>3, <1>4, <1>6, PlainStep DEF symbols
<1> QED  BY <1>5, <1>6 DEF ExternFunc

(* A function whose body comes next.                                       *)
LEMMA NewBodyStep ==
  ASSUME IInv, NEW d \in Pending, inside = 0, UNCHANGED <<tables, globals>>,
         NEW name \in FuncName, d.deduced \in BOOLEAN, d.body \in Seq(Statement),
         NewFunction(name, d.deduced),
         NEW first \in Seq(Variable(Len(types))), Begin(d, first)
  PROVE  IInv'
<1>1. /\ functions' \in Seq(Symbol)
      /\ Len(functions) \in Nat /\ Len(functions') = Len(functions) + 1
  BY NewFunctionTyped
<1>2. types' = types /\ globals' \in Seq(Option)  BY DEF tables, IInv, TypeOK
<1>3. Grows  BY <1>1, <1>2, LenProperties DEF Grows, IInv, TypeOK
<1>4. Settled /\ Remembered
  BY <1>1, <1>2, <1>3, BeginSettles
<1> QED  BY <1>1, <1>2, <1>4, TablesStay

(* Function::codegen up to its body.                                       *)
LEMMA FunctionStep ==
  ASSUME IInv, NEW d \in Pending, Function(d)
  PROVE  IInv'
<1>1. d \in FuncDecl /\ inside = 0
  BY PendingIs, StatementKinds, ElementKinds DEF Function
<1>2. /\ <<"free", d.name>> \in FuncName
      /\ d.deduced \in BOOLEAN /\ d.body \in Seq(Statement)
  BY <1>1 DEF FuncDecl, FuncName
<1>3. "type" \in Diagnostics  BY DEF Diagnostics
<1>4. UNCHANGED tables /\ UNCHANGED globals  BY DEF Function
<1>5. CASE NewFunction(<<"free", d.name>>, d.deduced) /\ Begin(d, <<>>)
  <2>1. <<>> \in Seq(Variable(Len(types)))  OBVIOUS
  <2> QED  BY <1>1, <1>2, <1>4, <1>5, <2>1, NewBodyStep
<1>6. CASE UNCHANGED functions /\ Fail("type")
  BY <1>3, <1>4, <1>6, PlainStep DEF symbols
<1> QED  BY <1>5, <1>6 DEF Function

(* A function or an operator of a struct, under any name.                  *)
LEMMA MethodStep ==
  ASSUME IInv, NEW d \in Pending, inside = 0, UNCHANGED <<tables, globals>>,
         d.deduced \in BOOLEAN, d.body \in Seq(Statement), d.types \in Seq(TypeExpr),
         NEW name \in FuncName, Taken(types, <<"struct", d.of>>),
         MethodNamed(d, name)
  PROVE  IInv'
<1>1. {"exists", "type", "default"} \subseteq Diagnostics  BY DEF Diagnostics
<1>2. CASE UNCHANGED functions /\ (Fail("exists") \/ Fail("type"))
  BY <1>1, <1>2, PlainStep DEF symbols
<1>3. CASE NewFunction(name, d.deduced) /\ Fail("default")
  <2>1. functions' \in Seq(Symbol) /\ Len(functions) <= Len(functions')
    <3>1. /\ functions' \in Seq(Symbol)
          /\ Len(functions) \in Nat /\ Len(functions') = Len(functions) + 1
      BY <1>3, NewFunctionTyped
    <3> QED  BY <3>1
  <2>2. globals' \in Seq(Option)  BY DEF IInv, TypeOK
  <2> QED  BY <1>1, <1>3, <2>1, <2>2, SymbolsStep
<1> DEFINE at == First(types, <<"struct", d.of>>)
           this == [name |-> "this", type |-> PointerTo(StructAt(at))]
<1>4. CASE NewFunction(name, d.deduced) /\ Begin(d, <<this>>)
  <2>1. types \in Seq(StructType(Len(types))) /\ Len(types) \in Nat
    BY LenProperties DEF IInv, TypeOK
  <2>2. at \in 1..Len(types)  BY <2>1, FirstFound
  <2>. HIDE DEF at
  <2>3. StructAt(at) \in TypeIn(Len(types))
    BY <2>1, <2>2 DEF StructAt, TypeIn
  <2>4. PointerTo(StructAt(at)) \in TypeIn(Len(types))
    BY <2>1, <2>3, PointerTyped
  <2>5. this \in Variable(Len(types))  BY <2>4 DEF Variable
  <2>6. <<this>> \in Seq(Variable(Len(types)))
    <3>. HIDE DEF this
    <3> QED  BY <2>5
  <2>. HIDE DEF this
  <2> QED  BY <1>4, <2>6, NewBodyStep
<1> QED  BY <1>2, <1>3, <1>4 DEF MethodNamed

(* StructFunc::codegen up to its body.                                     *)
LEMMA StructFuncStep ==
  ASSUME IInv, NEW d \in Pending, StructFunc(d)
  PROVE  IInv'
<1>1. d \in MethodDecl /\ inside = 0
  BY PendingIs, StatementKinds, ElementKinds DEF StructFunc
<1>2. /\ <<"struct", d.of, d.func>> \in FuncName
      /\ d.deduced \in BOOLEAN /\ d.body \in Seq(Statement) /\ d.types \in Seq(TypeExpr)
  BY <1>1 DEF MethodDecl, FuncName
<1>3. UNCHANGED tables /\ UNCHANGED globals  BY DEF StructFunc
<1>4. CASE UNCHANGED functions /\ Fail("struct")
  <2>1. "struct" \in Diagnostics  BY DEF Diagnostics
  <2> QED  BY <1>3, <1>4, <2>1, PlainStep DEF symbols
<1>5. CASE /\ Taken(types, <<"struct", d.of>>)
           /\ MethodNamed(d, <<"struct", d.of, d.func>>)
  BY <1>1, <1>2, <1>3, <1>5, MethodStep
<1> QED  BY <1>4, <1>5 DEF StructFunc

(* The name of a conversion to a type that has a name.                     *)
LEMMA ConversionNamed ==
  ASSUME IInv, NEW n \in Name, NEW t \in TypeIn(Len(types)), Nameable(t)
  PROVE  ConversionName(n, t) \in FuncName
<1>1. t.base \in Basic \cup {"struct"} /\ t.ptr \in BOOLEAN
  BY DEF TypeIn, Nameable
<1> DEFINE to == IF t.base = "struct" THEN types[t.at].name[2] ELSE t.base
<1>2. to \in Name \cup Basic
  <2>1. CASE t.base = "struct"
    <3>1. types[t.at].name \in StructName  BY <2>1 DEF Nameable
    <3>2. types[t.at].name[2] \in Name  BY <3>1 DEF StructName
    <3> QED  BY <2>1, <3>2
  <2> QED  BY <1>1, <2>1
<1>3. ConversionName(n, t) = <<"operator", n, to, t.ptr>>  BY DEF ConversionName
<1>. HIDE DEF to
<1>4. <<"operator", n, to, t.ptr>> \in {"operator"} \X Name \X (Name \cup Basic) \X BOOLEAN
  BY <1>1, <1>2
<1> QED  BY <1>3, <1>4 DEF FuncName

(* StructOp::codegen of a conversion up to its body.                       *)
LEMMA StructOpStep ==
  ASSUME IInv, NEW d \in Pending, StructOp(d)
  PROVE  IInv'
<1>1. d \in ConversionDecl /\ inside = 0
  BY PendingIs, StatementKinds, ElementKinds DEF StructOp
<1>2. /\ d.of \in Name /\ d.to \in TypeExpr
      /\ d.deduced \in BOOLEAN /\ d.body \in Seq(Statement) /\ d.types \in Seq(TypeExpr)
  BY <1>1 DEF ConversionDecl
<1>3. UNCHANGED tables /\ UNCHANGED globals  BY DEF StructOp
<1>4. CASE UNCHANGED functions /\ (Fail("struct") \/ Fail("type"))
  <2>1. {"struct", "type"} \subseteq Diagnostics  BY DEF Diagnostics
  <2> QED  BY <1>3, <1>4, <2>1, PlainStep DEF symbols
<1>5. CASE /\ Taken(types, <<"struct", d.of>>)
           /\ \E t \in Resolve(types, d.to) \ {Plain("auto")} :
                MethodNamed(d, ConversionName(d.of, t))
  <2>1. PICK t \in Resolve(types, d.to) : MethodNamed(d, ConversionName(d.of, t))
    BY <1>5
  <2>2. Nameable(t) /\ t \in TypeIn(Len(types))
    BY <1>2, ResolveNameable DEF IInv
  <2>3. ConversionName(d.of, t) \in FuncName
    BY <1>2, <2>2, ConversionNamed
  <2> QED  BY <1>1, <1>2, <1>3, <1>5, <2>1, <2>3, MethodStep
<1> QED  BY <1>4, <1>5 DEF StructOp

(* DeclAssign::codegen.                                                    *)
LEMMA LetStep ==
  ASSUME IInv, NEW d \in Pending, Let(d)
  PROVE  IInv'
<1>1. d \in LetDecl /\ body # <<>>
  BY PendingIs, StatementKinds, ElementKinds DEF Let
<1>2. d.name \in Name /\ d.type \in TypeExpr  BY <1>1 DEF LetDecl
<1>3. UNCHANGED tables /\ UNCHANGED symbols  BY DEF Let
<1>4. CASE Fail("type") \/ Fail("exists")
  <2>1. {"type", "exists"} \subseteq Diagnostics  BY DEF Diagnostics
  <2> QED  BY <1>3, <1>4, <2>1, PlainStep
<1>5. CASE /\ \E t \in Resolve(types, d.type) :
                locals' = Append(locals, [name |-> d.name, type |-> t])
           /\ body' = Tail(body)
           /\ UNCHANGED <<inside, compiled, errors, status>>
  <2>1. PICK t \in Resolve(types, d.type) :
          locals' = Append(locals, [name |-> d.name, type |-> t])
    BY <1>5
  <2>2. t \in TypeIn(Len(types))  BY <1>2, ResolveNameable DEF IInv
  <2>3. [name |-> d.name, type |-> t] \in Variable(Len(types))
    BY <1>2, <2>2 DEF Variable
  <2>4. locals' \in Seq(Variable(Len(types')))
    <3>1. locals \in Seq(Variable(Len(types))) /\ types' = types
      BY <1>3 DEF IInv, TypeOK, tables
    <3> QED  BY <2>1, <2>3, <3>1, AppendProperties
  <2>5. body' \in Seq(Statement)
    <3>1. body \in Seq(Statement)  BY DEF IInv, Control
    <3> QED  BY <1>1, <1>5, <3>1, HeadTailProperties
  <2>6. Control'  BY <1>5, <2>5 DEF IInv, Control
  <2>7. Settled /\ Remembered
    BY <1>3, <1>5, <2>4, <2>6 DEF Settled, Remembered, symbols, IInv, TypeOK
  <2>8. functions' \in Seq(Symbol) /\ globals' \in Seq(Option)
    BY <1>3 DEF symbols, IInv, TypeOK
  <2> QED  BY <1>3, <2>7, <2>8, TablesStay
<1> QED  BY <1>4, <1>5 DEF Let

(* A function that is used is the function it was.                         *)
LEMMA UsedSymbol ==
  ASSUME NEW s \in Symbol
  PROVE  [s EXCEPT !.used = TRUE] \in Symbol
BY DEF Symbol

(* One that is called, or bound to a variable, is marked so,              *)
LEMMA MarkUsedTyped ==
  ASSUME IInv, NEW name, Taken(functions, name), MarkUsed(name)
  PROVE  functions' \in Seq(Symbol) /\ Len(functions) <= Len(functions')
<1>1. functions \in Seq(Symbol) /\ Len(functions) \in Nat
      /\ DOMAIN functions = 1..Len(functions)
  BY LenProperties DEF IInv, TypeOK
<1> DEFINE i == First(functions, name)
           s == [functions[i] EXCEPT !.used = TRUE]
<1>2. i \in 1..Len(functions)  BY <1>1, FirstFound
<1>3. s \in Symbol
  <2>1. functions[i] \in Symbol  BY <1>1, <1>2, ElementOfSeq
  <2>. HIDE DEF i
  <2> QED  BY <2>1, UsedSymbol
<1>4. functions' = [functions EXCEPT ![i] = s]  BY DEF MarkUsed
<1>. HIDE DEF i, s
<1> QED  BY <1>1, <1>2, <1>3, <1>4, ExceptSeq

(* and so are those an interface takes.                                    *)
LEMMA MarkAllUsedTyped ==
  ASSUME IInv, NEW names, MarkAllUsed(names)
  PROVE  functions' \in Seq(Symbol) /\ Len(functions) <= Len(functions')
<1>1. functions \in Seq(Symbol) /\ Len(functions) \in Nat
      /\ DOMAIN functions = 1..Len(functions)
  BY LenProperties DEF IInv, TypeOK
<1>2. \A i \in 1..Len(functions) : /\ functions[i] \in Symbol
                                  /\ [functions[i] EXCEPT !.used = TRUE] \in Symbol
  BY <1>1, ElementOfSeq, UsedSymbol
<1>3. functions' \in [1..Len(functions) -> Symbol]
  BY <1>1, <1>2 DEF MarkAllUsed
<1> QED  BY <1>1, <1>3, FunSeq

(* FuncCall::codegen of a function without arguments.                      *)
LEMMA CallStep ==
  ASSUME IInv, NEW d \in Pending, Call(d)
  PROVE  IInv'
<1>1. {"call", "variable"} \subseteq Diagnostics  BY DEF Diagnostics
<1>2. UNCHANGED tables /\ globals' \in Seq(Option) /\ UNCHANGED globals
  BY DEF Call, IInv, TypeOK
<1>3. CASE (Fail("call") \/ Fail("variable")) /\ UNCHANGED functions
  BY <1>1, <1>2, <1>3, PlainStep DEF symbols
<1>4. CASE /\ Taken(functions, <<"free", d.name>>)
           /\ MarkUsed(<<"free", d.name>>) /\ GoOn
  <2>1. functions' \in Seq(Symbol) /\ Len(functions) <= Len(functions')
    BY <1>4, MarkUsedTyped
  <2> QED  BY <1>2, <1>4, <2>1, SymbolsStep
<1> QED  BY <1>3, <1>4 DEF Call

(* StructMember::codegen.                                                  *)
LEMMA AccessStep ==
  ASSUME IInv, NEW d \in Pending, Access(d)
  PROVE  IInv'
<1>1. {"member", "variable"} \subseteq Diagnostics  BY DEF Diagnostics
<1>2. UNCHANGED tables /\ globals' \in Seq(Option) /\ UNCHANGED globals
  BY DEF Access, IInv, TypeOK
<1> DEFINE t == Row(locals, d.var).type
<1>3. CASE /\ UNCHANGED functions
           /\ Fail("variable") \/ Fail("member") \/ GoOn \/ Crash
  BY <1>1, <1>2, <1>3, PlainStep DEF symbols
<1>4. CASE /\ HasMethod(t, d.member)
           /\ MarkUsed(MethodName(t, d.member)) /\ Bind
  <2>1. functions' \in Seq(Symbol) /\ Len(functions) <= Len(functions')
    BY <1>4, MarkUsedTyped DEF HasMethod
  <2>2. GoOn \/ Crash  BY <1>4 DEF Bind
  <2> QED  BY <1>2, <2>1, <2>2, SymbolsStep
<1> QED  BY <1>3, <1>4 DEF Access

(* FnCast::codegen of a variable.                                          *)
LEMMA CastStep ==
  ASSUME IInv, NEW d \in Pending, Cast(d)
  PROVE  IInv'
<1>1. {"variable", "type", "cast", "implement"} \subseteq Diagnostics
  BY DEF Diagnostics
<1>2. UNCHANGED tables /\ globals' \in Seq(Option) /\ UNCHANGED globals
  BY DEF Cast, IInv, TypeOK
<1>3. CASE /\ UNCHANGED functions
           /\ \/ GoOn \/ Crash
              \/ \E what \in Diagnostics : Fail(what)
  BY <1>2, <1>3, PlainStep DEF symbols
<1>4. ASSUME NEW t, NEW to, CastToInterface(t, to)
      PROVE  IInv'
  <2>1. CASE UNCHANGED functions /\ (Crash \/ Fail("implement"))
    BY <1>1, <1>3, <2>1
  <2>2. CASE (\E names : MarkAllUsed(names)) /\ (GoOn \/ Crash)
    <3>1. functions' \in Seq(Symbol) /\ Len(functions) <= Len(functions')
      BY <2>2, MarkAllUsedTyped
    <3> QED  BY <1>2, <2>2, <3>1, SymbolsStep
  <2> QED  BY <1>4, <2>1, <2>2 DEF CastToInterface
<1>5. ASSUME NEW name, Taken(functions, name), MarkUsed(name), GoOn
      PROVE  IInv'
  <2>1. functions' \in Seq(Symbol) /\ Len(functions) <= Len(functions')
    BY <1>5, MarkUsedTyped
  <2> QED  BY <1>2, <1>5, <2>1, SymbolsStep
<1>6. CASE CastText(d) /\ UNCHANGED functions
  BY <1>1, <1>3, <1>6 DEF CastText
<1>7. CASE UNCHANGED functions /\ (Fail("variable") \/ Fail("type") \/ Fail("cast"))
  BY <1>1, <1>3, <1>7
<1>8. CASE \E to \in Resolve(types, d.to) :
             LET t == Row(locals, d.var).type
             IN  \/ IsInterface(to) /\ CastToInterface(t, to)
                 \/ /\ ~IsInterface(to) /\ Converts(t, to)
                    /\ MarkUsed(ConversionName(types[t.at].name[2], to)) /\ GoOn
                 \/ /\ ~IsInterface(to) /\ ~Converts(t, to)
                    /\ Fail("cast") /\ UNCHANGED functions
  <2>1. PICK to \in Resolve(types, d.to) :
          LET t == Row(locals, d.var).type
          IN  \/ CastToInterface(t, to)
              \/ /\ Converts(t, to)
                 /\ MarkUsed(ConversionName(types[t.at].name[2], to)) /\ GoOn
              \/ Fail("cast") /\ UNCHANGED functions
    BY <1>8
  <2> QED  BY <2>1, <1>4, <1>5, <1>7 DEF Converts
<1> QED  BY <1>6, <1>7, <1>8 DEF Cast

(* DataClass::construct.                                                   *)
LEMMA ConstructStep ==
  ASSUME IInv, NEW d \in Pending, Construct(d)
  PROVE  IInv'
<1>1. "class" \in Diagnostics  BY DEF Diagnostics
<1>2. UNCHANGED tables /\ UNCHANGED symbols  BY DEF Construct
<1>3. GoOn \/ Crash \/ Fail("class")  BY DEF Construct
<1> QED  BY <1>1, <1>2, <1>3, PlainStep

(* The end of a function.                                                  *)
LEMMA FunctionEndStep ==
  ASSUME IInv, FunctionEnd
  PROVE  IInv'
<1>1. UNCHANGED tables /\ UNCHANGED symbols  BY DEF FunctionEnd
<1>2. functions' \in Seq(Symbol) /\ globals' \in Seq(Option)
  BY <1>1 DEF symbols, IInv, TypeOK
<1>3. Grows
  BY <1>1, LenProperties DEF Grows, IInv, TypeOK, tables, symbols
<1>4. CASE Crash
  BY <1>1, <1>2, <1>3, <1>4, CrashSettles, TablesStay
<1>5. CASE /\ inside' = 0 /\ locals' = <<>>
           /\ compiled' = compiled + 1
           /\ UNCHANGED <<body, errors, status>>
  <2>1. status = "compiling" /\ inside # 0 /\ MaxElements \in Nat
    BY BoundAssumption DEF FunctionEnd
  <2>2. Control'  BY <1>5, <2>1 DEF IInv, Control
  <2>3. Settled  BY <1>3, <1>5, <2>2 DEF Settled, Grows
  <2>4. Remembered  BY <1>5 DEF Remembered
  <2> QED  BY <1>1, <1>2, <2>3, <2>4, TablesStay
<1> QED  BY <1>4, <1>5 DEF FunctionEnd

(* The end of the module.                                                  *)
LEMMA FinishStep ==
  ASSUME IInv, Finish
  PROVE  IInv'
<1>1. UNCHANGED tables /\ UNCHANGED symbols /\ UNCHANGED running
      /\ UNCHANGED <<compiled, errors>>
  BY DEF Finish
<1>2. functions' \in Seq(Symbol) /\ globals' \in Seq(Option)
  BY <1>1 DEF symbols, IInv, TypeOK
<1>3. status' \in Statuses /\ status' # "crash" /\ status' # "compiling"
      /\ (status' = "done" => errors = <<>>) /\ status = "compiling"
  BY DEF Finish, Statuses
<1>4. Control'  BY <1>1, <1>3 DEF running, IInv, Control
<1>5. Settled
  BY <1>1, <1>4 DEF Settled, running, tables, symbols, IInv, TypeOK
<1>6. Remembered  BY <1>1, <1>3 DEF Remembered
<1> QED  BY <1>1, <1>2, <1>5, <1>6, TablesStay

------------------------------------------------------------------------------
(* Theorems *)

(* What is true when nothing is declared.                                  *)
LEMMA InitHolds ==
  ASSUME Init
  PROVE  IInv
<1>1. MaxElements \in Nat  BY BoundAssumption
<1>2. TypeOK  BY <1>1, EmptySeq DEF Init, TypeOK, Statuses
<1>3. Control  BY <1>1, EmptySeq DEF Init, Control, Statuses
<1>4. DOMAIN types = {} /\ DOMAIN aliases = {}  BY DEF Init
<1> QED  BY <1>2, <1>3, <1>4
          DEF IInv, OnlyEarlierTypes, AliasesNameable, WholeUnlessFailed

(* A step that changes nothing.                                            *)
LEMMA NothingHappens ==
  ASSUME IInv, UNCHANGED vars
  PROVE  IInv'
<1>1. UNCHANGED tables /\ UNCHANGED symbols /\ UNCHANGED running
      /\ UNCHANGED <<compiled, errors, status>>
  BY DEF vars
<1>2. functions' \in Seq(Symbol) /\ globals' \in Seq(Option)
  BY <1>1 DEF symbols, IInv, TypeOK
<1>3. Control'  BY <1>1 DEF running, IInv, Control
<1>4. Settled
  BY <1>1, <1>3 DEF Settled, running, tables, symbols, IInv, TypeOK
<1>5. Remembered  BY <1>1 DEF Remembered
<1> QED  BY <1>1, <1>2, <1>4, <1>5, TablesStay

(* The inductive step.                                                     *)
LEMMA StepHolds ==
  ASSUME IInv, [Next]_vars
  PROVE  IInv'
<1>1. ASSUME NEW d \in Pending, Compile(d) PROVE IInv'
  <2>1. CASE Structure(d)  BY <2>1, StructureStep
  <2>2. CASE Alias(d)  BY <2>2, AliasStep
  <2>3. CASE Enumeration(d)  BY <2>3, EnumerationStep
  <2>4. CASE Interface(d)  BY <2>4, InterfaceStep
  <2>5. CASE DataClass(d)  BY <2>5, DataClassStep
  <2>6. CASE ExternFunc(d)  BY <2>6, ExternFuncStep
  <2>7. CASE Function(d)  BY <2>7, FunctionStep
  <2>8. CASE StructFunc(d)  BY <2>8, StructFuncStep
  <2>9. CASE StructOp(d)  BY <2>9, StructOpStep
  <2>10. CASE Let(d)  BY <2>10, LetStep
  <2>11. CASE Call(d)  BY <2>11, CallStep
  <2>12. CASE Access(d)  BY <2>12, AccessStep
  <2>13. CASE Cast(d)  BY <2>13, CastStep
  <2>14. CASE Construct(d)  BY <2>14, ConstructStep
  <2> QED
    BY <1>1, <2>1, <2>2, <2>3, <2>4, <2>5, <2>6, <2>7, <2>8, <2>9, <2>10,
       <2>11, <2>12, <2>13, <2>14 DEF Compile
<1>2. CASE FunctionEnd  BY <1>2, FunctionEndStep
<1>3. CASE Finish  BY <1>3, FinishStep
<1>4. CASE Ended  BY <1>4, NothingHappens DEF Ended
<1>5. CASE UNCHANGED vars  BY <1>5, NothingHappens
<1> QED  BY <1>1, <1>2, <1>3, <1>4, <1>5 DEF Next

(* The tables and codegen's place in the module are always as IInv says.   *)
THEOREM TablesInvariance == Spec => []IInv
<1>1. Init => IInv  BY InitHolds
<1>2. IInv /\ [Next]_vars => IInv'  BY StepHolds
<1> QED  BY <1>1, <1>2, PTL DEF Spec

(* Every table keeps its type, whatever is compiled: a type in it names a  *)
(* struct type that exists.                                                *)
THEOREM TablesTypeCorrect == Spec => []TypeOK
<1>1. IInv => TypeOK  BY DEF IInv
<1> QED  BY <1>1, TablesInvariance, PTL

(* However names are defined again and elements fail, a struct holds, or   *)
(* points to, structs made before it or itself.                            *)
THEOREM NoForwardTypes == Spec => []OnlyEarlierTypes
<1>1. IInv => OnlyEarlierTypes  BY DEF IInv
<1> QED  BY <1>1, TablesInvariance, PTL

(* A module that is handed on has no struct without its body.              *)
THEOREM WholeWhenEmitted == Spec => []EmittedIsWhole
<1>1. IInv => EmittedIsWhole
  BY DEF IInv, Control, WholeUnlessFailed, EmittedIsWhole
<1> QED  BY <1>1, TablesInvariance, PTL

------------------------------------------------------------------------------
(* What a name finds: a field its place, a class its constructors, an      *)
(* alias its type, whatever is declared before and after, and a name that  *)
(* means something keeps its meaning unless a struct takes it.             *)

(* Tables *)

(* A table with more rows at its end: what was found is found as before,   *)
(* and what is new is one of them.                                         *)
Extends(table, more, all) ==
  \A n : /\ Taken(all, n) <=> Taken(table, n) \/ Taken(more, n)
         /\ Taken(table, n) => /\ First(all, n) = First(table, n)
                               /\ Row(all, n) = Row(table, n)
         /\ ~Taken(table, n) /\ Taken(more, n) => Row(all, n) = Row(more, n)

(* The first row with a name is that one, and no other.                    *)
LEMMA FirstIs ==
  ASSUME NEW S, NEW table \in Seq(S), NEW n, NEW i \in 1..Len(table),
         table[i].name = n, \A j \in 1..Len(table) : j < i => table[j].name # n
  PROVE  Taken(table, n) /\ First(table, n) = i /\ Row(table, n) = table[i]
<1>1. DOMAIN table = 1..Len(table) /\ Len(table) \in Nat
  BY LenProperties
<1>2. Taken(table, n)  BY <1>1 DEF Taken
<1>3. /\ First(table, n) \in DOMAIN table /\ table[First(table, n)].name = n
      /\ \A j \in DOMAIN table : j < First(table, n) => table[j].name # n
  BY <1>1 DEF First
<1>4. First(table, n) = i
  <2>1. ~(i < First(table, n)) /\ ~(First(table, n) < i)  BY <1>1, <1>3
  <2> QED  BY <1>1, <1>3, <2>1
<1> QED  BY <1>2, <1>4 DEF Row

(* What is before the first row with a name has another name.              *)
LEMMA FirstIsFirst ==
  ASSUME NEW S, NEW table \in Seq(S), NEW n, Taken(table, n)
  PROVE  /\ First(table, n) \in 1..Len(table)
         /\ table[First(table, n)].name = n
         /\ \A j \in 1..Len(table) : j < First(table, n) => table[j].name # n
<1>1. DOMAIN table = 1..Len(table) /\ Len(table) \in Nat
  BY LenProperties
<1> DEFINE Rows == {i \in 1..Len(table) : table[i].name = n}
<1>2. Rows \subseteq Nat /\ Rows # {}  BY <1>1 DEF Taken
<1>3. PICK x \in Rows : \A y \in Rows : ~(y < x)
  <2>. HIDE DEF Rows
  <2> QED  BY <1>2, Least
<1>4. /\ x \in 1..Len(table) /\ table[x].name = n
      /\ \A j \in 1..Len(table) : j < x => table[j].name # n
  BY <1>3
<1>5. First(table, n) = x  BY <1>4, FirstIs
<1> QED  BY <1>4, <1>5

(* Rows at the end change nothing of what was found before.                *)
LEMMA ConcatExtends ==
  ASSUME NEW S, NEW table \in Seq(S), NEW more \in Seq(S)
  PROVE  Extends(table, more, table \o more)
<1> DEFINE all == table \o more
<1>1. /\ DOMAIN table = 1..Len(table) /\ Len(table) \in Nat
      /\ DOMAIN more = 1..Len(more) /\ Len(more) \in Nat
  BY LenProperties
<1>2. /\ all \in Seq(S) /\ Len(all) = Len(table) + Len(more)
      /\ \A i \in 1..Len(all) :
           all[i] = IF i <= Len(table) THEN table[i] ELSE more[i - Len(table)]
  BY ConcatProperties
<1>. HIDE DEF all
<1>3. DOMAIN all = 1..Len(all)  BY <1>2, LenProperties
<1>4. \A i \in 1..Len(table) : i \in 1..Len(all) /\ all[i] = table[i]
  BY <1>1, <1>2
<1>5. \A i \in 1..Len(more) : /\ Len(table) + i \in 1..Len(all)
                              /\ all[Len(table) + i] = more[i]
  <2> TAKE i \in 1..Len(more)
  <2>1. /\ Len(table) + i \in 1..Len(all) /\ ~(Len(table) + i <= Len(table))
        /\ (Len(table) + i) - Len(table) = i
    BY <1>1, <1>2
  <2> QED  BY <1>2, <2>1
<1> SUFFICES ASSUME NEW n
             PROVE  /\ Taken(all, n) <=> Taken(table, n) \/ Taken(more, n)
                    /\ Taken(table, n) => /\ First(all, n) = First(table, n)
                                          /\ Row(all, n) = Row(table, n)
                    /\ ~Taken(table, n) /\ Taken(more, n) => Row(all, n) = Row(more, n)
  BY DEF Extends, all
<1>6. Taken(table, n) => Taken(all, n)  BY <1>1, <1>3, <1>4 DEF Taken
<1>7. Taken(more, n) => Taken(all, n)  BY <1>1, <1>3, <1>5 DEF Taken
<1>8. Taken(all, n) => Taken(table, n) \/ Taken(more, n)
  <2> SUFFICES ASSUME NEW i \in 1..Len(all), all[i].name = n
               PROVE  Taken(table, n) \/ Taken(more, n)
    BY <1>3 DEF Taken
  <2>1. CASE i <= Len(table)
    <3>1. i \in 1..Len(table)  BY <1>1, <2>1
    <3> QED  BY <1>1, <1>2, <2>1, <3>1 DEF Taken
  <2>2. CASE ~(i <= Len(table))
    <3>1. i - Len(table) \in 1..Len(more)  BY <1>1, <1>2, <2>2
    <3> QED  BY <1>1, <1>2, <2>2, <3>1 DEF Taken
  <2> QED  BY <2>1, <2>2
<1>9. ASSUME Taken(table, n)
      PROVE  First(all, n) = First(table, n) /\ Row(all, n) = Row(table, n)
  <2>1. /\ First(table, n) \in 1..Len(table)
        /\ table[First(table, n)].name = n
        /\ \A j \in 1..Len(table) : j < First(table, n) => table[j].name # n
    BY <1>9, FirstIsFirst
  <2> DEFINE i == First(table, n)
  <2>. HIDE DEF i
  <2>2. /\ i \in 1..Len(all) /\ all[i] = table[i] /\ all[i].name = n
        /\ \A j \in 1..Len(all) : j < i => all[j].name # n
    <3>1. \A j \in 1..Len(all) : j < i => j \in 1..Len(table)
      BY <1>1, <1>2, <2>1 DEF i
    <3> QED  BY <1>4, <2>1, <3>1 DEF i
  <2>3. /\ all \in Seq(S) /\ i \in 1..Len(all) /\ all[i].name = n
        /\ \A j \in 1..Len(all) : j < i => all[j].name # n
    BY <1>2, <2>2
  <2>4. PICK u, x : u = all /\ x = i  OBVIOUS
  <2>5. /\ u \in Seq(S) /\ x \in 1..Len(u) /\ u[x].name = n
        /\ \A j \in 1..Len(u) : j < x => u[j].name # n
    BY <2>3, <2>4
  <2>6. First(u, n) = x /\ Row(u, n) = u[x]  BY <2>5, FirstIs
  <2> QED  BY <2>2, <2>4, <2>6 DEF i, Row
<1>10. ASSUME ~Taken(table, n), Taken(more, n)
       PROVE  Row(all, n) = Row(more, n)
  <2>1. PICK i \in 1..Len(more) :
          /\ i = First(more, n) /\ more[i].name = n
          /\ \A j \in 1..Len(more) : j < i => more[j].name # n
    BY <1>10, FirstIsFirst
  <2>2. PICK u, x : u = all /\ x = Len(table) + i  OBVIOUS
  <2>3. /\ u \in Seq(S) /\ x \in 1..Len(u) /\ u[x] = more[i]
        /\ \A j \in 1..Len(u) : j < x => u[j].name # n
    <3>1. x \in 1..Len(u) /\ u[x] = more[i]  BY <1>5, <2>2
    <3>2. ASSUME NEW j \in 1..Len(u), j < x PROVE u[j].name # n
      <4>1. CASE j <= Len(table)
        <5>1. j \in 1..Len(table) /\ u[j] = table[j]  BY <1>1, <1>4, <2>2, <4>1
        <5> QED  BY <1>1, <1>10, <5>1 DEF Taken
      <4>2. CASE ~(j <= Len(table))
        <5>1. /\ j - Len(table) \in 1..Len(more) /\ j - Len(table) < i
              /\ Len(table) + (j - Len(table)) = j
          BY <1>1, <1>2, <2>1, <2>2, <3>2, <4>2
        <5>2. u[j] = more[j - Len(table)]  BY <1>5, <2>2, <5>1
        <5> QED  BY <2>1, <5>1, <5>2
      <4> QED  BY <4>1, <4>2
    <3> QED  BY <1>2, <2>2, <3>1, <3>2
  <2>4. Row(u, n) = u[x]
    <3>1. /\ u \in Seq(S) /\ x \in 1..Len(u) /\ u[x].name = n
          /\ \A j \in 1..Len(u) : j < x => u[j].name # n
      BY <2>1, <2>3
    <3>2. First(u, n) = x /\ Row(u, n) = u[x]  BY <3>1, FirstIs
    <3> QED  BY <3>2
  <2> QED  BY <2>1, <2>2, <2>3, <2>4 DEF Row
<1> QED  BY <1>6, <1>7, <1>8, <1>9, <1>10

(* One row more.                                                           *)
Longer(table, r, all) ==
  \A n : /\ Taken(all, n) <=> Taken(table, n) \/ r.name = n
         /\ Taken(table, n) => /\ First(all, n) = First(table, n)
                               /\ Row(all, n) = Row(table, n)
         /\ ~Taken(table, n) /\ r.name = n => Row(all, n) = r

LEMMA AppendExtends ==
  ASSUME NEW S, NEW table \in Seq(S), NEW r \in S
  PROVE  Longer(table, r, Append(table, r))
<1>1. <<r>> \in Seq(S) /\ DOMAIN <<r>> = {1} /\ <<r>>[1] = r
  OBVIOUS
<1>2. Append(table, r) = table \o <<r>>  BY AppendIsConcat
<1>3. Extends(table, <<r>>, Append(table, r))  BY <1>1, <1>2, ConcatExtends
<1>4. \A n : Taken(<<r>>, n) <=> r.name = n  BY <1>1 DEF Taken
<1>5. ASSUME NEW n, ~Taken(table, n), r.name = n
      PROVE  Row(Append(table, r), n) = r
  <2> DEFINE all == Append(table, r)
             k == Len(table) + 1
  <2>1. /\ all \in Seq(S) /\ Len(all) = k /\ all[k] = r
        /\ \A j \in 1..Len(table) : all[j] = table[j]
    BY AppendProperties
  <2>2. /\ Len(table) \in Nat /\ k \in 1..k /\ DOMAIN table = 1..Len(table)
        /\ \A j \in 1..k : j < k => j \in 1..Len(table)
    BY LenProperties
  <2>. HIDE DEF all, k
  <2>3. \A j \in 1..k : j < k => all[j].name # n
    BY <1>5, <2>1, <2>2 DEF Taken
  <2>4. First(all, n) = k /\ Row(all, n) = all[k]
    BY <1>5, <2>1, <2>2, <2>3, FirstIs
  <2> QED  BY <2>1, <2>4 DEF all, k
<1> QED  BY <1>3, <1>4, <1>5 DEF Extends, Longer

(* Where no two rows have one name, a row is the first of its name.        *)
LEMMA OnlyRow ==
  ASSUME NEW S, NEW table \in Seq(S), NEW i \in 1..Len(table),
         \A j \in 1..Len(table) : table[j].name = table[i].name => j = i
  PROVE  /\ First(table, table[i].name) = i
         /\ Row(table, table[i].name) = table[i]
<1>1. \A j \in 1..Len(table) : j < i => table[j].name # table[i].name
  BY LenProperties
<1> QED  BY <1>1, FirstIs

------------------------------------------------------------------------------
(* What a step remembers, and the names of types *)

(* An error is not forgotten, whatever the status.                         *)
Recalled == errors' = <<>> => errors = <<>>

(* Going on, failing and crashing forget nothing, and a failure tells.     *)
LEMMA NotForgotten ==
  ASSUME IInv, NEW d \in Pending,
         GoOn \/ Crash \/ \E what \in Diagnostics : Fail(what)
  PROVE  /\ Recalled /\ status = "compiling"
         /\ GoOn => UNCHANGED <<errors, status>>
         /\ Crash => status' = "crash" /\ UNCHANGED errors
         /\ \A what \in Diagnostics : Fail(what) => errors' # <<>> /\ UNCHANGED status
<1>1. ASSUME NEW what \in Diagnostics, Fail(what)
      PROVE  errors' # <<>> /\ UNCHANGED status
  <2>1. errors \in Seq(Diagnostics) /\ Len(errors) \in Nat
    BY LenProperties DEF IInv, Control
  <2>2. Len(Append(errors, what)) = Len(errors) + 1
    BY <2>1, AppendProperties
  <2>3. Append(errors, what) # <<>>  BY <2>1, <2>2, EmptySeq
  <2> QED  BY <1>1, <2>3 DEF Fail
<1>2. status = "compiling"  BY PendingIs
<1> QED  BY <1>1, <1>2 DEF GoOn, Crash, Recalled

(* The names of struct types of different kinds differ, and so do those of *)
(* one kind whose identifiers do.                                          *)
NamesApart ==
  \A a, b, m, k :
    /\ <<"struct", a>> # <<"interface", b>> /\ <<"struct", a>> # <<"class", b>>
    /\ <<"interface", a>> # <<"class", b>>
    /\ <<"struct", a>> # <<"variant", b, m>> /\ <<"interface", a>> # <<"variant", b, m>>
    /\ <<"class", a>> # <<"variant", b, m>>
    /\ Renamed # <<"struct", a>> /\ Renamed # <<"interface", a>>
    /\ Renamed # <<"class", a>> /\ Renamed # <<"variant", b, m>>
    /\ <<"struct", a>> = <<"struct", b>> => a = b
    /\ <<"interface", a>> = <<"interface", b>> => a = b
    /\ <<"class", a>> = <<"class", b>> => a = b
    /\ <<"variant", a, m>> = <<"variant", b, k>> => a = b /\ m = k

LEMMA NamesAreApart == NamesApart
BY DEF NamesApart, Renamed

(* What is known of the tables when a step is taken.                       *)
LEMMA TablesTyped ==
  ASSUME IInv
  PROVE  /\ types \in Seq(StructType(Len(types))) /\ Len(types) \in Nat
         /\ DOMAIN types = 1..Len(types)
         /\ structures \in Seq(FieldsRow) /\ DOMAIN structures = 1..Len(structures)
         /\ interfaces \in Seq(InterfaceRow) /\ DOMAIN interfaces = 1..Len(interfaces)
         /\ classes \in Seq(CtorsRow) /\ DOMAIN classes = 1..Len(classes)
         /\ aliases \in Seq(AliasRow(Len(types))) /\ DOMAIN aliases = 1..Len(aliases)
         /\ Len(structures) \in Nat /\ Len(interfaces) \in Nat
         /\ Len(classes) \in Nat /\ Len(aliases) \in Nat
BY LenProperties DEF IInv, TypeOK

(* ... also after it.                                                      *)
LEMMA TablesTypedNext ==
  ASSUME IInv'
  PROVE  /\ types' \in Seq(StructType(Len(types'))) /\ Len(types') \in Nat
         /\ DOMAIN types' = 1..Len(types')
         /\ structures' \in Seq(FieldsRow) /\ DOMAIN structures' = 1..Len(structures')
         /\ interfaces' \in Seq(InterfaceRow) /\ DOMAIN interfaces' = 1..Len(interfaces')
         /\ classes' \in Seq(CtorsRow) /\ DOMAIN classes' = 1..Len(classes')
         /\ aliases' \in Seq(AliasRow(Len(types'))) /\ DOMAIN aliases' = 1..Len(aliases')
         /\ Len(structures') \in Nat /\ Len(interfaces') \in Nat
         /\ Len(classes') \in Nat /\ Len(aliases') \in Nat
BY LenProperties DEF IInv, TypeOK

(* What a name means depends on the first struct type, interface type and  *)
(* alias that have it.                                                     *)
LEMMA MeaningKept ==
  ASSUME NEW n,
         Taken(types', <<"struct", n>>) <=> Taken(types, <<"struct", n>>),
         Taken(types, <<"struct", n>>) =>
           First(types', <<"struct", n>>) = First(types, <<"struct", n>>),
         Taken(types', <<"interface", n>>) <=> Taken(types, <<"interface", n>>),
         Taken(types, <<"interface", n>>) =>
           First(types', <<"interface", n>>) = First(types, <<"interface", n>>),
         Taken(aliases', n) <=> Taken(aliases, n),
         Taken(aliases, n) => Row(aliases', n) = Row(aliases, n)
  PROVE  Meaning(types, n)' = Meaning(types, n)
<1>1. CASE n \in Basic  BY <1>1 DEF Meaning
<1>2. CASE n \notin Basic /\ Taken(types, <<"struct", n>>)  BY <1>2 DEF Meaning
<1>3. CASE /\ n \notin Basic /\ ~Taken(types, <<"struct", n>>)
           /\ Taken(types, <<"interface", n>>)
  BY <1>3 DEF Meaning
<1>4. CASE /\ n \notin Basic /\ ~Taken(types, <<"struct", n>>)
           /\ ~Taken(types, <<"interface", n>>) /\ Taken(aliases, n)
  BY <1>4 DEF Meaning
<1>5. CASE /\ n \notin Basic /\ ~Taken(types, <<"struct", n>>)
           /\ ~Taken(types, <<"interface", n>>) /\ ~Taken(aliases, n)
  BY <1>5 DEF Meaning
<1> QED  BY <1>1, <1>2, <1>3, <1>4, <1>5

(* A step that leaves the tables alone leaves every lookup as it is.       *)
LEMMA LookupsKept ==
  ASSUME Lookups, UNCHANGED tables, Recalled, Remembered
  PROVE  Lookups' /\ MeaningsStay
<1>0. UNCHANGED <<types, structures, interfaces, classes, aliases>>  BY DEF tables
<1>1. NamesDiffer' /\ AliasNamesDiffer' /\ InterfacesAgree' /\ ClassesHaveTypes'
      /\ ClassesAreComplete'
  BY <1>0 DEF Lookups, NamesDiffer, AliasNamesDiffer, InterfacesAgree, ClassesHaveTypes,
              ClassesAreComplete
<1>2. StructsHaveRows' /\ VariantsOwned'
  BY <1>0 DEF Lookups, StructsHaveRows, VariantsOwned, Recalled, Remembered
<1>3. FieldsFit'  BY <1>0 DEF Lookups, FieldsFit, Recalled
<1>4. \A n : Meaning(types, n)' = Meaning(types, n)  BY <1>0, MeaningKept
<1>5. AliasesAreFound'
  BY <1>0, <1>4 DEF Lookups, AliasesAreFound, Recalled
<1>6. MeaningsStay  BY <1>4 DEF MeaningsStay
<1> QED  BY <1>1, <1>2, <1>3, <1>5, <1>6 DEF Lookups

------------------------------------------------------------------------------
(* Declarations *)

(* A struct type that gets a name if it is free: it is found by it then,   *)
(* and everything else as before.                                          *)
LEMMA TypeMore ==
  ASSUME IInv, NamesDiffer, NEW name, NEW r \in StructType(Len(types) + 1),
         types' = Append(types, r), r.name = Given(types, name)
  PROVE  /\ \A n : Taken(types, n) => /\ Taken(types', n)
                                      /\ First(types', n) = First(types, n)
                                      /\ Row(types', n) = Row(types, n)
         /\ \A n : Taken(types', n) => Taken(types, n) \/ n = name \/ n = Renamed
         /\ name # Renamed => Taken(types', name)
         /\ ~Taken(types, name) => Row(types', name) = r /\ r.name = name
         /\ types'[Len(types')] = r /\ Len(types') = Len(types) + 1
         /\ NamesDiffer'
<1> DEFINE k == Len(types) + 1
<1>1. /\ types \in Seq(StructType(Len(types))) /\ Len(types) \in Nat
      /\ DOMAIN types = 1..Len(types)
  BY TablesTyped
<1>2. types \in Seq(StructType(k))
  <2>1. StructType(Len(types)) \subseteq StructType(k)  BY <1>1, RowsMono
  <2> QED  BY <1>1, <2>1, SeqMonotonic
<1>3. Longer(types, r, types')
  BY <1>2, AppendExtends
<1>4. /\ types' \in Seq(StructType(k)) /\ Len(types') = k /\ types'[k] = r
      /\ \A j \in 1..Len(types) : types'[j] = types[j]
  BY <1>2, AppendProperties
<1>5. DOMAIN types' = 1..k  BY <1>4, LenProperties
<1>6. r.name = Renamed \/ (r.name = name /\ ~Taken(types, name))
  BY DEF Given
<1>7. NamesDiffer'
  <2>. HIDE DEF k
  <2> SUFFICES ASSUME NEW i \in 1..k, NEW j \in 1..k, i # j,
                      types'[i].name = types'[j].name
               PROVE  types'[i].name = Renamed
    BY <1>5 DEF NamesDiffer
  <2>1. \A x \in 1..k : x = k \/ (x \in 1..Len(types) /\ types'[x] = types[x])
    BY <1>1, <1>4 DEF k
  <2>2. CASE i # k /\ j # k
    BY <1>1, <2>1, <2>2 DEF NamesDiffer
  <2>3. CASE i = k \/ j = k
    <3>1. types'[i].name = r.name
      BY <1>4, <2>3
    <3>2. Taken(types, r.name)
      BY <1>1, <1>4, <2>1, <2>3 DEF Taken
    <3> QED  BY <1>6, <3>1, <3>2
  <2> QED  BY <2>2, <2>3
<1>8. \A n : Taken(types, n) => /\ Taken(types', n)
                                /\ First(types', n) = First(types, n)
                                /\ Row(types', n) = Row(types, n)
  BY <1>3 DEF Longer
<1>9. \A n : Taken(types', n) => Taken(types, n) \/ n = name \/ n = Renamed
  BY <1>3, <1>6 DEF Longer
<1>10. name # Renamed => Taken(types', name)
  BY <1>3 DEF Longer, Given
<1>11. ~Taken(types, name) => Row(types', name) = r /\ r.name = name
  BY <1>3 DEF Longer, Given
<1> QED  BY <1>4, <1>7, <1>8, <1>9, <1>10, <1>11

(* Structure::codegen: the new struct is found by its name, with its       *)
(* fields, unless another was found by it already.                         *)
LEMMA StructureLooks ==
  ASSUME IInv, IInv', Lookups, NEW d \in Pending, Structure(d)
  PROVE  Lookups' /\ MeaningsStay
<1>1. d \in StructDecl /\ \E r : StructureMakes(d, r)  BY StructureEnters
<1>2. PICK r : StructureMakes(d, r)  BY <1>1
<1>3. d.name \in Name  BY <1>1 DEF StructDecl
<1>4. UNCHANGED <<interfaces, classes, aliases>>  BY DEF Structure
<1> DEFINE name == <<"struct", d.name>>
           row  == [name |-> name, fields |-> d.fields]
<1>5. /\ r \in StructType(Len(types) + 1)
      /\ types' = Append(types, r) /\ r.name = Given(types, name)
  BY <1>2 DEF StructureMakes
<1>6. /\ \A n : Taken(types, n) => /\ Taken(types', n)
                                   /\ First(types', n) = First(types, n)
                                   /\ Row(types', n) = Row(types, n)
      /\ \A n : Taken(types', n) => Taken(types, n) \/ n = name \/ n = Renamed
      /\ name # Renamed => Taken(types', name)
      /\ ~Taken(types, name) => Row(types', name) = r /\ r.name = name
      /\ types'[Len(types')] = r /\ Len(types') = Len(types) + 1
      /\ NamesDiffer'
  BY <1>5, TypeMore DEF Lookups
<1>7. Recalled /\ status = "compiling"
      /\ (GoOn => UNCHANGED <<errors, status>>)
      /\ (Fail("type") => errors' # <<>> /\ UNCHANGED status)
  <2>1. GoOn \/ Fail("type")  BY <1>2 DEF StructureMakes
  <2>2. "type" \in Diagnostics  BY DEF Diagnostics
  <2> QED  BY <2>1, <2>2, NotForgotten
<1>8. Taken(types', name)  BY <1>6, NamesAreApart DEF NamesApart
<1>9. ASSUME errors' = <<>>
      PROVE  FieldsFit' /\ StructsHaveRows' /\ VariantsOwned' /\ AliasesAreFound'
  <2>1. structures' = Append(structures, row) /\ UNCHANGED <<errors, status>>
        /\ r.whole /\ Len(r.body) = Len(d.fields)
    BY <1>2, <1>7, <1>9 DEF StructureMakes
  <2>2. row \in FieldsRow /\ row.name = name /\ row.fields = d.fields
    BY <1>1 DEF FieldsRow, StructName, StructDecl
  <2>. HIDE DEF row
  <2>3. /\ \A n : Taken(structures', n) <=> Taken(structures, n) \/ n = name
        /\ \A n : Taken(structures, n) => Row(structures', n) = Row(structures, n)
        /\ ~Taken(structures, name) => Row(structures', name) = row
    <3>1. structures \in Seq(FieldsRow)  BY TablesTyped
    <3>2. Longer(structures, row, structures')
      BY <2>1, <2>2, <3>1, AppendExtends
    <3> QED  BY <2>2, <3>2 DEF Longer
  <2>4. FieldsFit'
    <3> SUFFICES ASSUME NEW n, Taken(structures', n)
                 PROVE  /\ Taken(types', n)
                        /\ Len(Row(structures', n).fields) = Len(Row(types', n).body)
      BY DEF FieldsFit, Taken
    <3>1. CASE Taken(structures, n)
      <4>1. /\ Taken(types, n)
            /\ Len(Row(structures, n).fields) = Len(Row(types, n).body)
        BY <1>9, <2>1, <3>1 DEF Lookups, FieldsFit, Taken
      <4> QED  BY <1>6, <2>3, <3>1, <4>1
    <3>2. CASE ~Taken(structures, n)
      <4>1. n = name  BY <2>3, <3>2
      <4>2. ~Taken(types, name)
        BY <1>3, <1>9, <2>1, <3>2, <4>1 DEF Lookups, StructsHaveRows
      <4> QED  BY <1>6, <1>8, <2>1, <2>2, <2>3, <3>2, <4>1, <4>2
    <3> QED  BY <3>1, <3>2
  <2>5. StructsHaveRows'
    <3> SUFFICES ASSUME NEW n \in Name, Taken(types', <<"struct", n>>)
                 PROVE  Taken(structures', <<"struct", n>>)
      BY DEF StructsHaveRows
    <3>1. Taken(types, <<"struct", n>>) \/ <<"struct", n>> = name
      BY <1>6, NamesAreApart DEF NamesApart
    <3> QED  BY <1>9, <2>1, <2>3, <3>1 DEF Lookups, StructsHaveRows
  <2>6. VariantsOwned'
    <3>1. \A c, m : Taken(types', <<"variant", c, m>>) => Taken(types, <<"variant", c, m>>)
      BY <1>6, NamesAreApart DEF NamesApart
    <3> QED  BY <1>4, <1>9, <2>1, <3>1 DEF Lookups, VariantsOwned
  <2>7. AliasesAreFound'
    <3> SUFFICES ASSUME NEW i \in DOMAIN aliases, NEW a, a = aliases[i].name,
                        a \notin Basic
                 PROVE  \/ Meaning(types, a)' = {aliases[i].type}
                        \/ Taken(structures', <<"struct", a>>)
      BY <1>4 DEF AliasesAreFound
    <3>1. Meaning(types, a) = {aliases[i].type} \/ Taken(structures, <<"struct", a>>)
      BY <1>9, <2>1 DEF Lookups, AliasesAreFound
    <3>2. CASE Taken(structures', <<"struct", a>>)  BY <3>2
    <3>3. CASE ~Taken(structures', <<"struct", a>>)
      <4>1. <<"struct", a>> # name /\ ~Taken(structures, <<"struct", a>>)
        BY <2>3, <3>3
      <4>2. /\ Taken(types', <<"struct", a>>) <=> Taken(types, <<"struct", a>>)
            /\ Taken(types', <<"interface", a>>) <=> Taken(types, <<"interface", a>>)
        BY <1>6, <4>1, NamesAreApart DEF NamesApart
      <4>3. Meaning(types, a)' = Meaning(types, a)
        BY <1>4, <1>6, <4>2, MeaningKept
      <4> QED  BY <3>1, <4>1, <4>3
    <3> QED  BY <3>2, <3>3
  <2> QED  BY <2>4, <2>5, <2>6, <2>7
<1>10. FieldsFit' /\ StructsHaveRows' /\ VariantsOwned' /\ AliasesAreFound'
  <2>1. CASE errors' # <<>>
    BY <2>1 DEF FieldsFit, StructsHaveRows, VariantsOwned, AliasesAreFound
  <2> QED  BY <1>9, <2>1
<1>11. \A n : Taken(structures', <<"interface", n>>) => Taken(structures, <<"interface", n>>)
  <2>1. CASE structures' = structures  BY <2>1
  <2>2. CASE structures' = Append(structures, row)
    <3>1. row \in FieldsRow /\ row.name = name
      BY <1>1 DEF FieldsRow, StructName, StructDecl
    <3>. HIDE DEF row
    <3>2. structures \in Seq(FieldsRow)  BY TablesTyped
    <3>3. Longer(structures, row, structures')
      BY <2>2, <3>1, <3>2, AppendExtends
    <3> QED  BY <3>1, <3>3, NamesAreApart DEF Longer, NamesApart
  <2> QED  BY <1>2, <2>1, <2>2 DEF StructureMakes
<1>12. \A n : /\ Taken(types', <<"interface", n>>) <=> Taken(types, <<"interface", n>>)
              /\ Taken(types, <<"class", n>>) => Taken(types', <<"class", n>>)
  BY <1>6, NamesAreApart DEF NamesApart
<1>13. InterfacesAgree' /\ AliasNamesDiffer' /\ ClassesHaveTypes'
  BY <1>4, <1>11, <1>12
     DEF Lookups, InterfacesAgree, AliasNamesDiffer, ClassesHaveTypes
<1>14. ClassesAreComplete'
  BY <1>4, <1>6 DEF Lookups, ClassesAreComplete, ClassesHaveTypes
<1>15. MeaningsStay
  <2> SUFFICES ASSUME NEW n \in Name
               PROVE  Meaning(types, n)' = Meaning(types, n) \/ NewStruct(n)
    BY DEF MeaningsStay
  <2>1. CASE Taken(types', <<"struct", n>>) /\ ~Taken(types, <<"struct", n>>)
    <3>1. <<"struct", n>> = name /\ r.name = name
      BY <1>6, <2>1, NamesAreApart DEF NamesApart
    <3> QED  BY <1>6, <3>1 DEF NewStruct
  <2>2. CASE ~(Taken(types', <<"struct", n>>) /\ ~Taken(types, <<"struct", n>>))
    <3>1. /\ Taken(types', <<"struct", n>>) <=> Taken(types, <<"struct", n>>)
          /\ Taken(types, <<"struct", n>>) =>
               First(types', <<"struct", n>>) = First(types, <<"struct", n>>)
          /\ Taken(types', <<"interface", n>>) <=> Taken(types, <<"interface", n>>)
          /\ Taken(types, <<"interface", n>>) =>
               First(types', <<"interface", n>>) = First(types, <<"interface", n>>)
      BY <1>6, <1>12, <2>2
    <3>2. aliases' = aliases  BY <1>4
    <3> QED  BY <3>1, <3>2, MeaningKept
  <2> QED  BY <2>1, <2>2
<1> QED  BY <1>6, <1>10, <1>13, <1>14, <1>15 DEF Lookups

(* Aliases whose names Ident::isUnique takes are found, and hide nothing.  *)
LEMMA AliasesLook ==
  ASSUME IInv, IInv', Lookups, Recalled, Remembered,
         UNCHANGED <<types, structures, interfaces, classes>>,
         NEW more \in Seq(AliasRow(Len(types))), aliases' = aliases \o more,
         \A i \in 1..Len(more) :
           IsUnique(more[i].name) /\ \A j \in 1..i-1 : more[j].name # more[i].name
  PROVE  Lookups' /\ MeaningsStay
<1>1. /\ aliases \in Seq(AliasRow(Len(types))) /\ Len(aliases) \in Nat
      /\ DOMAIN aliases = 1..Len(aliases)
      /\ DOMAIN more = 1..Len(more) /\ Len(more) \in Nat
      /\ aliases' \in Seq(AliasRow(Len(types'))) /\ DOMAIN aliases' = 1..Len(aliases')
  BY TablesTyped, TablesTypedNext, LenProperties
<1>2. Extends(aliases, more, aliases')  BY <1>1, ConcatExtends
<1>3. \A x \in 1..Len(aliases') :
        \/ x \in 1..Len(aliases) /\ aliases'[x] = aliases[x]
        \/ x - Len(aliases) \in 1..Len(more) /\ aliases'[x] = more[x - Len(aliases)]
  <2>1. /\ Len(aliases') = Len(aliases) + Len(more)
        /\ \A x \in 1..Len(aliases') :
             aliases'[x] = IF x <= Len(aliases) THEN aliases[x]
                                                ELSE more[x - Len(aliases)]
    BY <1>1, ConcatProperties
  <2> TAKE x \in 1..Len(aliases')
  <2>2. CASE x <= Len(aliases)  BY <1>1, <2>1, <2>2
  <2>3. CASE ~(x <= Len(aliases))  BY <1>1, <2>1, <2>3
  <2> QED  BY <2>2, <2>3
<1>4. \A i, j \in 1..Len(more) : more[i].name = more[j].name => i = j
  <2> SUFFICES ASSUME NEW i \in 1..Len(more), NEW j \in 1..Len(more), i # j
               PROVE  more[i].name # more[j].name
    OBVIOUS
  <2>1. i \in 1..j-1 \/ j \in 1..i-1  BY <1>1
  <2> QED  BY <2>1
<1>5. \A n : Taken(more, n) => IsUnique(n)
  BY <1>1 DEF Taken
<1>6. AliasNamesDiffer'
  <2> SUFFICES ASSUME NEW x \in 1..Len(aliases'), NEW y \in 1..Len(aliases'),
                      aliases'[x].name = aliases'[y].name
               PROVE  x = y
    BY <1>1 DEF AliasNamesDiffer
  <2>1. CASE x \in 1..Len(aliases) /\ aliases'[x] = aliases[x]
             /\ y \in 1..Len(aliases) /\ aliases'[y] = aliases[y]
    BY <1>1, <2>1 DEF Lookups, AliasNamesDiffer
  <2>2. CASE /\ x - Len(aliases) \in 1..Len(more)
             /\ aliases'[x] = more[x - Len(aliases)]
             /\ y - Len(aliases) \in 1..Len(more)
             /\ aliases'[y] = more[y - Len(aliases)]
    <3>1. x - Len(aliases) = y - Len(aliases)  BY <1>4, <2>2
    <3> QED  BY <1>1, <3>1
  <2>3. ASSUME NEW i \in 1..Len(aliases), NEW j \in 1..Len(more)
        PROVE  aliases[i].name # more[j].name
    BY <1>1 DEF IsUnique, Taken
  <2> QED  BY <1>3, <2>1, <2>2, <2>3
<1>7. InterfacesAgree'
  <2>1. \A n \in Name : ~(Taken(interfaces, n) /\ Taken(aliases', n))
    BY <1>2, <1>5 DEF Extends, IsUnique, Lookups, InterfacesAgree
  <2> QED  BY <2>1 DEF Lookups, InterfacesAgree
<1>8. MeaningsStay
  <2> SUFFICES ASSUME NEW n \in Name, Meaning(types, n) # {}
               PROVE  Meaning(types, n)' = Meaning(types, n)
    BY DEF MeaningsStay
  <2>1. CASE n \in Basic  BY <2>1 DEF Meaning
  <2>2. CASE n \notin Basic /\ Taken(types, <<"struct", n>>)
    BY <2>2 DEF Meaning
  <2>3. CASE /\ n \notin Basic /\ ~Taken(types, <<"struct", n>>)
             /\ Taken(types, <<"interface", n>>)
    BY <2>3 DEF Meaning
  <2>4. CASE /\ n \notin Basic /\ ~Taken(types, <<"struct", n>>)
             /\ ~Taken(types, <<"interface", n>>)
    <3>1. Taken(aliases, n)  BY <2>4 DEF Meaning
    <3>2. Taken(aliases', n) /\ Row(aliases', n) = Row(aliases, n)
      BY <1>2, <3>1 DEF Extends
    <3> QED  BY <3>1, <3>2, MeaningKept
  <2> QED  BY <2>1, <2>2, <2>3, <2>4
<1>9. AliasesAreFound'
  <2> SUFFICES ASSUME errors' = <<>>, NEW x \in 1..Len(aliases'), NEW a,
                      a = aliases'[x].name, a \notin Basic
               PROVE  \/ Meaning(types, a)' = {aliases'[x].type}
                      \/ Taken(structures', <<"struct", a>>)
    BY <1>1 DEF AliasesAreFound
  <2>1. errors = <<>>  BY DEF Recalled
  <2>2. CASE x \in 1..Len(aliases) /\ aliases'[x] = aliases[x]
    <3>1. Taken(aliases, a)  BY <1>1, <2>2 DEF Taken
    <3>2. Taken(aliases', a) /\ Row(aliases', a) = Row(aliases, a)
      BY <1>2, <3>1 DEF Extends
    <3>3. Meaning(types, a)' = Meaning(types, a)
      BY <3>1, <3>2, MeaningKept
    <3>4. \/ Meaning(types, a) = {aliases[x].type}
          \/ Taken(structures, <<"struct", a>>)
      BY <1>1, <2>1, <2>2 DEF Lookups, AliasesAreFound
    <3> QED  BY <2>2, <3>3, <3>4
  <2>3. CASE /\ x - Len(aliases) \in 1..Len(more)
             /\ aliases'[x] = more[x - Len(aliases)]
    <3>1. IsUnique(a)  BY <2>3
    <3>2. a \in Name
      <4>1. aliases'[x] \in AliasRow(Len(types'))  BY <1>1, ElementOfSeq
      <4> QED  BY <4>1 DEF AliasRow
    <3>3. ~Taken(types, <<"struct", a>>) /\ ~Taken(types, <<"interface", a>>)
      BY <2>1, <3>1, <3>2 DEF IsUnique, Lookups, StructsHaveRows, InterfacesAgree
    <3>4. Taken(aliases', a)  BY <1>1 DEF Taken
    <3>5. Row(aliases', a) = aliases'[x]
      <4>1. \A y \in 1..Len(aliases') : aliases'[y].name = aliases'[x].name => y = x
        BY <1>1, <1>6 DEF AliasNamesDiffer
      <4> QED  BY <1>1, <4>1, OnlyRow
    <3>6. Meaning(types, a)' = {Row(aliases', a).type}
      BY <3>3, <3>4 DEF Meaning
    <3> QED  BY <3>5, <3>6
  <2> QED  BY <1>3, <2>2, <2>3
<1>10. FieldsFit' /\ NamesDiffer'
  BY DEF Lookups, FieldsFit, NamesDiffer, Recalled
<1>11. StructsHaveRows' /\ VariantsOwned'
  BY DEF Lookups, StructsHaveRows, VariantsOwned, Recalled, Remembered
<1>12. ClassesHaveTypes' /\ ClassesAreComplete'
  BY DEF Lookups, ClassesHaveTypes, ClassesAreComplete
<1> QED  BY <1>6, <1>7, <1>8, <1>9, <1>10, <1>11, <1>12 DEF Lookups

(* A step that enters nothing, whichever way it goes.                      *)
LEMMA PlainLooks ==
  ASSUME IInv, Lookups, NEW d \in Pending, UNCHANGED tables,
         GoOn \/ Crash \/ \E what \in Diagnostics : Fail(what)
  PROVE  Lookups' /\ MeaningsStay
<1>1. Recalled /\ status = "compiling"  BY NotForgotten
<1>2. Remembered  BY <1>1 DEF Recalled, Remembered
<1> QED  BY <1>1, <1>2, LookupsKept

(* Alias::codegen.                                                         *)
LEMMA AliasLooks ==
  ASSUME IInv, IInv', Lookups, NEW d \in Pending, Alias(d)
  PROVE  Lookups' /\ MeaningsStay
<1>1. d \in AliasDecl
  BY PendingIs, StatementKinds, ElementKinds DEF Alias
<1>2. {"type", "count", "exists"} \subseteq Diagnostics  BY DEF Diagnostics
<1>3. CASE (Fail("type") \/ Fail("count")) /\ UNCHANGED aliases
  <2>1. UNCHANGED tables  BY <1>3 DEF Alias, tables
  <2> QED  BY <1>2, <1>3, <2>1, PlainLooks
<1>4. CASE /\ Resolves(types, d.types) /\ Len(d.types) = Len(d.names)
           /\ \E n \in 0..Len(d.names) :
                /\ FreeUpTo(d.names, n)
                /\ aliases' = aliases \o AliasRows(d, n)
                /\ IF n = Len(d.names) THEN GoOn ELSE Fail("exists")
  <2>1. PICK n \in 0..Len(d.names) :
          /\ FreeUpTo(d.names, n)
          /\ aliases' = aliases \o AliasRows(d, n)
          /\ GoOn \/ Fail("exists")
    BY <1>4
  <2>2. PICK more : more = AliasRows(d, n)  OBVIOUS
  <2>3. /\ more \in Seq(AliasRow(Len(types))) /\ Len(more) = n
        /\ \A i \in 1..n : more[i].name = d.names[i]
    BY <1>1, <1>4, <2>2, AliasRowsTyped
  <2>4. n \in Nat /\ \A i \in 1..n : \A j \in 1..i-1 : j \in 1..n
    <3>1. Len(d.names) \in Nat  BY <1>1, LenProperties DEF AliasDecl
    <3> QED  BY <3>1
  <2>5. \A i \in 1..n : /\ IsUnique(d.names[i])
                        /\ \A j \in 1..i-1 : d.names[j] # d.names[i]
    BY <2>1 DEF FreeUpTo, Free
  <2>6. \A i \in 1..Len(more) :
          IsUnique(more[i].name) /\ \A j \in 1..i-1 : more[j].name # more[i].name
    BY <2>3, <2>4, <2>5
  <2>7. Recalled /\ status = "compiling"  BY <1>2, <2>1, NotForgotten
  <2>8. Remembered  BY <2>7 DEF Recalled, Remembered
  <2>9. UNCHANGED <<types, structures, interfaces, classes>>  BY DEF Alias
  <2>10. aliases' = aliases \o more  BY <2>1, <2>2
  <2> QED  BY <2>3, <2>6, <2>7, <2>8, <2>9, <2>10, AliasesLook
<1> QED  BY <1>3, <1>4 DEF Alias

(* Enumeration::codegen, whose name is an alias of its underlying type.    *)
LEMMA EnumerationLooks ==
  ASSUME IInv, IInv', Lookups, NEW d \in Pending, Enumeration(d)
  PROVE  Lookups' /\ MeaningsStay
<1>1. d \in EnumDecl
  BY PendingIs, StatementKinds, ElementKinds DEF Enumeration
<1>2. d.name \in Name /\ d.under \in Name \cup Basic
  BY <1>1 DEF EnumDecl
<1>3. {"type", "integral", "size", "exists"} \subseteq Diagnostics
  BY DEF Diagnostics
<1>4. UNCHANGED <<types, structures, interfaces, classes>>  BY DEF Enumeration
<1>5. CASE /\ UNCHANGED aliases
           /\ \/ Fail("type") \/ Fail("integral") \/ Fail("size")
              \/ Fail("exists") \/ Crash
  <2>1. UNCHANGED tables  BY <1>4, <1>5 DEF tables
  <2> QED  BY <1>3, <1>5, <2>1, PlainLooks
<1>6. ASSUME NEW t \in Meaning(types, d.under), IsUnique(d.name),
             aliases' = Append(aliases, [name |-> d.name, type |-> t]), GoOn
      PROVE  Lookups' /\ MeaningsStay
  <2> DEFINE r == [name |-> d.name, type |-> t]
  <2>1. /\ types \in Seq(StructType(Len(types))) /\ Len(types) \in Nat
        /\ aliases \in Seq(AliasRow(Len(types)))
    BY TablesTyped
  <2>2. t \in TypeIn(Len(types))  BY <2>1, MeaningTyped
  <2>3. r \in AliasRow(Len(types)) /\ r.name = d.name
    BY <1>2, <2>2 DEF AliasRow
  <2>. HIDE DEF r
  <2>4. PICK more : more = <<r>>  OBVIOUS
  <2>5. aliases' = aliases \o more
    BY <1>6, <2>1, <2>3, <2>4, AppendIsConcat DEF r
  <2>6. /\ more \in Seq(AliasRow(Len(types)))
        /\ \A i \in 1..Len(more) : more[i].name = d.name /\ 1..i-1 = {}
    BY <2>3, <2>4
  <2>7. \A i \in 1..Len(more) :
          IsUnique(more[i].name) /\ \A j \in 1..i-1 : more[j].name # more[i].name
    BY <1>6, <2>6
  <2>8. Recalled /\ status = "compiling"  BY <1>6, NotForgotten
  <2>9. Remembered  BY <2>8 DEF Recalled, Remembered
  <2> QED  BY <1>4, <2>5, <2>6, <2>7, <2>8, <2>9, AliasesLook
<1> QED  BY <1>5, <1>6 DEF Enumeration, EnumGlobals

(* Interface::codegen: Ident::isUnique has seen to it that nothing of that *)
(* name is found, and a new type and new rows are.                         *)
LEMMA InterfaceLooks ==
  ASSUME IInv, IInv', Lookups, NEW d \in Pending, Interface(d)
  PROVE  Lookups' /\ MeaningsStay
<1>1. {"exists", "parent", "function"} \subseteq Diagnostics
  BY DEF Diagnostics
<1>2. UNCHANGED <<classes, aliases>>  BY DEF Interface
<1>3. CASE /\ Fail("exists") \/ Fail("parent") \/ Fail("function")
           /\ UNCHANGED <<types, structures, interfaces>>
  <2>1. UNCHANGED tables  BY <1>2, <1>3 DEF tables
  <2> QED  BY <1>1, <1>3, <2>1, PlainLooks
<1>4. ASSUME NEW r, InterfaceMakes(d, r)
      PROVE  Lookups' /\ MeaningsStay
  <2> DEFINE name == <<"interface", d.name>>
             held == [name |-> name, fields |-> Held(d)]
             lists == [name |-> d.name, funcs |-> Listed(d)]
  <2>1. d.name \in Name  BY InterfaceEnters DEF InterfaceDecl
  <2>2. /\ r \in StructType(Len(types) + 1)
        /\ types' = Append(types, r) /\ r.name = Given(types, name)
        /\ Len(r.body) = Len(Held(d)) /\ IsUnique(d.name)
        /\ structures' = Append(structures, held)
        /\ interfaces' = Append(interfaces, lists)
    BY <1>4 DEF InterfaceMakes
  <2>3. /\ held \in FieldsRow /\ held.name = name /\ held.fields = Held(d)
        /\ lists \in InterfaceRow /\ lists.name = d.name
    BY <1>4, <2>1 DEF InterfaceMakes, FieldsRow, StructName, InterfaceRow
  <2>4. structures \in Seq(FieldsRow) /\ interfaces \in Seq(InterfaceRow)
    BY TablesTyped
  <2>. HIDE DEF held, lists
  <2>5. /\ \A n : Taken(types, n) => /\ Taken(types', n)
                                     /\ First(types', n) = First(types, n)
                                     /\ Row(types', n) = Row(types, n)
        /\ \A n : Taken(types', n) => Taken(types, n) \/ n = name \/ n = Renamed
        /\ name # Renamed => Taken(types', name)
        /\ ~Taken(types, name) => Row(types', name) = r /\ r.name = name
        /\ NamesDiffer'
    BY <2>2, TypeMore DEF Lookups
  <2>6. Longer(structures, held, structures') /\ Longer(interfaces, lists, interfaces')
    BY <2>2, <2>3, <2>4, AppendExtends
  <2>7. /\ ~Taken(interfaces, d.name) /\ ~Taken(aliases, d.name)
        /\ ~Taken(types, name) /\ ~Taken(structures, name)
    BY <2>1, <2>2 DEF IsUnique, Lookups, InterfacesAgree
  <2>8. Taken(types', name)  BY <2>5, NamesAreApart DEF NamesApart
  <2>9. Recalled /\ UNCHANGED <<errors, status>>
    BY <1>4, NotForgotten DEF InterfaceMakes
  <2>10. \A n : /\ Taken(types', <<"struct", n>>) <=> Taken(types, <<"struct", n>>)
                /\ Taken(types', <<"class", n>>) <=> Taken(types, <<"class", n>>)
                /\ Taken(types', <<"interface", n>>) =>
                     Taken(types, <<"interface", n>>) \/ n = d.name
                /\ \A m : Taken(types', <<"variant", n, m>>)
                            => Taken(types, <<"variant", n, m>>)
    BY <2>5, NamesAreApart DEF NamesApart
  <2>11. FieldsFit'
    <3> SUFFICES ASSUME errors' = <<>>, NEW n, Taken(structures', n)
                 PROVE  /\ Taken(types', n)
                        /\ Len(Row(structures', n).fields) = Len(Row(types', n).body)
      BY DEF FieldsFit, Taken
    <3>1. CASE Taken(structures, n)
      <4>1. /\ Taken(types, n)
            /\ Len(Row(structures, n).fields) = Len(Row(types, n).body)
        BY <2>9, <3>1 DEF Lookups, FieldsFit, Taken
      <4> QED  BY <2>5, <2>6, <3>1, <4>1 DEF Longer
    <3>2. CASE ~Taken(structures, n)
      <4>1. n = name  BY <2>3, <2>6, <3>2 DEF Longer
      <4>2. Row(structures', n) = held  BY <2>3, <2>6, <3>2, <4>1 DEF Longer
      <4> QED  BY <2>2, <2>3, <2>5, <2>7, <2>8, <4>1, <4>2
    <3> QED  BY <3>1, <3>2
  <2>12. StructsHaveRows' /\ VariantsOwned'
    <3>1. \A n : Taken(structures, n) => Taken(structures', n)
      BY <2>6 DEF Longer
    <3> QED  BY <1>2, <2>9, <2>10, <3>1 DEF Lookups, StructsHaveRows, VariantsOwned
  <2>13. ClassesHaveTypes' /\ ClassesAreComplete' /\ AliasNamesDiffer'
    BY <1>2, <2>5, <2>10
       DEF Lookups, ClassesHaveTypes, ClassesAreComplete, AliasNamesDiffer
  <2>14. InterfacesAgree'
    <3>1. \A n : Taken(interfaces', n) <=> Taken(interfaces, n) \/ n = d.name
      BY <2>3, <2>6 DEF Longer
    <3>2. \A n : Taken(structures', <<"interface", n>>) =>
                   Taken(structures, <<"interface", n>>) \/ n = d.name
      BY <2>3, <2>6, NamesAreApart DEF Longer, NamesApart
    <3>3. \A n : Taken(types', <<"interface", n>>) <=>
                   Taken(types, <<"interface", n>>) \/ n = d.name
      BY <2>5, <2>8, <2>10
    <3> QED  BY <1>2, <2>7, <3>1, <3>2, <3>3 DEF Lookups, InterfacesAgree
  <2>15. ASSUME NEW n \in Name, n # d.name \/ Meaning(types, n) # {}
         PROVE  Meaning(types, n)' = Meaning(types, n)
    <3>1. CASE n # d.name
      <4>1. Taken(types', <<"interface", n>>) <=> Taken(types, <<"interface", n>>)
        BY <2>5, <2>10, <3>1
      <4>2. /\ Taken(types', <<"struct", n>>) <=> Taken(types, <<"struct", n>>)
            /\ Taken(types, <<"struct", n>>) =>
                 First(types', <<"struct", n>>) = First(types, <<"struct", n>>)
            /\ Taken(types, <<"interface", n>>) =>
                 First(types', <<"interface", n>>) = First(types, <<"interface", n>>)
        BY <2>5, <2>10
      <4> QED  BY <1>2, <4>1, <4>2, MeaningKept
    <3>2. CASE n = d.name /\ n \in Basic  BY <3>2 DEF Meaning
    <3>3. CASE n = d.name /\ n \notin Basic
      <4>1. Taken(types, <<"struct", n>>)
        BY <2>7, <2>15, <3>3 DEF Meaning
      <4>2. Taken(types', <<"struct", n>>)
            /\ First(types', <<"struct", n>>) = First(types, <<"struct", n>>)
        BY <2>5, <4>1
      <4> QED  BY <3>3, <4>1, <4>2 DEF Meaning
    <3> QED  BY <3>1, <3>2, <3>3
  <2>16. MeaningsStay  BY <2>15 DEF MeaningsStay
  <2>17. AliasesAreFound'
    <3> SUFFICES ASSUME errors' = <<>>, NEW i \in DOMAIN aliases, NEW a,
                        a = aliases[i].name, a \notin Basic
                 PROVE  \/ Meaning(types, a)' = {aliases[i].type}
                        \/ Taken(structures', <<"struct", a>>)
      BY <1>2 DEF AliasesAreFound
    <3>1. \/ Meaning(types, a) = {aliases[i].type}
          \/ Taken(structures, <<"struct", a>>)
      BY <2>9 DEF Lookups, AliasesAreFound
    <3>2. a \in Name
      <4>1. aliases \in Seq(AliasRow(Len(types)))  BY TablesTyped
      <4>2. aliases[i] \in AliasRow(Len(types))  BY <4>1, LenProperties, ElementOfSeq
      <4> QED  BY <4>2 DEF AliasRow
    <3>3. a # d.name  BY <2>7 DEF Taken
    <3>4. Meaning(types, a)' = Meaning(types, a)  BY <2>15, <3>2, <3>3
    <3> QED  BY <2>6, <3>1, <3>4 DEF Longer
  <2> QED  BY <2>5, <2>11, <2>12, <2>13, <2>14, <2>16, <2>17 DEF Lookups
<1> QED  BY <1>3, <1>4, InterfaceEnters

(* The name of a constructor's type, unless LLVM renames it.               *)
LEMMA CtorNamed ==
  ASSUME NEW d, NEW i
  PROVE  \/ CtorType(d, i).name = Renamed
         \/ /\ CtorType(d, i).name = <<"variant", d.name, d.ctors[i].name>>
            /\ ~Taken(types, CtorType(d, i).name)
            /\ \A j \in 1..i-1 : d.ctors[j].name # d.ctors[i].name
BY DEF CtorType, Given

(* The types of a data class have names of their own, *)
LEMMA ClassNamesDiffer ==
  ASSUME IInv, NamesDiffer, NEW d \in ClassDecl, NEW n \in 0..Len(d.ctors), NEW w,
         NEW S, NEW more \in Seq(S), types \in Seq(S), types' = types \o more,
         ClassMore(d, n, w, more), ~Taken(types, <<"class", d.name>>)
  PROVE  NamesDiffer'
<1>1. /\ DOMAIN types = 1..Len(types) /\ Len(types) \in Nat
      /\ Len(more) = n + 1 /\ n \in Nat
  <2>1. Len(d.ctors) \in Nat  BY LenProperties DEF ClassDecl
  <2> QED  BY <2>1, LenProperties DEF ClassMore
<1>2. /\ DOMAIN types' = 1..Len(types')
      /\ \A x \in 1..Len(types') :
           \/ x \in 1..Len(types) /\ types'[x] = types[x]
           \/ x - Len(types) \in 1..n+1 /\ types'[x] = more[x - Len(types)]
  <2>1. /\ types' \in Seq(S) /\ Len(types') = Len(types) + Len(more)
        /\ \A x \in 1..Len(types') :
             types'[x] = IF x <= Len(types) THEN types[x] ELSE more[x - Len(types)]
    BY ConcatProperties
  <2>2. ASSUME NEW x \in 1..Len(types')
        PROVE  \/ x \in 1..Len(types) /\ types'[x] = types[x]
               \/ x - Len(types) \in 1..n+1 /\ types'[x] = more[x - Len(types)]
    <3>1. CASE x <= Len(types)  BY <1>1, <2>1, <3>1
    <3>2. CASE ~(x <= Len(types))  BY <1>1, <2>1, <3>2
    <3> QED  BY <3>1, <3>2
  <2> QED  BY <2>1, <2>2, LenProperties
<1>3. \A i \in 1..n+1 :
        \/ i = 1 /\ more[i].name = <<"class", d.name>>
        \/ i - 1 \in 1..n /\ more[i] = CtorType(d, i - 1)
  <2> TAKE i \in 1..n+1
  <2>1. CASE i = 1  BY <2>1 DEF ClassMore
  <2>2. CASE i # 1
    <3>1. i - 1 \in 1..n /\ (i - 1) + 1 = i  BY <1>1, <2>2
    <3> QED  BY <3>1 DEF ClassMore
  <2> QED  BY <2>1, <2>2
<1>4. \A i \in 1..n+1 : more[i].name = Renamed \/ ~Taken(types, more[i].name)
  BY <1>3, CtorNamed
<1>5. ASSUME NEW i \in 1..n, NEW j \in 1..n, CtorType(d, i).name = CtorType(d, j).name,
             CtorType(d, i).name # Renamed
      PROVE  i = j
  <2>1. /\ CtorType(d, i).name = <<"variant", d.name, d.ctors[i].name>>
        /\ CtorType(d, j).name = <<"variant", d.name, d.ctors[j].name>>
        /\ \A k \in 1..i-1 : d.ctors[k].name # d.ctors[i].name
        /\ \A k \in 1..j-1 : d.ctors[k].name # d.ctors[j].name
    BY <1>5, CtorNamed
  <2>2. d.ctors[i].name = d.ctors[j].name
    <3>1. \A a, m, k : <<"variant", a, m>> = <<"variant", a, k>> => m = k
      OBVIOUS
    <3> QED  BY <1>5, <2>1, <3>1
  <2>3. i \notin 1..j-1 /\ j \notin 1..i-1  BY <2>1, <2>2
  <2> QED  BY <1>1, <2>3
<1>6. ASSUME NEW i \in 1..n
      PROVE  CtorType(d, i).name # <<"class", d.name>>
  BY CtorNamed, NamesAreApart DEF NamesApart
<1>6a. \A i \in 1..n+1 : i # 1 => more[i].name # <<"class", d.name>>
  BY <1>3, <1>6
<1>7. \A i, j \in 1..n+1 : more[i].name = more[j].name /\ more[i].name # Renamed => i = j
  <2> SUFFICES ASSUME NEW i \in 1..n+1, NEW j \in 1..n+1, more[i].name = more[j].name,
                      more[i].name # Renamed
               PROVE  i = j
    OBVIOUS
  <2>1. CASE i = 1 \/ j = 1
    BY <1>6a, <2>1 DEF ClassMore
  <2>2. CASE i # 1 /\ j # 1
    <3>1. /\ i - 1 \in 1..n /\ more[i] = CtorType(d, i - 1)
          /\ j - 1 \in 1..n /\ more[j] = CtorType(d, j - 1)
      BY <1>3, <2>2
    <3>2. i - 1 = j - 1  BY <1>5, <3>1
    <3> QED  BY <1>1, <3>2
  <2> QED  BY <2>1, <2>2
<1> SUFFICES ASSUME NEW x \in 1..Len(types'), NEW y \in 1..Len(types'), x # y,
                    types'[x].name = types'[y].name
             PROVE  types'[x].name = Renamed
  BY <1>2 DEF NamesDiffer
<1>8. CASE x \in 1..Len(types) /\ y \in 1..Len(types)
           /\ types'[x] = types[x] /\ types'[y] = types[y]
  BY <1>1, <1>8 DEF NamesDiffer
<1>9. CASE /\ x - Len(types) \in 1..n+1 /\ types'[x] = more[x - Len(types)]
           /\ y - Len(types) \in 1..n+1 /\ types'[y] = more[y - Len(types)]
  <2>1. x - Len(types) # y - Len(types)  BY <1>1
  <2> QED  BY <1>7, <1>9, <2>1
<1>10. ASSUME NEW u \in 1..Len(types), NEW v \in 1..n+1, types[u].name = more[v].name
       PROVE  types[u].name = Renamed
  BY <1>1, <1>4, <1>10 DEF Taken
<1> QED  BY <1>2, <1>8, <1>9, <1>10

(* and are the only new ones; a constructor is found by its own.           *)
LEMMA ClassNamesMore ==
  ASSUME NEW d \in ClassDecl, NEW n \in 0..Len(d.ctors), NEW w,
         NEW S, NEW more \in Seq(S), ClassMore(d, n, w, more)
  PROVE  /\ \A x : Taken(more, x) =>
              \/ x = <<"class", d.name>> \/ x = Renamed
              \/ \E i \in 1..n : x = <<"variant", d.name, d.ctors[i].name>>
         /\ Taken(more, <<"class", d.name>>) /\ Row(more, <<"class", d.name>>) = more[1]
         /\ \A i \in 1..n : \/ Taken(more, <<"variant", d.name, d.ctors[i].name>>)
                            \/ Taken(types, <<"variant", d.name, d.ctors[i].name>>)
<1>1. /\ Len(more) = n + 1 /\ n \in Nat /\ DOMAIN more = 1..n+1
  <2>1. Len(d.ctors) \in Nat  BY LenProperties DEF ClassDecl
  <2> QED  BY <2>1, LenProperties DEF ClassMore
<1>2. \A i \in 1..n : i + 1 \in 1..n+1  BY <1>1
<1>3. ASSUME NEW x, Taken(more, x)
      PROVE  \/ x = <<"class", d.name>> \/ x = Renamed
             \/ \E i \in 1..n : x = <<"variant", d.name, d.ctors[i].name>>
  <2>1. PICK k \in 1..n+1 : more[k].name = x  BY <1>1, <1>3 DEF Taken
  <2>2. CASE k = 1  BY <2>1, <2>2 DEF ClassMore
  <2>3. CASE k # 1
    <3>1. PICK i \in 1..n : i + 1 = k
      <4>1. k - 1 \in 1..n /\ (k - 1) + 1 = k  BY <1>1, <2>3
      <4> QED  BY <4>1
    <3>2. more[k] = CtorType(d, i)  BY <3>1 DEF ClassMore
    <3> QED  BY <2>1, <3>2, CtorNamed
  <2> QED  BY <2>2, <2>3
<1>4. /\ Taken(more, <<"class", d.name>>)
      /\ Row(more, <<"class", d.name>>) = more[1]
  <2>1. /\ 1 \in 1..Len(more) /\ more[1].name = <<"class", d.name>>
        /\ \A j \in 1..Len(more) : j < 1 => more[j].name # <<"class", d.name>>
    BY <1>1 DEF ClassMore
  <2> QED  BY <2>1, FirstIs
<1>5. ASSUME NEW i \in 1..n
      PROVE  \/ Taken(more, <<"variant", d.name, d.ctors[i].name>>)
             \/ Taken(types, <<"variant", d.name, d.ctors[i].name>>)
  <2> DEFINE Same == {j \in 1..n : d.ctors[j].name = d.ctors[i].name}
  <2>1. Same \subseteq Nat /\ Same # {}  BY <1>1
  <2>2. PICK j \in Same : \A k \in Same : ~(k < j)
    <3>. HIDE DEF Same
    <3> QED  BY <2>1, Least
  <2>3. /\ j \in 1..n /\ d.ctors[j].name = d.ctors[i].name
        /\ \A k \in 1..j-1 : d.ctors[k].name # d.ctors[j].name
    BY <1>1, <2>2
  <2>4. CtorType(d, j).name = Given(types, <<"variant", d.name, d.ctors[j].name>>)
    BY <2>3 DEF CtorType
  <2>5. more[j + 1] = CtorType(d, j) /\ j + 1 \in DOMAIN more
    BY <1>1, <1>2, <2>3 DEF ClassMore
  <2> QED  BY <2>3, <2>4, <2>5 DEF Given, Taken
<1> QED  BY <1>3, <1>4, <1>5

(* DataClass::codegen: the types of the class and of its constructors are  *)
(* found by those that construct it, and no other name is affected.        *)
LEMMA DataClassLooks ==
  ASSUME IInv, IInv', Lookups, NEW d \in Pending, DataClass(d)
  PROVE  Lookups' /\ MeaningsStay
<1>1. d \in ClassDecl
  BY PendingIs, StatementKinds, ElementKinds DEF DataClass
<1>2. {"exists", "type"} \subseteq Diagnostics  BY DEF Diagnostics
<1>3. UNCHANGED <<structures, interfaces, aliases>>  BY DEF DataClass
<1>4. CASE Fail("exists") /\ UNCHANGED <<types, classes>>
  <2>1. UNCHANGED tables  BY <1>3, <1>4 DEF tables
  <2> QED  BY <1>2, <1>4, <2>1, PlainLooks
<1>5. ASSUME NEW n \in 0..Len(d.ctors), NEW w \in BOOLEAN,
             ~Taken(types, <<"class", d.name>>),
             \A i \in 1..n : KnownCtor(d.ctors[i]),
             types' = ClassTypes(d, n, w),
             \/ ~w /\ (Crash \/ Fail("type")) /\ UNCHANGED classes
             \/ /\ w /\ n = Len(d.ctors)
                /\ classes' = Append(classes, ClassRow(d)) /\ GoOn
      PROVE  Lookups' /\ MeaningsStay
  <2> DEFINE class == <<"class", d.name>>
  <2>1. PICK more \in Seq(StructType(Len(types'))) :
             types' = types \o more /\ ClassMore(d, n, w, more)
    BY <1>1, <1>5, ClassTypesGrow
  <2>2. types \in Seq(StructType(Len(types')))
    <3>1. Len(types) \in Nat /\ Len(types') \in Nat /\ Len(types) <= Len(types')
      BY <1>1, <1>5, TablesTyped, ClassTypesGrow
    <3>2. StructType(Len(types)) \subseteq StructType(Len(types'))
      BY <3>1, RowsMono
    <3> QED  BY <3>2, TablesTyped, SeqMonotonic
  <2>3. NamesDiffer'
    BY <1>1, <1>5, <2>1, <2>2, ClassNamesDiffer DEF Lookups
  <2>4. /\ \A x : Taken(more, x) =>
              \/ x = class \/ x = Renamed
              \/ \E i \in 1..n : x = <<"variant", d.name, d.ctors[i].name>>
        /\ Taken(more, class) /\ Row(more, class) = more[1]
        /\ \A i \in 1..n : \/ Taken(more, <<"variant", d.name, d.ctors[i].name>>)
                           \/ Taken(types, <<"variant", d.name, d.ctors[i].name>>)
    BY <1>1, <2>1, ClassNamesMore
  <2>5. Extends(types, more, types')  BY <2>1, <2>2, ConcatExtends
  <2>6. \A x : Taken(types, x) => /\ Taken(types', x)
                                  /\ First(types', x) = First(types, x)
                                  /\ Row(types', x) = Row(types, x)
    BY <2>5 DEF Extends
  <2>7. \A x : Taken(types', x) => Taken(types, x) \/ Taken(more, x)
    BY <2>5 DEF Extends
  <2>8. \A a : /\ Taken(types', <<"struct", a>>) <=> Taken(types, <<"struct", a>>)
               /\ Taken(types', <<"interface", a>>) <=> Taken(types, <<"interface", a>>)
    BY <2>4, <2>6, <2>7, NamesAreApart DEF NamesApart
  <2>9. \A a : Meaning(types, a)' = Meaning(types, a)
    <3> TAKE a
    <3>1. /\ Taken(types, <<"struct", a>>) =>
               First(types', <<"struct", a>>) = First(types, <<"struct", a>>)
          /\ Taken(types, <<"interface", a>>) =>
               First(types', <<"interface", a>>) = First(types, <<"interface", a>>)
          /\ Taken(aliases', a) <=> Taken(aliases, a)
          /\ Row(aliases', a) = Row(aliases, a)
      BY <1>3, <2>6
    <3> QED  BY <2>8, <3>1, MeaningKept
  <2>10. Recalled /\ status = "compiling"
         /\ (w => UNCHANGED <<errors, status>>)
         /\ (~w => errors' # <<>> \/ status' = "crash")
    BY <1>2, <1>5, NotForgotten
  <2>11. MeaningsStay  BY <2>9 DEF MeaningsStay
  <2>12. AliasesAreFound'
    BY <1>3, <2>9, <2>10 DEF Lookups, AliasesAreFound, Recalled
  <2>13. InterfacesAgree' /\ AliasNamesDiffer' /\ StructsHaveRows'
    BY <1>3, <2>8, <2>10
       DEF Lookups, InterfacesAgree, AliasNamesDiffer, StructsHaveRows, Recalled
  <2>14. FieldsFit'
    BY <1>3, <2>6, <2>10 DEF Lookups, FieldsFit, Recalled
  <2>15. CASE ~w
    <3>1. UNCHANGED classes  BY <1>5, <2>15
    <3>2. ClassesHaveTypes' /\ ClassesAreComplete'
      BY <2>6, <3>1 DEF Lookups, ClassesHaveTypes, ClassesAreComplete
    <3>3. VariantsOwned'  BY <2>10, <2>15 DEF VariantsOwned
    <3> QED  BY <2>3, <2>11, <2>12, <2>13, <2>14, <3>2, <3>3 DEF Lookups
  <2>16. CASE w
    <3>1. /\ classes' = Append(classes, ClassRow(d)) /\ n = Len(d.ctors)
          /\ UNCHANGED <<errors, status>>
      BY <1>5, <2>10, <2>16
    <3>2. PICK row : row = ClassRow(d)  OBVIOUS
    <3>3. /\ row.name = d.name
          /\ ToSet(row.ctors) = {d.ctors[i].name : i \in 1..n}
      BY <3>1, <3>2 DEF ClassRow, ToSet
    <3>4. classes \in Seq(CtorsRow) /\ DOMAIN classes = 1..Len(classes)
          /\ DOMAIN classes' = 1..Len(classes')
      BY TablesTyped, TablesTypedNext
    <3>5. /\ Longer(classes, row, classes')
          /\ \A i \in 1..Len(classes') : \/ i \in 1..Len(classes) /\ classes'[i] = classes[i]
                                         \/ classes'[i] = row
      <4>1. PICK T : classes \in Seq(T) /\ row \in T
        <5>1. classes \in Seq(CtorsRow \cup {row})  BY <3>4, SeqMonotonic
        <5> QED  BY <5>1
      <4>2. classes' = Append(classes, row)  BY <3>1, <3>2
      <4> QED  BY <4>1, <4>2, AppendExtends, AppendProperties, LenProperties
    <3>6. Taken(types', class) /\ Row(types', class).whole
      <4>1. Taken(types', class)  BY <2>4, <2>5 DEF Extends
      <4>2. Row(types', class) = more[1]  BY <1>5, <2>4, <2>5 DEF Extends
      <4> QED  BY <2>1, <2>16, <4>1, <4>2 DEF ClassMore
    <3>7. \A i \in 1..n : Taken(types', <<"variant", d.name, d.ctors[i].name>>)
      BY <2>4, <2>5 DEF Extends
    <3>8. ClassesHaveTypes'
      <4> SUFFICES ASSUME NEW i \in 1..Len(classes')
                   PROVE  Taken(types', <<"class", classes'[i].name>>)
        BY <3>4 DEF ClassesHaveTypes
      <4> QED  BY <2>6, <3>3, <3>4, <3>5, <3>6 DEF Lookups, ClassesHaveTypes
    <3>9. ClassesAreComplete'
      <4> SUFFICES ASSUME NEW i \in 1..Len(classes'), NEW c, c = classes'[i].name
                   PROVE  /\ Row(types', <<"class", c>>).whole
                          /\ \A m \in ToSet(classes'[i].ctors) :
                               Taken(types', <<"variant", c, m>>)
        BY <3>4 DEF ClassesAreComplete
      <4>1. CASE i \in 1..Len(classes) /\ classes'[i] = classes[i]
        <5>1. /\ Taken(types, <<"class", c>>) /\ Row(types, <<"class", c>>).whole
              /\ \A m \in ToSet(classes[i].ctors) : Taken(types, <<"variant", c, m>>)
          BY <3>4, <4>1 DEF Lookups, ClassesHaveTypes, ClassesAreComplete
        <5> QED  BY <2>6, <4>1, <5>1
      <4>2. CASE classes'[i] = row
        BY <3>3, <3>6, <3>7, <4>2
      <4> QED  BY <3>5, <4>1, <4>2
    <3>10. VariantsOwned'
      <4> SUFFICES ASSUME errors' = <<>>, status' # "crash", NEW c \in Name,
                          NEW m \in Member, Taken(types', <<"variant", c, m>>)
                   PROVE  Taken(classes', c) /\ m \in ToSet(Row(classes', c).ctors)
        BY DEF VariantsOwned
      <4>1. CASE Taken(types, <<"variant", c, m>>)
        <5>1. Taken(classes, c) /\ m \in ToSet(Row(classes, c).ctors)
          BY <3>1, <4>1 DEF Lookups, VariantsOwned
        <5> QED  BY <3>5, <5>1 DEF Longer
      <4>2. CASE Taken(more, <<"variant", c, m>>)
        <5>1. PICK i \in 1..n :
                <<"variant", c, m>> = <<"variant", d.name, d.ctors[i].name>>
          BY <2>4, <4>2, NamesAreApart DEF NamesApart
        <5>2. c = d.name /\ m = d.ctors[i].name  BY <5>1
        <5>3. ~Taken(classes, d.name)
          BY <1>5, <3>4 DEF Lookups, ClassesHaveTypes, Taken
        <5>4. Taken(classes', d.name) /\ Row(classes', d.name) = row
          BY <3>3, <3>5, <5>3 DEF Longer
        <5> QED  BY <3>3, <5>2, <5>4
      <4> QED  BY <2>7, <4>1, <4>2
    <3> QED  BY <2>3, <2>11, <2>12, <2>13, <2>14, <3>8, <3>9, <3>10 DEF Lookups
  <2> QED  BY <2>15, <2>16
<1>6. CASE /\ ~Taken(types, <<"class", d.name>>)
           /\ \E n \in 0..Len(d.ctors), w \in BOOLEAN :
                /\ \A i \in 1..n : KnownCtor(d.ctors[i])
                /\ types' = ClassTypes(d, n, w)
                /\ \/ ~w /\ (Crash \/ Fail("type")) /\ UNCHANGED classes
                   \/ /\ w /\ n = Len(d.ctors)
                      /\ classes' = Append(classes, ClassRow(d)) /\ GoOn
  BY <1>5, <1>6
<1>7. CASE /\ ~Taken(types, <<"class", d.name>>)
           /\ \E n \in 0..Len(d.ctors) :
                /\ \A i \in 1..n : KnownCtor(d.ctors[i])
                /\ \/ /\ types' = ClassTypes(d, n, FALSE)
                      /\ Crash \/ Fail("type")
                      /\ UNCHANGED classes
                   \/ /\ n = Len(d.ctors)
                      /\ types' = ClassTypes(d, n, TRUE)
                      /\ classes' = Append(classes, ClassRow(d)) /\ GoOn
  BY <1>6, <1>7
<1> QED  BY <1>4, <1>7 DEF DataClass

------------------------------------------------------------------------------
(* Types of finite size *)

(* What Type::getBitSize asks of the i-th struct type, when g tells which  *)
(* of those before it have a size.                                         *)
Fits(ts, g, i) ==
  /\ ts[i].whole
  /\ \A k \in DOMAIN ts[i].body :
       LET f == ts[i].body[k]
       IN  ~f.ptr => /\ f.base # "auto"
                     /\ f.base = "struct" => f.at < i /\ g[f.at]
Sizes(ts, g, n) == g = [i \in 1..n |-> Fits(ts, g, i)]

(* A struct type holds earlier ones and itself.                            *)
Backward(ts, n) == \A i \in 1..n : ts[i].body \in Seq(TypeIn(i))

(* ... so what it asks is settled by those before it.                      *)
LEMMA FitsBefore ==
  ASSUME NEW n \in Nat, NEW ts, NEW us, NEW g, NEW h, NEW i \in 1..n, Backward(ts, n),
         us[i] = ts[i], \A j \in 1..i-1 : g[j] = h[j]
  PROVE  Fits(ts, g, i) = Fits(us, h, i)
<1>1. i \in Nat /\ ts[i].body \in Seq(TypeIn(i))  BY DEF Backward
<1>2. \A k \in DOMAIN ts[i].body : ts[i].body[k] \in TypeIn(i)
  <2>1. DOMAIN ts[i].body = 1..Len(ts[i].body)  BY <1>1, LenProperties
  <2> QED  BY <1>1, <2>1, ElementOfSeq
<1>3. ASSUME NEW k \in DOMAIN ts[i].body, ts[i].body[k].base = "struct",
             ts[i].body[k].at < i
      PROVE  g[ts[i].body[k].at] = h[ts[i].body[k].at]
  <2>1. ts[i].body[k].at \in 1..i-1
    <3>1. /\ ts[i].body[k].at \in 0..i /\ ts[i].body[k].at # 0
      BY <1>2, <1>3 DEF TypeIn
    <3> QED  BY <1>1, <1>3, <3>1
  <2> QED  BY <2>1
<1> QED  BY <1>3 DEF Fits

(* Only one function tells that, for the types both know,                  *)
LEMMA SizesAgree ==
  ASSUME NEW n \in Nat, NEW m \in Nat, n <= m, NEW ts, NEW us, NEW g, NEW h,
         Sizes(ts, g, n), Sizes(us, h, m), Backward(ts, n),
         \A i \in 1..n : us[i] = ts[i]
  PROVE  \A i \in 1..n : g[i] = h[i]
<1> DEFINE Bad == {i \in 1..n : g[i] # h[i]}
<1>1. SUFFICES ASSUME Bad # {} PROVE FALSE
  OBVIOUS
<1>2. PICK i \in Bad : \A j \in Bad : ~(j < i)
  <2>1. Bad \subseteq Nat  OBVIOUS
  <2>. HIDE DEF Bad
  <2> QED  BY <1>1, <2>1, Least
<1>3. i \in 1..n /\ i \in 1..m /\ g[i] # h[i]  BY <1>2
<1>4. g[i] = Fits(ts, g, i) /\ h[i] = Fits(us, h, i)
  BY <1>3 DEF Sizes
<1>5. \A j \in 1..i-1 : g[j] = h[j]
  <2> TAKE j \in 1..i-1
  <2>1. j \in 1..n /\ j < i  BY <1>3
  <2> QED  BY <1>2, <2>1
<1>6. Fits(ts, g, i) = Fits(us, h, i)  BY <1>3, <1>5, FitsBefore
<1> QED  BY <1>3, <1>4, <1>6

(* and there is one.                                                       *)
LEMMA SizesExist ==
  ASSUME NEW n \in Nat, NEW ts, Backward(ts, n)
  PROVE  \E g : Sizes(ts, g, n)
<1> DEFINE Bad == {k \in 0..n : ~\E g : Sizes(ts, g, k)}
<1>1. SUFFICES ASSUME Bad # {} PROVE FALSE
  <2>1. n \in 0..n  OBVIOUS
  <2> QED  BY <2>1
<1>2. PICK k \in Bad : \A y \in Bad : ~(y < k)
  <2>1. Bad \subseteq Nat  OBVIOUS
  <2>. HIDE DEF Bad
  <2> QED  BY <1>1, <2>1, Least
<1>3. CASE k = 0
  <2> DEFINE g == [i \in 1..0 |-> TRUE]
  <2>1. g = [i \in 1..0 |-> Fits(ts, g, i)]  OBVIOUS
  <2>2. Sizes(ts, g, 0)
    <3>. HIDE DEF g
    <3> QED  BY <2>1 DEF Sizes
  <2> QED  BY <1>2, <1>3, <2>2
<1>4. CASE k # 0
  <2>1. k - 1 \in 0..n /\ k - 1 < k /\ k \in 1..n /\ k \in 1..k  BY <1>4
  <2>2. PICK g : Sizes(ts, g, k - 1)  BY <1>2, <2>1
  <2> DEFINE h == [i \in 1..k |-> IF i = k THEN Fits(ts, g, k) ELSE g[i]]
  <2>3. \A i \in 1..k-1 : i \in 1..k /\ i \in 1..n /\ i # k /\ h[i] = g[i]
    BY <2>1
  <2>4. h = [i \in 1..k |-> h[i]] /\ h[k] = Fits(ts, g, k)  BY <2>1
  <2>. HIDE DEF h
  <2>5. \A i \in 1..k : h[i] = Fits(ts, h, i)
    <3> TAKE i \in 1..k
    <3>1. Fits(ts, g, i) = Fits(ts, h, i)
      <4>1. i \in 1..n /\ \A j \in 1..i-1 : j \in 1..k-1  BY <2>1
      <4>2. \A j \in 1..i-1 : g[j] = h[j]  BY <2>3, <4>1
      <4> QED  BY <4>1, <4>2, FitsBefore
    <3>2. CASE i = k  BY <2>4, <3>1, <3>2
    <3>3. CASE i # k
      <4>1. i \in 1..k-1  BY <2>1, <3>3
      <4>2. g[i] = Fits(ts, g, i)  BY <2>2, <4>1 DEF Sizes
      <4> QED  BY <2>3, <3>1, <4>1, <4>2
    <3> QED  BY <3>2, <3>3
  <2>6. h = [i \in 1..k |-> Fits(ts, h, i)]
    BY <2>4, <2>5, Zenon
  <2>7. Sizes(ts, h, k)  BY <2>6 DEF Sizes
  <2> QED  BY <1>2, <2>7
<1> QED  BY <1>3, <1>4

(* So Sized tells it, as long as struct types hold only earlier ones.      *)
LEMMA SizedIs ==
  ASSUME IInv
  PROVE  Backward(types, Len(types)) /\ Sizes(types, Sized, Len(types))
<1>1. DOMAIN types = 1..Len(types) /\ Len(types) \in Nat  BY TablesTyped
<1>2. Backward(types, Len(types))
  BY <1>1 DEF Backward, IInv, OnlyEarlierTypes
<1>3. \E g : Sizes(types, g, Len(types))  BY <1>1, <1>2, SizesExist
<1>4. Sized = CHOOSE g : Sizes(types, g, Len(types))
  BY <1>1 DEF Sized, Sizes, Fits
<1>5. Sizes(types, CHOOSE g : Sizes(types, g, Len(types)), Len(types))
  BY <1>3
<1> QED  BY <1>2, <1>4, <1>5

(* ... and after a step.                                                   *)
LEMMA SizedIsNext ==
  ASSUME IInv'
  PROVE  Backward(types', Len(types')) /\ Sizes(types', Sized', Len(types'))
<1>1. DOMAIN types' = 1..Len(types') /\ Len(types') \in Nat  BY TablesTypedNext
<1>2. Backward(types', Len(types'))
  BY <1>1 DEF Backward, IInv, OnlyEarlierTypes
<1>3. \E g : Sizes(types', g, Len(types'))  BY <1>1, <1>2, SizesExist
<1>4. Sized' = CHOOSE g : Sizes(types', g, Len(types'))
  BY <1>1 DEF Sized, Sizes, Fits
<1>5. Sizes(types', CHOOSE g : Sizes(types', g, Len(types')), Len(types'))
  BY <1>3
<1> QED  BY <1>2, <1>4, <1>5

(* What a sequence holds after another.                                    *)
LEMMA Joined ==
  ASSUME NEW S, NEW s \in Seq(S), NEW r \in Seq(S), NEW j \in 1..Len(r)
  PROVE  /\ Len(s) + j \in 1..Len(s \o r) /\ (s \o r)[Len(s) + j] = r[j]
         /\ \A i \in 1..Len(s) : (s \o r)[i] = s[i]
<1>1. Len(s) \in Nat /\ Len(r) \in Nat /\ Len(s \o r) = Len(s) + Len(r)
  BY LenProperties, ConcatProperties
<1>2. \A i \in 1 .. Len(s) + Len(r) :
        (s \o r)[i] = IF i <= Len(s) THEN s[i] ELSE r[i - Len(s)]
  BY ConcatProperties
<1>3. Len(s) + j \in 1..Len(s) + Len(r) /\ ~(Len(s) + j <= Len(s))
      /\ (Len(s) + j) - Len(s) = j
  BY <1>1
<1>4. (s \o r)[Len(s) + j] = r[j]  BY <1>2, <1>3
<1>5. \A i \in 1..Len(s) : i \in 1..Len(s) + Len(r) /\ i <= Len(s)  BY <1>1
<1>6. \A i \in 1..Len(s) : (s \o r)[i] = s[i]  BY <1>2, <1>5
<1> QED  BY <1>1, <1>3, <1>4, <1>6

(* What is of finite size stays so while types are only added.             *)
LEMMA SizedKept ==
  ASSUME IInv, IInv', Len(types) <= Len(types'),
         \A i \in 1..Len(types) : types'[i] = types[i]
  PROVE  \A i \in 1..Len(types) : Sized[i] = Sized'[i]
<1>1. PICK ts, us, g, h, j, k :
        /\ ts = types /\ us = types' /\ g = Sized /\ h = Sized'
        /\ j = Len(types) /\ k = Len(types')
  OBVIOUS
<1>2. /\ j \in Nat /\ k \in Nat /\ j <= k
      /\ Sizes(ts, g, j) /\ Sizes(us, h, k) /\ Backward(ts, j)
      /\ \A i \in 1..j : us[i] = ts[i]
  <2>1. j \in Nat /\ k \in Nat /\ j <= k
    BY <1>1, TablesTyped, TablesTypedNext
  <2>2. /\ Sizes(types, Sized, Len(types)) /\ Sizes(types', Sized', Len(types'))
        /\ Backward(types, Len(types))
    BY SizedIs, SizedIsNext
  <2>3. Sizes(ts, g, j) /\ Sizes(us, h, k) /\ Backward(ts, j)
    BY <1>1, <2>2, Zenon
  <2>4. \A i \in 1..j : us[i] = ts[i]  BY <1>1
  <2> QED  BY <2>1, <2>3, <2>4
<1>3. \A i \in 1..j : g[i] = h[i]  BY <1>2, SizesAgree
<1> QED  BY <1>1, <1>3

(* Type::getBitSize does not come back from a constructor with a field of  *)
(* no finite size, and the type of that constructor is there to see.       *)
LEMMA EndlessCtor ==
  ASSUME IInv, IInv', NEW d \in ClassDecl, NEW n \in 1..Len(d.ctors),
         \A i \in 1..n : KnownCtor(d.ctors[i]), ~SizedCtor(d.ctors[n]),
         types' = ClassTypes(d, n, FALSE)
  PROVE  NoFiniteSize'
<1>1. /\ types \in Seq(StructType(Len(types))) /\ Len(types) \in Nat
      /\ DOMAIN types = 1..Len(types) /\ DOMAIN types' = 1..Len(types')
      /\ aliases \in Seq(AliasRow(Len(types)))
  BY TablesTyped, TablesTypedNext
<1>2. /\ d.ctors \in Seq(CtorDecl) /\ Len(d.ctors) \in Nat /\ n \in Nat /\ n \in 1..n
      /\ n \in 0..Len(d.ctors)
  BY LenProperties DEF ClassDecl
<1>3. /\ Len(types') \in Nat /\ Len(types) <= Len(types')
      /\ \E more \in Seq(StructType(Len(types'))) :
           types' = types \o more /\ ClassMore(d, n, FALSE, more)
  <2>1. FALSE \in BOOLEAN  OBVIOUS
  <2> QED  BY <1>2, <2>1, ClassTypesGrow
<1>4. PICK more \in Seq(StructType(Len(types'))) :
        types' = types \o more /\ ClassMore(d, n, FALSE, more)
  BY <1>3
<1>5. types \in Seq(StructType(Len(types')))
  <2>1. StructType(Len(types)) \subseteq StructType(Len(types'))
    BY <1>1, <1>3, RowsMono
  <2> QED  BY <1>1, <2>1, SeqMonotonic
<1>6. PICK x : x = Len(types) + (n + 1)  OBVIOUS
<1>7. /\ x \in 1..Len(types') /\ types'[x] = CtorType(d, n)
      /\ \A i \in 1..Len(types) : types'[i] = types[i]
  <2>1. Len(more) = n + 1 /\ more[n + 1] = CtorType(d, n)
    BY <1>2, <1>4 DEF ClassMore
  <2>2. n + 1 \in 1..Len(more)  BY <1>2, <2>1
  <2>3. /\ Len(types) + (n + 1) \in 1..Len(types \o more)
        /\ (types \o more)[Len(types) + (n + 1)] = more[n + 1]
        /\ \A i \in 1..Len(types) : (types \o more)[i] = types[i]
    BY <1>4, <1>5, <2>2, Joined
  <2> QED  BY <1>4, <1>6, <2>1, <2>3, Zenon
<1>8. types'[x].whole
  <2>1. Len(types) <= Len(types)  BY <1>1
  <2> QED  BY <1>1, <1>2, <1>7, <2>1, CtorTyped
<1>9. /\ Sizes(types, Sized, Len(types)) /\ Sizes(types', Sized', Len(types'))
      /\ Backward(types, Len(types))
  BY SizedIs, SizedIsNext
<1>10. \A i \in 1..Len(types) : Sized[i] = Sized'[i]
  BY <1>3, <1>7, SizedKept
<1>11. ASSUME Sized'[x] PROVE FALSE
  <2> DEFINE c == d.ctors[n]
             fields == Resolved(types, c.types)
  <2>1. c.types \in Seq(TypeExpr) /\ Len(c.types) \in Nat
    <3>1. c \in CtorDecl  BY <1>2, ElementOfSeq
    <3> QED  BY <3>1, LenProperties DEF CtorDecl
  <2>2. /\ fields \in Seq(TypeIn(Len(types))) /\ Len(fields) = Len(c.types)
    <3>1. Resolves(types, c.types)  BY <1>2 DEF KnownCtor
    <3> QED  BY <1>1, <2>1, <3>1, ResolvedTyped
  <2>3. PICK j \in 1..Len(c.types) : ~SizedType(fields[j])
    BY DEF SizedCtor
  <2>4. types'[x].body = <<Plain("char")>> \o fields
    <3>1. CtorType(d, n).body = <<Plain("char")>> \o fields
      BY DEF CtorType
    <3> QED  BY <1>7, <3>1, Zenon
  <2>. HIDE DEF c, fields
  <2>5. j + 1 \in DOMAIN types'[x].body /\ types'[x].body[j + 1] = fields[j]
    <3>1. PICK T : fields \in Seq(T) /\ <<Plain("char")>> \in Seq(T)
      <4>1. fields \in Seq(TypeIn(Len(types)) \cup {Plain("char")})
        BY <2>2, SeqMonotonic
      <4> QED  BY <4>1
    <3>2. PICK one : one = <<Plain("char")>>  OBVIOUS
    <3>3. one \in Seq(T) /\ Len(one) = 1  BY <3>1, <3>2
    <3>4. j \in 1..Len(fields)  BY <2>2
    <3>5. /\ Len(one) + j \in 1..Len(one \o fields)
          /\ (one \o fields)[Len(one) + j] = fields[j]
      <4>1. PICK r : r = fields  OBVIOUS
      <4>2. r \in Seq(T) /\ one \in Seq(T) /\ j \in 1..Len(r)
        BY <3>1, <3>3, <3>4, <4>1
      <4>3. /\ Len(one) + j \in 1..Len(one \o r)
            /\ (one \o r)[Len(one) + j] = r[j]
        BY <4>2, Joined
      <4> QED  BY <4>1, <4>3
    <3>6. (one \o fields) \in Seq(T)  BY <3>1, <3>3, ConcatProperties
    <3>7. DOMAIN (one \o fields) = 1..Len(one \o fields)  BY <3>6, LenProperties
    <3>8. Len(one) + j = j + 1  BY <2>1, <3>3
    <3> QED  BY <2>4, <3>2, <3>5, <3>7, <3>8
  <2>6. Fits(types', Sized', x)
    BY <1>7, <1>9, <1>11 DEF Sizes
  <2>7. LET f == fields[j]
        IN  ~f.ptr => /\ f.base # "auto"
                      /\ f.base = "struct" => Sized'[f.at]
    BY <2>5, <2>6 DEF Fits
  <2>8. fields[j].base = "struct" => fields[j].at \in 1..Len(types)
    <3>1. fields[j] \in TypeIn(Len(types))  BY <2>2, ElementOfSeq
    <3>2. fields[j].base = "struct" => /\ fields[j].at \in 0..Len(types)
                                       /\ fields[j].at # 0
      BY <3>1 DEF TypeIn
    <3> QED  BY <1>1, <3>2
  <2>9. SizedType(fields[j])
    BY <1>10, <2>7, <2>8 DEF SizedType
  <2> QED  BY <2>3, <2>9
<1> QED  BY <1>1, <1>7, <1>8, <1>11 DEF NoFiniteSize

------------------------------------------------------------------------------
(* What it takes to crash *)

(* What kills the compiler, said of the state it dies in.                  *)
Causes ==
  \/ errors # <<>>
  \/ TwoParents \/ CallsItself \/ NoFiniteSize \/ CastsText
  \/ globals # <<>>

(* Only Crash makes "crash" of "compiling".                                *)
LEMMA OnlyCrash ==
  ASSUME status = "compiling", status' = "crash"
  PROVE  /\ ~GoOn
         /\ \A what : ~Fail(what)
         /\ \A d, first : ~Begin(d, first)
         /\ \A d, name : ~MethodNamed(d, name)
         /\ ~Asserts => ~Bind
<1>1. status' # status  OBVIOUS
<1>2. ~GoOn /\ (\A what : ~Fail(what)) /\ \A d, first : ~Begin(d, first)
  BY <1>1 DEF GoOn, Fail, Begin
<1> QED  BY <1>2 DEF MethodNamed, Bind

(* Enumeration::codegen dies of an option it has entered.                  *)
LEMMA EnumerationCrash ==
  ASSUME IInv, NEW d \in Pending, Enumeration(d), status' = "crash"
  PROVE  globals' # <<>>
<1>1. d \in EnumDecl
  BY PendingIs, StatementKinds, ElementKinds DEF Enumeration
<1>2. status = "compiling"  BY PendingIs
<1>3. PICK t : \E n \in 0..Len(d.options) :
        n > 0 /\ globals' = globals \o OptionRows(d, t, n)
  BY <1>2, OnlyCrash DEF Enumeration, EnumGlobals
<1>4. PICK n \in 0..Len(d.options) :
        n > 0 /\ globals' = globals \o OptionRows(d, t, n)
  BY <1>3
<1>5. OptionRows(d, t, n) \in Seq(Option)  BY <1>1, OptionRowsTyped
<1>6. globals \in Seq(Option) /\ Len(globals) \in Nat
  BY LenProperties DEF IInv, TypeOK
<1>7. DOMAIN OptionRows(d, t, n) = 1..n  BY DEF OptionRows
<1>8. Len(OptionRows(d, t, n)) \in Nat /\ n \in 1..Len(OptionRows(d, t, n))
  <2>1. Len(d.options) \in Nat  BY <1>1, LenProperties DEF EnumDecl
  <2> QED  BY <1>4, <1>5, <1>7, <2>1, LenProperties
<1>9. /\ globals' \in Seq(Option)
      /\ Len(globals') = Len(globals) + Len(OptionRows(d, t, n))
  BY <1>4, <1>5, <1>6, ConcatProperties
<1> QED  BY <1>6, <1>8, <1>9, EmptySeq

(* DataClass::codegen dies of a constructor of no finite size.             *)
LEMMA DataClassCrash ==
  ASSUME IInv, IInv', NEW d \in Pending, DataClass(d), status' = "crash"
  PROVE  NoFiniteSize'
<1>1. d \in ClassDecl
  BY PendingIs, StatementKinds, ElementKinds DEF DataClass
<1>2. status = "compiling"  BY PendingIs
<1>3. PICK n \in 0..Len(d.ctors) :
        /\ \A i \in 1..n : KnownCtor(d.ctors[i])
        /\ n > 0 /\ ~SizedCtor(d.ctors[n])
        /\ types' = ClassTypes(d, n, FALSE)
  BY <1>2, OnlyCrash DEF DataClass
<1>4. n \in 1..Len(d.ctors)
  <2>1. Len(d.ctors) \in Nat  BY <1>1, LenProperties DEF ClassDecl
  <2> QED  BY <1>3, <2>1
<1> QED  BY <1>1, <1>3, <1>4, EndlessCtor

(* A struct variable is of a type in the table.                            *)
LEMMA HeldStruct ==
  ASSUME IInv, NEW n, Taken(locals, n), HoldsStruct(Row(locals, n))
  PROVE  Row(locals, n).type.at \in 1..Len(types)
<1>1. Row(locals, n) \in Variable(Len(types))
  BY FirstFound DEF IInv, TypeOK
<1>2. Row(locals, n).type \in TypeIn(Len(types))  BY <1>1 DEF Variable
<1>3. /\ Row(locals, n).type.at \in 0..Len(types)
      /\ Row(locals, n).type.at # 0
  BY <1>2 DEF TypeIn, HoldsStruct
<1> QED  BY <1>3, TablesTyped

(* A struct type that LLVM did not rename is the first of its name.        *)
LEMMA FirstOfItsName ==
  ASSUME IInv, Lookups, NEW i \in 1..Len(types), types[i].name # Renamed
  PROVE  Row(types, types[i].name) = types[i]
<1>1. \A j \in 1..Len(types) : types[j].name = types[i].name => j = i
  BY TablesTyped DEF Lookups, NamesDiffer
<1> QED  BY <1>1, TablesTyped, OnlyRow

(* A field that is there has its place among the fields.                   *)
LEMMA FieldPlace ==
  ASSUME IInv, NEW t, NEW m, HasField(t, m)
  PROVE  LET n == types[t.at].name
         IN  /\ n \in StructName /\ Taken(structures, n)
             /\ FieldAt(t, m) \in 1..Len(Row(structures, n).fields)
<1>1. PICK n : n = types[t.at].name  OBVIOUS
<1>2. Taken(structures, n) /\ m \in ToSet(Row(structures, n).fields)
  BY <1>1 DEF HasField
<1>3. Row(structures, n) \in FieldsRow /\ Row(structures, n).name = n
  BY <1>2, TablesTyped, FirstFound DEF Row
<1>4. PICK fields : fields = Row(structures, n).fields  OBVIOUS
<1>5. fields \in Seq(Member) /\ n \in StructName  BY <1>3, <1>4 DEF FieldsRow
<1>6. DOMAIN fields = 1..Len(fields) /\ Len(fields) \in Nat
  BY <1>5, LenProperties
<1> DEFINE Places == {i \in 1..Len(fields) : fields[i] = m}
<1>7. Places \subseteq Nat /\ Places # {}
  <2>1. PICK i \in DOMAIN fields : fields[i] = m  BY <1>2, <1>4 DEF ToSet
  <2> QED  BY <1>6, <2>1
<1>8. PICK x \in Places : \A y \in Places : ~(y < x)
  <2>. HIDE DEF Places
  <2> QED  BY <1>7, Least
<1>9. fields[x] = m /\ x \in DOMAIN fields /\ \A j \in 1..x-1 : fields[j] # m
  <2>1. x \in 1..Len(fields) /\ fields[x] = m  OBVIOUS
  <2>2. \A j \in 1..x-1 : j \in 1..Len(fields) /\ j < x  BY <1>6, <2>1
  <2> QED  BY <1>6, <1>8, <2>1, <2>2
<1>10. (CHOOSE i \in DOMAIN fields : fields[i] = m /\ \A j \in 1..i-1 : fields[j] # m)
         \in DOMAIN fields
  BY <1>9
<1>11. FieldAt(t, m) \in 1..Len(fields)
  BY <1>1, <1>4, <1>6, <1>10 DEF FieldAt
<1> QED  BY <1>1, <1>2, <1>4, <1>5, <1>11

(* StructMember::codegen finds a field inside its struct type.             *)
LEMMA AccessCrash ==
  ASSUME IInv, Lookups, NEW d \in Pending, Access(d), ~Asserts, status' = "crash",
         errors = <<>>
  PROVE  FALSE
<1>1. status = "compiling"  BY PendingIs
<1>2. PICK t : t = Row(locals, d.var).type  OBVIOUS
<1>3. /\ Taken(locals, d.var) /\ HoldsStruct(Row(locals, d.var))
      /\ HasField(t, d.member)
      /\ ~(FieldAt(t, d.member) <= Len(types[t.at].body))
  BY <1>1, <1>2, OnlyCrash DEF Access
<1>4. t.at \in 1..Len(types)  BY <1>2, <1>3, HeldStruct
<1>5. PICK n : n = types[t.at].name  OBVIOUS
<1>6. /\ n \in StructName /\ Taken(structures, n)
      /\ FieldAt(t, d.member) \in 1..Len(Row(structures, n).fields)
  BY <1>3, <1>5, FieldPlace
<1>7. n # Renamed
  <2>1. PICK k \in {"struct", "interface", "class"}, a \in Name : n = <<k, a>>
    BY <1>6 DEF StructName
  <2> QED  BY <2>1 DEF Renamed
<1>8. Row(types, n) = types[t.at]
  BY <1>4, <1>5, <1>7, FirstOfItsName
<1>9. Len(Row(structures, n).fields) = Len(Row(types, n).body)
  <2>1. FieldsFit  BY DEF Lookups
  <2>2. PICK i \in DOMAIN structures : structures[i].name = n
    BY <1>6 DEF Taken
  <2> QED  BY <2>1, <2>2 DEF FieldsFit
<1>10. Len(types[t.at].body) \in Nat
  <2>1. types[t.at] \in StructType(Len(types))
    BY <1>4, TablesTyped, ElementOfSeq
  <2> QED  BY <2>1, LenProperties DEF StructType
<1> QED  BY <1>3, <1>6, <1>8, <1>9, <1>10

(* FnCast::codegen dies of a char variable taken for a string, or of an    *)
(* interface with more functions than places for them.                     *)
LEMMA CastCrash ==
  ASSUME IInv, Lookups, NEW d \in Pending, Cast(d), ~Asserts, status' = "crash"
  PROVE  TwoParents' \/ CastsText'
<1>1. status = "compiling"  BY PendingIs
<1>2. UNCHANGED tables  BY DEF Cast
<1>3. CASE /\ Taken(locals, d.var) /\ Row(locals, d.var).type = Plain("char")
           /\ CastText(d)
  <2>1. Crash  BY <1>1, <1>3, OnlyCrash DEF CastText
  <2>2. locals' = locals  BY <2>1 DEF Crash, running
  <2>3. \E i \in DOMAIN locals : locals[i].type = Plain("char")
    <3>1. /\ First(locals, d.var) \in 1..Len(locals)
          /\ DOMAIN locals = 1..Len(locals)
      BY <1>3, FirstFound, LenProperties DEF IInv, TypeOK
    <3> QED  BY <1>3, <3>1 DEF Row
  <2> QED  BY <2>2, <2>3 DEF CastsText
<1>4. ASSUME NEW t, NEW to \in Resolve(types, d.to), IsInterface(to),
             CastToInterface(t, to)
      PROVE  TwoParents'
  <2>1. PICK n : n = types[to.at].name[2]  OBVIOUS
  <2>2. ~(Len(Row(interfaces, n).funcs) <= Len(types[to.at].body))
    BY <1>1, <1>4, <2>1, OnlyCrash DEF CastToInterface
  <2>3. to \in TypeIn(Len(types)) /\ to.base = "struct"
    BY <1>4, TablesTyped, ResolveTyped DEF IsInterface
  <2>4. to.at \in 1..Len(types)
    <3>1. to.at \in 0..Len(types) /\ to.at # 0  BY <2>3 DEF TypeIn
    <3> QED  BY <3>1, TablesTyped
  <2>5. types[to.at] \in StructType(Len(types))
    BY <2>4, TablesTyped, ElementOfSeq
  <2>6. types[to.at].name = <<"interface", n>> /\ n \in Name
    <3>1. types[to.at].name[1] = "interface"  BY <1>4 DEF IsInterface
    <3>2. types[to.at].name \in StructName \cup VariantName \cup {Renamed}
      BY <2>5 DEF StructType
    <3> QED  BY <2>1, <3>1, <3>2 DEF StructName, VariantName, Renamed
  <2>7. Row(types, <<"interface", n>>) = types[to.at]
    BY <2>4, <2>6, FirstOfItsName, NamesAreApart DEF NamesApart
  <2>8. Taken(interfaces, n)
    <3>1. Taken(types, <<"interface", n>>)  BY <2>4, <2>6, TablesTyped DEF Taken
    <3> QED  BY <2>6, <3>1 DEF Lookups, InterfacesAgree
  <2>9. PICK i \in DOMAIN interfaces :
          interfaces[i].name = n /\ interfaces[i] = Row(interfaces, n)
    BY <2>8, TablesTyped, FirstFound DEF Row
  <2>10. Len(interfaces[i].funcs)
           # Len(Row(types, <<"interface", interfaces[i].name>>).body)
    <3>1. interfaces[i] \in InterfaceRow  BY <2>9, TablesTyped, ElementOfSeq
    <3>2. Len(interfaces[i].funcs) \in Nat  BY <3>1, LenProperties DEF InterfaceRow
    <3>3. Len(types[to.at].body) \in Nat  BY <2>5, LenProperties DEF StructType
    <3> QED  BY <2>2, <2>7, <2>9, <3>2, <3>3
  <2>11. TwoParents  BY <2>10 DEF TwoParents
  <2>12. types' = types /\ interfaces' = interfaces  BY <1>2 DEF tables
  <2> QED  BY <2>11, <2>12 DEF TwoParents, Row, First
<1> QED  BY <1>1, <1>3, <1>4, OnlyCrash DEF Cast

(* DataClass::construct finds a constructor's place when it finds its type. *)
LEMMA ConstructCrash ==
  ASSUME IInv, Lookups, NEW d \in Pending, Construct(d), ~Asserts, status' = "crash",
         errors = <<>>
  PROVE  FALSE
<1>1. status = "compiling"  BY PendingIs
<1>2. d \in ConstructDecl
  BY PendingIs, StatementKinds, ElementKinds DEF Construct
<1>3. d.class \in Name /\ d.ctor \in Member  BY <1>2 DEF ConstructDecl
<1>4. Taken(types, <<"variant", d.class, d.ctor>>) /\ ~HasCtor(d)
  BY <1>1, OnlyCrash DEF Construct
<1> QED  BY <1>1, <1>3, <1>4 DEF HasCtor, Lookups, VariantsOwned

(* Dying adds no error.                                                    *)
LEMMA CrashKeepsErrors ==
  ASSUME status = "compiling", status' = "crash", Next
  PROVE  errors' = errors
<1>1. Crash => errors' = errors  BY DEF Crash
<1>2. ASSUME NEW d, Compile(d) PROVE Crash
  <2>1. Bind => Crash  BY OnlyCrash DEF Bind
  <2>2. Structure(d) \/ Alias(d) \/ Interface(d) \/ ExternFunc(d) \/ Function(d)
        => Crash
    BY OnlyCrash DEF Structure, Alias, Interface, ExternFunc, Function
  <2>3. Enumeration(d) \/ DataClass(d) => Crash
    BY OnlyCrash DEF Enumeration, EnumGlobals, DataClass
  <2>4. StructFunc(d) \/ StructOp(d) \/ Let(d) \/ Call(d) => Crash
    BY OnlyCrash DEF StructFunc, StructOp, Let, Call
  <2>5. Access(d) \/ Construct(d) => Crash
    BY <2>1, OnlyCrash DEF Access, Construct
  <2>6. Cast(d) => Crash
    <3>1. CastText(d) => Crash  BY OnlyCrash DEF CastText
    <3>2. \A t, to : CastToInterface(t, to) => Crash
      BY OnlyCrash DEF CastToInterface
    <3> QED  BY <3>1, <3>2, OnlyCrash DEF Cast
  <2> QED  BY <1>2, <2>2, <2>3, <2>4, <2>5, <2>6 DEF Compile
<1>3. FunctionEnd => Crash  BY DEF FunctionEnd
<1>4. ~Finish /\ ~Ended  BY DEF Finish, Ended
<1> QED  BY <1>1, <1>2, <1>3, <1>4 DEF Next

(* The step a module dies at has one of the causes.                        *)
LEMMA CrashStep ==
  ASSUME IInv, IInv', Lookups, ~Asserts, status = "compiling", status' = "crash",
         errors = <<>>, Next
  PROVE  Causes'
<1>1. ASSUME NEW d \in Pending, Compile(d) PROVE Causes'
  <2>1. CASE Structure(d)  BY <2>1, OnlyCrash DEF Structure
  <2>2. CASE Alias(d)  BY <2>2, OnlyCrash DEF Alias
  <2>3. CASE Enumeration(d)  BY <2>3, EnumerationCrash DEF Causes
  <2>4. CASE Interface(d)  BY <2>4, OnlyCrash DEF Interface
  <2>5. CASE DataClass(d)  BY <2>5, DataClassCrash DEF Causes
  <2>6. CASE ExternFunc(d) \/ Function(d)
    BY <2>6, OnlyCrash DEF ExternFunc, Function
  <2>7. CASE StructFunc(d) \/ StructOp(d)
    BY <2>7, OnlyCrash DEF StructFunc, StructOp
  <2>8. CASE Let(d)
    BY <2>8, OnlyCrash DEF Let
  <2>9. CASE Call(d)  BY <2>9, OnlyCrash DEF Call
  <2>10. CASE Access(d)  BY <2>10, AccessCrash
  <2>11. CASE Cast(d)  BY <2>11, CastCrash DEF Causes
  <2>12. CASE Construct(d)  BY <2>12, ConstructCrash
  <2> QED
    BY <1>1, <2>1, <2>2, <2>3, <2>4, <2>5, <2>6, <2>7, <2>8, <2>9, <2>10, <2>11, <2>12
       DEF Compile
<1>2. CASE FunctionEnd
  <2>1. inside # 0 /\ functions[inside].deduced /\ functions[inside].used
    BY <1>2 DEF FunctionEnd
  <2>2. Crash /\ UNCHANGED symbols  BY <1>2 DEF FunctionEnd
  <2>3. inside' = inside /\ functions' = functions
    BY <2>2 DEF Crash, running, symbols
  <2> QED  BY <2>1, <2>3 DEF Causes, CallsItself
<1>3. CASE Finish  BY <1>3 DEF Finish
<1>4. CASE Ended  BY <1>4 DEF Ended
<1> QED  BY <1>1, <1>2, <1>3, <1>4 DEF Next

(* The inductive step.                                                     *)
LEMMA CausesHold ==
  ASSUME IInv, IInv', Lookups, CrashesExplained, [Next]_vars
  PROVE  CrashesExplained'
<1>1. SUFFICES ASSUME status' = "crash", ~Asserts PROVE Causes'
  BY DEF CrashesExplained, Causes
<1>2. CASE status # "compiling" \/ UNCHANGED vars
  <2>1. UNCHANGED vars
    <3>1. ASSUME NEW d \in Pending PROVE status = "compiling"
      BY PendingIs
    <3> QED  BY <1>2, <3>1 DEF Next, FunctionEnd, Finish, Ended
  <2>2. Causes
    BY <1>1, <2>1 DEF vars, CrashesExplained, Causes
  <2>3. NoFiniteSize => NoFiniteSize'
    <3>1. types' = types  BY <2>1 DEF vars, tables
    <3>2. DOMAIN types = 1..Len(types) /\ Len(types) \in Nat  BY TablesTyped
    <3>3. \A i \in 1..Len(types) : Sized[i] = Sized'[i]
      BY <3>1, <3>2, SizedKept
    <3> QED  BY <3>1, <3>2, <3>3 DEF NoFiniteSize
  <2>4. UNCHANGED <<types, interfaces, functions, globals, inside, locals, errors>>
    BY <2>1 DEF vars, tables, symbols, running
  <2> QED
    BY <2>2, <2>3, <2>4 DEF Causes, TwoParents, CallsItself, CastsText, Row, First
<1>3. CASE status = "compiling" /\ Next
  <2>1. CASE errors = <<>>  BY <1>1, <1>3, <2>1, CrashStep
  <2>2. CASE errors # <<>>
    <3>1. errors' = errors  BY <1>1, <1>3, CrashKeepsErrors
    <3> QED  BY <2>2, <3>1 DEF Causes
  <2> QED  BY <2>1, <2>2
<1> QED  BY <1>2, <1>3

------------------------------------------------------------------------------
(* Theorems *)

(* What is true when nothing is declared.                                  *)
LEMMA LookupsFirst ==
  ASSUME Init
  PROVE  Lookups
<1>1. /\ DOMAIN types = {} /\ DOMAIN structures = {} /\ DOMAIN interfaces = {}
      /\ DOMAIN classes = {} /\ DOMAIN aliases = {}
  BY DEF Init
<1>2. \A n : /\ ~Taken(types, n) /\ ~Taken(structures, n) /\ ~Taken(interfaces, n)
             /\ ~Taken(aliases, n)
  BY <1>1 DEF Taken
<1>3. NamesDiffer /\ AliasNamesDiffer /\ InterfacesAgree
  BY <1>1, <1>2 DEF NamesDiffer, AliasNamesDiffer, InterfacesAgree
<1>4. StructsHaveRows /\ ClassesHaveTypes /\ VariantsOwned
  BY <1>1, <1>2 DEF StructsHaveRows, ClassesHaveTypes, VariantsOwned
<1>5. FieldsFit /\ ClassesAreComplete /\ AliasesAreFound
  BY <1>1 DEF FieldsFit, ClassesAreComplete, AliasesAreFound
<1> QED  BY <1>3, <1>4, <1>5 DEF Lookups

(* What is compiled without entering anything in the tables adds an error  *)
(* or none.                                                                *)
LEMMA OthersLook ==
  ASSUME IInv, Lookups, NEW d \in Pending,
         \/ ExternFunc(d) \/ Function(d) \/ StructFunc(d) \/ StructOp(d)
         \/ Let(d) \/ Call(d) \/ Access(d) \/ Cast(d) \/ Construct(d)
  PROVE  Lookups' /\ MeaningsStay
<1> DEFINE Noted == UNCHANGED errors \/ \E what : errors' = Append(errors, what)
<1>1. /\ GoOn => Noted
      /\ \A what : Fail(what) => Noted
      /\ Crash => Noted
      /\ \A first : Begin(d, first) => Noted
  BY DEF GoOn, Fail, Crash, Begin
<1>. HIDE DEF Noted
<1>2. \A name : MethodNamed(d, name) => Noted
  BY <1>1 DEF MethodNamed
<1>3. ASSUME ExternFunc(d) \/ Function(d) \/ StructFunc(d) \/ StructOp(d)
      PROVE  Noted /\ UNCHANGED tables
  <2>1. Noted  BY <1>1, <1>2, <1>3 DEF ExternFunc, Function, StructFunc, StructOp
  <2>2. UNCHANGED tables  BY <1>3 DEF ExternFunc, Function, StructFunc, StructOp
  <2> QED  BY <2>1, <2>2
<1>4. ASSUME Let(d) \/ Call(d) \/ Access(d) \/ Construct(d)
      PROVE  Noted /\ UNCHANGED tables
  <2>1. Noted
    <3>1. UNCHANGED errors => Noted  BY DEF Noted
    <3> QED  BY <1>1, <1>4, <3>1 DEF Let, Call, Access, Bind, Construct
  <2>2. UNCHANGED tables  BY <1>4 DEF Let, Call, Access, Construct
  <2> QED  BY <2>1, <2>2
<1>5. ASSUME Cast(d)
      PROVE  Noted /\ UNCHANGED tables
  <2>1. \A t, to : CastToInterface(t, to) => Noted
    BY <1>1 DEF CastToInterface
  <2>2. CastText(d) => Noted  BY <1>1 DEF CastText
  <2>3. Noted  BY <1>1, <1>5, <2>1, <2>2 DEF Cast
  <2>4. UNCHANGED tables  BY <1>5 DEF Cast
  <2> QED  BY <2>3, <2>4
<1>6. Noted /\ UNCHANGED tables  BY <1>3, <1>4, <1>5
<1>7. Recalled
  <2>1. errors \in Seq(Diagnostics)  BY DEF IInv, TypeOK
  <2>2. \A what : Append(errors, what) # <<>>
    <3> TAKE what
    <3>1. errors \in Seq(Diagnostics \cup {what})  BY <2>1, SeqMonotonic
    <3>2. Len(Append(errors, what)) = Len(errors) + 1 /\ Len(errors) \in Nat
      BY <3>1, AppendProperties, LenProperties
    <3> QED  BY <3>2, EmptySeq
  <2> QED  BY <1>6, <2>2 DEF Noted, Recalled
<1>8. status = "compiling"  BY PendingIs
<1> QED  BY <1>6, <1>7, <1>8, LookupsKept DEF Recalled, Remembered

(* The inductive step: what is found by its name stays found.              *)
LEMMA LooksHold ==
  ASSUME IInv, IInv', Lookups, [Next]_vars
  PROVE  Lookups' /\ MeaningsStay
<1>1. ASSUME NEW d \in Pending, Compile(d) PROVE Lookups' /\ MeaningsStay
  <2>1. CASE Structure(d)  BY <2>1, StructureLooks
  <2>2. CASE Alias(d)  BY <2>2, AliasLooks
  <2>3. CASE Enumeration(d)  BY <2>3, EnumerationLooks
  <2>4. CASE Interface(d)  BY <2>4, InterfaceLooks
  <2>5. CASE DataClass(d)  BY <2>5, DataClassLooks
  <2>6. CASE \/ ExternFunc(d) \/ Function(d) \/ StructFunc(d) \/ StructOp(d)
             \/ Let(d) \/ Call(d) \/ Access(d) \/ Cast(d) \/ Construct(d)
    BY <2>6, OthersLook
  <2> QED
    BY <1>1, <2>1, <2>2, <2>3, <2>4, <2>5, <2>6 DEF Compile
<1>2. CASE FunctionEnd \/ Finish \/ UNCHANGED vars
  <2>1. UNCHANGED tables /\ UNCHANGED errors
    BY <1>2 DEF FunctionEnd, Finish, vars, Crash
  <2>2. status' # "crash" => status # "crash"
    BY <1>2 DEF FunctionEnd, Finish, vars
  <2> QED  BY <2>1, <2>2, LookupsKept DEF Recalled, Remembered
<1> QED  BY <1>1, <1>2 DEF Next, Ended

(* What a name finds is always as Lookups says.                            *)
THEOREM LookupsInvariance == Spec => []Lookups
<1>1. Init => Lookups  BY LookupsFirst
<1>2. IInv /\ IInv' /\ Lookups /\ [Next]_vars => Lookups'  BY LooksHold
<1> QED  BY <1>1, <1>2, TablesInvariance, PTL DEF Spec

(* StructMember::codegen finds a field at its place in the struct type of  *)
(* that name, as long as nothing has failed.                               *)
THEOREM FieldsFound == Spec => []FieldsFit
<1>1. Lookups => FieldsFit  BY DEF Lookups
<1> QED  BY <1>1, LookupsInvariance, PTL

(* DataClass::construct finds the type of each constructor of a class, and *)
(* the class with a body.                                                  *)
THEOREM ClassesFound == Spec => []ClassesAreComplete
<1>1. Lookups => ClassesAreComplete  BY DEF Lookups
<1> QED  BY <1>1, LookupsInvariance, PTL

(* Type::getFromTypeName finds an alias, unless a struct took the name or  *)
(* it is the name of a basic type.                                         *)
THEOREM AliasesFound == Spec => []AliasesAreFound
<1>1. Lookups => AliasesAreFound  BY DEF Lookups
<1> QED  BY <1>1, LookupsInvariance, PTL

(* Only a struct definition changes what a type name means.                *)
THEOREM MeaningsKept == Spec => MeaningsAreStable
<1>1. IInv /\ IInv' /\ Lookups /\ [Next]_vars => [MeaningsStay]_vars
  BY LooksHold
<1> QED  BY <1>1, TablesInvariance, LookupsInvariance, PTL DEF Spec, MeaningsAreStable

(* The compiler dies for the known reasons only.                           *)
THEOREM CrashesHaveCauses == Spec => []CrashesExplained
<1>1. Init => CrashesExplained  BY DEF Init, CrashesExplained
<1>2. IInv /\ IInv' /\ Lookups /\ CrashesExplained /\ [Next]_vars => CrashesExplained'
  BY CausesHold
<1> QED  BY <1>1, <1>2, TablesInvariance, LookupsInvariance, PTL DEF Spec
==============================================================================
