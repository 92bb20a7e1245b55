---------------------------- MODULE ClosuresProofs ----------------------------
(***************************************************************************)
(* Proofs about Closures, for every set of names, of functions and of      *)
(* statements, and programs of any length: what a name in a body is found  *)
(* to be, what compiles and what calls reach.                              *)
(*                                                                         *)
(* The argument.  A function under construction agrees with what its names *)
(* mean: a variable of its own is in the symbol table, and a captured one  *)
(* is the first field of its name, which the table has as well once it was *)
(* used (Agrees).  From this follows what the compilation of any sequence  *)
(* of names comes to (CompileComesTo).  Each statement keeps the agreement *)
(* for the function it is in, and a closure begins with one.               *)
(***************************************************************************)
EXTENDS ClosuresInv, FiniteSetTheorems, SequenceTheorems, WellFoundedInduction, TLAPS

------------------------------------------------------------------------------
(* Sequences *)

LEMMA Least ==
  ASSUME NEW S, S \subseteq Nat, S # {}
  PROVE  \E x \in S : \A y \in S : ~(y < x)
<1>1. IsWellFoundedOn(OpToRel(<, Nat), Nat)  BY NatLessThanWellFounded
<1>2. PICK x \in S : \A y \in S : ~(<<y, x>> \in OpToRel(<, Nat))
  BY <1>1, WFMin
<1> QED  BY <1>2 DEF OpToRel

LEMMA BeginningOf ==
  ASSUME NEW i \in Nat \ {0}, NEW j \in Nat
  PROVE  1 \in 1 .. i + j /\ i \in 1 .. i + j
OBVIOUS

LEMMA MembersOfBoth ==
  ASSUME NEW s, NEW t, NEW S, s \in Seq(S), t \in Seq(S)
  PROVE  /\ s \o t \in Seq(S) /\ Len(s \o t) = Len(s) + Len(t)
         /\ \A i \in 1 .. Len(s) : (s \o t)[i] = s[i]
         /\ \A i \in 1 .. Len(t) : (s \o t)[Len(s) + i] = t[i]
         /\ ToSet(s \o t) = ToSet(s) \cup ToSet(t)
<1>1. /\ s \o t \in Seq(S) /\ Len(s \o t) = Len(s) + Len(t)
      /\ \A i \in 1 .. Len(s) : (s \o t)[i] = s[i]
      /\ \A i \in 1 .. Len(t) : (s \o t)[Len(s) + i] = t[i]
  OBVIOUS
<1>2. /\ DOMAIN s = 1 .. Len(s) /\ DOMAIN t = 1 .. Len(t)
      /\ DOMAIN (s \o t) = 1 .. Len(s) + Len(t)
      /\ Len(s) \in Nat /\ Len(t) \in Nat
  BY <1>1
<1>3. ASSUME NEW x \in ToSet(s \o t) PROVE x \in ToSet(s) \cup ToSet(t)
  <2>1. PICK i \in 1 .. Len(s) + Len(t) : (s \o t)[i] = x  BY <1>2, <1>3 DEF ToSet
  <2>2. CASE i <= Len(s)  BY <1>1, <1>2, <2>1, <2>2 DEF ToSet
  <2>3. CASE ~(i <= Len(s))
    <3>1. i - Len(s) \in 1 .. Len(t) /\ Len(s) + (i - Len(s)) = i  BY <1>2, <2>3
    <3>2. x = t[i - Len(s)]  BY <1>1, <2>1, <3>1
    <3> QED  BY <1>2, <3>1, <3>2 DEF ToSet
  <2> QED  BY <2>2, <2>3
<1>4. ASSUME NEW x \in ToSet(s) PROVE x \in ToSet(s \o t)
  <2>1. PICK i \in 1 .. Len(s) : s[i] = x  BY <1>2 DEF ToSet
  <2>2. i \in 1 .. Len(s) + Len(t) /\ (s \o t)[i] = x  BY <1>1, <1>2, <2>1
  <2> QED  BY <1>2, <2>2 DEF ToSet
<1>5. ASSUME NEW x \in ToSet(t) PROVE x \in ToSet(s \o t)
  <2>1. PICK i \in 1 .. Len(t) : t[i] = x  BY <1>2 DEF ToSet
  <2>2. Len(s) + i \in 1 .. Len(s) + Len(t) /\ (s \o t)[Len(s) + i] = x  BY <1>1, <1>2, <2>1
  <2> QED  BY <1>2, <2>2 DEF ToSet
<1> QED  BY <1>1, <1>3, <1>4, <1>5

LEMMA SetAsSequence ==
  ASSUME NEW S, IsFiniteSet(S)
  PROVE  SetToSeq(S) \in Seq(S) /\ ToSet(SetToSeq(S)) = S
<1>1. Cardinality(S) \in Nat /\ ExistsBijection(1 .. Cardinality(S), S)
  BY FS_CardinalityType
<1>2. PICK f : f \in Bijection(1 .. Cardinality(S), S)  BY <1>1 DEF ExistsBijection
<1>3. f \in [1 .. Cardinality(S) -> S] /\ IsInjective(f)
  BY <1>2 DEF Bijection, Injection, IsInjective
<1>4. SetToSeq(S) \in [1 .. Cardinality(S) -> S] /\ IsInjective(SetToSeq(S))
  BY <1>3 DEF SetToSeq
<1>5. SetToSeq(S) \in Injection(1 .. Cardinality(S), S)  BY <1>4 DEF Injection
<1>6. IsFiniteSet(1 .. Cardinality(S)) /\ Cardinality(1 .. Cardinality(S)) = Cardinality(S)
  BY <1>1, FS_Interval
<1>7. SetToSeq(S) \in Surjection(1 .. Cardinality(S), S)
  BY <1>1, <1>5, <1>6, FS_Injection
<1>8. ToSet(SetToSeq(S)) = S  BY <1>4, <1>7 DEF ToSet, Surjection
<1>9. SetToSeq(S) \in Seq(S)  BY <1>1, <1>4
<1> QED  BY <1>8, <1>9

(* Any order of the members of a set has all of them.                      *)
LEMMA OrdersOfASet ==
  ASSUME NEW S, IsFiniteSet(S), NEW s \in SetToSeqs(S)
  PROVE  s \in Seq(S) /\ ToSet(s) = S /\ \A i, j \in DOMAIN s : i # j => s[i] # s[j]
<1>1. Cardinality(S) \in Nat /\ ExistsBijection(1 .. Cardinality(S), S)
  BY FS_CardinalityType
<1>4. s \in [1 .. Cardinality(S) -> S] /\ \A i, j \in 1 .. Cardinality(S) : i # j => s[i] # s[j]
  BY DEF SetToSeqs
<1>5. s \in Injection(1 .. Cardinality(S), S)  BY <1>4 DEF Injection, IsInjective
<1>6. IsFiniteSet(1 .. Cardinality(S)) /\ Cardinality(1 .. Cardinality(S)) = Cardinality(S)
  BY <1>1, FS_Interval
<1>7. s \in Surjection(1 .. Cardinality(S), S)
  BY <1>1, <1>5, <1>6, FS_Injection
<1>8. ToSet(s) = S  BY <1>4, <1>7 DEF ToSet, Surjection
<1>9. s \in Seq(S)  BY <1>1, <1>4
<1> QED  BY <1>4, <1>8, <1>9

------------------------------------------------------------------------------
(* Fields *)

(* FieldOf is the first field of a name.                                   *)
LEMMA FirstField ==
  ASSUME NEW F, F.names \in Seq(Names), NEW n
  PROVE  /\ n \in ToSet(F.names) =>
              /\ FieldOf(F, n) \in 1 .. Len(F.names) /\ F.names[FieldOf(F, n)] = n
              /\ \A j \in 1 .. Len(F.names) : F.names[j] = n => FieldOf(F, n) <= j
         /\ n \notin ToSet(F.names) => FieldOf(F, n) = 0
<1> DEFINE I == {i \in 1 .. Len(F.names) : F.names[i] = n}
<1>1. FieldOf(F, n) = IF I # {} THEN Min(I) ELSE 0  BY DEF FieldOf, SelectInSeq
<1>2. n \in ToSet(F.names) <=> I # {}
  <2>1. DOMAIN F.names = 1 .. Len(F.names)  OBVIOUS
  <2> QED  BY <2>1 DEF ToSet
<1>3. I # {} => Min(I) \in I /\ \A j \in I : Min(I) <= j
  <2>1. SUFFICES ASSUME I # {} PROVE Min(I) \in I /\ \A j \in I : Min(I) <= j
    OBVIOUS
  <2>2. I \subseteq Nat  OBVIOUS
  <2>. HIDE DEF I
  <2>3. PICK x \in I : \A y \in I : ~(y < x)  BY <2>1, <2>2, Least
  <2>4. \A y \in I : x <= y  BY <2>2, <2>3
  <2> QED  BY <2>3, <2>4 DEF Min
<1> QED  BY <1>1, <1>2, <1>3

LEMMA FieldIs ==
  ASSUME NEW F, F.names \in Seq(Names), NEW k \in 1 .. Len(F.names),
         \A j \in 1 .. Len(F.names) : F.names[j] = F.names[k] => k <= j
  PROVE  FieldOf(F, F.names[k]) = k
<1>1. DOMAIN F.names = 1 .. Len(F.names)  OBVIOUS
<1>2. F.names[k] \in ToSet(F.names)  BY <1>1 DEF ToSet
<1>3. /\ FieldOf(F, F.names[k]) \in 1 .. Len(F.names)
      /\ F.names[FieldOf(F, F.names[k])] = F.names[k]
      /\ FieldOf(F, F.names[k]) <= k
  BY <1>2, FirstField
<1>4. k <= FieldOf(F, F.names[k])  BY <1>3
<1> QED  BY <1>3, <1>4

------------------------------------------------------------------------------
(* Names *)

(* What the function at the top of the stack is known to be.               *)
Ready ==
  /\ IsFunction(Own) /\ IsReading(Reading) /\ Top \in Nat \ {0}
  /\ Agrees(Own, Reading, Top)
  /\ Own.closure <=> InClosure
  /\ Own.names # <<>> => Own.closure

CapturedHere(n) == n \in Reading.captured /\ Meaning(n).of.in # Top
Bare == InClosure /\ Reading.captured = {}

LEMMA Environment ==
  ASSUME Ready
  PROVE  HasEnv(Own) <=> Reading.captured # {}
<1>1. Own.names \in Seq(Names) /\ ToSet(Own.names) = Reading.captured
  BY DEF Ready, IsFunction, Agrees
<1>2. Own.names # <<>> <=> ToSet(Own.names) # {}
  <2>1. DOMAIN Own.names = 1 .. Len(Own.names) /\ Len(Own.names) \in Nat  BY <1>1
  <2>2. Own.names # <<>> <=> Len(Own.names) # 0  BY <1>1, <2>1
  <2>3. CASE Len(Own.names) = 0
    <3>1. DOMAIN Own.names = {}  BY <2>1, <2>3
    <3> QED  BY <2>2, <2>3, <3>1 DEF ToSet
  <2>4. CASE Len(Own.names) # 0
    <3>1. 1 \in DOMAIN Own.names  BY <2>1, <2>4
    <3>2. Own.names[1] \in ToSet(Own.names)  BY <3>1 DEF ToSet
    <3> QED  BY <2>2, <2>4, <3>2
  <2> QED  BY <2>3, <2>4
<1> QED  BY <1>1, <1>2 DEF HasEnv

(* A use of a name is of a literal, of a function of the module, of a      *)
(* variable of the function it is in, of a captured one or of nothing.     *)
LEMMA OfNoVariable ==
  ASSUME Ready, NEW n \in DOMAIN Functions \cup {Datum}
  PROVE  /\ n \notin DOMAIN Own.table /\ n \notin DOMAIN Reading.scope
         /\ n \notin Reading.captured /\ FieldOf(Own, n) = 0
         /\ Meaning(n) = [of |-> Variable(0, n), how |-> "value"]
         /\ ~CapturedHere(n) /\ IsKnown(n) /\ ~IsOwn(n)
         /\ (n = Datum) # (n \in DOMAIN Functions)
<1>1. n \notin Names /\ ((n = Datum) # (n \in DOMAIN Functions))
  BY NamesAssumption
<1>2. /\ DOMAIN Own.table \subseteq Names /\ DOMAIN Reading.scope \subseteq Names
      /\ Reading.captured \subseteq Names /\ Own.names \in Seq(Names)
      /\ ToSet(Own.names) = Reading.captured
  BY DEF Ready, IsFunction, IsReading, Maps, Agrees
<1>3. FieldOf(Own, n) = 0  BY <1>1, <1>2, FirstField
<1>4. Meaning(n) = [of |-> Variable(0, n), how |-> "value"]
  BY <1>1, <1>2 DEF Meaning
<1> QED  BY <1>1, <1>2, <1>3, <1>4 DEF CapturedHere, IsKnown, IsOwn

LEMMA OfVariable ==
  ASSUME Ready, NEW n \in DOMAIN Reading.scope
  PROVE  /\ n \in Names /\ n # Datum /\ n \notin DOMAIN Functions /\ IsKnown(n)
         /\ Meaning(n) = Reading.scope[n] /\ Meaning(n) \in Meanings
         /\ IsOwn(n) => OwnName(Own, Meaning(n), Top, n)
         /\ IsOwn(n) <=> ~CapturedHere(n)
         /\ CapturedHere(n) =>
              /\ CapturedName(Own, Meaning(n), Reading.used, n)
              /\ HasEnv(Own) /\ Own.closure /\ FieldOf(Own, n) # 0
              /\ FieldOf(Own, n) \in DOMAIN Own.fields /\ Field(Own, n) \in Pointers
<1>1. /\ DOMAIN Reading.scope \subseteq Names /\ Reading.scope[n] \in Meanings
      /\ Own.names \in Seq(Names) /\ Own.fields \in Seq(Pointers)
      /\ Len(Own.fields) = Len(Own.names)
      /\ ToSet(Own.names) = Reading.captured
  BY DEF Ready, IsFunction, IsReading, Maps, Agrees
<1>2. n \in Names /\ n # Datum /\ n \notin DOMAIN Functions
  BY <1>1, NamesAssumption
<1>3. Meaning(n) = Reading.scope[n]  BY DEF Meaning
<1>4. IF Reading.scope[n].of.in = Top THEN OwnName(Own, Reading.scope[n], Top, n)
      ELSE CapturedName(Own, Reading.scope[n], Reading.used, n)
  BY DEF Ready, Agrees
<1>5. ~IsOwn(n) => n \in ToSet(Own.names)  BY <1>4 DEF IsOwn, CapturedName
<1>6. ASSUME n \in ToSet(Own.names)
      PROVE  FieldOf(Own, n) \in DOMAIN Own.fields /\ FieldOf(Own, n) # 0
             /\ Field(Own, n) \in Pointers
  <2>1. FieldOf(Own, n) \in 1 .. Len(Own.names)  BY <1>1, <1>6, FirstField
  <2>2. FieldOf(Own, n) \in 1 .. Len(Own.fields)  BY <1>1, <2>1
  <2>3. DOMAIN Own.fields = 1 .. Len(Own.fields)  BY <1>1
  <2> QED  BY <1>1, <2>2, <2>3 DEF Field
<1>7. ASSUME n \in ToSet(Own.names) PROVE HasEnv(Own) /\ Own.closure
  <2>1. HasEnv(Own)  BY <1>1, <1>7, Environment
  <2> QED  BY <2>1 DEF Ready, HasEnv
<1> QED
  BY <1>1, <1>2, <1>3, <1>4, <1>5, <1>6, <1>7 DEF IsOwn, IsKnown, CapturedHere

LEMMA OfNothing ==
  ASSUME Ready, NEW n \in Expressions, ~IsKnown(n)
  PROVE  /\ n \in Names /\ n # Datum /\ n \notin DOMAIN Functions
         /\ n \notin DOMAIN Own.table /\ n \notin DOMAIN Reading.scope
         /\ n \notin Reading.captured /\ FieldOf(Own, n) = 0 /\ ~IsOwn(n)
<1>1. /\ DOMAIN Reading.scope = Reading.captured \cup DOMAIN Own.table
      /\ Own.names \in Seq(Names) /\ ToSet(Own.names) = Reading.captured
  BY DEF Ready, IsFunction, Agrees
<1>2. n \notin DOMAIN Reading.scope /\ n # Datum /\ n \notin DOMAIN Functions
  BY DEF IsKnown
<1>3. n \notin ToSet(Own.names)  BY <1>1, <1>2
<1>4. FieldOf(Own, n) = 0  BY <1>1, <1>3, FirstField
<1> QED  BY <1>1, <1>2, <1>4 DEF Expressions, IsOwn

------------------------------------------------------------------------------
(* One name *)

LEMMA LoadedIs ==
  ASSUME NEW v, DOMAIN v = {"inst", "levels", "of"}, NEW insts, v.inst \in insts
  PROVE  LoadedFrom(v, insts) = Value("load", v.levels - 1, v.of)
<1> DEFINE w == [v EXCEPT !.inst = "load"]
           x == [w EXCEPT !.levels = v.levels - 1]
<1>1. LoadedFrom(v, insts) = x  BY DEF LoadedFrom
<1>2. DOMAIN w = {"inst", "levels", "of"} /\ w.inst = "load" /\ w.of = v.of
  OBVIOUS
<1>3. DOMAIN x = {"inst", "levels", "of"} /\ x.inst = "load" /\ x.of = v.of
      /\ x.levels = v.levels - 1
  <2>. HIDE DEF w
  <2> QED  BY <1>2
<1>4. x = [k \in {"inst", "levels", "of"} |-> x[k]]
  <2>1. x = [k \in DOMAIN x |-> x[k]]  OBVIOUS
  <2>. HIDE DEF x
  <2> QED  BY <1>3, <2>1
<1>. HIDE DEF x
<1> QED  BY <1>1, <1>3, <1>4 DEF Value

(* What is found for a name; "again" if it is captured and was used before.*)
Looked(l, n, again) ==
  /\ l.name = n /\ l.meaning = Meaning(n) /\ l.again = again
  /\ l.got \in Pointers /\ Term(l.got) \in Pointers
  /\ l.got.inst = "function" <=> n \in DOMAIN Functions
  /\ n \in DOMAIN Functions => l.got.of = Variable(0, n)
  /\ Meaning(n).how # "shadow" =>
       /\ l.got.of = Meaning(n).of
       /\ Term(l.got).levels = 0 <=> Meaning(n).how # "address" /\ ~again

(* The symbol table when the names in P were used.                         *)
TableWith(t, P) ==
  /\ t = [n \in DOMAIN t |-> t[n]]
  /\ DOMAIN t = DOMAIN Own.table \cup {n \in Names \cap P : CapturedHere(n)}
  /\ \A n \in DOMAIN t :
       t[n] = IF n \in DOMAIN Own.table THEN Own.table[n] ELSE Slot(Own, n)

(* Ident, when all has gone well so far.                                   *)
Finds(c, n, P) ==
  LET d == Ident(c, n)
      again == CapturedHere(n) /\ n \in Reading.used \cup P
  IN  /\ d.failed \in {"no", "error", "crash"} /\ DOMAIN d = {"table", "found", "failed"}
      /\ d.failed = "no" =>
           /\ IsKnown(n) /\ ~NoEnvironment(n)
           /\ TableWith(d.table, P \cup {n})
           /\ \E l : Looked(l, n, again) /\ d.found = Append(c.found, l)
      /\ d.failed # "no" => d.table = c.table /\ d.found = c.found
      /\ d.failed = "crash" => NoEnvironment(n)
      /\ d.failed = "error" => ~IsKnown(n) /\ ~Bare

Going(c, P) ==
  /\ c.failed = "no" /\ DOMAIN c = {"table", "found", "failed"}
  /\ TableWith(c.table, P)
  /\ P = {c.found[i].name : i \in DOMAIN c.found}

LEMMA AgainIs ==
  ASSUME NEW c, NEW P, NEW n, Going(c, P)
  PROVE  Repeated(c, n) = (CapturedHere(n) /\ n \in Reading.used \cup P)
<1>1. n \in P <=> \E i \in DOMAIN c.found : c.found[i].name = n  BY DEF Going
<1> QED  BY <1>1 DEF Repeated, CapturedHere

LEMMA FindsNoVariable ==
  ASSUME Ready, NEW c, NEW P, Going(c, P), NEW n \in DOMAIN Functions \cup {Datum}
  PROVE  Finds(c, n, P)
<1> DEFINE again == CapturedHere(n) /\ n \in Reading.used \cup P
           known(v) == [c EXCEPT !.found = Append(c.found, Lookup(c, n, v))]
<1>1. /\ n \notin DOMAIN Own.table /\ n \notin DOMAIN Reading.scope
      /\ n \notin Reading.captured /\ FieldOf(Own, n) = 0
      /\ Meaning(n) = [of |-> Variable(0, n), how |-> "value"]
      /\ ~CapturedHere(n) /\ IsKnown(n) /\ ~IsOwn(n)
      /\ (n = Datum) # (n \in DOMAIN Functions)
  BY OfNoVariable
<1>2. /\ c.failed = "no" /\ DOMAIN c = {"table", "found", "failed"}
      /\ TableWith(c.table, P)
  BY DEF Going
<1>3. n \notin DOMAIN c.table  BY <1>1, <1>2 DEF TableWith
<1>4. HasEnv(Own) <=> Reading.captured # {}  BY Environment
<1>5. TableWith(c.table, P \cup {n})
  <2>1. {m \in Names \cap (P \cup {n}) : CapturedHere(m)} = {m \in Names \cap P : CapturedHere(m)}
    BY <1>1
  <2> QED  BY <1>2, <2>1 DEF TableWith
<1>6. Own.closure <=> InClosure  BY DEF Ready
<1>7. \A v : Lookup(c, n, v) = [name |-> n, got |-> v, meaning |-> Meaning(n), again |-> again]
  BY AgainIs DEF Lookup
<1>8. ASSUME NEW v \in Pointers, v.levels = 0, v.of = Variable(0, n), v.inst # "alloca",
             v.inst = "function" <=> n \in DOMAIN Functions
      PROVE  Looked(Lookup(c, n, v), n, again)
  <2>1. Term(v) = v  BY <1>8 DEF Term, LoadedFrom
  <2> QED  BY <1>1, <1>7, <1>8, <2>1 DEF Looked
<1>9. \A v : /\ known(v).failed = "no" /\ DOMAIN known(v) = {"table", "found", "failed"}
             /\ known(v).table = c.table /\ known(v).found = Append(c.found, Lookup(c, n, v))
  BY <1>2
<1>10. Variable(0, n) \in Variables  BY DEF Variable, Variables
<1>11. CASE n = Datum
  <2>1. Ident(c, n) = known(Constant)  BY <1>2, <1>11 DEF Ident
  <2>2. /\ Constant \in Pointers /\ Constant.levels = 0 /\ Constant.of = Variable(0, n)
        /\ Constant.inst # "alloca" /\ Constant.inst # "function"
    BY <1>10, <1>11 DEF Constant, Value, Pointers, Instructions
  <2>3. Looked(Lookup(c, n, Constant), n, again)  BY <1>1, <1>8, <1>11, <2>2
  <2>4. ~NoEnvironment(n)  BY <1>11 DEF NoEnvironment
  <2>. HIDE DEF known
  <2> QED  BY <1>1, <1>5, <1>9, <2>1, <2>3, <2>4 DEF Finds
<1>12. CASE n \in DOMAIN Functions /\ Own.closure /\ ~HasEnv(Own)
  <2>1. Ident(c, n) = [c EXCEPT !.failed = "crash"]
    BY <1>1, <1>2, <1>3, <1>12 DEF Ident
  <2>2. NoEnvironment(n)  BY <1>1, <1>4, <1>6, <1>12 DEF NoEnvironment
  <2> QED  BY <1>2, <2>1, <2>2 DEF Finds
<1>13. CASE n \in DOMAIN Functions /\ ~(Own.closure /\ ~HasEnv(Own))
  <2> DEFINE v == Value("function", 0, Variable(0, n))
  <2>1. Ident(c, n) = known(v)
    BY <1>1, <1>2, <1>3, <1>13 DEF Ident
  <2>2. /\ v \in Pointers /\ v.levels = 0 /\ v.of = Variable(0, n)
        /\ v.inst = "function"
    BY <1>10 DEF Value, Pointers, Instructions
  <2>. HIDE DEF v
  <2>3. Looked(Lookup(c, n, v), n, again)  BY <1>1, <1>8, <1>13, <2>2
  <2>4. ~NoEnvironment(n)  BY <1>4, <1>6, <1>13 DEF NoEnvironment
  <2>. HIDE DEF known
  <2> QED  BY <1>1, <1>5, <1>9, <2>1, <2>3, <2>4 DEF Finds
<1> QED  BY <1>11, <1>12, <1>13

LEMMA FindsVariable ==
  ASSUME Ready, NEW c, NEW P, Going(c, P), NEW n \in DOMAIN Reading.scope
  PROVE  Finds(c, n, P)
<1> DEFINE again == CapturedHere(n) /\ n \in Reading.used \cup P
           known(v) == [c EXCEPT !.found = Append(c.found, Lookup(c, n, v))]
           m == Meaning(n)
<1>1. /\ n \in Names /\ n # Datum /\ n \notin DOMAIN Functions /\ IsKnown(n)
      /\ m \in Meanings
      /\ IsOwn(n) => OwnName(Own, m, Top, n)
      /\ IsOwn(n) <=> ~CapturedHere(n)
      /\ CapturedHere(n) =>
           /\ CapturedName(Own, m, Reading.used, n)
           /\ HasEnv(Own) /\ Own.closure /\ FieldOf(Own, n) # 0
           /\ FieldOf(Own, n) \in DOMAIN Own.fields /\ Field(Own, n) \in Pointers
  BY OfVariable
<1>2. /\ c.failed = "no" /\ DOMAIN c = {"table", "found", "failed"}
      /\ TableWith(c.table, P)
  BY DEF Going
<1>3. \A v : Lookup(c, n, v) = [name |-> n, got |-> v, meaning |-> Meaning(n), again |-> again]
  BY AgainIs DEF Lookup
<1>4. \A v : /\ known(v).failed = "no" /\ DOMAIN known(v) = {"table", "found", "failed"}
             /\ known(v).table = c.table /\ known(v).found = Append(c.found, Lookup(c, n, v))
  BY <1>2
<1>5. ASSUME NEW v \in Pointers, Term(v) \in Pointers, v.inst # "function",
             m.how # "shadow" =>
               v.of = m.of /\ (Term(v).levels = 0 <=> m.how # "address" /\ ~again)
      PROVE  Looked(Lookup(c, n, v), n, again)
  BY <1>1, <1>3, <1>5 DEF Looked
<1>6. m.of \in Variables /\ DOMAIN m.of = {"in", "name"}  BY <1>1 DEF Meanings, Variables
<1>7. ~NoEnvironment(n)
  <2>1. IsOwn(n) \/ Reading.captured # {}  BY <1>1 DEF CapturedHere
  <2> QED  BY <2>1 DEF NoEnvironment
<1>8. CASE IsOwn(n)
  <2> DEFINE v == Own.table[n]
  <2>1. n \in DOMAIN Own.table /\ OwnName(Own, m, Top, n)  BY <1>1, <1>8 DEF OwnName
  <2>2. n \in DOMAIN c.table /\ c.table[n] = v  BY <1>2, <2>1 DEF TableWith
  <2>3. Ident(c, n) = known(v)  BY <1>1, <1>2, <2>2 DEF Ident
  <2>4. ~again /\ m.how # "address" /\ m.how # "shadow"  BY <1>1, <1>8, <2>1 DEF OwnName
  <2>5. \/ v = Value("arg", 0, m.of) \/ v = Value("alloca", 1, m.of)
    BY <2>1 DEF OwnName
  <2>. HIDE DEF m
  <2>6. v \in Pointers /\ v.of = m.of /\ v.inst # "function"
    BY <1>6, <2>5 DEF Value, Pointers, Instructions
  <2>7. Term(v) \in Pointers /\ Term(v).levels = 0
    <3>1. v = Value("arg", 0, m.of) => Term(v) = v  BY DEF Term, LoadedFrom, Value
    <3>2. ASSUME v = Value("alloca", 1, m.of) PROVE Term(v) = Value("load", 0, m.of)
      <4>1. DOMAIN v = {"inst", "levels", "of"} /\ v.inst = "alloca"
            /\ v.levels - 1 = 0 /\ v.of = m.of
        BY <3>2 DEF Value
      <4>. HIDE DEF v
      <4> QED  BY <4>1, LoadedIs DEF Term
    <3>. HIDE DEF v
    <3>3. Term(v) = Value("arg", 0, m.of) \/ Term(v) = Value("load", 0, m.of)
      BY <2>5, <3>1, <3>2
    <3> QED  BY <1>6, <3>3 DEF Value, Pointers, Instructions
  <2>. HIDE DEF v
  <2>8. Looked(Lookup(c, n, v), n, again)
    <3>. HIDE DEF again
    <3> QED  BY <1>5, <2>4, <2>6, <2>7
  <2>9. TableWith(c.table, P \cup {n})
    <3>1. {x \in Names \cap (P \cup {n}) : CapturedHere(x)} = {x \in Names \cap P : CapturedHere(x)}
      BY <1>1, <1>8
    <3> QED  BY <1>2, <3>1 DEF TableWith
  <2>. HIDE DEF known
  <2> QED  BY <1>1, <1>4, <1>7, <2>3, <2>8, <2>9 DEF Finds
<1>9. CASE CapturedHere(n) /\ n \in DOMAIN c.table
  <2> DEFINE v == Slot(Own, n)
  <2>1. CapturedName(Own, m, Reading.used, n)  BY <1>1, <1>9
  <2>2. c.table[n] = v
    <3>1. n \in DOMAIN Own.table => Own.table[n] = v  BY <2>1 DEF CapturedName
    <3> QED  BY <1>2, <1>9, <3>1 DEF TableWith
  <2>3. Ident(c, n) = known(v)  BY <1>1, <1>2, <1>9, <2>2 DEF Ident
  <2>4. again
    <3>1. n \in DOMAIN Own.table \/ n \in P  BY <1>2, <1>9 DEF TableWith
    <3> QED  BY <1>9, <2>1, <3>1 DEF CapturedName
  <2>5. Field(Own, n).levels \in Nat /\ Field(Own, n).of \in Variables
    BY <1>1, <1>9 DEF Pointers
  <2>6. v \in Pointers /\ v.of = Field(Own, n).of /\ v.inst = "gep"
        /\ v.levels = Field(Own, n).levels + 1 /\ Term(v) = v
    BY <2>5 DEF Slot, Value, Pointers, Instructions, Term, LoadedFrom
  <2>. HIDE DEF v
  <2>7. m.how # "shadow" => v.of = m.of /\ Term(v).levels # 0
    BY <2>1, <2>5, <2>6 DEF CapturedName
  <2>8. Looked(Lookup(c, n, v), n, again)
    <3>. HIDE DEF again, m
    <3> QED  BY <1>5, <2>4, <2>6, <2>7
  <2>9. TableWith(c.table, P \cup {n})
    <3>1. DOMAIN c.table = DOMAIN Own.table \cup {x \in Names \cap (P \cup {n}) : CapturedHere(x)}
      BY <1>1, <1>2, <1>9 DEF TableWith
    <3> QED  BY <1>2, <3>1 DEF TableWith
  <2>. HIDE DEF known
  <2> QED  BY <1>1, <1>4, <1>7, <2>3, <2>8, <2>9 DEF Finds
<1>10. CASE CapturedHere(n) /\ n \notin DOMAIN c.table
  <2> DEFINE slot == Slot(Own, n)
             v == LoadedFrom(slot, {"gep"})
             t == Binding(c.table, n, slot)
             d == [known(v) EXCEPT !.table = t]
  <2>1. CapturedName(Own, m, Reading.used, n) /\ HasEnv(Own) /\ Own.closure /\ FieldOf(Own, n) # 0
    BY <1>1, <1>10
  <2>2. Ident(c, n) = d
    BY <1>1, <1>2, <1>10, <2>1 DEF Ident, Slot, Field
  <2>3. n \notin DOMAIN Own.table /\ n \notin P
    BY <1>1, <1>2, <1>10 DEF TableWith
  <2>4. ~again  BY <2>1, <2>3 DEF CapturedName
  <2>5. Field(Own, n).levels \in Nat /\ Field(Own, n).of \in Variables
    BY <1>1, <1>10 DEF Pointers
  <2>6. v = Value("load", Field(Own, n).levels, Field(Own, n).of)
    <3>1. DOMAIN slot = {"inst", "levels", "of"} /\ slot.inst = "gep"
          /\ slot.levels - 1 = Field(Own, n).levels /\ slot.of = Field(Own, n).of
      BY <2>5 DEF Slot, Value
    <3>. HIDE DEF slot
    <3> QED  BY <3>1, LoadedIs
  <2>7. v \in Pointers /\ v.of = Field(Own, n).of /\ v.inst = "load"
        /\ v.levels = Field(Own, n).levels /\ Term(v) = v
    <3>. HIDE DEF v
    <3> QED  BY <2>5, <2>6 DEF Value, Pointers, Instructions, Term, LoadedFrom
  <2>. HIDE DEF v, slot
  <2>8. m.how # "shadow" => v.of = m.of /\ (Term(v).levels = 0 <=> m.how # "address")
    BY <1>1, <2>1, <2>5, <2>7 DEF CapturedName, Meanings
  <2>9. Looked(Lookup(c, n, v), n, again)
    <3>. HIDE DEF again, m
    <3> QED  BY <1>5, <2>4, <2>7, <2>8
  <2>10. DOMAIN t = DOMAIN c.table \cup {n} /\ t[n] = slot
         /\ t = [x \in DOMAIN t |-> t[x]]
         /\ \A x \in DOMAIN c.table : x # n => t[x] = c.table[x]
    <3>. HIDE DEF known
    <3> QED  BY DEF Binding
  <2>. HIDE DEF t
  <2>11. TableWith(t, P \cup {n})
    <3>1. {x \in Names \cap (P \cup {n}) : CapturedHere(x)}
            = {x \in Names \cap P : CapturedHere(x)} \cup {n}
      BY <1>1, <1>10
    <3>2. DOMAIN t = DOMAIN Own.table \cup {x \in Names \cap (P \cup {n}) : CapturedHere(x)}
      BY <1>2, <2>10, <3>1 DEF TableWith
    <3>3. ASSUME NEW x \in DOMAIN t
          PROVE  t[x] = IF x \in DOMAIN Own.table THEN Own.table[x] ELSE Slot(Own, x)
      BY <1>2, <1>10, <2>3, <2>10 DEF TableWith, slot
    <3> QED  BY <2>10, <3>2, <3>3 DEF TableWith
  <2>12. d.failed = "no" /\ DOMAIN d = {"table", "found", "failed"} /\ d.table = t
         /\ d.found = Append(c.found, Lookup(c, n, v))
    <3>1. DOMAIN known(v) = {"table", "found", "failed"}  BY <1>4
    <3>2. known(v).failed = "no" /\ known(v).found = Append(c.found, Lookup(c, n, v))  BY <1>4
    <3>. HIDE DEF known
    <3> QED  BY <3>1, <3>2
  <2>. HIDE DEF d
  <2> QED  BY <1>1, <1>7, <2>2, <2>9, <2>11, <2>12 DEF Finds
<1> QED  BY <1>1, <1>8, <1>9, <1>10

LEMMA FindsNothing ==
  ASSUME Ready, NEW c, NEW P, Going(c, P), NEW n \in Expressions, ~IsKnown(n)
  PROVE  Finds(c, n, P)
<1>1. /\ n \in Names /\ n # Datum /\ n \notin DOMAIN Functions
      /\ n \notin DOMAIN Own.table /\ n \notin DOMAIN Reading.scope
      /\ n \notin Reading.captured /\ FieldOf(Own, n) = 0 /\ ~IsOwn(n)
  BY OfNothing
<1>2. /\ c.failed = "no" /\ DOMAIN c = {"table", "found", "failed"}
      /\ TableWith(c.table, P)
  BY DEF Going
<1>3. n \notin DOMAIN c.table  BY <1>1, <1>2 DEF TableWith, CapturedHere
<1>4. HasEnv(Own) <=> Reading.captured # {}  BY Environment
<1>5. Own.closure <=> InClosure  BY DEF Ready
<1>6. CASE Own.closure /\ ~HasEnv(Own)
  <2>1. Ident(c, n) = [c EXCEPT !.failed = "crash"]
    BY <1>1, <1>2, <1>3, <1>6 DEF Ident
  <2>2. NoEnvironment(n)  BY <1>1, <1>4, <1>5, <1>6 DEF NoEnvironment
  <2> QED  BY <1>2, <2>1, <2>2 DEF Finds
<1>7. CASE ~(Own.closure /\ ~HasEnv(Own))
  <2>1. Ident(c, n) = [c EXCEPT !.failed = "error"]
    BY <1>1, <1>2, <1>3, <1>7 DEF Ident
  <2>2. ~Bare  BY <1>4, <1>5, <1>7 DEF Bare
  <2> QED  BY <1>2, <2>1, <2>2 DEF Finds
<1> QED  BY <1>6, <1>7

LEMMA IdentFinds ==
  ASSUME Ready, NEW c, NEW P, Going(c, P), NEW n \in Expressions
  PROVE  Finds(c, n, P)
<1>1. CASE ~IsKnown(n)  BY <1>1, FindsNothing
<1>2. CASE n \in DOMAIN Reading.scope  BY <1>2, FindsVariable
<1>3. CASE n \in DOMAIN Functions \cup {Datum}  BY <1>3, FindsNoVariable
<1> QED  BY <1>1, <1>2, <1>3 DEF IsKnown

------------------------------------------------------------------------------
(* Several names *)

LEMMA AppendedTo ==
  ASSUME NEW s, s \in Seq(ToSet(s)), NEW x
  PROVE  /\ Append(s, x) \in Seq(ToSet(Append(s, x)))
         /\ Len(Append(s, x)) = Len(s) + 1 /\ Append(s, x)[Len(s) + 1] = x
         /\ \A i \in 1 .. Len(s) : Append(s, x)[i] = s[i]
         /\ ToSet(Append(s, x)) = ToSet(s) \cup {x}
<1> DEFINE S == ToSet(s) \cup {x}
<1>1. s \in Seq(S) /\ x \in S  OBVIOUS
<1>2. /\ Append(s, x) \in Seq(S) /\ Len(Append(s, x)) = Len(s) + 1
      /\ Append(s, x)[Len(s) + 1] = x
      /\ \A i \in 1 .. Len(s) : Append(s, x)[i] = s[i]
  <2>. HIDE DEF S
  <2> QED  BY <1>1
<1>3. DOMAIN s = 1 .. Len(s) /\ DOMAIN Append(s, x) = 1 .. Len(s) + 1 /\ Len(s) \in Nat
  OBVIOUS
<1>4. ToSet(Append(s, x)) = S
  <2>1. ASSUME NEW i \in 1 .. Len(s) + 1 PROVE Append(s, x)[i] \in S
    <3>1. i \in 1 .. Len(s) \/ i = Len(s) + 1  BY <1>3
    <3> QED  BY <1>2, <1>3, <3>1 DEF ToSet
  <2>2. ASSUME NEW y \in S PROVE \E i \in 1 .. Len(s) + 1 : Append(s, x)[i] = y
    <3>1. CASE y = x  BY <1>2, <1>3, <3>1
    <3>2. CASE y \in ToSet(s)
      <4>1. PICK i \in 1 .. Len(s) : s[i] = y  BY <1>3, <3>2 DEF ToSet
      <4> QED  BY <1>2, <1>3, <4>1
    <3> QED  BY <3>1, <3>2
  <2>. HIDE DEF S
  <2> QED  BY <1>3, <2>1, <2>2 DEF ToSet
<1>5. \A T : Append(s, x) \in Seq(S) /\ ToSet(Append(s, x)) = T /\ T = S => Append(s, x) \in Seq(T)
  OBVIOUS
<1> QED  BY <1>2, <1>4, <1>5

Again(names, i) ==
  CapturedHere(names[i]) /\ names[i] \in Reading.used \cup {names[j] : j \in 1 .. i - 1}

(* The compilation of the first k names.                                   *)
Stage(c, taken, names, k) ==
  /\ DOMAIN c = {"table", "found", "failed"} /\ c.failed \in {"no", "error", "crash"}
  /\ c.found \in Seq(ToSet(c.found)) /\ Len(c.found) <= k
  /\ TableWith(c.table, {names[i] : i \in 1 .. Len(c.found)})
  /\ \A i \in 1 .. Len(c.found) :
       /\ Looked(c.found[i], names[i], Again(names, i))
       /\ IsKnown(names[i]) /\ ~NoEnvironment(names[i]) /\ i \notin taken
  /\ c.failed = "no" => Len(c.found) = k
  /\ c.failed = "crash" => \E i \in 1 .. k : NoEnvironment(names[i])
  /\ c.failed = "error" =>
       \/ \E i \in 1 .. k : i \in taken
       \/ ~Bare /\ \E i \in 1 .. k : ~IsKnown(names[i])

Start == [table |-> Own.table, found |-> <<>>, failed |-> "no"]
After(c, taken, names, i) ==
  IF c.failed = "no" /\ i \in taken THEN [c EXCEPT !.failed = "error"]
  ELSE Ident(c, names[i])

LEMMA StartStage ==
  ASSUME Ready, NEW taken, NEW names
  PROVE  Stage(Start, taken, names, 0)
<1>1. \A P : P = {} => TableWith(Own.table, P)
  <2>1. Own.table \in [DOMAIN Own.table -> Pointers]  BY DEF Ready, IsFunction, Maps
  <2>2. Own.table = [n \in DOMAIN Own.table |-> Own.table[n]]  BY <2>1
  <2> QED  BY <2>2 DEF TableWith
<1>2. /\ DOMAIN Start = {"table", "found", "failed"} /\ Start.failed = "no"
      /\ Start.found = <<>> /\ Start.table = Own.table
  BY DEF Start
<1>3. Len(Start.found) = 0 /\ Start.found \in Seq(ToSet(Start.found))  BY <1>2
<1>4. {names[i] : i \in 1 .. Len(Start.found)} = {}  BY <1>3
<1> QED  BY <1>1, <1>2, <1>3, <1>4 DEF Stage

LEMMA NextStage ==
  ASSUME Ready, NEW taken, NEW names \in Seq(Expressions), NEW k \in 1 .. Len(names),
         NEW c, Stage(c, taken, names, k - 1)
  PROVE  Stage(After(c, taken, names, k), taken, names, k)
<1> PICK d : d = After(c, taken, names, k)  OBVIOUS
<1> SUFFICES Stage(d, taken, names, k)  OBVIOUS
<1> DEFINE P == {names[i] : i \in 1 .. Len(c.found)}
<1>1. /\ DOMAIN c = {"table", "found", "failed"} /\ c.failed \in {"no", "error", "crash"}
      /\ c.found \in Seq(ToSet(c.found)) /\ Len(c.found) <= k - 1
      /\ TableWith(c.table, P)
      /\ \A i \in 1 .. Len(c.found) :
           /\ Looked(c.found[i], names[i], Again(names, i))
           /\ IsKnown(names[i]) /\ ~NoEnvironment(names[i]) /\ i \notin taken
      /\ c.failed = "no" => Len(c.found) = k - 1
  BY DEF Stage
<1>2. /\ c.failed = "crash" => \E i \in 1 .. k - 1 : NoEnvironment(names[i])
      /\ c.failed = "error" =>
           \/ \E i \in 1 .. k - 1 : i \in taken
           \/ ~Bare /\ \E i \in 1 .. k - 1 : ~IsKnown(names[i])
  BY DEF Stage
<1>3. /\ names[k] \in Expressions /\ k \in Nat /\ 1 .. k - 1 \subseteq 1 .. k /\ k \in 1 .. k
      /\ Len(c.found) \in Nat
  BY <1>1
<1>4. CASE c.failed # "no"
  <2>1. d = c  BY <1>4 DEF After, Ident
  <2>2. Stage(c, taken, names, k)
    <3>1. Len(c.found) <= k  BY <1>1, <1>3
    <3>2. c.failed = "crash" => \E i \in 1 .. k : NoEnvironment(names[i])  BY <1>2, <1>3
    <3>3. c.failed = "error" => \/ \E i \in 1 .. k : i \in taken
                                \/ ~Bare /\ \E i \in 1 .. k : ~IsKnown(names[i])
      BY <1>2, <1>3
    <3> QED  BY <1>1, <1>4, <3>1, <3>2, <3>3 DEF Stage
  <2> QED  BY <2>1, <2>2
<1>5. CASE c.failed = "no" /\ k \in taken
  <2>1. d = [c EXCEPT !.failed = "error"]  BY <1>5 DEF After
  <2>2. /\ DOMAIN d = {"table", "found", "failed"} /\ d.failed = "error"
        /\ d.found = c.found /\ d.table = c.table
    BY <1>1, <2>1
  <2>3. Len(c.found) <= k  BY <1>1, <1>3
  <2>4. \E i \in 1 .. k : i \in taken  BY <1>3, <1>5
  <2> QED  BY <1>1, <2>2, <2>3, <2>4 DEF Stage
<1>6. CASE c.failed = "no" /\ k \notin taken
  <2>1. d = Ident(c, names[k])  BY <1>6 DEF After
  <2>2. Len(c.found) = k - 1  BY <1>1, <1>6
  <2>3. P = {c.found[i].name : i \in DOMAIN c.found}
    <3>1. DOMAIN c.found = 1 .. Len(c.found)  BY <1>1
    <3>2. \A i \in 1 .. Len(c.found) : c.found[i].name = names[i]  BY <1>1 DEF Looked
    <3> QED  BY <3>1, <3>2
  <2>4. Finds(c, names[k], P)
    <3>1. Going(c, P)
      <4>. HIDE DEF P
      <4> QED  BY <1>1, <1>6, <2>3 DEF Going
    <3>. HIDE DEF P
    <3> QED  BY <1>3, <3>1, IdentFinds
  <2> DEFINE again == CapturedHere(names[k]) /\ names[k] \in Reading.used \cup P
  <2>5. again = Again(names, k)  BY <2>2 DEF Again
  <2>. HIDE DEF P, again
  <2>6. /\ d.failed \in {"no", "error", "crash"} /\ DOMAIN d = {"table", "found", "failed"}
        /\ d.failed = "no" =>
             /\ IsKnown(names[k]) /\ ~NoEnvironment(names[k])
             /\ TableWith(d.table, P \cup {names[k]})
             /\ \E l : Looked(l, names[k], again) /\ d.found = Append(c.found, l)
        /\ d.failed # "no" => d.table = c.table /\ d.found = c.found
        /\ d.failed = "crash" => NoEnvironment(names[k])
        /\ d.failed = "error" => ~IsKnown(names[k]) /\ ~Bare
    BY <2>1, <2>4 DEF Finds, again
  <2>7. CASE d.failed # "no"
    <3>1. Len(d.found) <= k  BY <1>1, <1>3, <2>6, <2>7
    <3>2. d.failed = "crash" => \E i \in 1 .. k : NoEnvironment(names[i])  BY <1>3, <2>6
    <3>3. d.failed = "error" => \/ \E i \in 1 .. k : i \in taken
                                \/ ~Bare /\ \E i \in 1 .. k : ~IsKnown(names[i])
      BY <1>3, <2>6
    <3>4. d.table = c.table /\ d.found = c.found  BY <2>6, <2>7
    <3>5. TableWith(d.table, {names[i] : i \in 1 .. Len(d.found)})
      BY <1>1, <3>4 DEF P
    <3>6. /\ d.found \in Seq(ToSet(d.found))
          /\ \A i \in 1 .. Len(d.found) :
               /\ Looked(d.found[i], names[i], Again(names, i))
               /\ IsKnown(names[i]) /\ ~NoEnvironment(names[i]) /\ i \notin taken
      BY <1>1, <3>4
    <3> QED  BY <2>6, <2>7, <3>1, <3>2, <3>3, <3>5, <3>6 DEF Stage
  <2>8. CASE d.failed = "no"
    <3>1. PICK l : Looked(l, names[k], again) /\ d.found = Append(c.found, l)  BY <2>6, <2>8
    <3>2. /\ d.found \in Seq(ToSet(d.found)) /\ Len(d.found) = k /\ d.found[k] = l
          /\ \A i \in 1 .. k - 1 : d.found[i] = c.found[i]
      <4>1. /\ Append(c.found, l) \in Seq(ToSet(Append(c.found, l)))
            /\ Len(Append(c.found, l)) = Len(c.found) + 1
            /\ Append(c.found, l)[Len(c.found) + 1] = l
            /\ \A i \in 1 .. Len(c.found) : Append(c.found, l)[i] = c.found[i]
        BY <1>1, AppendedTo
      <4>2. Len(c.found) + 1 = k  BY <1>3, <2>2
      <4> QED  BY <2>2, <3>1, <4>1, <4>2
    <3>3. ASSUME NEW i \in 1 .. k
          PROVE  /\ Looked(d.found[i], names[i], Again(names, i))
                 /\ IsKnown(names[i]) /\ ~NoEnvironment(names[i]) /\ i \notin taken
      <4>1. CASE i = k  BY <1>6, <2>5, <2>6, <2>8, <3>1, <3>2, <4>1
      <4>2. CASE i # k
        <5>1. i \in 1 .. k - 1  BY <1>3, <4>2
        <5> QED  BY <1>1, <2>2, <3>2, <5>1
      <4> QED  BY <4>1, <4>2
    <3>4. P \cup {names[k]} = {names[i] : i \in 1 .. k}
      <4>1. 1 .. k = (1 .. k - 1) \cup {k}  BY <1>3
      <4> QED  BY <2>2, <4>1 DEF P
    <3>5. TableWith(d.table, {names[i] : i \in 1 .. k})  BY <2>6, <2>8, <3>4
    <3>6. Len(d.found) <= k  BY <1>3, <3>2
    <3> QED  BY <2>6, <2>8, <3>2, <3>3, <3>5, <3>6 DEF Stage
  <2> QED  BY <2>7, <2>8
<1> QED  BY <1>1, <1>4, <1>5, <1>6

(* The values CompileUnless goes through.                                  *)
Stages(g, taken, names, k) ==
  g = [i \in 0 .. k |->
         IF i = 0 THEN [table |-> Own.table, found |-> <<>>, failed |-> "no"]
         ELSE IF g[i - 1].failed = "no" /\ i \in taken
           THEN [g[i - 1] EXCEPT !.failed = "error"]
         ELSE Ident(g[i - 1], names[i])]

LEMMA StagesAre ==
  ASSUME NEW g, NEW taken, NEW names, NEW k \in Nat
  PROVE  Stages(g, taken, names, k) <=>
           g = [i \in 0 .. k |-> IF i = 0 THEN Start ELSE After(g[i - 1], taken, names, i)]
  BY DEF Stages, Start, After

LEMMA StagesExist ==
  ASSUME NEW taken, NEW names, NEW k \in Nat
  PROVE  \E g : Stages(g, taken, names, k)
<1> DEFINE Bad == {n \in 0 .. k : ~\E g : Stages(g, taken, names, n)}
<1>1. SUFFICES ASSUME Bad # {} PROVE FALSE
  OBVIOUS
<1>2. PICK n \in Bad : \A y \in Bad : ~(y < n)
  <2>1. Bad \subseteq Nat  OBVIOUS
  <2>. HIDE DEF Bad
  <2> QED  BY <1>1, <2>1, Least
<1>3. CASE n = 0
  <2> DEFINE h == [x \in 0 .. 0 |-> Start]
  <2>1. h = [i \in 0 .. 0 |-> IF i = 0 THEN Start ELSE After(h[i - 1], taken, names, i)]
    OBVIOUS
  <2>2. Stages(h, taken, names, 0)
    <3>. HIDE DEF h
    <3> QED  BY <2>1, StagesAre
  <2> QED  BY <1>2, <1>3, <2>2
<1>4. CASE n # 0
  <2>1. n \in Nat /\ n - 1 \in 0 .. k /\ n - 1 < n /\ n - 1 \in Nat  BY <1>4
  <2>2. PICK g : Stages(g, taken, names, n - 1)  BY <1>2, <2>1
  <2> DEFINE next == After(g[n - 1], taken, names, n)
             h == [x \in 0 .. n |-> IF x = n THEN next ELSE g[x]]
  <2>3. \A x \in 0 .. n - 1 : g[x] = IF x = 0 THEN Start ELSE After(g[x - 1], taken, names, x)
    <3>1. g = [i \in 0 .. n - 1 |-> IF i = 0 THEN Start ELSE After(g[i - 1], taken, names, i)]
      BY <2>1, <2>2, StagesAre
    <3> QED  BY <3>1
  <2>4. ASSUME NEW x \in 0 .. n
        PROVE  h[x] = IF x = 0 THEN Start ELSE After(h[x - 1], taken, names, x)
    <3>1. CASE x = n
      <4>1. h[x] = next /\ h[x - 1] = g[n - 1]
        <5>. HIDE DEF next
        <5> QED  BY <2>1, <3>1
      <4>. HIDE DEF h
      <4> QED  BY <1>4, <3>1, <4>1
    <3>2. CASE x # n
      <4>1. x \in 0 .. n - 1 /\ (x # 0 => x - 1 \in 0 .. n /\ x - 1 # n)  BY <2>1, <3>2
      <4>2. h[x] = g[x] /\ (x # 0 => h[x - 1] = g[x - 1])
        <5>. HIDE DEF next
        <5> QED  BY <3>2, <4>1
      <4>. HIDE DEF h
      <4> QED  BY <2>3, <4>1, <4>2
    <3> QED  BY <3>1, <3>2
  <2>5. h = [x \in 0 .. n |-> IF x = 0 THEN Start ELSE After(h[x - 1], taken, names, x)]
    <3>1. h = [x \in 0 .. n |-> h[x]]  OBVIOUS
    <3>. HIDE DEF h
    <3> QED  BY <2>4, <3>1
  <2>6. Stages(h, taken, names, n)
    <3>. HIDE DEF h
    <3> QED  BY <2>1, <2>5, StagesAre
  <2>. HIDE DEF h
  <2> QED  BY <1>2, <2>6
<1> QED  BY <1>3, <1>4

LEMMA StagesHold ==
  ASSUME Ready, NEW taken, NEW names \in Seq(Expressions),
         NEW g, Stages(g, taken, names, Len(names))
  PROVE  \A n \in 0 .. Len(names) : Stage(g[n], taken, names, n)
<1> DEFINE Bad == {n \in 0 .. Len(names) : ~Stage(g[n], taken, names, n)}
<1>1. SUFFICES ASSUME Bad # {} PROVE FALSE
  OBVIOUS
<1>2. PICK n \in Bad : \A y \in Bad : ~(y < n)
  <2>1. Bad \subseteq Nat  OBVIOUS
  <2>. HIDE DEF Bad
  <2> QED  BY <1>1, <2>1, Least
<1>0. g = [i \in 0 .. Len(names) |-> IF i = 0 THEN Start ELSE After(g[i - 1], taken, names, i)]
  <2>1. Len(names) \in Nat  OBVIOUS
  <2> QED  BY <2>1, StagesAre
<1>3. g[n] = IF n = 0 THEN Start ELSE After(g[n - 1], taken, names, n)
  <2>1. n \in 0 .. Len(names)  BY <1>2
  <2> QED  BY <1>0, <2>1
<1>4. CASE n = 0
  <2>1. g[n] = Start  BY <1>3, <1>4
  <2> QED  BY <1>2, <1>4, <2>1, StartStage
<1>5. CASE n # 0
  <2>1. n - 1 \in 0 .. Len(names) /\ n - 1 < n /\ n \in 1 .. Len(names)  BY <1>2, <1>5
  <2>2. Stage(g[n - 1], taken, names, n - 1)  BY <1>2, <2>1
  <2>3. g[n] = After(g[n - 1], taken, names, n)  BY <1>3, <1>5
  <2>4. Stage(g[n], taken, names, n)  BY <2>1, <2>2, <2>3, NextStage
  <2> QED  BY <1>2, <2>4
<1> QED  BY <1>4, <1>5

(* What the compilation of any names comes to.                             *)
LEMMA CompileComesTo ==
  ASSUME Ready, NEW taken, NEW names \in Seq(Expressions)
  PROVE  Stage(CompileUnless(taken, names), taken, names, Len(names))
<1> DEFINE g == CHOOSE f : Stages(f, taken, names, Len(names))
<1>1. Len(names) \in Nat  OBVIOUS
<1>2. Stages(g, taken, names, Len(names))
  <2>1. \E f : Stages(f, taken, names, Len(names))  BY <1>1, StagesExist
  <2> QED  BY <2>1
<1>3. CompileUnless(taken, names) = g[Len(names)]  BY DEF CompileUnless, Stages
<1>. HIDE DEF g
<1>4. Stage(g[Len(names)], taken, names, Len(names))
  <2>1. Len(names) \in 0 .. Len(names)  BY <1>1
  <2> QED  BY <1>2, <2>1, StagesHold
<1> QED  BY <1>3, <1>4

(* Compilation crashes exactly where a name is looked up in an environment *)
(* that is not there, and fails otherwise if a name is not known.          *)
LEMMA CompileFails ==
  ASSUME Ready, NEW names \in Seq(Expressions)
  PROVE  /\ Compile(names).failed \in {"no", "error", "crash"}
         /\ Compile(names).failed = "crash" <=> Breaks(ToSet(names))
         /\ Compile(names).failed = "no" <=>
              ~Breaks(ToSet(names)) /\ \A n \in ToSet(names) : IsKnown(n)
<1> PICK c : c = Compile(names)  OBVIOUS
<1>1. Stage(c, {}, names, Len(names))  BY CompileComesTo DEF Compile
<1>2. ToSet(names) = {names[i] : i \in 1 .. Len(names)}
  <2>1. DOMAIN names = 1 .. Len(names)  OBVIOUS
  <2> QED  BY <2>1 DEF ToSet
<1>3. c.failed \in {"no", "error", "crash"}  BY <1>1 DEF Stage
<1>4. c.failed = "crash" => Breaks(ToSet(names))  BY <1>1, <1>2 DEF Stage, Breaks
<1>5. c.failed = "no" => ~Breaks(ToSet(names)) /\ \A n \in ToSet(names) : IsKnown(n)
  BY <1>1, <1>2 DEF Stage, Breaks
<1>6. c.failed = "error" => ~Bare /\ \E n \in ToSet(names) : ~IsKnown(n)
  BY <1>1, <1>2 DEF Stage
<1>7. Breaks(ToSet(names)) => Bare  BY DEF Breaks, NoEnvironment, Bare
<1> QED  BY <1>3, <1>4, <1>5, <1>6, <1>7

(* Otherwise every name was found, and those captured are in the table.    *)
LEMMA CompileFinds ==
  ASSUME Ready, NEW names \in Seq(Expressions), Compile(names).failed = "no"
  PROVE  LET c == Compile(names)
         IN  /\ c.found \in Seq(ToSet(c.found)) /\ Len(c.found) = Len(names)
             /\ \A i \in 1 .. Len(names) : Looked(c.found[i], names[i], Again(names, i))
             /\ TableWith(c.table, ToSet(names))
<1> PICK c : c = Compile(names)  OBVIOUS
<1>1. Stage(c, {}, names, Len(names))  BY CompileComesTo DEF Compile
<1>2. ToSet(names) = {names[i] : i \in 1 .. Len(names)}
  <2>1. DOMAIN names = 1 .. Len(names)  OBVIOUS
  <2> QED  BY <2>1 DEF ToSet
<1>3. Len(c.found) = Len(names)  BY <1>1 DEF Stage
<1> QED  BY <1>1, <1>2, <1>3 DEF Stage

(* The names it used.                                                      *)
LEMMA CompileUses ==
  ASSUME Ready, NEW names \in Seq(Expressions), Compile(names).failed = "no"
  PROVE  Used(Compile(names)) = Reading.used \cup ToSet(names)
<1> PICK c : c = Compile(names)  OBVIOUS
<1>1. /\ c.found \in Seq(ToSet(c.found)) /\ Len(c.found) = Len(names)
      /\ \A i \in 1 .. Len(names) : Looked(c.found[i], names[i], Again(names, i))
  BY CompileFinds
<1>2. DOMAIN c.found = 1 .. Len(names) /\ DOMAIN names = 1 .. Len(names)  BY <1>1
<1>3. \A i \in 1 .. Len(names) : c.found[i].name = names[i]  BY <1>1 DEF Looked
<1>4. {c.found[i].name : i \in DOMAIN c.found} = ToSet(names)
  BY <1>2, <1>3 DEF ToSet
<1> QED  BY <1>4 DEF Used

------------------------------------------------------------------------------
(* What follows for names *)

LEMMA ReadyNow ==
  ASSUME IInv
  PROVE  /\ Ready
         /\ Len(building) \in Nat \ {0} /\ Len(meant) = Len(building)
         /\ Top = building[Len(building)] /\ Own = functions[Top]
         /\ Reading = meant[Len(building)] /\ Top \in 1 .. Len(functions)
         /\ DOMAIN building = 1 .. Len(building) /\ DOMAIN meant = 1 .. Len(building)
         /\ DOMAIN functions = 1 .. Len(functions) /\ Len(functions) \in Nat
<1>1. /\ functions \in Seq(ToSet(functions)) /\ building \in Seq(1 .. Len(functions))
      /\ meant \in Seq(ToSet(meant)) /\ building # <<>> /\ Len(meant) = Len(building)
  BY DEF IInv, TypeOK
<1>2. /\ Len(building) \in Nat \ {0} /\ DOMAIN building = 1 .. Len(building)
      /\ DOMAIN meant = 1 .. Len(building) /\ DOMAIN functions = 1 .. Len(functions)
      /\ Len(functions) \in Nat /\ Len(building) \in DOMAIN building
  BY <1>1
<1>3. Top = building[Len(building)] /\ Own = functions[Top] /\ Reading = meant[Len(building)]
  BY <1>1 DEF Top, Own, Reading, Last
<1>4. Top \in 1 .. Len(functions)  BY <1>1, <1>2, <1>3
<1>5. IsFunction(Own) /\ IsReading(Reading)  BY <1>2, <1>3, <1>4 DEF IInv, TypeOK
<1>6. Agrees(Own, Reading, Top)  BY <1>2, <1>3 DEF IInv, NamesAgree
<1>7. Own.closure <=> InClosure  BY <1>1, <1>2, <1>3 DEF IInv, Nested, InClosure
<1>8. Own.names # <<>> => Own.closure
  <2>1. CASE Len(building) = 1  BY <1>3, <2>1 DEF IInv, Nested
  <2>2. CASE Len(building) # 1
    <3>1. Len(building) > 1  BY <1>2, <2>2
    <3> QED  BY <1>2, <1>3, <3>1 DEF IInv, Nested
  <2> QED  BY <2>1, <2>2
<1> QED  BY <1>1, <1>2, <1>3, <1>4, <1>5, <1>6, <1>7, <1>8 DEF Ready

LEMMA TwoUses ==
  ASSUME Ready, NEW n \in DOMAIN Reading.scope
  PROVE  /\ Len(Uses(n)) = 2
         /\ Looked(Uses(n)[1], n, CapturedHere(n) /\ n \in Reading.used)
         /\ Looked(Uses(n)[2], n, CapturedHere(n))
<1>1. n \in Names /\ IsKnown(n) /\ (IsOwn(n) <=> ~CapturedHere(n))  BY OfVariable
<1>2. ~NoEnvironment(n)
  <2>1. IsOwn(n) \/ Reading.captured # {}  BY <1>1 DEF CapturedHere
  <2> QED  BY <2>1 DEF NoEnvironment
<1> PICK names : names = <<n, n>>  OBVIOUS
<1>3. /\ names \in Seq(Expressions) /\ Len(names) = 2 /\ names[1] = n /\ names[2] = n
      /\ ToSet(names) = {n}
  <2>1. n \in Expressions  BY <1>1 DEF Expressions
  <2>2. DOMAIN names = {1, 2} /\ names[1] = n /\ names[2] = n  OBVIOUS
  <2>3. ToSet(names) = {n}  BY <2>2 DEF ToSet
  <2> QED  BY <2>1, <2>3
<1>4. Compile(names).failed = "no"
  <2>1. ~Breaks(ToSet(names))  BY <1>2, <1>3 DEF Breaks
  <2> QED  BY <1>1, <1>3, <2>1, CompileFails
<1>5. /\ Len(Compile(names).found) = 2
      /\ \A i \in 1 .. 2 : Looked(Compile(names).found[i], names[i], Again(names, i))
  BY <1>3, <1>4, CompileFinds
<1>6. Again(names, 1) = (CapturedHere(n) /\ n \in Reading.used)
  <2>1. {names[j] : j \in 1 .. 1 - 1} = {}  OBVIOUS
  <2> QED  BY <1>3, <2>1 DEF Again
<1>7. Again(names, 2) = CapturedHere(n)
  <2>1. {names[j] : j \in 1 .. 2 - 1} = {n}  BY <1>3
  <2> QED  BY <1>3, <2>1 DEF Again, CapturedHere
<1>8. Uses(n) = Compile(names).found  BY DEF Uses
<1> QED  BY <1>3, <1>5, <1>6, <1>7, <1>8

LEMMA NamesAreFound == IInv => NamesMeanTheirVariables
<1> SUFFICES ASSUME IInv, NEW n \in Followed
             PROVE  Len(Uses(n)) = 2 /\ \A i \in {1, 2} : Uses(n)[i].got.of = Meaning(n).of
  BY DEF NamesMeanTheirVariables
<1>1. Ready  BY ReadyNow
<1>2. n \in DOMAIN Reading.scope /\ Meaning(n).how # "shadow"  BY DEF Followed
<1>3. /\ Len(Uses(n)) = 2
      /\ Looked(Uses(n)[1], n, CapturedHere(n) /\ n \in Reading.used)
      /\ Looked(Uses(n)[2], n, CapturedHere(n))
  BY <1>1, <1>2, TwoUses
<1> QED  BY <1>2, <1>3 DEF Looked

LEMMA ValuesAreFound == IInv => ValuesUnlessAddressed
<1> SUFFICES ASSUME IInv, NEW n \in Followed, NEW i \in {1, 2}
             PROVE  Term(Uses(n)[i].got).levels = 0
                      <=> /\ Meaning(n).how # "address"
                          /\ Meaning(n).of.in # Top => i = 1 /\ n \notin Reading.used
  BY DEF ValuesUnlessAddressed
<1>1. Ready  BY ReadyNow
<1>2. n \in DOMAIN Reading.scope /\ Meaning(n).how # "shadow"  BY DEF Followed
<1>3. /\ Looked(Uses(n)[1], n, CapturedHere(n) /\ n \in Reading.used)
      /\ Looked(Uses(n)[2], n, CapturedHere(n))
  BY <1>1, <1>2, TwoUses
<1>4. CapturedHere(n) <=> Meaning(n).of.in # Top
  <2>1. IsOwn(n) <=> ~CapturedHere(n)  BY <1>1, <1>2, OfVariable
  <2>2. Meaning(n) = Reading.scope[n]  BY <1>1, <1>2, OfVariable
  <2> QED  BY <1>2, <2>1, <2>2 DEF IsOwn
<1>5. CASE i = 1  BY <1>2, <1>3, <1>4, <1>5 DEF Looked
<1>6. CASE i = 2  BY <1>2, <1>3, <1>4, <1>6 DEF Looked
<1> QED  BY <1>5, <1>6

------------------------------------------------------------------------------
(* What compiles *)

LEMMA TableHas ==
  ASSUME Ready, NEW t, NEW P, TableWith(t, P), NEW n
  PROVE  n \in DOMAIN t <=> IsOwn(n) \/ (n \in Reading.captured /\ n \in Reading.used \cup P)
<1>1. /\ DOMAIN t = DOMAIN Own.table \cup {m \in Names \cap P : CapturedHere(m)}
      /\ DOMAIN Reading.scope = Reading.captured \cup DOMAIN Own.table
  BY DEF TableWith, Ready, Agrees
<1>2. CASE n \notin DOMAIN Reading.scope
  BY <1>1, <1>2 DEF IsOwn, CapturedHere
<1>3. CASE n \in DOMAIN Reading.scope
  <2>1. /\ n \in Names
        /\ IsOwn(n) => n \in DOMAIN Own.table
        /\ IsOwn(n) <=> ~CapturedHere(n)
        /\ CapturedHere(n) => (n \in DOMAIN Own.table <=> n \in Reading.used)
    BY <1>3, OfVariable DEF OwnName, CapturedName
  <2>2. CapturedHere(n) => n \in Reading.captured  BY DEF CapturedHere
  <2> QED  BY <1>1, <2>1, <2>2
<1> QED  BY <1>2, <1>3

LEMMA LetsCompile ==
  ASSUME Ready, NEW v \in Expressions, NEW n \in Targets
  PROVE  LetComesTo(Compile(<<v>>), n)
           = Come(Breaks({v}), ~IsKnown(v) \/ IsTaken(n, v))
<1> PICK names : names = <<v>>  OBVIOUS
<1> PICK c : c = Compile(names)  OBVIOUS
<1>1. names \in Seq(Expressions) /\ ToSet(names) = {v}
  <2>1. DOMAIN names = {1} /\ names[1] = v  OBVIOUS
  <2> QED  BY <2>1 DEF ToSet
<1>2. /\ c.failed \in {"no", "error", "crash"}
      /\ c.failed = "crash" <=> Breaks({v})
      /\ c.failed = "no" <=> ~Breaks({v}) /\ IsKnown(v)
  BY <1>1, CompileFails
<1>3. CASE c.failed # "no"  BY <1>2, <1>3 DEF LetComesTo, Come
<1>4. CASE c.failed = "no"
  <2>1. TableWith(c.table, {v})  BY <1>1, <1>4, CompileFinds
  <2>2. n \in DOMAIN c.table <=> IsOwn(n) \/ (n \in Reading.captured /\ n \in Reading.used \cup {v})
    BY <2>1, TableHas
  <2>3. CanDeclare(c, n) <=> ~IsTaken(n, v)  BY <2>2 DEF CanDeclare, IsTaken
  <2> QED  BY <1>2, <1>4, <2>3 DEF LetComesTo, Come
<1> QED  BY <1>3, <1>4

(* A default capture takes every name in sight.                            *)
LEMMA InheritedAre ==
  ASSUME Ready
  PROVE  InheritedNames = Own.names
<1>1. Own.names # <<>> => Own.closure  BY DEF Ready
<1> QED  BY <1>1 DEF InheritedNames, HasEnv

LEMMA SizedAre ==
  ASSUME Ready
  PROVE  Sized \in Seq(Names) /\ ToSet(Sized) = DOMAIN Own.table
<1>1. DOMAIN Own.table \subseteq Names  BY DEF Ready, IsFunction, Maps
<1>2. IsFiniteSet(DOMAIN Own.table)  BY <1>1, NamesAssumption, FS_Subset
<1>3. Sized \in Seq(DOMAIN Own.table) /\ ToSet(Sized) = DOMAIN Own.table
  BY <1>2, SetAsSequence DEF Sized
<1> QED  BY <1>1, <1>3

LEMMA DefaultNamesAre ==
  ASSUME Ready, NEW default
  PROVE  /\ DefaultNames(default) \in Seq(Names)
         /\ ToSet(DefaultNames(default)) = TakenBy(default)
<1>1. Own.names \in Seq(Names) /\ ToSet(Own.names) = Reading.captured
  BY DEF Ready, IsFunction, Agrees
<1>2. Sized \in Seq(Names) /\ ToSet(Sized) = DOMAIN Own.table  BY SizedAre
<1>3. /\ Own.names \o Sized \in Seq(Names)
      /\ ToSet(Own.names \o Sized) = Reading.captured \cup DOMAIN Own.table
  BY <1>1, <1>2, MembersOfBoth
<1>4. DOMAIN Reading.scope = Reading.captured \cup DOMAIN Own.table
  BY DEF Ready, Agrees
<1>5. ToSet(<<>>) = {} /\ <<>> \in Seq(Names)  BY DEF ToSet
<1> QED  BY <1>3, <1>4, <1>5, InheritedAre DEF DefaultNames, TakenBy

LEMMA TakenIs ==
  ASSUME Ready, NEW default, NEW n
  PROVE  Taken(default, n) <=> n \in TakenBy(default)
<1>1. /\ DefaultNames(default) \in Seq(Names)
      /\ ToSet(DefaultNames(default)) = TakenBy(default)
  BY DefaultNamesAre
<1>2. DOMAIN DefaultNames(default) = 1 .. Len(DefaultNames(default))  BY <1>1
<1>3. Taken(default, n) <=> n \in ToSet(DefaultNames(default))
  BY <1>2 DEF Taken, Contains, ToSet
<1> QED  BY <1>1, <1>3

(* A statement that is a closure, and an order of its captures.            *)
LEMMA ClosureStatement ==
  ASSUME NEW s \in StatementsOf("closure"), NEW names \in SetToSeqs(DOMAIN s.captures)
  PROVE  LET exprs == [i \in DOMAIN names |-> s.captures[names[i]]]
         IN  /\ s.default \in {"none", "value", "reference"}
             /\ s.params \subseteq Names /\ IsFiniteSet(s.params)
             /\ names \in Seq(Names) /\ ToSet(names) = DOMAIN s.captures
             /\ \A i, j \in DOMAIN names : i # j => names[i] # names[j]
             /\ exprs \in Seq(Expressions) /\ Len(exprs) = Len(names)
             /\ DOMAIN names = 1 .. Len(names)
             /\ \A i \in DOMAIN names : exprs[i] = s.captures[names[i]]
             /\ ToSet(exprs) = {s.captures[n] : n \in DOMAIN s.captures}
<1> DEFINE exprs == [i \in DOMAIN names |-> s.captures[names[i]]]
<1>1. /\ s.default \in {"none", "value", "reference"}
      /\ DOMAIN s.captures \subseteq Names /\ s.params \subseteq Names
      /\ s.captures \in [DOMAIN s.captures -> Expressions]
  BY StatementsAssumption
<1>2. IsFiniteSet(DOMAIN s.captures) /\ IsFiniteSet(s.params)
  BY <1>1, NamesAssumption, FS_Subset
<1>3. /\ names \in Seq(DOMAIN s.captures) /\ ToSet(names) = DOMAIN s.captures
      /\ \A i, j \in DOMAIN names : i # j => names[i] # names[j]
  BY <1>2, OrdersOfASet
<1>4. DOMAIN names = 1 .. Len(names) /\ Len(names) \in Nat /\ names \in Seq(Names)
  BY <1>1, <1>3
<1>5. \A i \in DOMAIN names : names[i] \in DOMAIN s.captures /\ s.captures[names[i]] \in Expressions
  BY <1>1, <1>3, <1>4
<1>6. exprs \in [1 .. Len(names) -> Expressions]  BY <1>4, <1>5
<1>7. exprs \in Seq(Expressions) /\ Len(exprs) = Len(names) /\ DOMAIN exprs = DOMAIN names
  <2>. HIDE DEF exprs
  <2> QED  BY <1>4, <1>6
<1>8. ToSet(exprs) = {s.captures[n] : n \in DOMAIN s.captures}
  <2>1. \A i \in DOMAIN names : exprs[i] = s.captures[names[i]]  OBVIOUS
  <2>. HIDE DEF exprs
  <2>2. ToSet(exprs) = {s.captures[names[i]] : i \in DOMAIN names}
    BY <1>7, <2>1 DEF ToSet
  <2>3. DOMAIN s.captures = {names[i] : i \in DOMAIN names}  BY <1>3 DEF ToSet
  <2> QED  BY <2>2, <2>3
<1> QED  BY <1>1, <1>2, <1>3, <1>4, <1>7, <1>8

LEMMA ClosuresCompile ==
  ASSUME Ready, NEW s \in StatementsOf("closure"), NEW names \in SetToSeqs(DOMAIN s.captures)
  PROVE  ClosureComesTo(s.default, names, s.captures, s.params) \in ClosureMay(s)
<1> PICK exprs : exprs = [i \in DOMAIN names |-> s.captures[names[i]]]  OBVIOUS
<1> DEFINE taken == {i \in DOMAIN names : Taken(s.default, names[i])}
           used == {s.captures[n] : n \in DOMAIN s.captures}
           clashes == DOMAIN s.captures \cap TakenBy(s.default) # {}
           apart == s.params \cap (DOMAIN s.captures \cup TakenBy(s.default)) = {}
           wrong == (\E n \in used : ~IsKnown(n)) \/ ~apart
<1> PICK c : c = CompileUnless(taken, exprs)  OBVIOUS
<1>1. /\ names \in Seq(Names) /\ ToSet(names) = DOMAIN s.captures
      /\ exprs \in Seq(Expressions) /\ Len(exprs) = Len(names)
      /\ DOMAIN names = 1 .. Len(names)
      /\ ToSet(exprs) = used
  BY ClosureStatement
<1>2. Stage(c, taken, exprs, Len(names))  BY <1>1, CompileComesTo
<1>3. used = {exprs[i] : i \in 1 .. Len(names)}
  <2>1. DOMAIN exprs = 1 .. Len(names)  BY <1>1
  <2> QED  BY <1>1, <2>1 DEF ToSet
<1>4. clashes <=> \E i \in 1 .. Len(names) : i \in taken
  <2>1. taken = {i \in 1 .. Len(names) : names[i] \in TakenBy(s.default)}
    BY <1>1, TakenIs
  <2>2. DOMAIN s.captures = {names[i] : i \in 1 .. Len(names)}  BY <1>1 DEF ToSet
  <2> QED  BY <2>1, <2>2
<1>5. (s.params \cap ToSet(DefaultNames(s.default) \o names) = {}) <=> apart
  <2>1. /\ DefaultNames(s.default) \in Seq(Names)
        /\ ToSet(DefaultNames(s.default)) = TakenBy(s.default)
    BY DefaultNamesAre
  <2>2. ToSet(DefaultNames(s.default) \o names) = TakenBy(s.default) \cup DOMAIN s.captures
    BY <1>1, <2>1, MembersOfBoth
  <2> QED  BY <2>2
<1>6. ClosureComesTo(s.default, names, s.captures, s.params) =
        IF s.default = "reference" THEN "error"
        ELSE IF c.failed # "no" THEN c.failed
        ELSE IF ~apart THEN "error" ELSE "compiling"
  <2>1. c = Explicit(s.default, names, s.captures)  BY DEF Explicit
  <2>. HIDE DEF apart
  <2> QED  BY <1>5, <2>1 DEF ClosureComesTo
<1>7. ClosureMay(s) =
        IF s.default = "reference" THEN {"error"}
        ELSE (IF clashes THEN {"error"} ELSE {})
             \cup (IF clashes /\ ~Breaks(used) THEN {} ELSE {Come(Breaks(used), wrong)})
  BY DEF ClosureMay
<1>. HIDE DEF taken, used, clashes, apart
<1>8. c.failed \in {"no", "error", "crash"}  BY <1>2 DEF Stage
<1>9. c.failed = "crash" => Breaks(used)  BY <1>2, <1>3 DEF Stage, Breaks
<1>10. c.failed = "no" =>
         ~clashes /\ ~Breaks(used) /\ \A n \in used : IsKnown(n)
  BY <1>2, <1>3, <1>4 DEF Stage, Breaks
<1>11. c.failed = "error" => clashes \/ (~Bare /\ \E n \in used : ~IsKnown(n))
  BY <1>2, <1>3, <1>4 DEF Stage
<1>12. Breaks(used) => Bare  BY DEF Breaks, NoEnvironment, Bare
<1> QED  BY <1>6, <1>7, <1>8, <1>9, <1>10, <1>11, <1>12 DEF Come

LEMMA StatementsCompile == IInv => CompilesAsMeant
<1> SUFFICES ASSUME IInv PROVE CompilesAsMeant
  OBVIOUS
<1>1. Ready  BY ReadyNow
<1>2. ASSUME NEW s \in StatementsOf("let")
      PROVE  LetComesTo(Compile(<<s.value>>), s.name)
               = Come(Breaks({s.value}), ~IsKnown(s.value) \/ IsTaken(s.name, s.value))
  BY <1>1, <1>2, LetsCompile, StatementsAssumption
<1>3. \A s \in StatementsOf("closure") : \A names \in SetToSeqs(DOMAIN s.captures) :
        ClosureComesTo(s.default, names, s.captures, s.params) \in ClosureMay(s)
  BY <1>1, ClosuresCompile
<1> QED  BY <1>2, <1>3 DEF CompilesAsMeant

------------------------------------------------------------------------------
(* What calls come to *)

LEMMA TermKeeps ==
  ASSUME NEW v \in Pointers
  PROVE  /\ Term(v).of = v.of /\ (Term(v).inst = "function" <=> v.inst = "function")
         /\ v.inst = "function" => Term(v) = v
<1>1. DOMAIN v = {"inst", "levels", "of"}  BY DEF Pointers
<1>2. CASE v.inst = "alloca"
  <2>1. Term(v) = Value("load", v.levels - 1, v.of)  BY <1>1, <1>2, LoadedIs DEF Term
  <2> QED  BY <1>2, <2>1 DEF Value
<1>3. CASE v.inst # "alloca"  BY <1>3 DEF Term, LoadedFrom
<1> QED  BY <1>2, <1>3

LEMMA CallStatement ==
  ASSUME NEW s \in StatementsOf("call")
  PROVE  LET names == s.callees \o s.arguments
         IN  /\ names \in Seq(Expressions) /\ Len(s.callees) \in {1, 2}
             /\ ToSet(names) = ToSet(s.callees) \cup ToSet(s.arguments)
             /\ 1 \in 1 .. Len(names) /\ Len(s.callees) \in 1 .. Len(names)
             /\ names[1] = s.callees[1] /\ names[Len(s.callees)] = s.callees[Len(s.callees)]
             /\ s.callees[1] \in ToSet(s.callees)
             /\ s.callees[Len(s.callees)] \in ToSet(s.callees)
             /\ Len(s.arguments) \in Nat /\ s.more \in BOOLEAN /\ s.name \in Targets
<1>1. /\ s.callees \in Seq(Expressions) /\ Len(s.callees) \in {1, 2}
      /\ s.arguments \in Seq(Expressions)
      /\ s.more \in BOOLEAN /\ s.name \in Targets
  BY StatementsAssumption
<1> PICK names : names = s.callees \o s.arguments  OBVIOUS
<1>2. /\ names \in Seq(Expressions) /\ Len(names) = Len(s.callees) + Len(s.arguments)
      /\ \A i \in 1 .. Len(s.callees) : names[i] = s.callees[i]
      /\ ToSet(names) = ToSet(s.callees) \cup ToSet(s.arguments)
  <2> PICK p : p = s.callees  OBVIOUS
  <2> PICK q : q = s.arguments  OBVIOUS
  <2>1. p \in Seq(Expressions) /\ q \in Seq(Expressions) /\ names = p \o q  BY <1>1
  <2>2. /\ names \in Seq(Expressions) /\ Len(names) = Len(p) + Len(q)
        /\ \A i \in 1 .. Len(p) : names[i] = p[i]
        /\ ToSet(names) = ToSet(p) \cup ToSet(q)
    BY ONLY <2>1, MembersOfBoth
  <2> QED  BY ONLY <2>2, p = s.callees, q = s.arguments
<1>3. DOMAIN s.callees = 1 .. Len(s.callees) /\ Len(s.arguments) \in Nat  BY <1>1
<1>4. /\ 1 \in 1 .. Len(s.callees) /\ Len(s.callees) \in 1 .. Len(s.callees)
      /\ 1 \in 1 .. Len(names) /\ Len(s.callees) \in 1 .. Len(names)
  <2> PICK n : n = Len(s.callees)  OBVIOUS
  <2> PICK k : k = Len(s.arguments)  OBVIOUS
  <2>1. (n = 1 \/ n = 2) /\ k \in Nat  BY <1>1, <1>3
  <2>2. Len(names) = n + k  BY ONLY <1>2, n = Len(s.callees), k = Len(s.arguments)
  <2>3. 1 \in 1 .. n /\ n \in 1 .. n  BY ONLY <2>1
  <2>4. n \in Nat \ {0}  BY ONLY <2>1
  <2>5. 1 \in 1 .. Len(names) /\ n \in 1 .. Len(names)
    BY ONLY <2>1, <2>2, <2>4, BeginningOf
  <2> QED  BY ONLY <2>3, <2>5, n = Len(s.callees)
<1>5. s.callees[1] \in ToSet(s.callees) /\ s.callees[Len(s.callees)] \in ToSet(s.callees)
  BY <1>3, <1>4 DEF ToSet
<1> QED  BY <1>1, <1>2, <1>3, <1>4, <1>5

(* A callee is what its name means, and a function only by its own name.   *)
LEMMA CalleeIs ==
  ASSUME Ready, NEW names \in Seq(Expressions), Compile(names).failed = "no",
         NEW i \in 1 .. Len(names)
  PROVE  LET v == Term(Found(Compile(names))[i])
         IN  /\ v.inst = "function" <=> names[i] \in DOMAIN Functions
             /\ v.inst = "function" => v.of = Variable(0, names[i])
             /\ Meaning(names[i]).how # "shadow" => v.of = Meaning(names[i]).of
             /\ v \in Pointers
<1> PICK c : c = Compile(names)  OBVIOUS
<1>1. /\ c.found \in Seq(ToSet(c.found)) /\ Len(c.found) = Len(names)
      /\ Looked(c.found[i], names[i], Again(names, i))
  BY CompileFinds
<1>2. i \in DOMAIN c.found  BY <1>1
<1>3. Found(c)[i] = c.found[i].got  BY <1>2 DEF Found
<1> PICK l : l = c.found[i]  OBVIOUS
<1>4. l.got \in Pointers /\ Term(l.got).of = l.got.of
      /\ (Term(l.got).inst = "function" <=> l.got.inst = "function")
  BY <1>1, TermKeeps DEF Looked
<1>5. Looked(l, names[i], Again(names, i))  BY <1>1
<1>6. /\ Term(l.got) \in Pointers
      /\ Term(l.got).inst = "function" <=> names[i] \in DOMAIN Functions
      /\ Term(l.got).inst = "function" => Term(l.got).of = Variable(0, names[i])
      /\ Meaning(names[i]).how # "shadow" => Term(l.got).of = Meaning(names[i]).of
  BY <1>4, <1>5 DEF Looked
<1> QED  BY <1>3, <1>6

LEMMA CallsCome ==
  ASSUME NEW s, NEW c, NEW f, NEW g,
         c = Compile(s.callees \o s.arguments),
         c.failed \in {"no", "error", "crash"}, s.more \in BOOLEAN,
         f = Term(Found(c)[1]), g = Term(Found(c)[Len(s.callees)])
  PROVE  LET given == Len(s.arguments)
             comesTo == CallComesTo(s.callees, s.arguments, s.more, s.name)
         IN  /\ c.failed # "no" => comesTo = c.failed
             /\ c.failed = "no" => comesTo # "crash"
             /\ comesTo = "compiling" =>
                  /\ c.failed = "no" /\ CanDeclare(c, s.name)
                  /\ HoldsFunction(f) /\ (Len(s.callees) = 2 => HoldsFunction(g))
                  /\ s.more => PartiallyApplicable(f, given) /\ ~ApplyFails(f, given)
                  /\ ~s.more => /\ ~Malformed(f, given)
                                /\ IsVariadic(f) \/ ParamsLeft(f) = given
                  /\ Len(s.callees) = 2 =>
                       ~Malformed(g, 1) /\ (IsVariadic(g) \/ ParamsLeft(g) = 1)
             /\ comesTo = "undefined" /\ c.failed = "no" =>
                  \/ s.more /\ ~PartiallyApplicable(f, given)
                  \/ Malformed(f, given) /\ ~s.more
                     /\ HoldsFunction(f) /\ (IsVariadic(f) \/ ParamsLeft(f) = given)
                  \/ Malformed(g, 1) /\ HoldsFunction(g) /\ (IsVariadic(g) \/ ParamsLeft(g) = 1)
<1> PICK given : given = Len(s.arguments)  OBVIOUS
<1> PICK args : args = [i \in 1 .. given |-> Argument(Found(c)[Len(s.callees) + i])]  OBVIOUS
<1> PICK size : size = IF s.more THEN given + 1 ELSE given  OBVIOUS
<1> PICK piped : piped = (Len(s.callees) = 2)  OBVIOUS
<1> PICK comesTo : comesTo = CallComesTo(s.callees, s.arguments, s.more, s.name)  OBVIOUS
<1>1. comesTo =
        IF c.failed # "no" THEN c.failed
        ELSE IF ~Accepts(f, size, args) THEN "error"
        ELSE IF s.more /\ ApplyFails(f, given) THEN "error"
        ELSE IF s.more /\ ~PartiallyApplicable(f, given) THEN "undefined"
        ELSE IF ~s.more /\ Malformed(f, given) THEN "undefined"
        ELSE IF piped /\ (~Accepts(g, 1, <<>>) \/ (s.more /\ ~IsVariadic(g))) THEN "error"
        ELSE IF piped /\ Malformed(g, 1) THEN "undefined"
        ELSE IF CanDeclare(c, s.name) THEN "compiling" ELSE "error"
  BY DEF CallComesTo
<1>2. Accepts(f, size, args) => HoldsFunction(f) /\ (IsVariadic(f) \/ ParamsLeft(f) = size)
  BY DEF Accepts
<1>3. Accepts(g, 1, <<>>) => HoldsFunction(g) /\ (IsVariadic(g) \/ ParamsLeft(g) = 1)
  BY DEF Accepts
<1>4. ~s.more => size = given  OBVIOUS
<1> QED  BY <1>1, <1>2, <1>3, <1>4

LEMMA ApplicationsAre == IInv => PartialApplications
<1> SUFFICES ASSUME IInv, NEW s \in StatementsOf("call")
             PROVE  LET comesTo == CallComesTo(s.callees, s.arguments, s.more, s.name)
                        named == Free(s.callees[1]) /\ Len(s.arguments) <= 1
                    IN  /\ comesTo = "compiling" /\ s.more => named
                        /\ comesTo = "undefined" =>
                             (s.more /\ ~named) \/ \E g \in ToSet(s.callees) : MayBeVariadic(g)
                        /\ comesTo = "crash" <=> Breaks(ToSet(s.callees \o s.arguments))
  BY DEF PartialApplications
<1>0. Ready  BY ReadyNow
<1> PICK names : names = s.callees \o s.arguments  OBVIOUS
<1> PICK c : c = Compile(names)  OBVIOUS
<1> PICK given : given = Len(s.arguments)  OBVIOUS
<1> PICK f : f = Term(Found(c)[1])  OBVIOUS
<1> PICK g : g = Term(Found(c)[Len(s.callees)])  OBVIOUS
<1> PICK comesTo : comesTo = CallComesTo(s.callees, s.arguments, s.more, s.name)  OBVIOUS
<1> PICK first : first = s.callees[1]  OBVIOUS
<1> PICK last : last = s.callees[Len(s.callees)]  OBVIOUS
<1>1. /\ names \in Seq(Expressions)
      /\ 1 \in 1 .. Len(names) /\ Len(s.callees) \in 1 .. Len(names)
      /\ names[1] = first /\ names[Len(s.callees)] = last
      /\ first \in ToSet(s.callees) /\ last \in ToSet(s.callees)
      /\ given \in Nat /\ s.more \in BOOLEAN
  BY CallStatement
<1>3. /\ c.failed \in {"no", "error", "crash"}
      /\ c.failed = "crash" <=> Breaks(ToSet(names))
  BY <1>0, <1>1, CompileFails
<1>2. /\ c.failed # "no" => comesTo = c.failed
      /\ c.failed = "no" => comesTo # "crash"
      /\ comesTo = "compiling" /\ s.more => PartiallyApplicable(f, given)
      /\ comesTo = "compiling" => c.failed = "no"
      /\ comesTo = "undefined" /\ c.failed = "no" =>
           \/ s.more /\ ~PartiallyApplicable(f, given)
           \/ Malformed(f, given) /\ HoldsFunction(f) /\ (IsVariadic(f) \/ ParamsLeft(f) = given)
           \/ Malformed(g, 1) /\ HoldsFunction(g) /\ (IsVariadic(g) \/ ParamsLeft(g) = 1)
  BY <1>1, <1>3, CallsCome
<1>4. c.failed = "no" =>
        /\ f.inst = "function" <=> first \in DOMAIN Functions
        /\ Meaning(first).how # "shadow" => f.of = Meaning(first).of
        /\ Meaning(last).how # "shadow" => g.of = Meaning(last).of
  <2> SUFFICES ASSUME c.failed = "no"
               PROVE  /\ f.inst = "function" <=> first \in DOMAIN Functions
                      /\ Meaning(first).how # "shadow" => f.of = Meaning(first).of
                      /\ Meaning(last).how # "shadow" => g.of = Meaning(last).of
    OBVIOUS
  <2>1. /\ f.inst = "function" <=> names[1] \in DOMAIN Functions
        /\ Meaning(names[1]).how # "shadow" => f.of = Meaning(names[1]).of
    BY <1>0, <1>1, CalleeIs
  <2>2. Meaning(names[Len(s.callees)]).how # "shadow" => g.of = Meaning(names[Len(s.callees)]).of
    BY <1>0, <1>1, CalleeIs
  <2> QED  BY <1>1, <2>1, <2>2
<1>5. first \in DOMAIN Functions => Free(first)  BY <1>0, OfNoVariable DEF Free
<1>6. Free(first) => first \in DOMAIN Functions  BY DEF Free
<1>7. ASSUME c.failed = "no", Malformed(f, given), HoldsFunction(f),
             IsVariadic(f) \/ ParamsLeft(f) = given
      PROVE  MayBeVariadic(first)
  <2>1. IsVariadic(f)  BY <1>1, <1>7 DEF Malformed
  <2> QED  BY <1>4, <1>7, <2>1 DEF MayBeVariadic, HoldsFunction, IsVariadic, Callee
<1>8. ASSUME c.failed = "no", Malformed(g, 1), HoldsFunction(g),
             IsVariadic(g) \/ ParamsLeft(g) = 1
      PROVE  MayBeVariadic(last)
  <2>1. IsVariadic(g)  BY <1>8 DEF Malformed
  <2> QED  BY <1>4, <1>8, <2>1 DEF MayBeVariadic, HoldsFunction, IsVariadic, Callee
<1>9. PartiallyApplicable(f, given) <=> f.inst = "function" /\ given <= 1
  BY DEF PartiallyApplicable
<1>10. comesTo = "compiling" /\ s.more => Free(first) /\ given <= 1
  BY <1>2, <1>4, <1>5, <1>9
<1>11. comesTo = "undefined" =>
         (s.more /\ ~(Free(first) /\ given <= 1)) \/ MayBeVariadic(first) \/ MayBeVariadic(last)
  BY <1>2, <1>3, <1>4, <1>6, <1>7, <1>8, <1>9
<1>12. comesTo = "crash" <=> Breaks(ToSet(names))
  BY <1>2, <1>3
<1> QED  BY <1>1, <1>10, <1>11, <1>12

------------------------------------------------------------------------------
(* Changes of sequences *)

LEMMA SequenceOfItself ==
  ASSUME NEW n \in Nat, NEW t, t = [i \in 1 .. n |-> t[i]]
  PROVE  t \in Seq(ToSet(t)) /\ Len(t) = n /\ DOMAIN t = 1 .. n
<1>1. DOMAIN t = 1 .. n  OBVIOUS
<1>2. \A i \in 1 .. n : t[i] \in ToSet(t)  BY <1>1 DEF ToSet
<1> PICK S : S = ToSet(t)  OBVIOUS
<1>3. t \in [1 .. n -> S]  BY <1>2
<1>4. t \in Seq(S)  BY <1>3
<1>5. Len(t) = n  BY <1>1, <1>4
<1> QED  BY <1>1, <1>4, <1>5

LEMMA Replaced ==
  ASSUME NEW s, s \in Seq(ToSet(s)), NEW k \in 1 .. Len(s), NEW x
  PROVE  LET t == [s EXCEPT ![k] = x]
         IN  /\ t \in Seq(ToSet(t)) /\ Len(t) = Len(s) /\ DOMAIN t = 1 .. Len(s)
             /\ t[k] = x /\ \A i \in 1 .. Len(s) : i # k => t[i] = s[i]
<1> PICK t : t = [s EXCEPT ![k] = x]  OBVIOUS
<1>1. DOMAIN s = 1 .. Len(s) /\ Len(s) \in Nat  OBVIOUS
<1>2. DOMAIN t = 1 .. Len(s)  BY <1>1
<1>3. t = [i \in DOMAIN t |-> t[i]]  OBVIOUS
<1>4. t = [i \in 1 .. Len(s) |-> t[i]]  BY <1>2, <1>3
<1>5. t \in Seq(ToSet(t)) /\ Len(t) = Len(s)  BY <1>1, <1>4, SequenceOfItself
<1>6. t[k] = x /\ \A i \in 1 .. Len(s) : i # k => t[i] = s[i]  BY <1>1
<1> QED  BY <1>2, <1>5, <1>6

LEMMA FrontOf ==
  ASSUME NEW S, NEW s \in Seq(S), s # <<>>
  PROVE  /\ Front(s) \in Seq(S) /\ Len(Front(s)) = Len(s) - 1
         /\ DOMAIN Front(s) = 1 .. Len(s) - 1
         /\ \A i \in 1 .. Len(s) - 1 : Front(s)[i] = s[i]
<1>1. Len(s) \in Nat \ {0} /\ DOMAIN s = 1 .. Len(s)  OBVIOUS
<1>2. Front(s) = [i \in 1 .. Len(s) - 1 |-> s[i]]
  <2>1. Front(s) = SubSeq(s, 1, Len(s) - 1)  BY DEF Front
  <2>2. Len(s) - 1 \in Nat  BY <1>1
  <2> QED  BY <1>1, <2>1, <2>2
<1>3. \A i \in 1 .. Len(s) - 1 : s[i] \in S  BY <1>1
<1>4. Len(s) - 1 \in Nat  BY <1>1
<1>5. Front(s) \in [1 .. Len(s) - 1 -> S]  BY <1>2, <1>3
<1>6. Front(s) \in Seq(S)  BY <1>4, <1>5
<1> QED  BY <1>2, <1>4, <1>5, <1>6

LEMMA Bound ==
  ASSUME NEW t, NEW x, NEW v
  PROVE  /\ DOMAIN Binding(t, x, v) = DOMAIN t \cup {x} /\ Binding(t, x, v)[x] = v
         /\ \A y \in DOMAIN t : y # x => Binding(t, x, v)[y] = t[y]
  BY DEF Binding

LEMMA BoundMaps ==
  ASSUME NEW S, NEW t, Maps(t, S), NEW x \in Names, NEW v \in S
  PROVE  Maps(Binding(t, x, v), S)
  BY DEF Maps, Binding

------------------------------------------------------------------------------
(* Changes of functions *)

(* What never changes of a function; one with a nest parameter keeps it.   *)
Kept(F, G) ==
  /\ G.closure = F.closure /\ G.params = F.params /\ G.variadic = F.variadic
  /\ G.names = F.names
  /\ F.nest => G.nest
Alike(F, G) ==
  IsFunction(G) /\ Kept(F, G) /\ G.fields = F.fields /\ G.table = F.table

LEMMA NestAlike ==
  ASSUME NEW F, IsFunction(F)
  PROVE  Alike(F, [F EXCEPT !.nest = TRUE])
<1> PICK G : G = [F EXCEPT !.nest = TRUE]  OBVIOUS
<1>1. /\ F \in [closure : BOOLEAN, params : Nat, variadic : BOOLEAN, nest : BOOLEAN,
                names : Seq(Names), fields : Seq(Pointers), table : {F.table}]
      /\ Maps(F.table, Pointers) /\ (HasEnv(F) => F.nest)
  BY DEF IsFunction
<1>2. /\ G \in [closure : BOOLEAN, params : Nat, variadic : BOOLEAN, nest : BOOLEAN,
                names : Seq(Names), fields : Seq(Pointers), table : {F.table}]
      /\ G.closure = F.closure /\ G.params = F.params /\ G.variadic = F.variadic
      /\ G.names = F.names /\ G.fields = F.fields /\ G.table = F.table /\ G.nest = TRUE
  BY <1>1
<1>3. IsFunction(G)  BY <1>1, <1>2 DEF IsFunction, HasEnv
<1> QED  BY <1>2, <1>3 DEF Alike, Kept

LEMMA Retabled ==
  ASSUME NEW F, IsFunction(F), NEW t, Maps(t, Pointers)
  PROVE  LET G == [F EXCEPT !.table = t]
         IN  IsFunction(G) /\ Kept(F, G) /\ G.fields = F.fields /\ G.table = t
<1> PICK G : G = [F EXCEPT !.table = t]  OBVIOUS
<1>1. /\ F \in [closure : BOOLEAN, params : Nat, variadic : BOOLEAN, nest : BOOLEAN,
                names : Seq(Names), fields : Seq(Pointers), table : {F.table}]
      /\ HasEnv(F) => F.nest
  BY DEF IsFunction
<1>2. /\ G \in [closure : BOOLEAN, params : Nat, variadic : BOOLEAN, nest : BOOLEAN,
                names : Seq(Names), fields : Seq(Pointers), table : {t}]
      /\ G.closure = F.closure /\ G.params = F.params /\ G.variadic = F.variadic
      /\ G.names = F.names /\ G.fields = F.fields /\ G.table = t /\ G.nest = F.nest
  BY <1>1
<1>3. IsFunction(G)  BY <1>1, <1>2 DEF IsFunction, HasEnv
<1> QED  BY <1>2, <1>3 DEF Kept

LEMMA KeptOn ==
  ASSUME NEW F, NEW G, NEW H, Kept(F, G), Kept(G, H)
  PROVE  Kept(F, H)
  BY DEF Kept

LEMMA SameFields ==
  ASSUME NEW F, NEW G, G.names = F.names, G.fields = F.fields, NEW n
  PROVE  FieldOf(G, n) = FieldOf(F, n) /\ Field(G, n) = Field(F, n) /\ Slot(G, n) = Slot(F, n)
<1>1. FieldOf(G, n) = FieldOf(F, n)  BY DEF FieldOf, SelectInSeq
<1> QED  BY <1>1 DEF Field, Slot

LEMMA AgreesByParts ==
  ASSUME NEW F, NEW G, G.names = F.names, G.fields = F.fields, G.table = F.table,
         NEW M, NEW f, Agrees(F, M, f)
  PROVE  Agrees(G, M, f)
<1>1. \A n : Field(G, n) = Field(F, n) /\ Slot(G, n) = Slot(F, n)  BY SameFields
<1>2. ASSUME NEW n, NEW m, NEW used, CapturedName(F, m, used, n)
      PROVE  CapturedName(G, m, used, n)
  BY <1>1, <1>2 DEF CapturedName
<1>3. ASSUME NEW n, NEW m, OwnName(F, m, f, n) PROVE OwnName(G, m, f, n)
  BY <1>3 DEF OwnName
<1> QED  BY <1>2, <1>3 DEF Agrees

(* Names that are used stay what they are.                                 *)
LEMMA UsedAgrees ==
  ASSUME Ready, NEW P, NEW t, TableWith(t, P), NEW F, NEW M,
         F.names = Own.names, F.fields = Own.fields, F.table = t,
         M.scope = Reading.scope, M.captured = Reading.captured,
         M.used = Reading.used \cup P
  PROVE  Agrees(F, M, Top)
<1>1. /\ Len(Own.fields) = Len(Own.names)
      /\ ToSet(Own.names) = Reading.captured
      /\ DOMAIN Reading.scope = Reading.captured \cup DOMAIN Own.table
      /\ \A n \in DOMAIN Reading.scope :
           /\ Reading.scope[n].of.in <= Top
           /\ IF Reading.scope[n].of.in = Top THEN OwnName(Own, Reading.scope[n], Top, n)
              ELSE CapturedName(Own, Reading.scope[n], Reading.used, n)
  BY DEF Ready, Agrees
<1>2. /\ DOMAIN t = DOMAIN Own.table \cup {n \in Names \cap P : CapturedHere(n)}
      /\ \A n \in DOMAIN t :
           t[n] = IF n \in DOMAIN Own.table THEN Own.table[n] ELSE Slot(Own, n)
  BY DEF TableWith
<1>3. DOMAIN Reading.scope = Reading.captured \cup DOMAIN t
  BY <1>1, <1>2 DEF CapturedHere
<1>4. ASSUME NEW n \in DOMAIN Reading.scope, Reading.scope[n].of.in = Top
      PROVE  OwnName(F, Reading.scope[n], Top, n)
  <2>1. OwnName(Own, Reading.scope[n], Top, n)  BY <1>1, <1>4
  <2>2. n \in DOMAIN t /\ t[n] = Own.table[n]  BY <1>2, <2>1 DEF OwnName
  <2> QED  BY <2>1, <2>2 DEF OwnName
<1>5. ASSUME NEW n \in DOMAIN Reading.scope, Reading.scope[n].of.in # Top
      PROVE  CapturedName(F, Reading.scope[n], M.used, n)
  <2>1. CapturedName(Own, Reading.scope[n], Reading.used, n)  BY <1>1, <1>5
  <2>2. Field(F, n) = Field(Own, n) /\ Slot(F, n) = Slot(Own, n)  BY SameFields
  <2>3. n \in DOMAIN t <=> IsOwn(n) \/ (n \in Reading.captured /\ n \in Reading.used \cup P)
    BY TableHas
  <2>4. n \in Reading.captured  BY <1>1, <2>1 DEF CapturedName
  <2>5. ~IsOwn(n)  BY <1>5 DEF IsOwn
  <2>6. n \in DOMAIN t => t[n] = Slot(Own, n)  BY <1>2, <2>1 DEF CapturedName
  <2> QED  BY <2>1, <2>2, <2>3, <2>4, <2>5, <2>6 DEF CapturedName
<1> QED  BY <1>1, <1>3, <1>4, <1>5 DEF Agrees

(* So do they when a variable is declared.                                 *)
LEMMA DeclaredAgrees ==
  ASSUME NEW F, NEW M, NEW f \in Nat, Agrees(F, M, f), NEW n, n \notin DOMAIN F.table,
         NEW G, G.names = F.names, G.fields = F.fields,
         G.table = Binding(F.table, n, Value("alloca", 1, Variable(f, n))),
         NEW L, L.captured = M.captured, L.used = M.used,
         L.scope = Binding(M.scope, n, [of |-> Variable(f, n), how |-> "let"])
  PROVE  Agrees(G, L, f)
<1> PICK m : m = [of |-> Variable(f, n), how |-> "let"]  OBVIOUS
<1> PICK v : v = Value("alloca", 1, Variable(f, n))  OBVIOUS
<1>1. /\ DOMAIN G.table = DOMAIN F.table \cup {n} /\ G.table[n] = v
      /\ \A y \in DOMAIN F.table : y # n => G.table[y] = F.table[y]
  <2>1. G.table = Binding(F.table, n, v)  OBVIOUS
  <2> QED  BY <2>1 DEF Binding
<1>2. /\ DOMAIN L.scope = DOMAIN M.scope \cup {n} /\ L.scope[n] = m
      /\ \A y \in DOMAIN M.scope : y # n => L.scope[y] = M.scope[y]
  <2>1. L.scope = Binding(M.scope, n, m)  OBVIOUS
  <2> QED  BY <2>1 DEF Binding
<1>3. /\ Len(F.fields) = Len(F.names)
      /\ ToSet(F.names) = M.captured
      /\ DOMAIN M.scope = M.captured \cup DOMAIN F.table
      /\ \A y \in DOMAIN M.scope :
           /\ M.scope[y].of.in <= f
           /\ IF M.scope[y].of.in = f THEN OwnName(F, M.scope[y], f, y)
              ELSE CapturedName(F, M.scope[y], M.used, y)
  BY DEF Agrees
<1>4. m.of.in = f /\ m.of = Variable(f, n) /\ m.how = "let"  BY DEF Variable
<1>5. OwnName(G, m, f, n)  BY <1>1, <1>4 DEF OwnName
<1>6. f <= f  OBVIOUS
<1>7. ASSUME NEW y \in DOMAIN M.scope, y # n
      PROVE  /\ M.scope[y].of.in = f => OwnName(G, M.scope[y], f, y)
             /\ M.scope[y].of.in # f => CapturedName(G, M.scope[y], M.used, y)
  <2>1. y \in DOMAIN G.table <=> y \in DOMAIN F.table  BY <1>1, <1>7
  <2>2. y \in DOMAIN F.table => G.table[y] = F.table[y]  BY <1>1, <1>7
  <2>3. Field(G, y) = Field(F, y) /\ Slot(G, y) = Slot(F, y)  BY SameFields
  <2>4. OwnName(F, M.scope[y], f, y) => OwnName(G, M.scope[y], f, y)
    BY <2>1, <2>2 DEF OwnName
  <2>5. CapturedName(F, M.scope[y], M.used, y) => CapturedName(G, M.scope[y], M.used, y)
    BY <2>1, <2>2, <2>3 DEF CapturedName
  <2> QED  BY <1>3, <2>4, <2>5
<1>8. DOMAIN L.scope = L.captured \cup DOMAIN G.table  BY <1>1, <1>2, <1>3
<1>9. ASSUME NEW y \in DOMAIN L.scope
      PROVE  /\ L.scope[y].of.in <= f
             /\ IF L.scope[y].of.in = f THEN OwnName(G, L.scope[y], f, y)
                ELSE CapturedName(G, L.scope[y], L.used, y)
  <2>1. CASE y = n  BY <1>2, <1>4, <1>5, <1>6, <2>1
  <2>2. CASE y # n
    <3>1. y \in DOMAIN M.scope /\ L.scope[y] = M.scope[y]  BY <1>2, <2>2
    <3> QED  BY <1>3, <1>7, <2>2, <3>1
  <2> QED  BY <2>1, <2>2
<1> QED  BY <1>3, <1>8, <1>9 DEF Agrees

------------------------------------------------------------------------------
(* The invariant in three parts *)

StackOK ==
  /\ functions \in Seq(ToSet(functions))
  /\ \A f \in DOMAIN functions : IsFunction(functions[f])
  /\ building \in Seq(1 .. Len(functions)) /\ building # <<>>
  /\ meant \in Seq(ToSet(meant)) /\ Len(meant) = Len(building)
  /\ \A d \in DOMAIN meant : IsReading(meant[d])
  /\ Nested /\ NamesAgree
HoldsOK ==
  /\ holds \in [DOMAIN holds -> CallableType] /\ DOMAIN holds \subseteq Variables
  /\ CallablesAgree
RestOK ==
  /\ calls \subseteq [function : 1 .. Len(functions), bound : {0, 1}, given : Nat]
  /\ outcome \in {"compiling", "done", "error", "crash", "undefined"}
  /\ statements \in Nat /\ CallsReachParameters

LEMMA InParts == IInv <=> StackOK /\ HoldsOK /\ RestOK
  BY DEF IInv, TypeOK, StackOK, HoldsOK, RestOK

LEMMA InPartsNext == IInv' <=> StackOK' /\ HoldsOK' /\ RestOK'
  BY InParts, PTL

(* Changes of the function at the top of the stack, and of it alone.       *)
OnlyTop(fs, ms) ==
  /\ fs \in Seq(ToSet(fs)) /\ Len(fs) = Len(functions)
  /\ \A f \in 1 .. Len(functions) : f # Top => Alike(functions[f], fs[f])
  /\ IsFunction(fs[Top]) /\ Kept(Own, fs[Top])
  /\ ms \in Seq(ToSet(ms)) /\ Len(ms) = Len(meant)
  /\ \A d \in 1 .. Len(meant) - 1 : ms[d] = meant[d]
  /\ IsReading(ms[Len(meant)])
  /\ Agrees(fs[Top], ms[Len(meant)], Top)

LEMMA AllAgree ==
  ASSUME IInv, NEW fs, NEW ms, OnlyTop(fs, ms)
  PROVE  /\ DOMAIN fs = 1 .. Len(functions) /\ DOMAIN ms = 1 .. Len(building)
         /\ \A f \in 1 .. Len(functions) : Kept(functions[f], fs[f]) /\ IsFunction(fs[f])
         /\ \A d \in 1 .. Len(building) :
              IsReading(ms[d]) /\ Agrees(fs[building[d]], ms[d], building[d])
         /\ fs[Main].names = <<>>
         /\ \A d \in 1 .. Len(building) : fs[building[d]].closure <=> d > 1
<1>1. /\ Len(building) \in Nat \ {0} /\ Len(meant) = Len(building)
      /\ Top = building[Len(building)] /\ Own = functions[Top]
      /\ Top \in 1 .. Len(functions)
      /\ DOMAIN building = 1 .. Len(building) /\ DOMAIN meant = 1 .. Len(building)
      /\ DOMAIN functions = 1 .. Len(functions) /\ Len(functions) \in Nat
  BY ReadyNow
<1>2. /\ building \in Seq(1 .. Len(functions)) /\ building # <<>>
      /\ \A d \in DOMAIN meant : IsReading(meant[d])
  BY DEF IInv, TypeOK
<1>3. DOMAIN fs = 1 .. Len(functions) /\ DOMAIN ms = 1 .. Len(building)
  <2>1. DOMAIN fs = 1 .. Len(fs)  BY DEF OnlyTop
  <2>2. DOMAIN ms = 1 .. Len(ms)  BY DEF OnlyTop
  <2> QED  BY <1>1, <2>1, <2>2 DEF OnlyTop
<1>4. \A f \in 1 .. Len(functions) : Kept(functions[f], fs[f]) /\ IsFunction(fs[f])
  BY <1>1 DEF Alike, OnlyTop
<1>5. ASSUME NEW d \in 1 .. Len(building)
      PROVE  d # Len(building) => building[d] # Top /\ d \in 1 .. Len(meant) - 1
  <2> SUFFICES ASSUME d # Len(building) PROVE building[d] # Top /\ d \in 1 .. Len(meant) - 1
    OBVIOUS
  <2>1. \A x \in Nat \ {0} : \A y \in 1 .. x : y # x => y < x /\ y \in 1 .. x - 1
    OBVIOUS
  <2>2. d < Len(building) /\ d \in 1 .. Len(meant) - 1
    BY ONLY <1>1, <2>1, d \in 1 .. Len(building), d # Len(building), Zenon
  <2>3. Len(building) \in DOMAIN building /\ d \in DOMAIN building
    <3>1. Len(building) \in Nat \ {0} /\ DOMAIN building = 1 .. Len(building)
      BY ONLY <1>1, Zenon
    <3>2. \A x \in Nat \ {0} : x \in 1 .. x  OBVIOUS
    <3> QED  BY ONLY <3>1, <3>2, d \in 1 .. Len(building), Zenon
  <2>4. building[d] < building[Len(building)]  BY <2>2, <2>3 DEF IInv, Nested
  <2>5. building[d] \in 1 .. Len(functions)  BY <1>2, <2>3
  <2>6. \A x \in Nat : \A y \in 1 .. x : ~(y < y)  OBVIOUS
  <2>7. ~(building[d] < building[d])  BY ONLY <1>1, <2>5, <2>6
  <2> QED  BY ONLY <1>1, <2>2, <2>4, <2>7
<1>6. ASSUME NEW d \in 1 .. Len(building)
      PROVE  IsReading(ms[d]) /\ Agrees(fs[building[d]], ms[d], building[d])
  <2>1. CASE d = Len(building)  BY <1>1, <2>1 DEF OnlyTop
  <2>2. CASE d # Len(building)
    <3>1. building[d] # Top /\ d \in 1 .. Len(meant) - 1  BY <1>5, <2>2
    <3>2. building[d] \in 1 .. Len(functions)  BY <1>1, <1>2
    <3>3. Alike(functions[building[d]], fs[building[d]])  BY <3>1, <3>2 DEF OnlyTop
    <3>4. Agrees(functions[building[d]], meant[d], building[d])
      BY <1>1 DEF IInv, NamesAgree
    <3>5. ms[d] = meant[d] /\ IsReading(meant[d])  BY <1>1, <1>2, <3>1 DEF OnlyTop
    <3>6. Agrees(fs[building[d]], meant[d], building[d])
      BY <3>3, <3>4, AgreesByParts DEF Alike, Kept
    <3> QED  BY <3>5, <3>6
  <2> QED  BY <2>1, <2>2
<1>7. fs[Main].names = <<>> /\ \A d \in 1 .. Len(building) : fs[building[d]].closure <=> d > 1
  <2>1. /\ building[1] = Main /\ functions[Main].names = <<>>
        /\ \A d \in DOMAIN building : functions[building[d]].closure <=> d > 1
    BY DEF IInv, Nested
  <2>2. \A d \in DOMAIN building : building[d] \in 1 .. Len(functions)  BY <1>1, <1>2
  <2>3. Main \in 1 .. Len(functions)  BY <1>1, <2>1, <2>2
  <2> QED  BY <1>1, <1>4, <2>1, <2>2, <2>3 DEF Kept
<1> QED  BY <1>3, <1>4, <1>6, <1>7

(* A step in the function at the top of the stack.                         *)
LEMMA TopKeeps ==
  ASSUME IInv, building' = building, OnlyTop(functions', meant')
  PROVE  StackOK' /\ \A f \in 1 .. Len(functions) : Kept(functions[f], functions'[f])
<1>1. /\ DOMAIN functions' = 1 .. Len(functions) /\ DOMAIN meant' = 1 .. Len(building)
      /\ \A f \in 1 .. Len(functions) :
           Kept(functions[f], functions'[f]) /\ IsFunction(functions'[f])
      /\ \A d \in 1 .. Len(building) :
           IsReading(meant'[d]) /\ Agrees(functions'[building[d]], meant'[d], building[d])
      /\ functions'[Main].names = <<>>
      /\ \A d \in 1 .. Len(building) : functions'[building[d]].closure <=> d > 1
  BY AllAgree
<1>2. /\ DOMAIN building = 1 .. Len(building) /\ Len(meant) = Len(building)
      /\ building \in Seq(1 .. Len(functions)) /\ building # <<>>
      /\ building[1] = Main
      /\ \A d, e \in DOMAIN building : d < e => building[d] < building[e]
  BY ReadyNow DEF IInv, TypeOK, Nested
<1>3. NamesAgree'  BY <1>1, <1>2 DEF NamesAgree
<1>4. Nested'  BY <1>1, <1>2 DEF Nested
<1>5. /\ functions' \in Seq(ToSet(functions')) /\ Len(functions') = Len(functions)
      /\ meant' \in Seq(ToSet(meant')) /\ Len(meant') = Len(meant)
  BY DEF OnlyTop
<1> QED  BY <1>1, <1>2, <1>3, <1>4, <1>5 DEF StackOK

(* A variable may hold a function from now on.                             *)
LEMMA HoldsKeep ==
  ASSUME IInv, Len(functions') \in Nat, Len(functions) <= Len(functions'),
         \A f \in 1 .. Len(functions) : Kept(functions[f], functions'[f]),
         \/ holds' = holds
         \/ \E v \in Variables, c \in [function : 1 .. Len(functions'), bound : {0, 1}] :
              /\ v.in # 0 /\ holds' = Binding(holds, v, c)
              /\ HasEnv(functions'[c.function]) => c.bound = 1
              /\ c.bound = 1 => functions'[c.function].nest
  PROVE  HoldsOK'
<1>1. /\ holds \in [DOMAIN holds -> CallableType] /\ DOMAIN holds \subseteq Variables
      /\ Len(functions) \in Nat
  BY ReadyNow DEF IInv, TypeOK
<1>2. \A v \in DOMAIN holds :
        /\ holds[v] \in [function : 1 .. Len(functions), bound : {0, 1}]
        /\ holds[v].function \in 1 .. Len(functions)
        /\ holds[v] \in [function : 1 .. Len(functions'), bound : {0, 1}]
        /\ HasEnv(functions[holds[v].function]) => holds[v].bound = 1
        /\ holds[v].bound = 1 => functions[holds[v].function].nest
  <2>1. \A v \in DOMAIN holds :
          /\ holds[v] \in [function : 1 .. Len(functions), bound : {0, 1}]
          /\ Supplied(holds[v])
    BY <1>1 DEF CallableType, IInv, CallablesAgree
  <2>2. 1 .. Len(functions) \subseteq 1 .. Len(functions')  BY <1>1
  <2> QED  BY <2>1, <2>2 DEF Supplied
<1>3. \A v \in DOMAIN holds :
        /\ HasEnv(functions'[holds[v].function]) => holds[v].bound = 1
        /\ holds[v].bound = 1 => functions'[holds[v].function].nest
        /\ HasEnv(functions'[holds[v].function]) <=> HasEnv(functions[holds[v].function])
  BY <1>2 DEF Kept, HasEnv
<1>4. \A f \in DOMAIN Functions :
        /\ Variable(0, f) \in DOMAIN holds
        /\ holds[Variable(0, f)].bound = 0
        /\ ~HasEnv(functions'[holds[Variable(0, f)].function])
  BY <1>3 DEF IInv, CallablesAgree
<1>5. CASE holds' = holds
  <2>1. /\ holds' \in [DOMAIN holds' -> [function : 1 .. Len(functions'), bound : {0, 1}]]
        /\ DOMAIN holds' \subseteq Variables
    BY <1>1, <1>2, <1>5
  <2>2. CallablesAgree'  BY <1>3, <1>4, <1>5 DEF CallablesAgree, Supplied
  <2> QED  BY <2>1, <2>2 DEF HoldsOK, CallableType
<1>6. CASE \E v \in Variables, c \in [function : 1 .. Len(functions'), bound : {0, 1}] :
              /\ v.in # 0 /\ holds' = Binding(holds, v, c)
              /\ HasEnv(functions'[c.function]) => c.bound = 1
              /\ c.bound = 1 => functions'[c.function].nest
  <2>1. PICK v \in Variables, c \in [function : 1 .. Len(functions'), bound : {0, 1}] :
              /\ v.in # 0 /\ holds' = Binding(holds, v, c)
              /\ HasEnv(functions'[c.function]) => c.bound = 1
              /\ c.bound = 1 => functions'[c.function].nest
    BY <1>6
  <2>2. /\ DOMAIN holds' = DOMAIN holds \cup {v} /\ holds'[v] = c
        /\ \A y \in DOMAIN holds : y # v => holds'[y] = holds[y]
        /\ holds' = [y \in DOMAIN holds \cup {v} |-> holds'[y]]
    BY <2>1 DEF Binding
  <2>3. ASSUME NEW y \in DOMAIN holds'
        PROVE  /\ holds'[y] \in [function : 1 .. Len(functions'), bound : {0, 1}]
               /\ HasEnv(functions'[holds'[y].function]) => holds'[y].bound = 1
               /\ holds'[y].bound = 1 => functions'[holds'[y].function].nest
    <3>1. CASE y = v  BY <2>1, <2>2, <3>1
    <3>2. CASE y # v  BY <1>2, <1>3, <2>2, <3>2
    <3> QED  BY <3>1, <3>2
  <2>4. /\ holds' \in [DOMAIN holds' -> [function : 1 .. Len(functions'), bound : {0, 1}]]
        /\ DOMAIN holds' \subseteq Variables
    BY <1>1, <2>2, <2>3
  <2>5. ASSUME NEW f \in DOMAIN Functions
        PROVE  /\ Variable(0, f) \in DOMAIN holds'
               /\ holds'[Variable(0, f)].bound = 0
               /\ ~HasEnv(functions'[holds'[Variable(0, f)].function])
    <3>1. Variable(0, f) # v  BY <2>1 DEF Variable
    <3> QED  BY <1>4, <2>2, <3>1
  <2>6. CallablesAgree'  BY <2>3, <2>5 DEF CallablesAgree, Supplied
  <2> QED  BY <2>4, <2>6 DEF HoldsOK, CallableType
<1> QED  BY <1>5, <1>6

------------------------------------------------------------------------------
(* Steps in a function *)

LEMMA CompiledTable ==
  ASSUME Ready, NEW t, NEW P, TableWith(t, P)
  PROVE  Maps(t, Pointers)
<1>1. /\ DOMAIN t = DOMAIN Own.table \cup {n \in Names \cap P : CapturedHere(n)}
      /\ t = [n \in DOMAIN t |-> t[n]]
      /\ \A n \in DOMAIN t :
           t[n] = IF n \in DOMAIN Own.table THEN Own.table[n] ELSE Slot(Own, n)
  BY DEF TableWith
<1>2. DOMAIN Own.table \subseteq Names /\ Own.table \in [DOMAIN Own.table -> Pointers]
  BY DEF Ready, IsFunction, Maps
<1>3. ASSUME NEW n \in Names, CapturedHere(n) PROVE Slot(Own, n) \in Pointers
  <2>1. n \in DOMAIN Reading.scope  BY <1>3 DEF CapturedHere, Ready, Agrees
  <2>2. Field(Own, n) \in Pointers  BY <1>3, <2>1, OfVariable
  <2>3. Field(Own, n).levels + 1 \in Nat /\ Field(Own, n).of \in Variables
    BY <2>2 DEF Pointers
  <2> QED  BY <2>3 DEF Slot, Value, Pointers, Instructions
<1>4. \A n \in DOMAIN t : t[n] \in Pointers  BY <1>1, <1>2, <1>3
<1>5. DOMAIN t \subseteq Names  BY <1>1, <1>2
<1>6. t \in [DOMAIN t -> Pointers]  BY <1>1, <1>4
<1> QED  BY <1>5, <1>6 DEF Maps

LEMMA Declares ==
  ASSUME Ready, NEW names \in Seq(Expressions), Compile(names).failed = "no",
         NEW n \in Targets, CanDeclare(Compile(names), n)
  PROVE  LET F == [Own EXCEPT !.table = Declared(Compile(names), n)]
             M == Reads(Compile(names), n)
         IN  IsFunction(F) /\ Kept(Own, F) /\ IsReading(M) /\ Agrees(F, M, Top)
<1> PICK c : c = Compile(names)  OBVIOUS
<1> PICK var : var = Variable(Top, n)  OBVIOUS
<1> PICK v : v = Value("alloca", 1, var)  OBVIOUS
<1> PICK m : m = [of |-> var, how |-> "let"]  OBVIOUS
<1> PICK E : E = [Own EXCEPT !.table = c.table]  OBVIOUS
<1> PICK L : L = [Reading EXCEPT !.used = Used(c)]  OBVIOUS
<1> PICK F : F = [Own EXCEPT !.table = Declared(c, n)]  OBVIOUS
<1> PICK M : M = Reads(c, n)  OBVIOUS
<1> SUFFICES IsFunction(F) /\ Kept(Own, F) /\ IsReading(M) /\ Agrees(F, M, Top)
  OBVIOUS
<1>1. TableWith(c.table, ToSet(names)) /\ Used(c) = Reading.used \cup ToSet(names)
  BY CompileFinds, CompileUses
<1>2. ToSet(names) \subseteq Expressions
  <2>1. \A i \in DOMAIN names : names[i] \in Expressions  OBVIOUS
  <2> QED  BY <2>1 DEF ToSet
<1>3. Maps(c.table, Pointers)  BY <1>1, CompiledTable
<1>4. IsFunction(Own) /\ IsReading(Reading) /\ Top \in Nat \ {0}  BY DEF Ready
<1>5. E.names = Own.names /\ E.fields = Own.fields /\ E.table = c.table
  BY <1>3, <1>4, Retabled DEF Kept
<1>6. /\ Reading \in [scope : {Reading.scope}, captured : SUBSET Names, used : SUBSET Expressions]
      /\ Maps(Reading.scope, Meanings)
  BY <1>4 DEF IsReading
<1>7. L.scope = Reading.scope /\ L.captured = Reading.captured
      /\ L.used = Reading.used \cup ToSet(names)
  BY <1>1, <1>6
<1>8. Agrees(E, L, Top)  BY <1>1, <1>5, <1>7, UsedAgrees
<1>9. CASE n = Discard
  <2>1. F = E  BY <1>9 DEF Declared
  <2>2. /\ M \in [scope : {Reading.scope}, captured : SUBSET Names, used : SUBSET Expressions]
        /\ M.scope = Reading.scope /\ M.captured = Reading.captured
        /\ M.used = Reading.used \cup ToSet(names)
    BY <1>1, <1>2, <1>6, <1>9 DEF Reads
  <2>3. IsReading(M)  BY <1>6, <2>2 DEF IsReading
  <2>4. Agrees(F, M, Top)  BY <1>1, <1>5, <2>1, <2>2, UsedAgrees
  <2> QED  BY <1>3, <1>4, <2>1, <2>3, <2>4, Retabled
<1>10. CASE n # Discard
  <2>1. n \in Names /\ n \notin DOMAIN c.table  BY <1>10 DEF Targets, CanDeclare
  <2>2. var \in Variables  BY <1>4, <2>1 DEF Variable, Variables
  <2>3. v \in Pointers /\ m \in Meanings
    BY <2>2 DEF Value, Pointers, Instructions, Meanings
  <2>4. Declared(c, n) = Binding(c.table, n, v)  BY <1>10 DEF Declared
  <2>5. Maps(Binding(c.table, n, v), Pointers) /\ Maps(Binding(Reading.scope, n, m), Meanings)
    BY <1>3, <1>6, <2>1, <2>3, BoundMaps
  <2>6. /\ IsFunction(F) /\ Kept(Own, F) /\ F.names = Own.names /\ F.fields = Own.fields
        /\ F.table = Binding(c.table, n, v)
    BY <1>4, <2>4, <2>5, Retabled DEF Kept
  <2>7. M = [Reading EXCEPT !.used = Used(c), !.scope = Binding(Reading.scope, n, m)]
    BY <1>6, <1>10 DEF Reads
  <2>8. /\ M \in [scope : {M.scope}, captured : SUBSET Names, used : SUBSET Expressions]
        /\ M.scope = Binding(Reading.scope, n, m) /\ M.captured = Reading.captured
        /\ M.used = Reading.used \cup ToSet(names)
    <3> PICK b : b = Binding(Reading.scope, n, m)  OBVIOUS
    <3> PICK u : u = Reading.used \cup ToSet(names)  OBVIOUS
    <3>1. M = [Reading EXCEPT !.used = u, !.scope = b]  BY <1>1, <2>7
    <3>2. u \in SUBSET Expressions  BY <1>2, <1>6
    <3>3. /\ M \in [scope : {b}, captured : SUBSET Names, used : SUBSET Expressions]
          /\ M.scope = b /\ M.captured = Reading.captured /\ M.used = u
      BY <1>6, <3>1, <3>2
    <3> QED  BY <3>3
  <2>9. IsReading(M)  BY <2>5, <2>8 DEF IsReading
  <2>10. Agrees(F, M, Top)
    <3>1. /\ n \notin DOMAIN E.table /\ F.names = E.names /\ F.fields = E.fields
          /\ F.table = Binding(E.table, n, v)
          /\ M.captured = L.captured /\ M.used = L.used
          /\ M.scope = Binding(L.scope, n, m) /\ Top \in Nat
      BY <1>4, <1>5, <1>7, <2>1, <2>6, <2>8
    <3>2. F.table = Binding(E.table, n, Value("alloca", 1, Variable(Top, n)))
      BY <3>1
    <3>3. M.scope = Binding(L.scope, n, [of |-> Variable(Top, n), how |-> "let"])
      BY <3>1
    <3> QED  BY ONLY <1>8, <3>1, <3>2, <3>3, DeclaredAgrees
  <2> QED  BY <2>6, <2>9, <2>10
<1> QED  BY <1>9, <1>10

LEMMA StopKeeps ==
  ASSUME IInv, NEW how \in {"done", "error", "crash", "undefined"}, Stop(how),
         statements' \in Nat
  PROVE  IInv'
<1>1. /\ functions' = functions /\ building' = building /\ holds' = holds
      /\ calls' = calls /\ meant' = meant /\ outcome' = how
  BY DEF Stop, code
<1>2. TypeOK'  BY <1>1 DEF IInv, TypeOK, CallableType
<1>3. Nested' /\ NamesAgree'  BY <1>1 DEF IInv, Nested, NamesAgree
<1>4. CallablesAgree' /\ CallsReachParameters'
  BY <1>1 DEF IInv, CallablesAgree, Supplied, CallsReachParameters
<1> QED  BY <1>2, <1>3, <1>4 DEF IInv

(* The functions after a statement: the one at the top has the table t,    *)
(* and those in "nested" a nest parameter.                                 *)
Changed(t, nested) ==
  [f \in 1 .. Len(functions) |->
     LET F == IF f = Top THEN [Own EXCEPT !.table = t] ELSE functions[f]
     IN  IF f \in nested THEN [F EXCEPT !.nest = TRUE] ELSE F]

LEMMA TableChanges ==
  ASSUME IInv, NEW t
  PROVE  [functions EXCEPT ![Top].table = t] = Changed(t, {})
<1>1. /\ Own = functions[Top] /\ Top \in 1 .. Len(functions)
      /\ DOMAIN functions = 1 .. Len(functions)
  BY ReadyNow
<1>2. functions = [f \in 1 .. Len(functions) |-> functions[f]]
  <2>1. functions \in Seq(ToSet(functions))  BY DEF IInv, TypeOK
  <2> QED  BY <1>1, <2>1
<1> PICK k : k = Top  OBVIOUS
<1> PICK F : F = [Own EXCEPT !.table = t]  OBVIOUS
<1>3. [functions EXCEPT ![Top].table = t] = [functions EXCEPT ![k] = F]
  BY <1>1
<1>4. Changed(t, {}) = [f \in 1 .. Len(functions) |-> IF f = k THEN F ELSE functions[f]]
  BY DEF Changed
<1> QED  BY <1>1, <1>2, <1>3, <1>4

LEMMA NestChanges ==
  ASSUME NEW t, NEW g \in 1 .. Len(functions), Len(functions) \in Nat
  PROVE  [Changed(t, {}) EXCEPT ![g].nest = TRUE] = Changed(t, {g})
<1> DEFINE F(f) == IF f = Top THEN [Own EXCEPT !.table = t] ELSE functions[f]
<1>1. Changed(t, {}) = [f \in 1 .. Len(functions) |-> F(f)]  BY DEF Changed
<1>2. Changed(t, {g}) = [f \in 1 .. Len(functions) |->
                           IF f = g THEN [F(f) EXCEPT !.nest = TRUE] ELSE F(f)]
  BY DEF Changed
<1> HIDE DEF F
<1> QED  BY <1>1, <1>2

(* A statement that declares n, for a value that is one of the functions.  *)
LEMMA DeclarationKeeps ==
  ASSUME IInv, NEW names \in Seq(Expressions), Compile(names).failed = "no",
         NEW n \in Targets, CanDeclare(Compile(names), n),
         NEW function, Keep(Compile(names), n, function), building' = building,
         NEW nested \in SUBSET (1 .. Len(functions)),
         functions' = Changed(Declared(Compile(names), n), nested),
         function = {} \/ \E c \in [function : 1 .. Len(functions), bound : {0, 1}] :
           /\ function = {c}
           /\ HasEnv(functions[c.function]) => c.bound = 1
           /\ c.bound = 1 => functions[c.function].nest \/ c.function \in nested
  PROVE  /\ StackOK' /\ HoldsOK' /\ Len(functions') = Len(functions)
         /\ \A f \in 1 .. Len(functions) : Kept(functions[f], functions'[f])
         /\ \A f \in nested : functions'[f].nest
<1> PICK c : c = Compile(names)  OBVIOUS
<1> PICK F : F = [Own EXCEPT !.table = Declared(c, n)]  OBVIOUS
<1> PICK M : M = Reads(c, n)  OBVIOUS
<1>1. /\ Ready /\ Len(building) \in Nat \ {0} /\ Len(meant) = Len(building)
      /\ Own = functions[Top] /\ Reading = meant[Len(building)] /\ Top \in 1 .. Len(functions)
      /\ DOMAIN functions = 1 .. Len(functions) /\ Len(functions) \in Nat
  BY ReadyNow
<1>2. IsFunction(F) /\ Kept(Own, F) /\ IsReading(M) /\ Agrees(F, M, Top)
  BY <1>1, Declares
<1>3. /\ meant' \in Seq(ToSet(meant')) /\ Len(meant') = Len(meant)
      /\ meant'[Len(meant)] = M
      /\ \A d \in 1 .. Len(meant) - 1 : meant'[d] = meant[d]
  <2>1. meant' = [meant EXCEPT ![Len(meant)] = M]
    BY DEF Keep
  <2>2. meant \in Seq(ToSet(meant)) /\ Len(meant) \in 1 .. Len(meant) /\ Len(meant) \in Nat
    BY <1>1 DEF IInv, TypeOK
  <2>3. /\ meant' \in Seq(ToSet(meant')) /\ Len(meant') = Len(meant)
        /\ meant'[Len(meant)] = M
        /\ \A d \in 1 .. Len(meant) : d # Len(meant) => meant'[d] = meant[d]
    BY ONLY <2>1, <2>2, Replaced
  <2>4. \A d \in 1 .. Len(meant) - 1 : d \in 1 .. Len(meant) /\ d # Len(meant)
    BY <2>2
  <2> QED  BY <2>3, <2>4
<1>4. functions' \in Seq(ToSet(functions')) /\ Len(functions') = Len(functions)
  <2> PICK s : s = functions'  OBVIOUS
  <2>1. DOMAIN s = 1 .. Len(functions) /\ s = [f \in DOMAIN s |-> s[f]]  BY DEF Changed
  <2>2. s = [f \in 1 .. Len(functions) |-> s[f]]  BY ONLY <2>1
  <2>3. s \in Seq(ToSet(s)) /\ Len(s) = Len(functions)
    BY ONLY <1>1, <2>2, SequenceOfItself
  <2> QED  BY ONLY <2>3, s = functions'
<1>5. \A f \in 1 .. Len(functions) : f # Top => Alike(functions[f], functions'[f])
  <2> SUFFICES ASSUME NEW f \in 1 .. Len(functions), f # Top
               PROVE  Alike(functions[f], functions'[f])
    OBVIOUS
  <2>1. IsFunction(functions[f])  BY <1>1 DEF IInv, TypeOK
  <2>2. Alike(functions[f], functions[f])  BY <2>1 DEF Alike, Kept
  <2>3. functions'[f] = IF f \in nested THEN [functions[f] EXCEPT !.nest = TRUE] ELSE functions[f]
    BY DEF Changed
  <2> QED  BY <2>1, <2>2, <2>3, NestAlike
<1>6. Alike(F, functions'[Top])
  <2>1. Alike(F, F)  BY <1>2 DEF Alike, Kept
  <2>2. functions'[Top] = IF Top \in nested THEN [F EXCEPT !.nest = TRUE] ELSE F
    BY <1>1 DEF Changed
  <2> QED  BY <1>2, <2>1, <2>2, NestAlike
<1>7. IsFunction(functions'[Top]) /\ Kept(Own, functions'[Top])
  BY <1>2, <1>6, KeptOn DEF Alike
<1>8. Agrees(functions'[Top], M, Top)
  <2> PICK G : G = functions'[Top]  OBVIOUS
  <2>1. G.names = F.names /\ G.fields = F.fields /\ G.table = F.table
    BY <1>6 DEF Alike, Kept
  <2>2. Agrees(F, M, Top)  BY <1>2
  <2>3. Agrees(G, M, Top)  BY ONLY <2>1, <2>2, AgreesByParts
  <2> QED  BY ONLY <2>3, G = functions'[Top]
<1>9. /\ StackOK'
      /\ \A f \in 1 .. Len(functions) : Kept(functions[f], functions'[f])
  <2>1. OnlyTop(functions', meant')
    BY <1>1, <1>2, <1>3, <1>4, <1>5, <1>7, <1>8 DEF OnlyTop
  <2> QED  BY <2>1, TopKeeps
<1>10. \A f \in nested : functions'[f].nest
  <2> SUFFICES ASSUME NEW f \in nested PROVE functions'[f].nest
    OBVIOUS
  <2> PICK G : G = IF f = Top THEN F ELSE functions[f]  OBVIOUS
  <2>1. functions'[f] = [G EXCEPT !.nest = TRUE]  BY DEF Changed
  <2>2. IsFunction(G)  BY <1>1, <1>2 DEF IInv, TypeOK
  <2>3. DOMAIN G = {"closure", "params", "variadic", "nest", "names", "fields", "table"}
    BY <2>2 DEF IsFunction
  <2> QED  BY <2>1, <2>3
<1>11. HoldsOK'
  <2>1. CASE n = Discard \/ function = {}
    <3>1. holds' = holds  BY <2>1 DEF Keep
    <3>2. Len(functions') \in Nat /\ Len(functions) <= Len(functions')  BY <1>1, <1>4
    <3> QED  BY <1>9, <3>1, <3>2, HoldsKeep
  <2>2. CASE ~(n = Discard \/ function = {})
    <3>1. PICK x \in [function : 1 .. Len(functions), bound : {0, 1}] :
            /\ function = {x}
            /\ HasEnv(functions[x.function]) => x.bound = 1
            /\ x.bound = 1 => functions[x.function].nest \/ x.function \in nested
      BY <2>2
    <3>2. (CHOOSE f \in function : TRUE) = x  BY <3>1
    <3>3. holds' = Binding(holds, Variable(Top, n), x)  BY <2>2, <3>2 DEF Keep
    <3>4. Variable(Top, n) \in Variables /\ Variable(Top, n).in # 0
      BY <1>1, <2>2 DEF Variable, Variables, Targets
    <3>5. x.function \in 1 .. Len(functions)  OBVIOUS
    <3>6. HasEnv(functions'[x.function]) => x.bound = 1
      BY <1>9, <3>1, <3>5 DEF Kept, HasEnv
    <3>7. x.bound = 1 => functions'[x.function].nest
      BY <1>9, <1>10, <3>1, <3>5 DEF Kept
    <3>8. x \in [function : 1 .. Len(functions'), bound : {0, 1}]  BY <1>4
    <3>9. Len(functions') \in Nat /\ Len(functions) <= Len(functions')  BY <1>1, <1>4
    <3> QED  BY <1>9, <3>3, <3>4, <3>6, <3>7, <3>8, <3>9, HoldsKeep
  <2> QED  BY <2>1, <2>2
<1> QED  BY <1>4, <1>9, <1>10, <1>11

LEMMA CompileStops ==
  ASSUME Ready, NEW names \in Seq(Expressions), Compile(names).failed # "no"
  PROVE  Compile(names).failed \in {"done", "error", "crash", "undefined"}
  BY CompileFails

LEMMA LetKeeps ==
  ASSUME IInv, outcome = "compiling", statements' \in Nat,
         NEW n \in Targets, NEW e \in Expressions, Let(n, e)
  PROVE  IInv'
<1> PICK c : c = Compile(<<e>>)  OBVIOUS
<1> PICK how : how = LetComesTo(c, n)  OBVIOUS
<1>1. Ready /\ <<e>> \in Seq(Expressions)  BY ReadyNow
<1>2. CASE how # "compiling"
  <2>1. Stop(how)  BY <1>2 DEF Let
  <2>2. how \in {"done", "error", "crash", "undefined"}
    BY <1>1, <1>2, CompileStops DEF LetComesTo
  <2> QED  BY <2>1, <2>2, StopKeeps
<1>3. CASE how = "compiling"
  <2>1. c.failed = "no" /\ CanDeclare(c, n)  BY <1>3, <1>1, CompileFails DEF LetComesTo
  <2> PICK v : v = Term(Found(c)[1])  OBVIOUS
  <2>2. /\ functions' = [functions EXCEPT ![Top].table = Declared(c, n)]
        /\ Keep(c, n, FunctionIn(v))
        /\ calls' = {} /\ building' = building /\ outcome' = outcome
    BY <1>3 DEF Let
  <2>3. functions' = Changed(Declared(c, n), {})  BY <2>2, TableChanges
  <2>4. FunctionIn(v) = {} \/ \E x \in [function : 1 .. Len(functions), bound : {0, 1}] :
          /\ FunctionIn(v) = {x}
          /\ HasEnv(functions[x.function]) => x.bound = 1
          /\ x.bound = 1 => functions[x.function].nest \/ x.function \in {}
    <3> SUFFICES ASSUME HoldsFunction(v)
                 PROVE  \E x \in [function : 1 .. Len(functions), bound : {0, 1}] :
                          /\ FunctionIn(v) = {x}
                          /\ HasEnv(functions[x.function]) => x.bound = 1
                          /\ x.bound = 1 => functions[x.function].nest \/ x.function \in {}
      BY DEF FunctionIn
    <3>1. FunctionIn(v) = {holds[v.of]} /\ v.of \in DOMAIN holds
      BY DEF FunctionIn, HoldsFunction
    <3>2. holds[v.of] \in [function : 1 .. Len(functions), bound : {0, 1}]
      BY <3>1 DEF IInv, TypeOK, CallableType
    <3>3. Supplied(holds[v.of])  BY <3>1 DEF IInv, CallablesAgree
    <3> QED  BY <3>1, <3>2, <3>3 DEF Supplied
  <2>5. /\ StackOK' /\ HoldsOK' /\ Len(functions') = Len(functions)
    <3> PICK names : names = <<e>>  OBVIOUS
    <3> PICK function : function = FunctionIn(v)  OBVIOUS
    <3> PICK nested : nested = {}  OBVIOUS
    <3>1. names \in Seq(Expressions) /\ c = Compile(names)  BY <1>1
    <3>2. Compile(names).failed = "no" /\ CanDeclare(Compile(names), n)  BY <2>1, <3>1
    <3>3. Keep(Compile(names), n, function) /\ building' = building  BY <2>2, <3>1
    <3>4. functions' = Changed(Declared(Compile(names), n), nested)  BY <2>3, <3>1
    <3>5. nested \in SUBSET (1 .. Len(functions))  OBVIOUS
    <3>6. function = {} \/ \E x \in [function : 1 .. Len(functions), bound : {0, 1}] :
            /\ function = {x}
            /\ HasEnv(functions[x.function]) => x.bound = 1
            /\ x.bound = 1 => functions[x.function].nest \/ x.function \in nested
      BY <2>4
    <3> QED  BY ONLY IInv, n \in Targets, <3>1, <3>2, <3>3, <3>4, <3>5, <3>6, DeclarationKeeps
  <2>6. RestOK'  BY <2>2 DEF RestOK, CallsReachParameters, IInv, TypeOK
  <2> QED  BY <2>5, <2>6, InPartsNext
<1> QED  BY <1>2, <1>3

(* What is called is reached, as long as no function changes its kind.     *)
LEMMA CallReaches ==
  ASSUME IInv, NEW v, HoldsFunction(v), NEW n \in Nat, ~Malformed(v, n),
         IsVariadic(v) \/ ParamsLeft(v) = n, Len(functions') = Len(functions),
         \A f \in 1 .. Len(functions) : Kept(functions[f], functions'[f])
  PROVE  LET x == CallTo(v, n)
             f == functions'[x.function]
         IN  /\ x \in [function : 1 .. Len(functions'), bound : {0, 1}, given : Nat]
             /\ x.bound + x.given >= f.params
             /\ ~f.variadic => x.bound + x.given = f.params
             /\ HasEnv(f) => x.bound = 1
             /\ x.bound <= 1 /\ (x.bound = 1 => f.nest)
<1> PICK x : x = CallTo(v, n)  OBVIOUS
<1> PICK k : k = holds[v.of].function  OBVIOUS
<1> PICK b : b = holds[v.of].bound  OBVIOUS
<1> PICK F : F = functions[k]  OBVIOUS
<1> PICK G : G = functions'[k]  OBVIOUS
<1>1. v.of \in DOMAIN holds  BY DEF HoldsFunction
<1>2. holds[v.of] \in [function : 1 .. Len(functions), bound : {0, 1}] /\ Supplied(holds[v.of])
  BY <1>1 DEF IInv, TypeOK, CallableType, CallablesAgree
<1>3. k \in 1 .. Len(functions) /\ b \in {0, 1}
      /\ (HasEnv(F) => b = 1) /\ (b = 1 => F.nest)
  BY <1>2 DEF Supplied
<1>4. x = [function |-> k, bound |-> b, given |-> n]  BY DEF CallTo, Callee
<1>5. ~(n < F.params - b) /\ (F.variadic \/ F.params - b = n)
  BY DEF Malformed, IsVariadic, ParamsLeft, Callee
<1>6. IsFunction(F)
  <2>1. DOMAIN functions = 1 .. Len(functions)  BY ReadyNow
  <2> QED  BY <1>3, <2>1 DEF IInv, TypeOK
<1>7. F.params \in Nat  BY <1>6 DEF IsFunction
<1>8. /\ G.params = F.params /\ G.variadic = F.variadic /\ G.names = F.names
      /\ F.nest => G.nest
  BY <1>3 DEF Kept
<1>9. x \in [function : 1 .. Len(functions'), bound : {0, 1}, given : Nat]
  BY <1>3, <1>4
<1>10. b + n >= G.params /\ (~G.variadic => b + n = G.params)
  BY ONLY <1>3, <1>5, <1>7, <1>8, n \in Nat
<1>11. (HasEnv(G) => b = 1) /\ b <= 1 /\ (b = 1 => G.nest)
  BY ONLY <1>3, <1>8 DEF HasEnv
<1>12. x.function = k /\ x.bound = b /\ x.given = n  BY <1>4
<1> QED  BY ONLY <1>9, <1>10, <1>11, <1>12, x = CallTo(v, n), G = functions'[k]

(* Only a function of the module is applied partially, and to one argument.*)
LEMMA AppliedIs ==
  ASSUME IInv, NEW names \in Seq(Expressions), Compile(names).failed = "no",
         NEW i \in 1 .. Len(names), NEW n \in Nat,
         NEW v, v = Term(Found(Compile(names))[i]), PartiallyApplicable(v, n)
  PROVE  /\ Apply(v, n) \in [function : 1 .. Len(functions), bound : {0, 1}]
         /\ Apply(v, n).function = Callee(v).function /\ Apply(v, n).bound = n
         /\ ~HasEnv(functions[Callee(v).function]) /\ n \in {0, 1}
<1>1. names[i] \in DOMAIN Functions /\ v.of = Variable(0, names[i]) /\ n \in {0, 1}
  <2>1. v.inst = "function" /\ n <= 1  BY DEF PartiallyApplicable
  <2>2. Ready  BY ReadyNow
  <2> QED  BY <2>1, <2>2, CalleeIs
<1>2. v.of \in DOMAIN holds /\ holds[v.of].bound = 0 /\ ~HasEnv(functions[holds[v.of].function])
  BY <1>1 DEF IInv, CallablesAgree
<1>3. holds[v.of].function \in 1 .. Len(functions)
  <2>1. holds[v.of] \in [function : 1 .. Len(functions), bound : {0, 1}]
    BY <1>2 DEF IInv, TypeOK, CallableType
  <2> QED  BY <2>1
<1>4. Apply(v, n) = [function |-> holds[v.of].function, bound |-> n]
  BY <1>2 DEF Apply, Callable, Callee
<1> QED  BY <1>1, <1>2, <1>3, <1>4 DEF Callee

LEMMA CallKeeps ==
  ASSUME IInv, outcome = "compiling", statements' \in Nat,
         NEW s \in StatementsOf("call"), Call(s.callees, s.arguments, s.more, s.name)
  PROVE  IInv'
<1> PICK names : names = s.callees \o s.arguments  OBVIOUS
<1> PICK c : c = Compile(names)  OBVIOUS
<1> PICK how : how = CallComesTo(s.callees, s.arguments, s.more, s.name)  OBVIOUS
<1> PICK f : f = Term(Found(c)[1])  OBVIOUS
<1> PICK g : g = Term(Found(c)[Len(s.callees)])  OBVIOUS
<1> PICK given : given = Len(s.arguments)  OBVIOUS
<1> PICK n : n = s.name  OBVIOUS
<1>1. Ready /\ Len(functions) \in Nat  BY ReadyNow
<1>2. /\ names \in Seq(Expressions) /\ Len(s.callees) \in {1, 2}
      /\ 1 \in 1 .. Len(names) /\ Len(s.callees) \in 1 .. Len(names)
      /\ given \in Nat /\ s.more \in BOOLEAN /\ n \in Targets
  BY CallStatement
<1>3. c.failed \in {"no", "error", "crash"}  BY <1>1, <1>2, CompileFails
<1>4. /\ c.failed # "no" => how = c.failed
      /\ c.failed = "no" => how # "crash"
      /\ how = "compiling" =>
           /\ c.failed = "no" /\ CanDeclare(c, n)
           /\ HoldsFunction(f) /\ (Len(s.callees) = 2 => HoldsFunction(g))
           /\ s.more => PartiallyApplicable(f, given)
           /\ ~s.more => /\ ~Malformed(f, given)
                         /\ IsVariadic(f) \/ ParamsLeft(f) = given
           /\ Len(s.callees) = 2 =>
                ~Malformed(g, 1) /\ (IsVariadic(g) \/ ParamsLeft(g) = 1)
  BY <1>2, <1>3, CallsCome
<1>5. CASE how # "compiling"
  <2>1. Stop(how)  BY <1>5 DEF Call
  <2>2. how \in {"done", "error", "crash", "undefined"}
    <3>1. how \in {"error", "crash", "undefined"}  BY <1>3, <1>5 DEF CallComesTo
    <3> QED  BY <3>1
  <2> QED  BY <2>1, <2>2, StopKeeps
<1>6. CASE how = "compiling"
  <2> DEFINE nested == IF s.more /\ given = 1 THEN {Callee(f).function} ELSE {}
             function == IF s.more /\ Len(s.callees) # 2 THEN {Apply(f, given)} ELSE {}
  <2>1. /\ functions' =
             IF s.more /\ given = 1
               THEN [[functions EXCEPT ![Top].table = Declared(c, n)]
                       EXCEPT ![Callee(f).function].nest = TRUE]
               ELSE [functions EXCEPT ![Top].table = Declared(c, n)]
        /\ calls' = (IF s.more THEN {} ELSE {CallTo(f, given)})
                     \cup (IF Len(s.callees) = 2 THEN {CallTo(g, 1)} ELSE {})
        /\ Keep(c, n, function)
        /\ building' = building /\ outcome' = outcome
    BY <1>6 DEF Call
  <2>2. s.more =>
          /\ Apply(f, given) \in [function : 1 .. Len(functions), bound : {0, 1}]
          /\ Apply(f, given).function = Callee(f).function /\ Apply(f, given).bound = given
          /\ ~HasEnv(functions[Callee(f).function]) /\ given \in {0, 1}
    <3> SUFFICES ASSUME s.more
                 PROVE
          /\ Apply(f, given) \in [function : 1 .. Len(functions), bound : {0, 1}]
          /\ Apply(f, given).function = Callee(f).function /\ Apply(f, given).bound = given
          /\ ~HasEnv(functions[Callee(f).function]) /\ given \in {0, 1}
      OBVIOUS
    <3>3. c.failed = "no" /\ PartiallyApplicable(f, given)
      BY ONLY <1>4, <1>6, how = "compiling", s.more
    <3>1. Compile(names).failed = "no" /\ PartiallyApplicable(f, given)
      BY ONLY <3>3, c = Compile(names)
    <3>2. f = Term(Found(Compile(names))[1])  OBVIOUS
    <3> QED  BY ONLY IInv, <1>2, <3>1, <3>2, AppliedIs
  <2>3. s.more => Callee(f).function \in 1 .. Len(functions)
    <3> SUFFICES ASSUME s.more PROVE Callee(f).function \in 1 .. Len(functions)
      OBVIOUS
    <3> PICK a : a = Apply(f, given)  OBVIOUS
    <3>1. a \in [function : 1 .. Len(functions), bound : {0, 1}] /\ a.function = Callee(f).function
      BY <2>2
    <3> QED  BY <3>1
  <2>4. functions' = Changed(Declared(c, n), nested)
    <3> PICK t : t = Declared(c, n)  OBVIOUS
    <3> PICK k : k = Callee(f).function  OBVIOUS
    <3>1. CASE s.more /\ given = 1
      <4> PICK base : base = [functions EXCEPT ![Top].table = t]  OBVIOUS
      <4>1. functions' = [base EXCEPT ![k].nest = TRUE]
        BY <2>1, <3>1
      <4>2. base = Changed(t, {})
        BY ONLY IInv, base = [functions EXCEPT ![Top].table = t], TableChanges
      <4>3. [Changed(t, {}) EXCEPT ![k].nest = TRUE] = Changed(t, {k})
        BY <1>1, <2>3, <3>1, NestChanges
      <4>4. functions' = Changed(t, {k})  BY ONLY <4>1, <4>2, <4>3
      <4>5. nested = {k}  BY <3>1
      <4> HIDE DEF nested
      <4> QED  BY ONLY <4>4, <4>5, t = Declared(c, n)
    <3>2. CASE ~(s.more /\ given = 1)
      <4>1. functions' = [functions EXCEPT ![Top].table = t]  BY <2>1, <3>2
      <4> QED  BY <3>2, <4>1, TableChanges
    <3> QED  BY <3>1, <3>2
  <2>5. nested \in SUBSET (1 .. Len(functions))  BY <2>3
  <2>6. function = {} \/ \E x \in [function : 1 .. Len(functions), bound : {0, 1}] :
          /\ function = {x}
          /\ HasEnv(functions[x.function]) => x.bound = 1
          /\ x.bound = 1 => functions[x.function].nest \/ x.function \in nested
    <3> SUFFICES ASSUME s.more, Len(s.callees) # 2
                 PROVE  \E x \in [function : 1 .. Len(functions), bound : {0, 1}] :
                          /\ function = {x}
                          /\ HasEnv(functions[x.function]) => x.bound = 1
                          /\ x.bound = 1 => functions[x.function].nest \/ x.function \in nested
      OBVIOUS
    <3> PICK x : x = Apply(f, given)  OBVIOUS
    <3>1. function = {x}  OBVIOUS
    <3>2. x \in [function : 1 .. Len(functions), bound : {0, 1}]  BY <2>2
    <3>3. ~HasEnv(functions[x.function])  BY <2>2
    <3>4. x.bound = 1 => x.function \in nested  BY <2>2
    <3> HIDE DEF function, nested
    <3> QED  BY <3>1, <3>2, <3>3, <3>4
  <2>7. /\ StackOK' /\ HoldsOK' /\ Len(functions') = Len(functions)
        /\ \A k \in 1 .. Len(functions) : Kept(functions[k], functions'[k])
    <3>1. /\ Compile(names).failed = "no" /\ CanDeclare(Compile(names), n)
          /\ Keep(Compile(names), n, function) /\ building' = building
          /\ functions' = Changed(Declared(Compile(names), n), nested)
      BY <1>4, <1>6, <2>1, <2>4
    <3> HIDE DEF function, nested
    <3> QED  BY ONLY IInv, <1>2, <2>5, <2>6, <3>1, DeclarationKeeps
  <2> HIDE DEF nested, function
  <2>8. \A x \in calls' :
          /\ x \in [function : 1 .. Len(functions'), bound : {0, 1}, given : Nat]
          /\ x.bound + x.given >= functions'[x.function].params
          /\ ~functions'[x.function].variadic => x.bound + x.given = functions'[x.function].params
          /\ HasEnv(functions'[x.function]) => x.bound = 1
          /\ x.bound <= 1 /\ (x.bound = 1 => functions'[x.function].nest)
    <3> SUFFICES ASSUME NEW x \in calls'
                 PROVE
          /\ x \in [function : 1 .. Len(functions'), bound : {0, 1}, given : Nat]
          /\ x.bound + x.given >= functions'[x.function].params
          /\ ~functions'[x.function].variadic => x.bound + x.given = functions'[x.function].params
          /\ HasEnv(functions'[x.function]) => x.bound = 1
          /\ x.bound <= 1 /\ (x.bound = 1 => functions'[x.function].nest)
      OBVIOUS
    <3>1. (~s.more /\ x = CallTo(f, given)) \/ (Len(s.callees) = 2 /\ x = CallTo(g, 1))
      BY <1>2, <2>1
    <3>2. \E v : \E k \in Nat : /\ x = CallTo(v, k) /\ HoldsFunction(v) /\ ~Malformed(v, k)
                                /\ IsVariadic(v) \/ ParamsLeft(v) = k
      BY ONLY <1>2, <1>4, <1>6, <3>1
    <3> QED  BY ONLY IInv, <2>7, <3>2, CallReaches
  <2>9. RestOK'
    <3>1. CallsReachParameters'  BY <2>8 DEF CallsReachParameters
    <3>2. calls' \subseteq [function : 1 .. Len(functions'), bound : {0, 1}, given : Nat]
      BY <2>8
    <3> QED  BY <2>1, <3>1, <3>2 DEF RestOK
  <2> QED  BY <2>7, <2>9, InPartsNext
<1> QED  BY <1>5, <1>6

------------------------------------------------------------------------------
(* A closure begins *)

(* A value in the environment stands for what a reader takes its name for. *)
Stands(v, m) ==
  /\ v \in Pointers /\ m \in Meanings
  /\ m.how # "let" /\ m.of.in <= Top
  /\ m.how # "shadow" => v.of = m.of /\ (v.levels = 0 <=> m.how = "value")

(* Where the field of a name is when the names are those of a, then of b.  *)
FirstIn(F, a, b, n) ==
  /\ n \in ToSet(a) =>
       /\ FieldOf(F, n) \in 1 .. Len(a) /\ a[FieldOf(F, n)] = n
       /\ \A j \in 1 .. Len(a) : a[j] = n => FieldOf(F, n) <= j
  /\ n \notin ToSet(a) /\ n \in ToSet(b) =>
       \E j \in 1 .. Len(b) : FieldOf(F, n) = Len(a) + j /\ b[j] = n

LEMMA FirstOf ==
  ASSUME NEW F, NEW a \in Seq(Names), NEW b \in Seq(Names), F.names = a \o b, NEW n
  PROVE  FirstIn(F, a, b, n)
<1> PICK k : k = FieldOf(F, n)  OBVIOUS
<1>1. /\ F.names \in Seq(Names) /\ Len(F.names) = Len(a) + Len(b)
      /\ \A i \in 1 .. Len(a) : F.names[i] = a[i]
      /\ \A i \in 1 .. Len(b) : F.names[Len(a) + i] = b[i]
      /\ ToSet(F.names) = ToSet(a) \cup ToSet(b)
  BY MembersOfBoth
<1>2. Len(a) \in Nat /\ Len(b) \in Nat  OBVIOUS
<1>3. n \in ToSet(F.names) =>
        /\ k \in 1 .. Len(F.names) /\ F.names[k] = n
        /\ \A j \in 1 .. Len(F.names) : F.names[j] = n => k <= j
  BY <1>1, FirstField
<1>4. ASSUME n \in ToSet(a)
      PROVE  /\ k \in 1 .. Len(a) /\ a[k] = n
             /\ \A j \in 1 .. Len(a) : a[j] = n => k <= j
  <2>1. PICK i \in 1 .. Len(a) : a[i] = n  BY <1>4 DEF ToSet
  <2>2. k \in 1 .. Len(F.names) /\ F.names[k] = n
        /\ \A j \in 1 .. Len(F.names) : F.names[j] = n => k <= j
    BY <1>1, <1>3, <1>4
  <2>3. i \in 1 .. Len(F.names) /\ F.names[i] = n  BY <1>1, <1>2, <2>1
  <2>4. k <= i  BY <2>2, <2>3
  <2>5. k \in 1 .. Len(a)  BY <1>1, <1>2, <2>1, <2>2, <2>4
  <2>6. \A j \in 1 .. Len(a) : j \in 1 .. Len(F.names)  BY <1>1, <1>2
  <2> QED  BY <1>1, <2>2, <2>5, <2>6
<1>5. ASSUME n \notin ToSet(a), n \in ToSet(b)
      PROVE  \E j \in 1 .. Len(b) : k = Len(a) + j /\ b[j] = n
  <2>1. k \in 1 .. Len(F.names) /\ F.names[k] = n  BY <1>1, <1>3, <1>5
  <2>2. k \notin 1 .. Len(a)  BY <1>1, <1>5, <2>1 DEF ToSet
  <2> PICK j : j = k - Len(a)  OBVIOUS
  <2>3. j \in 1 .. Len(b) /\ k = Len(a) + j  BY <1>1, <1>2, <2>1, <2>2
  <2> QED  BY <1>1, <2>1, <2>3
<1> QED  BY <1>4, <1>5 DEF FirstIn

SizedFields == [i \in DOMAIN Sized |-> Own.table[Sized[i]]]

LEMMA PartsOfDefault ==
  ASSUME Ready
  PROVE  /\ InheritedFields \in Seq(Pointers) /\ Len(InheritedFields) = Len(Own.names)
         /\ SizedFields \in Seq(Pointers) /\ Len(SizedFields) = Len(Sized)
         /\ Own.names \in Seq(Names) /\ Sized \in Seq(Names)
<1>1. InheritedNames = Own.names  BY InheritedAre
<1>2. /\ Own.names \in Seq(Names) /\ Own.fields \in Seq(Pointers)
      /\ Len(Own.fields) = Len(Own.names) /\ Maps(Own.table, Pointers)
  BY DEF Ready, IsFunction, Agrees
<1> PICK L : L = Len(Own.names)  OBVIOUS
<1>3. L \in Nat /\ DOMAIN InheritedNames = 1 .. L  BY <1>1, <1>2
<1>4. \A i \in 1 .. L : Value("load", Own.fields[i].levels, Own.fields[i].of) \in Pointers
  <2> SUFFICES ASSUME NEW i \in 1 .. L
               PROVE  Value("load", Own.fields[i].levels, Own.fields[i].of) \in Pointers
    OBVIOUS
  <2>1. Own.fields[i] \in Pointers  BY <1>2, <1>3
  <2> QED  BY <2>1 DEF Value, Pointers, Instructions
<1>5. InheritedFields = [i \in 1 .. L |-> Value("load", Own.fields[i].levels, Own.fields[i].of)]
  BY <1>3 DEF InheritedFields
<1>6. InheritedFields \in Seq(Pointers) /\ Len(InheritedFields) = L
  BY <1>3, <1>4, <1>5
<1>7. Sized \in Seq(Names) /\ ToSet(Sized) = DOMAIN Own.table  BY SizedAre
<1>8. SizedFields \in Seq(Pointers) /\ Len(SizedFields) = Len(Sized)
  <2>1. \A i \in DOMAIN Sized : Sized[i] \in DOMAIN Own.table  BY <1>7 DEF ToSet
  <2>2. \A i \in DOMAIN Sized : Own.table[Sized[i]] \in Pointers  BY <1>2, <2>1 DEF Maps
  <2>3. DOMAIN Sized = 1 .. Len(Sized) /\ Len(Sized) \in Nat  BY <1>7
  <2> QED  BY <2>2, <2>3 DEF SizedFields
<1> QED  BY <1>2, <1>6, <1>7, <1>8

LEMMA DefaultFieldsAre ==
  ASSUME Ready, NEW default
  PROVE  /\ DefaultFields(default) \in Seq(Pointers)
         /\ Len(DefaultFields(default)) = Len(DefaultNames(default))
<1>1. CASE default = "value"
  <2>1. /\ DefaultFields(default) = InheritedFields \o SizedFields
        /\ DefaultNames(default) = Own.names \o Sized
    BY <1>1, InheritedAre DEF DefaultFields, DefaultNames, SizedFields
  <2>2. /\ InheritedFields \o SizedFields \in Seq(Pointers)
        /\ Len(InheritedFields \o SizedFields) = Len(Own.names) + Len(Sized)
    <3> PICK p : p = InheritedFields  OBVIOUS
    <3> PICK q : q = SizedFields  OBVIOUS
    <3>1. /\ p \in Seq(Pointers) /\ q \in Seq(Pointers)
          /\ Len(p) = Len(Own.names) /\ Len(q) = Len(Sized)
      BY PartsOfDefault
    <3>2. p \o q \in Seq(Pointers) /\ Len(p \o q) = Len(p) + Len(q)
      BY ONLY <3>1, MembersOfBoth
    <3> QED  BY ONLY <3>1, <3>2, p = InheritedFields, q = SizedFields
  <2>3. Len(Own.names \o Sized) = Len(Own.names) + Len(Sized)
    BY PartsOfDefault, MembersOfBoth
  <2> QED  BY <2>1, <2>2, <2>3
<1>2. CASE default # "value"
  <2>1. DefaultFields(default) = <<>> /\ DefaultNames(default) = <<>>
    BY <1>2 DEF DefaultFields, DefaultNames
  <2> QED  BY <2>1
<1> QED  BY <1>1, <1>2

LEMMA MeaningIs ==
  ASSUME Ready, NEW n \in Expressions, IsKnown(n)
  PROVE  /\ Meaning(n) \in Meanings /\ Meaning(n).of.in <= Top
         /\ Meaning(n).how = "let" => ~CapturedHere(n)
<1>1. CASE n \in DOMAIN Functions \cup {Datum}
  <2>1. Meaning(n) = [of |-> Variable(0, n), how |-> "value"]  BY <1>1, OfNoVariable
  <2>2. Variable(0, n) \in Variables /\ Variable(0, n).in = 0
    BY <1>1 DEF Variable, Variables
  <2>3. 0 <= Top  BY DEF Ready
  <2> QED  BY <2>1, <2>2, <2>3 DEF Meanings
<1>2. CASE n \notin DOMAIN Functions \cup {Datum}
  <2>1. n \in DOMAIN Reading.scope  BY <1>2 DEF IsKnown
  <2>2. Meaning(n) \in Meanings /\ Meaning(n) = Reading.scope[n]  BY <2>1, OfVariable
  <2>3. Reading.scope[n].of.in <= Top  BY <2>1 DEF Ready, Agrees
  <2>4. CapturedHere(n) => Meaning(n).how # "let"  BY <2>1, OfVariable DEF CapturedName
  <2> QED  BY <2>2, <2>3, <2>4
<1> QED  BY <1>1, <1>2

(* What a default capture takes.                                           *)
LEMMA DefaultStands ==
  ASSUME Ready, NEW n \in DOMAIN Reading.scope,
         NEW k \in 1 .. Len(DefaultNames("value")), DefaultNames("value")[k] = n,
         \A j \in 1 .. Len(DefaultNames("value")) : DefaultNames("value")[j] = n => k <= j
  PROVE  Stands(DefaultFields("value")[k], CapturedAs(n))
<1> PICK m : m = Meaning(n)  OBVIOUS
<1> PICK v : v = DefaultFields("value")[k]  OBVIOUS
<1> PICK L : L = Len(Own.names)  OBVIOUS
<1> PICK t : t = SizedFields  OBVIOUS
<1>1. /\ Own.names \in Seq(Names) /\ ToSet(Own.names) = Reading.captured
      /\ L \in Nat /\ DOMAIN Own.names = 1 .. L
  BY DEF Ready, IsFunction, Agrees
<1>2. Sized \in Seq(Names)  BY SizedAre
<1>3. DefaultNames("value") = Own.names \o Sized /\ InheritedNames = Own.names
  BY InheritedAre DEF DefaultNames
<1>4. /\ Len(DefaultNames("value")) = L + Len(Sized)
      /\ \A i \in 1 .. L : DefaultNames("value")[i] = Own.names[i]
      /\ \A i \in 1 .. Len(Sized) : DefaultNames("value")[L + i] = Sized[i]
  BY <1>1, <1>2, <1>3, MembersOfBoth
<1>5. /\ v = IF k <= L THEN InheritedFields[k] ELSE t[k - L]
      /\ v \in Pointers
  <2>1. DefaultFields("value") = InheritedFields \o t  BY DEF DefaultFields, SizedFields
  <2>2. /\ InheritedFields \in Seq(Pointers) /\ Len(InheritedFields) = L
        /\ t \in Seq(Pointers) /\ Len(t) = Len(Sized) /\ Len(Sized) \in Nat
    BY <1>2, PartsOfDefault
  <2>3. k \in 1 .. L + Len(Sized)  BY <1>4
  <2>4. /\ \A i \in 1 .. L : (InheritedFields \o t)[i] = InheritedFields[i]
        /\ \A i \in 1 .. Len(Sized) : (InheritedFields \o t)[L + i] = t[i]
    BY <2>2, MembersOfBoth
  <2>5. DefaultFields("value") \in Seq(Pointers)
        /\ Len(DefaultFields("value")) = Len(DefaultNames("value"))
    BY DefaultFieldsAre
  <2>6. v = IF k <= L THEN InheritedFields[k] ELSE t[k - L]
    <3>1. CASE k <= L
      <4>1. k \in 1 .. L  BY <1>1, <2>2, <2>3, <3>1
      <4> QED  BY <2>1, <2>4, <3>1, <4>1
    <3>2. CASE ~(k <= L)
      <4> PICK j : j = k - L  OBVIOUS
      <4>1. j \in 1 .. Len(Sized) /\ k = L + j  BY <1>1, <2>2, <2>3, <3>2
      <4> QED  BY <2>1, <2>4, <3>2, <4>1
    <3> QED  BY <3>1, <3>2
  <2> QED  BY <2>5, <2>6
<1>6. /\ m \in Meanings /\ m.of.in <= Top /\ n \in Names /\ m = Reading.scope[n]
      /\ IsOwn(n) => OwnName(Own, m, Top, n)
      /\ CapturedHere(n) => CapturedName(Own, m, Reading.used, n)
      /\ IsOwn(n) <=> m.of.in = Top
      /\ IsOwn(n) <=> ~CapturedHere(n)
  <2>1. n \in Expressions /\ IsKnown(n) /\ n \in Names  BY OfVariable DEF Expressions
  <2>2. m = Reading.scope[n]  BY OfVariable
  <2> QED  BY <2>1, <2>2, MeaningIs, OfVariable DEF IsOwn
<1>7. CASE ~IsOwn(n)
  <2>1. CapturedAs(n) = m  BY <1>6, <1>7 DEF CapturedAs
  <2>2. CapturedHere(n) /\ CapturedName(Own, m, Reading.used, n)  BY <1>6, <1>7
  <2>3. n \in ToSet(Own.names)  BY <2>2 DEF CapturedName
  <2> PICK f : f = FieldOf(Own, n)  OBVIOUS
  <2>4. f \in 1 .. L /\ Own.names[f] = n /\ \A j \in 1 .. L : Own.names[j] = n => f <= j
    BY <1>1, <2>3, FirstField
  <2>5. f \in 1 .. Len(DefaultNames("value")) /\ DefaultNames("value")[f] = n
    <3>1. Len(Sized) \in Nat  BY <1>2
    <3> QED  BY <1>1, <1>4, <2>4, <3>1
  <2>6. k <= f  BY <2>5
  <2>7. k \in 1 .. L  BY <1>1, <1>4, <2>4, <2>6
  <2>8. f <= k  BY <1>4, <2>4, <2>7
  <2>9. k = f  BY <1>1, <2>4, <2>6, <2>7, <2>8
  <2>10. v = InheritedFields[k]  BY <1>5, <2>7
  <2>11. v = Value("load", Field(Own, n).levels, Field(Own, n).of)
    BY <1>1, <1>3, <2>7, <2>9, <2>10 DEF InheritedFields, Field
  <2>12. v.levels = Field(Own, n).levels /\ v.of = Field(Own, n).of  BY <2>11 DEF Value
  <2> QED  BY <1>5, <1>6, <2>1, <2>2, <2>12 DEF Stands, CapturedName
<1>8. CASE IsOwn(n) /\ n \in Reading.captured
  <2>1. CapturedAs(n) = [m EXCEPT !.how = "shadow"]  BY <1>6, <1>8 DEF CapturedAs
  <2>2. CapturedAs(n) \in Meanings /\ CapturedAs(n).how = "shadow" /\ CapturedAs(n).of = m.of
    BY <1>6, <2>1 DEF Meanings
  <2> QED  BY <1>5, <1>6, <2>2 DEF Stands
<1>9. CASE IsOwn(n) /\ n \notin Reading.captured
  <2>1. k \notin 1 .. L  BY <1>1, <1>4, <1>9 DEF ToSet
  <2>2. k - L \in 1 .. Len(Sized) /\ ~(k <= L)
    <3>1. Len(Sized) \in Nat /\ k \in 1 .. L + Len(Sized)  BY <1>2, <1>4
    <3>2. \A x, y \in Nat : \A z \in 1 .. x + y : z \notin 1 .. x => z - x \in 1 .. y /\ ~(z <= x)
      OBVIOUS
    <3>3. L \in Nat  BY <1>1
    <3> QED  BY ONLY <2>1, <3>1, <3>2, <3>3
  <2>3. Sized[k - L] = n
    <3> PICK j : j = k - L  OBVIOUS
    <3>1. j \in 1 .. Len(Sized) /\ k = L + j  BY <1>1, <2>2
    <3> QED  BY <1>4, <3>1
  <2>4. v = Own.table[n]
    <3>1. DOMAIN Sized = 1 .. Len(Sized)  BY <1>2
    <3> QED  BY <1>5, <2>2, <2>3, <3>1 DEF SizedFields
  <2>5. OwnName(Own, m, Top, n)  BY <1>6, <1>9
  <2>6. CASE m.how = "value"
    <3>1. v.levels = 0 /\ v.of = m.of  BY <2>4, <2>5, <2>6 DEF OwnName, Value
    <3>2. CapturedAs(n) = m  BY <1>6, <1>9, <2>6 DEF CapturedAs
    <3> QED  BY <1>5, <1>6, <2>6, <3>1, <3>2 DEF Stands
  <2>7. CASE m.how = "let"
    <3>1. v.levels = 1 /\ v.of = m.of  BY <2>4, <2>5, <2>7 DEF OwnName, Value
    <3>2. CapturedAs(n) = [m EXCEPT !.how = "address"]
      BY <1>6, <1>9, <2>7 DEF CapturedAs
    <3>3. CapturedAs(n) \in Meanings /\ CapturedAs(n).how = "address" /\ CapturedAs(n).of = m.of
      BY <1>6, <3>2 DEF Meanings
    <3> QED  BY <1>5, <1>6, <3>1, <3>3 DEF Stands
  <2> QED  BY <2>5, <2>6, <2>7 DEF OwnName
<1> QED  BY <1>7, <1>8, <1>9

(* What an explicit capture takes.                                         *)
LEMMA ExplicitStands ==
  ASSUME Ready, NEW n \in Expressions, IsKnown(n), NEW again,
         again => CapturedHere(n), NEW l, Looked(l, n, again)
  PROVE  Stands(Term(l.got), Named(l))
<1> PICK m : m = Meaning(n)  OBVIOUS
<1> PICK v : v = Term(l.got)  OBVIOUS
<1>1. m \in Meanings /\ m.of.in <= Top /\ (m.how = "let" => ~CapturedHere(n))
  BY MeaningIs
<1>2. /\ l.meaning = m /\ l.again = again /\ v \in Pointers /\ l.got \in Pointers
      /\ m.how # "shadow" =>
           l.got.of = m.of /\ (v.levels = 0 <=> m.how # "address" /\ ~again)
  BY DEF Looked
<1>3. v.of = l.got.of  BY <1>2, TermKeeps
<1>4. Named(l) = CASE m.how = "let" -> [m EXCEPT !.how = "value"]
                   [] m.how = "value" /\ again -> [m EXCEPT !.how = "address"]
                   [] OTHER -> m
  BY <1>2 DEF Named
<1>5. m.how \in {"let", "value", "address", "shadow"}  BY <1>1 DEF Meanings
<1>6. CASE m.how = "let"
  <2>1. Named(l) = [m EXCEPT !.how = "value"]  BY <1>4, <1>6
  <2>2. Named(l) \in Meanings /\ Named(l).how = "value" /\ Named(l).of = m.of
    BY <1>1, <2>1 DEF Meanings
  <2> QED  BY <1>1, <1>2, <1>3, <1>6, <2>2 DEF Stands
<1>7. CASE m.how = "value" /\ again
  <2>1. Named(l) = [m EXCEPT !.how = "address"]  BY <1>4, <1>7
  <2>2. Named(l) \in Meanings /\ Named(l).how = "address" /\ Named(l).of = m.of
    BY <1>1, <2>1 DEF Meanings
  <2> QED  BY <1>1, <1>2, <1>3, <1>7, <2>2 DEF Stands
<1>8. CASE m.how # "let" /\ ~(m.how = "value" /\ again)
  <2>1. Named(l) = m  BY <1>4, <1>8
  <2> QED  BY <1>1, <1>2, <1>3, <1>5, <1>8, <2>1 DEF Stands
<1> QED  BY <1>6, <1>7, <1>8

(* The explicit captures of a closure that compiles.                       *)
Exprs(s, names) == [i \in DOMAIN names |-> s.captures[names[i]]]

LEMMA ExplicitFinds ==
  ASSUME Ready, NEW s \in StatementsOf("closure"), NEW names \in SetToSeqs(DOMAIN s.captures),
         NEW c, c = Explicit(s.default, names, s.captures), c.failed = "no"
  PROVE  LET exprs == Exprs(s, names)
         IN  /\ c.found \in Seq(ToSet(c.found)) /\ Len(c.found) = Len(names)
             /\ \A i \in 1 .. Len(names) :
                  /\ exprs[i] \in Expressions /\ IsKnown(exprs[i])
                  /\ Looked(c.found[i], exprs[i], Again(exprs, i))
                  /\ names[i] \notin TakenBy(s.default)
             /\ TableWith(c.table, ToSet(exprs)) /\ ToSet(exprs) \subseteq Expressions
             /\ Used(c) = Reading.used \cup ToSet(exprs)
<1> PICK exprs : exprs = Exprs(s, names)  OBVIOUS
<1> PICK taken : taken = {i \in DOMAIN names : Taken(s.default, names[i])}  OBVIOUS
<1>1. c = CompileUnless(taken, exprs)  BY DEF Explicit, Exprs
<1>2. /\ exprs \in Seq(Expressions) /\ Len(exprs) = Len(names)
      /\ DOMAIN names = 1 .. Len(names)
  BY ClosureStatement DEF Exprs
<1>3. Stage(c, taken, exprs, Len(names))  BY <1>1, <1>2, CompileComesTo
<1>4. /\ c.found \in Seq(ToSet(c.found)) /\ Len(c.found) = Len(names)
      /\ TableWith(c.table, {exprs[i] : i \in 1 .. Len(names)})
      /\ \A i \in 1 .. Len(names) :
           /\ Looked(c.found[i], exprs[i], Again(exprs, i))
           /\ IsKnown(exprs[i]) /\ i \notin taken
  <2>1. Len(c.found) = Len(names)  BY <1>3 DEF Stage
  <2> QED  BY <1>3, <2>1 DEF Stage
<1>5. ToSet(exprs) = {exprs[i] : i \in 1 .. Len(names)} /\ ToSet(exprs) \subseteq Expressions
  <2>1. DOMAIN exprs = 1 .. Len(names) /\ \A i \in DOMAIN exprs : exprs[i] \in Expressions
    BY <1>2
  <2> QED  BY <2>1 DEF ToSet
<1>6. \A i \in 1 .. Len(names) : names[i] \notin TakenBy(s.default)
  BY <1>2, <1>4, TakenIs
<1>7. Used(c) = Reading.used \cup ToSet(exprs)
  <2>1. DOMAIN c.found = 1 .. Len(names)  BY <1>4
  <2>2. \A i \in 1 .. Len(names) : c.found[i].name = exprs[i]  BY <1>4 DEF Looked
  <2>3. {c.found[i].name : i \in DOMAIN c.found} = ToSet(exprs)
    BY <1>5, <2>1, <2>2
  <2> QED  BY <2>3 DEF Used
<1>8. \A i \in 1 .. Len(names) : exprs[i] \in Expressions  BY <1>2
<1> QED  BY <1>4, <1>5, <1>6, <1>7, <1>8

LEMMA ExplicitFails ==
  ASSUME Ready, NEW s \in StatementsOf("closure"), NEW names \in SetToSeqs(DOMAIN s.captures)
  PROVE  Explicit(s.default, names, s.captures).failed \in {"no", "error", "crash"}
<1> PICK exprs : exprs = Exprs(s, names)  OBVIOUS
<1> PICK taken : taken = {i \in DOMAIN names : Taken(s.default, names[i])}  OBVIOUS
<1>1. Explicit(s.default, names, s.captures) = CompileUnless(taken, exprs)
  BY DEF Explicit, Exprs
<1>2. exprs \in Seq(Expressions)  BY ClosureStatement DEF Exprs
<1> QED  BY <1>1, <1>2, CompileComesTo DEF Stage

LEMMA ExplicitFieldsAre ==
  ASSUME Ready, NEW s \in StatementsOf("closure"), NEW names \in SetToSeqs(DOMAIN s.captures),
         NEW c, c = Explicit(s.default, names, s.captures), c.failed = "no"
  PROVE  /\ ExplicitFields(c) \in Seq(Pointers) /\ Len(ExplicitFields(c)) = Len(names)
         /\ \A i \in 1 .. Len(names) :
              /\ ExplicitFields(c)[i] = Term(c.found[i].got)
              /\ Stands(ExplicitFields(c)[i], Named(c.found[i]))
<1> PICK exprs : exprs = Exprs(s, names)  OBVIOUS
<1>1. /\ c.found \in Seq(ToSet(c.found)) /\ Len(c.found) = Len(names)
      /\ \A i \in 1 .. Len(names) :
           /\ exprs[i] \in Expressions /\ IsKnown(exprs[i])
           /\ Looked(c.found[i], exprs[i], Again(exprs, i))
  BY ExplicitFinds
<1>2. DOMAIN c.found = 1 .. Len(names) /\ Len(names) \in Nat  BY <1>1
<1>3. \A i \in 1 .. Len(names) : Stands(Term(c.found[i].got), Named(c.found[i]))
  <2> SUFFICES ASSUME NEW i \in 1 .. Len(names)
               PROVE  Stands(Term(c.found[i].got), Named(c.found[i]))
    OBVIOUS
  <2>1. Again(exprs, i) => CapturedHere(exprs[i])  BY DEF Again
  <2> QED  BY <1>1, <2>1, ExplicitStands
<1>4. ExplicitFields(c) = [i \in 1 .. Len(names) |-> Term(c.found[i].got)]
  BY <1>2 DEF ExplicitFields
<1>5. \A i \in 1 .. Len(names) : Term(c.found[i].got) \in Pointers  BY <1>3 DEF Stands
<1> QED  BY <1>2, <1>3, <1>4, <1>5

Position(names, n) == CHOOSE i \in DOMAIN names : names[i] = n

(* A closure captures the default's names and its explicit ones, and its   *)
(* first field of each stands for it.                                      *)
Captured(F, captures) ==
  /\ F.names \in Seq(Names) /\ F.fields \in Seq(Pointers)
  /\ Len(F.fields) = Len(F.names) /\ ToSet(F.names) = DOMAIN captures
  /\ \A n \in DOMAIN captures : Stands(Field(F, n), captures[n])

LEMMA CapturesStand ==
  ASSUME Ready, NEW s \in StatementsOf("closure"), NEW names \in SetToSeqs(DOMAIN s.captures),
         NEW c, c = Explicit(s.default, names, s.captures), c.failed = "no",
         NEW F, F.names = DefaultNames(s.default) \o names,
         F.fields = DefaultFields(s.default) \o ExplicitFields(c)
  PROVE  Captured(F, Captures(c, s.default, names))
<1> PICK captures : captures = Captures(c, s.default, names)  OBVIOUS
<1> PICK a : a = DefaultNames(s.default)  OBVIOUS
<1> PICK inSight : inSight = TakenBy(s.default)  OBVIOUS
<1>1. a \in Seq(Names) /\ ToSet(a) = inSight /\ Len(a) \in Nat  BY DefaultNamesAre
<1>2. /\ names \in Seq(Names) /\ DOMAIN names = 1 .. Len(names) /\ Len(names) \in Nat
      /\ \A i, j \in DOMAIN names : i # j => names[i] # names[j]
  <2>1. /\ names \in Seq(Names) /\ DOMAIN names = 1 .. Len(names)
        /\ \A i, j \in DOMAIN names : i # j => names[i] # names[j]
    BY ONLY s \in StatementsOf("closure"), names \in SetToSeqs(DOMAIN s.captures),
       ClosureStatement
  <2>2. Len(names) \in Nat  BY <2>1
  <2> QED  BY <2>1, <2>2
<1>3. DefaultFields(s.default) \in Seq(Pointers) /\ Len(DefaultFields(s.default)) = Len(a)
  BY DefaultFieldsAre
<1>4. /\ ExplicitFields(c) \in Seq(Pointers) /\ Len(ExplicitFields(c)) = Len(names)
      /\ \A i \in 1 .. Len(names) : Stands(ExplicitFields(c)[i], Named(c.found[i]))
  BY ExplicitFieldsAre
<1>5. /\ F.names \in Seq(Names) /\ Len(F.names) = Len(a) + Len(names)
      /\ ToSet(F.names) = inSight \cup ToSet(names)
  BY <1>1, <1>2, MembersOfBoth
<1>0. ASSUME NEW n
      PROVE  FirstIn(F, a, names, n)
  <2>1. a \in Seq(Names)  BY <1>1
  <2>2. names \in Seq(Names)  BY <1>2
  <2>3. F.names = a \o names  OBVIOUS
  <2> QED  BY ONLY <2>1, <2>2, <2>3, FirstOf, Zenon
<1>6. /\ F.fields \in Seq(Pointers) /\ Len(F.fields) = Len(a) + Len(names)
      /\ \A i \in 1 .. Len(a) : F.fields[i] = DefaultFields(s.default)[i]
      /\ \A i \in 1 .. Len(names) : F.fields[Len(a) + i] = ExplicitFields(c)[i]
  BY <1>3, <1>4, MembersOfBoth
<1>7. /\ DOMAIN captures = inSight \cup ToSet(names)
      /\ \A n \in DOMAIN captures : captures[n] =
            IF n \in inSight THEN CapturedAs(n)
            ELSE Named(c.found[Position(names, n)])
      /\ captures = [n \in DOMAIN captures |-> captures[n]]
  BY DEF Captures, TakenBy, Position
<1>8. ASSUME NEW n \in inSight PROVE Stands(Field(F, n), captures[n])
  <2>1. s.default = "value" /\ n \in DOMAIN Reading.scope  BY <1>8 DEF TakenBy
  <2> PICK k : k = FieldOf(F, n)  OBVIOUS
  <2>2. k \in 1 .. Len(a) /\ a[k] = n /\ \A j \in 1 .. Len(a) : a[j] = n => k <= j
    BY ONLY <1>0, <1>1, n \in inSight, k = FieldOf(F, n) DEF FirstIn
  <2>3. Stands(DefaultFields("value")[k], CapturedAs(n))
    BY <2>1, <2>2, DefaultStands
  <2>4. Field(F, n) = DefaultFields("value")[k]  BY <1>6, <2>1, <2>2 DEF Field
  <2> QED  BY <1>7, <2>3, <2>4
<1>9. ASSUME NEW n \in ToSet(names), n \notin inSight PROVE Stands(Field(F, n), captures[n])
  <2>1. PICK j \in 1 .. Len(names) : FieldOf(F, n) = Len(a) + j /\ names[j] = n
    BY ONLY <1>0, <1>1, <1>9, n \in ToSet(names) DEF FirstIn
  <2>2. Position(names, n) = j
    <3>1. j \in DOMAIN names /\ \A i \in DOMAIN names : names[i] = n <=> i = j
      BY ONLY <1>2, <2>1
    <3> QED  BY ONLY <3>1 DEF Position
  <2>3. captures[n] = Named(c.found[j])  BY <1>7, <1>9, <2>2
  <2>4. Field(F, n) = ExplicitFields(c)[j]  BY <1>6, <2>1 DEF Field
  <2> QED  BY <1>4, <2>3, <2>4
<1> QED  BY <1>5, <1>6, <1>7, <1>8, <1>9 DEF Captured

(* What a reader takes the names in a new closure for.                     *)
Begins(this, params, captures) ==
  [scope |-> [n \in params \cup DOMAIN captures |->
     IF n \in params THEN [of |-> Variable(this, n), how |-> "value"] ELSE captures[n]],
   captured |-> DOMAIN captures, used |-> {}]
Parameters(this, params) == [p \in params |-> Value("arg", 0, Variable(this, p))]

LEMMA BeginsAgreeing ==
  ASSUME Ready, NEW s \in StatementsOf("closure"), NEW names \in SetToSeqs(DOMAIN s.captures),
         NEW c, c = Explicit(s.default, names, s.captures), c.failed = "no",
         s.params \cap ToSet(DefaultNames(s.default) \o names) = {},
         NEW this \in Nat, Top < this,
         NEW F, F.names = DefaultNames(s.default) \o names,
         F.fields = DefaultFields(s.default) \o ExplicitFields(c),
         F.table = Parameters(this, s.params)
  PROVE  LET M == Begins(this, s.params, Captures(c, s.default, names))
         IN  /\ F.names \in Seq(Names) /\ F.fields \in Seq(Pointers)
             /\ Maps(F.table, Pointers) /\ IsReading(M) /\ Agrees(F, M, this)
<1> PICK captures : captures = Captures(c, s.default, names)  OBVIOUS
<1> PICK M : M = Begins(this, s.params, captures)  OBVIOUS
<1> PICK params : params = s.params  OBVIOUS
<1>1. /\ F.names \in Seq(Names) /\ F.fields \in Seq(Pointers)
      /\ Len(F.fields) = Len(F.names) /\ ToSet(F.names) = DOMAIN captures
      /\ \A n \in DOMAIN captures : Stands(Field(F, n), captures[n])
  <2>1. Captured(F, captures)  BY CapturesStand
  <2> QED  BY <2>1 DEF Captured
<1>2. params \subseteq Names  BY ClosureStatement
<1>3. params \cap DOMAIN captures = {}  BY <1>1
<1>4. DOMAIN captures \subseteq Names
  <2>1. \A i \in DOMAIN F.names : F.names[i] \in Names  BY <1>1
  <2> QED  BY <1>1, <2>1 DEF ToSet
<1>5. /\ DOMAIN F.table = params
      /\ \A p \in params : F.table[p] = Value("arg", 0, Variable(this, p))
      /\ F.table = [p \in params |-> F.table[p]]
  BY DEF Parameters
<1>6. /\ M.captured = DOMAIN captures /\ M.used = {}
      /\ DOMAIN M.scope = params \cup DOMAIN captures
      /\ \A n \in DOMAIN M.scope : M.scope[n] =
            IF n \in params THEN [of |-> Variable(this, n), how |-> "value"] ELSE captures[n]
      /\ M.scope = [n \in DOMAIN M.scope |-> M.scope[n]]
      /\ M \in [scope : {M.scope}, captured : {M.captured}, used : {M.used}]
  BY DEF Begins
<1>7. Maps(F.table, Pointers)
  <2>1. \A p \in params : F.table[p] \in Pointers
    <3> SUFFICES ASSUME NEW p \in params PROVE F.table[p] \in Pointers
      OBVIOUS
    <3>1. Variable(this, p) \in Variables  BY <1>2 DEF Variable, Variables
    <3>2. F.table[p] = Value("arg", 0, Variable(this, p))  BY <1>5
    <3> QED  BY ONLY <3>1, <3>2 DEF Value, Pointers, Instructions
  <2> QED  BY <1>2, <1>5, <2>1 DEF Maps
<1>8. ASSUME NEW n \in params
      PROVE  /\ M.scope[n] = [of |-> Variable(this, n), how |-> "value"]
             /\ M.scope[n] \in Meanings /\ M.scope[n].of.in = this
             /\ OwnName(F, M.scope[n], this, n)
  <2>1. M.scope[n] = [of |-> Variable(this, n), how |-> "value"]  BY <1>6
  <2>2. Variable(this, n) \in Variables /\ Variable(this, n).in = this
    BY <1>2 DEF Variable, Variables
  <2>3. M.scope[n] \in Meanings /\ M.scope[n].of = Variable(this, n) /\ M.scope[n].how = "value"
    BY <2>1, <2>2 DEF Meanings
  <2>4. n \in DOMAIN F.table /\ F.table[n] = Value("arg", 0, M.scope[n].of)
    BY <1>5, <2>3
  <2>5. OwnName(F, M.scope[n], this, n)  BY <2>3, <2>4 DEF OwnName
  <2> QED  BY <2>1, <2>2, <2>3, <2>5
<1>9. ASSUME NEW n \in DOMAIN captures
      PROVE  /\ M.scope[n] = captures[n] /\ M.scope[n] \in Meanings
             /\ M.scope[n].of.in <= this /\ M.scope[n].of.in # this
             /\ CapturedName(F, M.scope[n], M.used, n)
  <2>1. M.scope[n] = captures[n]  BY <1>3, <1>6
  <2>2. Stands(Field(F, n), captures[n])  BY <1>1
  <2>3. captures[n] \in Meanings /\ captures[n].of.in <= Top  BY <2>2 DEF Stands
  <2>4. captures[n].of.in \in Nat  BY <2>3 DEF Meanings, Variables
  <2>5. captures[n].of.in <= this /\ captures[n].of.in # this
    <3>1. Top \in Nat  BY DEF Ready
    <3> QED  BY <2>3, <2>4, <3>1
  <2>6. n \in ToSet(F.names) /\ n \notin DOMAIN F.table /\ n \notin M.used
    BY <1>1, <1>3, <1>5, <1>6
  <2>7. CapturedName(F, captures[n], M.used, n)
    BY <2>2, <2>6 DEF Stands, CapturedName
  <2> QED  BY <2>1, <2>3, <2>5, <2>7
<1>10. this <= this  OBVIOUS
<1>11. Maps(M.scope, Meanings)
  <2>1. \A n \in DOMAIN M.scope : M.scope[n] \in Meanings  BY <1>6, <1>8, <1>9
  <2>2. DOMAIN M.scope \subseteq Names  BY <1>2, <1>4, <1>6
  <2> QED  BY <1>6, <2>1, <2>2 DEF Maps
<1>12. IsReading(M)
  <2>1. M.captured \in SUBSET Names /\ M.used \in SUBSET Expressions  BY <1>4, <1>6
  <2> QED  BY <1>6, <1>11, <2>1 DEF IsReading
<1>13. Agrees(F, M, this)
  <2>1. ASSUME NEW n \in DOMAIN M.scope
        PROVE  /\ M.scope[n].of.in <= this
               /\ IF M.scope[n].of.in = this THEN OwnName(F, M.scope[n], this, n)
                  ELSE CapturedName(F, M.scope[n], M.used, n)
    <3>1. CASE n \in params  BY <1>8, <1>10, <3>1
    <3>2. CASE n \in DOMAIN captures  BY <1>9, <3>2
    <3> QED  BY <1>6, <3>1, <3>2
  <2> QED  BY <1>1, <1>5, <1>6, <2>1 DEF Agrees
<1> QED  BY <1>1, <1>7, <1>12, <1>13

(* A function is begun on top of the others.                               *)
LEMMA PushKeeps ==
  ASSUME IInv, NEW fs, NEW ms, OnlyTop(fs, ms), NEW F, NEW M,
         NEW this, this = Len(functions) + 1,
         IsFunction(F), F.closure, IsReading(M), Agrees(F, M, this),
         functions' = Append(fs, F), meant' = Append(ms, M),
         building' = Append(building, this)
  PROVE  /\ StackOK' /\ Len(functions') = this
         /\ \A f \in 1 .. Len(functions) : Kept(functions[f], functions'[f])
<1> PICK L : L = Len(functions)  OBVIOUS
<1> PICK D : D = Len(building)  OBVIOUS
<1>1. /\ DOMAIN fs = 1 .. L /\ DOMAIN ms = 1 .. D
      /\ \A f \in 1 .. L : Kept(functions[f], fs[f]) /\ IsFunction(fs[f])
      /\ \A d \in 1 .. D : IsReading(ms[d]) /\ Agrees(fs[building[d]], ms[d], building[d])
      /\ fs[Main].names = <<>>
      /\ \A d \in 1 .. D : fs[building[d]].closure <=> d > 1
  BY AllAgree
<1>2. L \in Nat /\ D \in Nat \ {0} /\ Len(meant) = D /\ DOMAIN building = 1 .. D
  BY ReadyNow
<1>3. /\ building \in Seq(1 .. L) /\ building[1] = Main
      /\ \A d, e \in DOMAIN building : d < e => building[d] < building[e]
  BY DEF IInv, TypeOK, Nested
<1>4. \A d \in 1 .. D : building[d] \in 1 .. L  BY <1>2, <1>3
<1>5. /\ fs \in Seq(ToSet(fs)) /\ Len(fs) = L /\ ms \in Seq(ToSet(ms)) /\ Len(ms) = D
  BY <1>2 DEF OnlyTop
<1>6. /\ functions' \in Seq(ToSet(functions')) /\ Len(functions') = L + 1
      /\ functions'[L + 1] = F /\ \A f \in 1 .. L : functions'[f] = fs[f]
  BY ONLY <1>5, functions' = Append(fs, F), AppendedTo
<1>7. /\ meant' \in Seq(ToSet(meant')) /\ Len(meant') = D + 1
      /\ meant'[D + 1] = M /\ \A d \in 1 .. D : meant'[d] = ms[d]
  BY ONLY <1>5, meant' = Append(ms, M), AppendedTo
<1>8. /\ building' \in Seq(1 .. L + 1) /\ Len(building') = D + 1 /\ building' # <<>>
      /\ building'[D + 1] = L + 1 /\ \A d \in 1 .. D : building'[d] = building[d]
  <2>1. building \in Seq(1 .. L + 1)
    <3>1. \A d \in 1 .. D : building[d] \in 1 .. L + 1  BY <1>2, <1>4
    <3>2. building = [d \in 1 .. D |-> building[d]]  BY <1>2, <1>3
    <3> PICK S : S = 1 .. L + 1  OBVIOUS
    <3>3. building \in [1 .. D -> S]  BY ONLY <3>1, <3>2, S = 1 .. L + 1
    <3>4. D \in Nat  BY <1>2
    <3>5. building \in Seq(S)  BY ONLY <3>3, <3>4
    <3> QED  BY ONLY <3>5, S = 1 .. L + 1
  <2>2. L + 1 \in 1 .. L + 1  BY <1>2
  <2>3. building' = Append(building, L + 1)  OBVIOUS
  <2>4. Len(building) = D  OBVIOUS
  <2> QED  BY ONLY <2>1, <2>2, <2>3, <2>4, <1>2
<1>9. /\ DOMAIN functions' = 1 .. L + 1 /\ DOMAIN meant' = 1 .. D + 1
      /\ DOMAIN building' = 1 .. D + 1
  BY <1>6, <1>7, <1>8
<1>10. /\ \A x : x \in 1 .. L + 1 <=> x \in 1 .. L \/ x = L + 1
       /\ \A x : x \in 1 .. D + 1 <=> x \in 1 .. D \/ x = D + 1
  BY <1>2
<1>11. \A f \in 1 .. L + 1 : IsFunction(functions'[f])
  BY <1>1, <1>6, <1>10
<1>12. ASSUME NEW d \in 1 .. D + 1
       PROVE  /\ IsReading(meant'[d])
              /\ Agrees(functions'[building'[d]], meant'[d], building'[d])
              /\ functions'[building'[d]].closure <=> d > 1
  <2>1. CASE d \in 1 .. D
    <3>1. /\ building'[d] = building[d] /\ meant'[d] = ms[d]
          /\ functions'[building[d]] = fs[building[d]]
      BY <1>4, <1>6, <1>7, <1>8, <2>1
    <3>2. /\ IsReading(ms[d]) /\ Agrees(fs[building[d]], ms[d], building[d])
          /\ fs[building[d]].closure <=> d > 1
      BY <1>1, <2>1
    <3> QED  BY <3>1, <3>2
  <2>2. CASE d = D + 1
    <3>1. building'[d] = L + 1 /\ meant'[d] = M /\ functions'[L + 1] = F
      BY <1>6, <1>7, <1>8, <2>2
    <3>2. d > 1  BY <1>2, <2>2
    <3> QED  BY <3>1, <3>2
  <2> QED  BY <1>10, <2>1, <2>2
<1>13. Nested'
  <2>1. building'[1] = Main  BY <1>2, <1>3, <1>8
  <2>2. Main \in 1 .. L  BY <1>2, <1>3, <1>4
  <2>3. functions'[Main].names = <<>>  BY <1>1, <1>6, <2>2
  <2>4. ASSUME NEW d \in 1 .. D + 1, NEW e \in 1 .. D + 1, d < e
        PROVE  building'[d] < building'[e]
    <3>1. d \in 1 .. D /\ (e \in 1 .. D \/ e = D + 1)  BY <1>2, <2>4
    <3>2. CASE e \in 1 .. D
      <4>1. building[d] < building[e]  BY <1>2, <1>3, <2>4, <3>1, <3>2
      <4> QED  BY <1>8, <3>1, <3>2, <4>1
    <3>3. CASE e = D + 1
      <4>1. building'[e] = L + 1 /\ building'[d] = building[d]  BY <1>8, <3>1, <3>3
      <4>2. building[d] \in 1 .. L  BY <1>4, <3>1
      <4>3. building[d] < L + 1  BY <1>2, <4>2
      <4> QED  BY <4>1, <4>3
    <3> QED  BY <3>1, <3>2, <3>3
  <2> QED  BY <1>9, <1>12, <2>1, <2>3, <2>4 DEF Nested
<1>14. NamesAgree'  BY <1>9, <1>12 DEF NamesAgree
<1>15. StackOK'
  BY <1>6, <1>7, <1>8, <1>9, <1>11, <1>12, <1>13, <1>14 DEF StackOK
<1> QED  BY <1>1, <1>6, <1>15

(* The enclosing function, which used the names that were captured.        *)
LEMMA UsedKeeps ==
  ASSUME IInv, NEW c, NEW P, TableWith(c.table, P), P \subseteq Expressions,
         Used(c) = Reading.used \cup P
  PROVE  OnlyTop([functions EXCEPT ![Top].table = c.table],
                 [meant EXCEPT ![Len(meant)].used = Used(c)])
<1> PICK t : t = c.table  OBVIOUS
<1> PICK F : F = [Own EXCEPT !.table = t]  OBVIOUS
<1> PICK u : u = Used(c)  OBVIOUS
<1> PICK M : M = [Reading EXCEPT !.used = u]  OBVIOUS
<1> PICK fs : fs = [functions EXCEPT ![Top].table = t]  OBVIOUS
<1> PICK ms : ms = [meant EXCEPT ![Len(meant)].used = u]  OBVIOUS
<1>1. /\ Ready /\ Own = functions[Top] /\ Top \in 1 .. Len(functions)
      /\ DOMAIN functions = 1 .. Len(functions)
  BY ReadyNow
<1>2. Reading = meant[Len(meant)] /\ Len(meant) \in 1 .. Len(meant)
  <2>1. /\ Reading = meant[Len(building)] /\ Len(meant) = Len(building)
        /\ Len(building) \in Nat \ {0}
    BY ReadyNow
  <2>2. \A x \in Nat \ {0} : x \in 1 .. x  OBVIOUS
  <2> QED  BY ONLY <2>1, <2>2, Zenon
<1>3. functions \in Seq(ToSet(functions)) /\ meant \in Seq(ToSet(meant))
  BY DEF IInv, TypeOK
<1>4. IsFunction(Own) /\ IsReading(Reading)  BY <1>1 DEF Ready
<1>5. Maps(t, Pointers)  BY <1>1, CompiledTable
<1>6. IsFunction(F) /\ Kept(Own, F) /\ F.fields = Own.fields /\ F.table = t
      /\ F.names = Own.names
  BY <1>4, <1>5, Retabled DEF Kept
<1>7. /\ IsReading(M) /\ M.scope = Reading.scope /\ M.captured = Reading.captured
      /\ M.used = Reading.used \cup P
  <2>1. /\ Reading \in [scope : {Reading.scope}, captured : SUBSET Names, used : SUBSET Expressions]
        /\ Maps(Reading.scope, Meanings)
    BY <1>4 DEF IsReading
  <2>2. u \in SUBSET Expressions /\ u = Reading.used \cup P  BY <2>1
  <2>3. /\ M \in [scope : {Reading.scope}, captured : SUBSET Names, used : SUBSET Expressions]
        /\ M.scope = Reading.scope /\ M.captured = Reading.captured /\ M.used = u
    BY <2>1, <2>2
  <2> QED  BY <2>1, <2>2, <2>3 DEF IsReading
<1>8. Agrees(F, M, Top)
  BY <1>1, <1>6, <1>7, UsedAgrees
<1>9. fs = [functions EXCEPT ![Top] = F]  BY <1>1
<1>10. ms = [meant EXCEPT ![Len(meant)] = M]  BY <1>2
<1>11. /\ fs \in Seq(ToSet(fs)) /\ Len(fs) = Len(functions) /\ fs[Top] = F
       /\ \A f \in 1 .. Len(functions) : f # Top => fs[f] = functions[f]
  BY ONLY <1>1, <1>3, <1>9, Replaced
<1>12. /\ ms \in Seq(ToSet(ms)) /\ Len(ms) = Len(meant) /\ ms[Len(meant)] = M
       /\ \A d \in 1 .. Len(meant) : d # Len(meant) => ms[d] = meant[d]
  BY ONLY <1>2, <1>3, <1>10, Replaced
<1>13. \A d \in 1 .. Len(meant) - 1 : ms[d] = meant[d]
  <2>1. \A x \in Nat \ {0} : \A y \in 1 .. x - 1 : y \in 1 .. x /\ y # x  OBVIOUS
  <2>2. Len(meant) \in Nat \ {0}
    <3>1. Len(building) \in Nat \ {0} /\ Len(meant) = Len(building)  BY ReadyNow
    <3> QED  BY ONLY <3>1, Zenon
  <2> QED  BY ONLY <1>12, <2>1, <2>2, Zenon
<1>14. \A f \in 1 .. Len(functions) : f # Top => Alike(functions[f], fs[f])
  <2> SUFFICES ASSUME NEW f \in 1 .. Len(functions), f # Top
               PROVE  Alike(functions[f], fs[f])
    OBVIOUS
  <2>1. IsFunction(functions[f])  BY <1>1 DEF IInv, TypeOK
  <2>2. fs[f] = functions[f]  BY <1>11
  <2> QED  BY ONLY <2>1, <2>2 DEF Alike, Kept
<1>15. OnlyTop(fs, ms)
  BY ONLY <1>6, <1>7, <1>8, <1>11, <1>12, <1>13, <1>14 DEF OnlyTop
<1> QED  BY <1>15

LEMMA OpenKeeps ==
  ASSUME IInv, outcome = "compiling", statements' \in Nat,
         NEW s \in StatementsOf("closure"), NEW names \in SetToSeqs(DOMAIN s.captures),
         Open(s.default, names, s.captures, s.params)
  PROVE  IInv'
<1> PICK c : c = Explicit(s.default, names, s.captures)  OBVIOUS
<1> PICK how : how = ClosureComesTo(s.default, names, s.captures, s.params)  OBVIOUS
<1>1. Ready /\ Len(functions) \in Nat /\ Top \in 1 .. Len(functions)  BY ReadyNow
<1>2. CASE how # "compiling"
  <2>1. Stop(how)  BY <1>2 DEF Open
  <2>2. how \in {"error", "crash", "compiling"}
    <3>1. how \in ClosureMay(s)  BY <1>1, ClosuresCompile
    <3>2. \A b, w : Come(b, w) \in {"error", "crash", "compiling"}  BY DEF Come
    <3> QED  BY <3>1, <3>2 DEF ClosureMay
  <2>3. how \in {"done", "error", "crash", "undefined"}  BY <1>2, <2>2
  <2> QED  BY <2>1, <2>3, StopKeeps
<1>3. CASE how = "compiling"
  <2> PICK fieldNames : fieldNames = DefaultNames(s.default) \o names  OBVIOUS
  <2> PICK fields : fields = DefaultFields(s.default) \o ExplicitFields(c)  OBVIOUS
  <2> PICK this : this = Len(functions) + 1  OBVIOUS
  <2> PICK table : table = Parameters(this, s.params)  OBVIOUS
  <2> PICK k : k = Cardinality(s.params)  OBVIOUS
  <2> PICK closure : closure =
        [closure |-> TRUE, params |-> k, variadic |-> FALSE, nest |-> FALSE,
         names |-> fieldNames, fields |-> fields, table |-> table]
    OBVIOUS
  <2> PICK F : F = IF HasEnv(closure) THEN [closure EXCEPT !.params = @ + 1, !.nest = TRUE]
                   ELSE closure
    OBVIOUS
  <2> PICK M : M = Begins(this, s.params, Captures(c, s.default, names))  OBVIOUS
  <2> PICK fs : fs = [functions EXCEPT ![Top].table = c.table]  OBVIOUS
  <2> PICK ms : ms = [meant EXCEPT ![Len(meant)].used = Used(c)]  OBVIOUS
  <2>1. c.failed = "no" /\ s.params \cap ToSet(DefaultNames(s.default) \o names) = {}
    <3> PICK clash : clash = s.params \cap ToSet(DefaultNames(s.default) \o names)  OBVIOUS
    <3>1. how = IF s.default = "reference" THEN "error"
                ELSE IF c.failed # "no" THEN c.failed
                ELSE IF clash # {} THEN "error" ELSE "compiling"
      BY DEF ClosureComesTo
    <3>2. c.failed \in {"no", "error", "crash"}  BY <1>1, ExplicitFails
    <3>3. c.failed = "no" /\ clash = {}  BY ONLY <1>3, <3>1, <3>2
    <3> QED  BY <3>3
  <2>2. /\ functions' = Append(fs, F) /\ meant' = Append(ms, M)
        /\ building' = Append(building, this)
        /\ calls' = {} /\ holds' = holds /\ outcome' = outcome
    BY <1>3 DEF Open, Begins, Parameters
  <2>3. OnlyTop(fs, ms)
    <3> PICK P : P = ToSet(Exprs(s, names))  OBVIOUS
    <3>1. TableWith(c.table, P) /\ P \subseteq Expressions /\ Used(c) = Reading.used \cup P
      BY <1>1, <2>1, ExplicitFinds
    <3>2. OnlyTop([functions EXCEPT ![Top].table = c.table],
                  [meant EXCEPT ![Len(meant)].used = Used(c)])
      BY ONLY IInv, <3>1, UsedKeeps
    <3> QED  BY <3>2
  <2>4. /\ F.closure = TRUE /\ F.names = fieldNames /\ F.fields = fields /\ F.table = table
        /\ F \in [closure : BOOLEAN, params : {k, k + 1}, variadic : BOOLEAN, nest : BOOLEAN,
                  names : {fieldNames}, fields : {fields}, table : {table}]
    OBVIOUS
  <2>5. this \in Nat /\ Top < this  BY <1>1
  <2>6. /\ F.names \in Seq(Names) /\ F.fields \in Seq(Pointers)
        /\ Maps(F.table, Pointers) /\ IsReading(M) /\ Agrees(F, M, this)
    <3>1. Ready  BY <1>1
    <3>2. /\ F.names = DefaultNames(s.default) \o names
          /\ F.fields = DefaultFields(s.default) \o ExplicitFields(c)
          /\ F.table = Parameters(this, s.params)
      BY <2>4
    <3>3. /\ s \in StatementsOf("closure") /\ names \in SetToSeqs(DOMAIN s.captures)
          /\ c = Explicit(s.default, names, s.captures)
      OBVIOUS
    <3> QED  BY ONLY <2>1, <2>5, <3>1, <3>2, <3>3, BeginsAgreeing,
                     M = Begins(this, s.params, Captures(c, s.default, names))
  <2>7. k \in Nat  BY ClosureStatement, FS_CardinalityType
  <2>8. IsFunction(F)
    <3>1. F \in [closure : BOOLEAN, params : Nat, variadic : BOOLEAN, nest : BOOLEAN,
                 names : Seq(Names), fields : Seq(Pointers), table : {F.table}]
      BY ONLY <2>4, <2>6, <2>7
    <3>2. HasEnv(F) => F.nest  BY <2>4 DEF HasEnv
    <3> QED  BY <2>6, <3>1, <3>2 DEF IsFunction
  <2>9. /\ StackOK' /\ Len(functions') = this
        /\ \A f \in 1 .. Len(functions) : Kept(functions[f], functions'[f])
    BY ONLY IInv, <2>2, <2>3, <2>4, <2>6, <2>8, this = Len(functions) + 1, PushKeeps
  <2>10. HoldsOK'
    <3>1. Len(functions') \in Nat /\ Len(functions) <= Len(functions')
      BY <1>1, <2>9
    <3> QED  BY ONLY IInv, <2>2, <2>9, <3>1, HoldsKeep
  <2>11. RestOK'
    BY <2>2 DEF RestOK, CallsReachParameters, IInv, TypeOK
  <2> QED  BY <2>9, <2>10, <2>11, InPartsNext
<1> QED  BY <1>2, <1>3

------------------------------------------------------------------------------
(* A closure ends *)

Enclosing == building[Len(building) - 1]

LEMMA EnclosingIs ==
  ASSUME IInv, Len(building) > 1
  PROVE  /\ Len(building) - 1 \in 1 .. Len(building) /\ Len(building) - 1 \in Nat \ {0}
         /\ Enclosing \in 1 .. Len(functions) /\ Enclosing \in Nat \ {0}
         /\ IsFunction(functions[Enclosing]) /\ IsReading(meant[Len(building) - 1])
         /\ Agrees(functions[Enclosing], meant[Len(building) - 1], Enclosing)
         /\ \A d \in 1 .. Len(building) - 1 : d # Len(building) - 1 => building[d] # Enclosing
<1> PICK D : D = Len(building)  OBVIOUS
<1> PICK L : L = Len(functions)  OBVIOUS
<1>1. D \in Nat \ {0} /\ DOMAIN building = 1 .. D /\ DOMAIN meant = 1 .. D
      /\ DOMAIN functions = 1 .. L /\ L \in Nat
  BY ReadyNow
<1>2. D > 1  OBVIOUS
<1>3. D - 1 \in 1 .. D /\ D - 1 \in Nat \ {0}  BY ONLY <1>1, <1>2
<1>4. building \in Seq(1 .. L)  BY DEF IInv, TypeOK
<1>5. \A d \in 1 .. D : building[d] \in 1 .. L  BY ONLY <1>1, <1>4
<1>6. Enclosing = building[D - 1]  BY DEF Enclosing
<1>7. Enclosing \in 1 .. L  BY ONLY <1>3, <1>5, <1>6
<1>8. Enclosing \in Nat \ {0}  BY ONLY <1>1, <1>7
<1>9. IsFunction(functions[Enclosing]) /\ IsReading(meant[D - 1])
  BY <1>1, <1>3, <1>7 DEF IInv, TypeOK
<1>10. Agrees(functions[Enclosing], meant[D - 1], Enclosing)
  BY <1>1, <1>3, <1>6 DEF IInv, NamesAgree
<1>11. ASSUME NEW d \in 1 .. D - 1, d # D - 1 PROVE building[d] # Enclosing
  <2>1. d \in 1 .. D /\ d < D - 1  BY ONLY <1>1, <1>11
  <2>2. building[d] < Enclosing  BY <1>1, <1>3, <1>6, <2>1 DEF IInv, Nested
  <2>3. ~(Enclosing < Enclosing)  BY ONLY <1>8
  <2> QED  BY ONLY <2>2, <2>3
<1>12. \A d \in 1 .. D - 1 : d # D - 1 => building[d] # Enclosing  BY ONLY <1>11
<1> QED  BY ONLY <1>3, <1>7, <1>8, <1>9, <1>10, <1>12, D = Len(building), L = Len(functions)

LEMMA PopKeeps ==
  ASSUME IInv, Len(building) > 1, NEW F, NEW M,
         IsFunction(F), Kept(functions[Enclosing], F), IsReading(M), Agrees(F, M, Enclosing),
         functions' = [functions EXCEPT ![Enclosing] = F],
         meant' = [Front(meant) EXCEPT ![Len(building) - 1] = M],
         building' = Front(building)
  PROVE  /\ StackOK' /\ Len(functions') = Len(functions)
         /\ \A f \in 1 .. Len(functions) : Kept(functions[f], functions'[f])
<1> PICK D : D = Len(building)  OBVIOUS
<1> PICK L : L = Len(functions)  OBVIOUS
<1> PICK e : e = Enclosing  OBVIOUS
<1>1. D \in Nat \ {0} /\ Len(meant) = D /\ DOMAIN building = 1 .. D /\ DOMAIN meant = 1 .. D
      /\ DOMAIN functions = 1 .. L /\ L \in Nat
  BY ReadyNow
<1>2. /\ D - 1 \in 1 .. D /\ D - 1 \in Nat \ {0} /\ e \in 1 .. L
      /\ \A d \in 1 .. D - 1 : d # D - 1 => building[d] # e
      /\ building[D - 1] = e
  BY EnclosingIs DEF Enclosing
<1>3. /\ functions \in Seq(ToSet(functions)) /\ building \in Seq(1 .. L) /\ building # <<>>
      /\ meant \in Seq(ToSet(meant))
      /\ \A d \in 1 .. D : IsReading(meant[d])
      /\ \A f \in 1 .. L : IsFunction(functions[f])
  BY <1>1 DEF IInv, TypeOK
<1>4. /\ \A d \in 1 .. D : Agrees(functions[building[d]], meant[d], building[d])
      /\ building[1] = Main /\ functions[Main].names = <<>>
      /\ \A d \in 1 .. D : functions[building[d]].closure <=> d > 1
      /\ \A d \in 1 .. D : \A x \in 1 .. D : d < x => building[d] < building[x]
  BY <1>1 DEF IInv, NamesAgree, Nested
<1>5. /\ functions' \in Seq(ToSet(functions')) /\ Len(functions') = L
      /\ DOMAIN functions' = 1 .. L /\ functions'[e] = F
      /\ \A f \in 1 .. L : f # e => functions'[f] = functions[f]
  <2>1. functions' = [functions EXCEPT ![e] = F]  OBVIOUS
  <2>2. functions \in Seq(ToSet(functions)) /\ e \in 1 .. Len(functions)  BY <1>2, <1>3
  <2>3. /\ functions' \in Seq(ToSet(functions')) /\ Len(functions') = Len(functions)
        /\ DOMAIN functions' = 1 .. Len(functions) /\ functions'[e] = F
        /\ \A f \in 1 .. Len(functions) : f # e => functions'[f] = functions[f]
    BY ONLY <2>1, <2>2, Replaced
  <2> QED  BY ONLY <2>3, L = Len(functions)
<1>6. /\ building' \in Seq(1 .. L) /\ Len(building') = D - 1 /\ DOMAIN building' = 1 .. D - 1
      /\ \A d \in 1 .. D - 1 : building'[d] = building[d]
  BY ONLY <1>3, D = Len(building), building' = Front(building), FrontOf
<1>7. building' # <<>>
  <2>1. Len(<<>>) = 0  OBVIOUS
  <2> QED  BY ONLY <1>2, <1>6, <2>1, Zenon
<1> PICK fm : fm = Front(meant)  OBVIOUS
<1>8. /\ fm \in Seq(ToSet(meant)) /\ Len(fm) = D - 1 /\ DOMAIN fm = 1 .. D - 1
      /\ \A d \in 1 .. D - 1 : fm[d] = meant[d]
  <2>1. meant # <<>>  BY ONLY <1>1
  <2> QED  BY ONLY <1>1, <1>3, <2>1, fm = Front(meant), FrontOf
<1>9. fm \in Seq(ToSet(fm))
  <2>1. fm = [i \in 1 .. D - 1 |-> fm[i]]  BY ONLY <1>8
  <2>2. D - 1 \in Nat  BY ONLY <1>2
  <2> QED  BY ONLY <2>1, <2>2, SequenceOfItself
<1>10. /\ meant' \in Seq(ToSet(meant')) /\ Len(meant') = D - 1
       /\ DOMAIN meant' = 1 .. D - 1 /\ meant'[D - 1] = M
       /\ \A d \in 1 .. D - 1 : d # D - 1 => meant'[d] = fm[d]
  <2> PICK k : k = D - 1  OBVIOUS
  <2>1. meant' = [fm EXCEPT ![k] = M]  OBVIOUS
  <2>2. Len(fm) = k /\ k \in 1 .. k  BY ONLY <1>2, <1>8, k = D - 1
  <2> PICK t : t = [fm EXCEPT ![k] = M]  OBVIOUS
  <2>3. k \in 1 .. Len(fm)  BY ONLY <2>2
  <2>4. /\ t \in Seq(ToSet(t)) /\ Len(t) = Len(fm) /\ DOMAIN t = 1 .. Len(fm)
        /\ t[k] = M /\ \A d \in 1 .. Len(fm) : d # k => t[d] = fm[d]
    BY ONLY <1>9, <2>3, t = [fm EXCEPT ![k] = M], Replaced
  <2>5. meant' = t  BY ONLY <2>1, t = [fm EXCEPT ![k] = M]
  <2>6. /\ t \in Seq(ToSet(t)) /\ Len(t) = k /\ DOMAIN t = 1 .. k
        /\ t[k] = M /\ \A d \in 1 .. k : d # k => t[d] = fm[d]
    BY ONLY <2>2, <2>4
  <2> QED  BY ONLY <2>5, <2>6, k = D - 1
<1>11. \A f \in 1 .. L : Kept(functions[f], functions'[f]) /\ IsFunction(functions'[f])
  <2> SUFFICES ASSUME NEW f \in 1 .. L
               PROVE  Kept(functions[f], functions'[f]) /\ IsFunction(functions'[f])
    OBVIOUS
  <2>1. CASE f = e
    <3>1. Kept(functions[e], F) /\ IsFunction(F)  OBVIOUS
    <3> QED  BY ONLY <1>5, <2>1, <3>1
  <2>2. CASE f # e
    <3>1. functions'[f] = functions[f]  BY ONLY <1>5, <2>2, f \in 1 .. L
    <3> QED  BY ONLY <1>3, <3>1, f \in 1 .. L DEF Kept
  <2> QED  BY <2>1, <2>2
<1>12. \A x : x \in 1 .. D - 1 => x \in 1 .. D  BY ONLY <1>1
<1>13. ASSUME NEW d \in 1 .. D - 1
       PROVE  /\ IsReading(meant'[d])
              /\ Agrees(functions'[building'[d]], meant'[d], building'[d])
  <2>1. building'[d] = building[d]  BY ONLY <1>6, <1>13
  <2>2. CASE d = D - 1
    <3>1. IsReading(M) /\ Agrees(F, M, e)  OBVIOUS
    <3>2. building[d] = e  BY ONLY <1>2, <2>2
    <3>3. meant'[d] = M /\ functions'[building[d]] = F  BY ONLY <1>5, <1>10, <2>2, <3>2
    <3> QED  BY ONLY <2>1, <3>1, <3>2, <3>3
  <2>3. CASE d # D - 1
    <3>1. building[d] # e  BY ONLY <1>2, <2>3, <1>13
    <3>2. d \in 1 .. D  BY ONLY <1>12, <1>13
    <3>3. building[d] \in 1 .. L  BY ONLY <1>1, <1>3, <3>2
    <3>4. functions'[building[d]] = functions[building[d]]  BY ONLY <1>5, <3>1, <3>3
    <3>5. meant'[d] = meant[d]  BY ONLY <1>8, <1>10, <2>3, <1>13
    <3>6. IsReading(meant[d]) /\ Agrees(functions[building[d]], meant[d], building[d])
      BY ONLY <1>3, <1>4, <3>2
    <3> QED  BY ONLY <2>1, <3>4, <3>5, <3>6
  <2> QED  BY <2>2, <2>3
<1>14. NamesAgree'  BY ONLY <1>6, <1>13 DEF NamesAgree
<1>15. Nested'
  <2>1. 1 \in 1 .. D - 1  BY ONLY <1>2
  <2>2. building'[1] = Main  BY ONLY <1>4, <1>6, <2>1
  <2>3. Main \in 1 .. L
    <3>1. 1 \in 1 .. D  BY ONLY <1>12, <2>1
    <3> QED  BY ONLY <1>1, <1>3, <1>4, <3>1
  <2>4. functions'[Main].names = <<>>  BY ONLY <1>4, <1>11, <2>3 DEF Kept
  <2>5. ASSUME NEW d \in 1 .. D - 1 PROVE functions'[building'[d]].closure <=> d > 1
    <3>1. d \in 1 .. D /\ building'[d] = building[d]  BY ONLY <1>6, <1>12, <2>5
    <3>2. building[d] \in 1 .. L  BY ONLY <1>1, <1>3, <3>1
    <3> QED  BY ONLY <1>4, <1>11, <3>1, <3>2 DEF Kept
  <2>6. ASSUME NEW d \in 1 .. D - 1, NEW x \in 1 .. D - 1, d < x
        PROVE  building'[d] < building'[x]
    <3>1. /\ d \in 1 .. D /\ building'[d] = building[d]
          /\ x \in 1 .. D /\ building'[x] = building[x]
      BY ONLY <1>6, <1>12, <2>6
    <3> QED  BY ONLY <1>4, <2>6, <3>1
  <2> QED  BY ONLY <1>6, <2>2, <2>4, <2>5, <2>6 DEF Nested
<1>16. StackOK'
  <2>1. \A d \in 1 .. D - 1 : IsReading(meant'[d])  BY ONLY <1>13
  <2> QED  BY ONLY <1>5, <1>6, <1>7, <1>10, <1>11, <1>14, <1>15, <2>1 DEF StackOK
<1> QED  BY ONLY <1>5, <1>11, <1>16, L = Len(functions)

LEMMA CloseKeeps ==
  ASSUME IInv, outcome = "compiling", statements' \in Nat, NEW n \in Targets, Close(n)
  PROVE  IInv'
<1> PICK e : e = Enclosing  OBVIOUS
<1> PICK F : F = functions[e]  OBVIOUS
<1> PICK M : M = meant[Len(building) - 1]  OBVIOUS
<1> PICK var : var = Variable(e, n)  OBVIOUS
<1>1. Len(building) > 1  BY DEF Close
<1>2. /\ e \in 1 .. Len(functions) /\ e \in Nat \ {0}
      /\ IsFunction(F) /\ IsReading(M) /\ Agrees(F, M, e)
      /\ Len(building) - 1 \in 1 .. Len(building)
  BY <1>1, EnclosingIs
<1>3. CASE n \in DOMAIN F.table
  <2>1. Stop("error")  BY <1>3 DEF Close, Enclosing
  <2> QED  BY <2>1, StopKeeps
<1>4. CASE n \notin DOMAIN F.table
  <2>1. /\ building' = Front(building) /\ calls' = {} /\ outcome' = outcome
        /\ functions' = IF n = Discard THEN functions
             ELSE [functions EXCEPT ![e].table = Binding(@, n, Value("alloca", 1, var))]
        /\ holds' = IF n = Discard THEN holds
             ELSE Binding(holds, var, Callable(Top, BoundParameters(Top)))
        /\ meant' = IF n = Discard THEN Front(meant)
             ELSE [Front(meant) EXCEPT ![Len(meant) - 1].scope =
                     Binding(@, n, [of |-> var, how |-> "let"])]
    BY <1>4 DEF Close, Enclosing
  <2>2. Front(meant)[Len(building) - 1] = M /\ Len(meant) - 1 = Len(building) - 1
        /\ Front(meant) = [d \in DOMAIN Front(meant) |-> Front(meant)[d]]
        /\ functions = [f \in DOMAIN functions |-> functions[f]]
    <3>1. /\ Len(building) \in Nat \ {0} /\ Len(meant) = Len(building)
          /\ DOMAIN meant = 1 .. Len(building)
      BY ReadyNow
    <3>2. meant \in Seq(ToSet(meant)) /\ functions \in Seq(ToSet(functions))
      BY DEF IInv, TypeOK
    <3>3. \A x \in Nat \ {0} : x > 1 => x - 1 \in 1 .. x - 1  OBVIOUS
    <3>4. meant # <<>>  BY ONLY <3>1
    <3>5. /\ \A i \in 1 .. Len(meant) - 1 : Front(meant)[i] = meant[i]
          /\ Front(meant) \in Seq(ToSet(meant))
      BY ONLY <3>2, <3>4, FrontOf
    <3>6. Len(building) - 1 \in 1 .. Len(building) - 1  BY ONLY <1>1, <3>1, <3>3, Zenon
    <3>7. Len(meant) - 1 = Len(building) - 1  BY ONLY <3>1, Zenon
    <3>8. Front(meant)[Len(building) - 1] = meant[Len(building) - 1]
      BY ONLY <3>5, <3>6, <3>7, Zenon
    <3>9. Front(meant) = [d \in DOMAIN Front(meant) |-> Front(meant)[d]]  BY ONLY <3>5
    <3>10. functions = [f \in DOMAIN functions |-> functions[f]]  BY ONLY <3>2
    <3> QED  BY <3>7, <3>8, <3>9, <3>10
  <2>3. PICK G, L :
          /\ IsFunction(G) /\ Kept(F, G) /\ IsReading(L) /\ Agrees(G, L, e)
          /\ functions' = [functions EXCEPT ![e] = G]
          /\ meant' = [Front(meant) EXCEPT ![Len(building) - 1] = L]
    <3>1. CASE n = Discard
      <4>1. Kept(F, F)  BY DEF Kept
      <4>2. functions' = [functions EXCEPT ![e] = F]  BY <2>1, <2>2, <3>1
      <4>3. meant' = [Front(meant) EXCEPT ![Len(building) - 1] = M]
        BY <2>1, <2>2, <3>1
      <4> QED  BY <1>2, <4>1, <4>2, <4>3
    <3>2. CASE n # Discard
      <4> PICK v : v = Value("alloca", 1, var)  OBVIOUS
      <4> PICK m : m = [of |-> var, how |-> "let"]  OBVIOUS
      <4> PICK G : G = [F EXCEPT !.table = Binding(F.table, n, v)]  OBVIOUS
      <4> PICK L : L = [M EXCEPT !.scope = Binding(M.scope, n, m)]  OBVIOUS
      <4>1. functions' = [functions EXCEPT ![e] = G]  BY <2>1, <3>2
      <4>2. meant' = [Front(meant) EXCEPT ![Len(building) - 1] = L]  BY <2>1, <2>2, <3>2
      <4>3. n \in Names /\ var \in Variables
        BY <1>2, <3>2 DEF Targets, Variable, Variables
      <4>4. v \in Pointers /\ m \in Meanings
        BY ONLY <4>3, v = Value("alloca", 1, var), m = [of |-> var, how |-> "let"]
           DEF Value, Pointers, Instructions, Meanings
      <4>5. /\ Maps(F.table, Pointers) /\ Maps(M.scope, Meanings)
            /\ M \in [scope : {M.scope}, captured : SUBSET Names, used : SUBSET Expressions]
        BY <1>2 DEF IsFunction, IsReading
      <4>6. Maps(Binding(F.table, n, v), Pointers) /\ Maps(Binding(M.scope, n, m), Meanings)
        BY <4>3, <4>4, <4>5, BoundMaps
      <4>7. /\ IsFunction(G) /\ Kept(F, G) /\ G.fields = F.fields
            /\ G.table = Binding(F.table, n, v) /\ G.names = F.names
        BY <1>2, <4>6, Retabled DEF Kept
      <4>8. /\ L.scope = Binding(M.scope, n, m) /\ L.captured = M.captured /\ L.used = M.used
            /\ IsReading(L)
        <5> PICK b : b = Binding(M.scope, n, m)  OBVIOUS
        <5>1. L = [M EXCEPT !.scope = b]  OBVIOUS
        <5>2. /\ L \in [scope : {b}, captured : SUBSET Names, used : SUBSET Expressions]
              /\ L.scope = b /\ L.captured = M.captured /\ L.used = M.used
          BY ONLY <4>5, <5>1
        <5> QED  BY <4>6, <5>2 DEF IsReading
      <4>9. Agrees(G, L, e)
        <5>1. G.table = Binding(F.table, n, Value("alloca", 1, Variable(e, n)))  BY <4>7
        <5>2. L.scope = Binding(M.scope, n, [of |-> Variable(e, n), how |-> "let"])  BY <4>8
        <5>3. e \in Nat  BY <1>2
        <5> QED  BY ONLY <1>2, <1>4, <4>7, <4>8, <5>1, <5>2, <5>3, DeclaredAgrees
      <4> QED  BY <4>1, <4>2, <4>7, <4>8, <4>9
    <3> QED  BY <3>1, <3>2
  <2>4. /\ StackOK' /\ Len(functions') = Len(functions)
        /\ \A f \in 1 .. Len(functions) : Kept(functions[f], functions'[f])
    BY ONLY IInv, <1>1, <2>1, <2>3, e = Enclosing, F = functions[e], PopKeeps
  <2>5. HoldsOK'
    <3>1. Len(functions') \in Nat /\ Len(functions) <= Len(functions')
      <4>1. Len(functions) \in Nat  BY ReadyNow
      <4> QED  BY ONLY <2>4, <4>1
    <3>2. CASE n = Discard
      <4>1. holds' = holds  BY <2>1, <3>2
      <4> QED  BY ONLY IInv, <2>4, <3>1, <4>1, HoldsKeep
    <3>3. CASE n # Discard
      <4> PICK c : c = Callable(Top, BoundParameters(Top))  OBVIOUS
      <4>1. holds' = Binding(holds, var, c)  BY <2>1, <3>3
      <4>2. var \in Variables /\ var.in # 0
        BY <1>2, <3>3 DEF Targets, Variable, Variables
      <4>3. /\ Top \in 1 .. Len(functions) /\ IsFunction(functions[Top])
        <5>1. Top \in 1 .. Len(functions) /\ DOMAIN functions = 1 .. Len(functions)
          BY ReadyNow
        <5> QED  BY <5>1 DEF IInv, TypeOK
      <4>4. c.function = Top /\ c.bound = BoundParameters(Top)  BY DEF Callable
      <4>5. c \in [function : 1 .. Len(functions'), bound : {0, 1}]
        <5>1. c \in [function : 1 .. Len(functions), bound : {0, 1}]
          BY <4>3 DEF Callable, BoundParameters
        <5> QED  BY ONLY <2>4, <5>1
      <4>6. /\ HasEnv(functions'[c.function]) => c.bound = 1
            /\ c.bound = 1 => functions'[c.function].nest
        <5>1. Kept(functions[Top], functions'[Top])  BY ONLY <2>4, <4>3
        <5>2. HasEnv(functions[Top]) => functions[Top].nest  BY ONLY <4>3 DEF IsFunction
        <5>3. BoundParameters(Top) = IF HasEnv(functions[Top]) THEN 1 ELSE 0
          BY DEF BoundParameters
        <5> QED  BY ONLY <4>4, <5>1, <5>2, <5>3 DEF Kept, HasEnv
      <4> QED  BY ONLY IInv, <2>4, <3>1, <4>1, <4>2, <4>5, <4>6, HoldsKeep
    <3> QED  BY <3>2, <3>3
  <2>6. RestOK'
    BY <2>1 DEF RestOK, CallsReachParameters, IInv, TypeOK
  <2> QED  BY <2>4, <2>5, <2>6, InPartsNext
<1> QED  BY <1>3, <1>4

------------------------------------------------------------------------------
(* The beginning *)

(* A function of the module, with the parameters and the table it has.     *)
LEMMA PlainFunction ==
  ASSUME NEW k \in Nat, NEW variadic \in BOOLEAN, NEW t, Maps(t, Pointers)
  PROVE  IsFunction([closure |-> FALSE, params |-> k, variadic |-> variadic, nest |-> FALSE,
                     names |-> <<>>, fields |-> <<>>, table |-> t])
<1> PICK F : F = [closure |-> FALSE, params |-> k, variadic |-> variadic, nest |-> FALSE,
                  names |-> <<>>, fields |-> <<>>, table |-> t]
  OBVIOUS
<1>1. /\ F \in [closure : BOOLEAN, params : Nat, variadic : BOOLEAN, nest : BOOLEAN,
                names : Seq(Names), fields : Seq(Pointers), table : {t}]
      /\ F.table = t /\ F.names = <<>>
  OBVIOUS
<1>2. ~HasEnv(F)  BY <1>1 DEF HasEnv
<1>3. IsFunction(F)  BY <1>1, <1>2 DEF IsFunction
<1> QED  BY <1>3

LEMMA MainBegins ==
  ASSUME NEW params \in SUBSET Names, NEW this \in Nat \ {0}
  PROVE  LET t == [p \in params |-> Value("arg", 0, Variable(this, p))]
             M == [scope |-> [p \in params |-> [of |-> Variable(this, p), how |-> "value"]],
                   captured |-> {}, used |-> {}]
         IN  /\ Cardinality(params) \in Nat /\ Maps(t, Pointers) /\ IsReading(M)
             /\ \A F : F.names = <<>> /\ F.fields = <<>> /\ F.table = t => Agrees(F, M, this)
<1> PICK t : t = [p \in params |-> Value("arg", 0, Variable(this, p))]  OBVIOUS
<1> PICK scope : scope = [p \in params |-> [of |-> Variable(this, p), how |-> "value"]]
  OBVIOUS
<1> PICK M : M = [scope |-> scope, captured |-> {}, used |-> {}]  OBVIOUS
<1>1. Cardinality(params) \in Nat  BY NamesAssumption, FS_Subset, FS_CardinalityType
<1>2. \A p \in params : Variable(this, p) \in Variables /\ Variable(this, p).in = this
  BY DEF Variable, Variables
<1>3. /\ DOMAIN t = params /\ t = [p \in params |-> t[p]]
      /\ DOMAIN scope = params /\ scope = [p \in params |-> scope[p]]
  OBVIOUS
<1>4. ASSUME NEW p \in params
      PROVE  /\ t[p] = Value("arg", 0, Variable(this, p)) /\ t[p] \in Pointers
             /\ scope[p] \in Meanings /\ scope[p].of = Variable(this, p)
             /\ scope[p].how = "value" /\ scope[p].of.in = this
  <2> PICK var : var = Variable(this, p)  OBVIOUS
  <2>1. t[p] = Value("arg", 0, var) /\ scope[p] = [of |-> var, how |-> "value"]  OBVIOUS
  <2>2. var \in Variables /\ var.in = this  BY <1>2
  <2>3. t[p] \in Pointers  BY ONLY <2>1, <2>2 DEF Value, Pointers, Instructions
  <2>4. scope[p] \in Meanings /\ scope[p].of = var /\ scope[p].how = "value"
    BY ONLY <2>1, <2>2 DEF Meanings
  <2> QED  BY <2>1, <2>2, <2>3, <2>4
<1>5. Maps(t, Pointers) /\ Maps(scope, Meanings)  BY <1>3, <1>4 DEF Maps
<1>6. /\ M \in [scope : {M.scope}, captured : SUBSET Names, used : SUBSET Expressions]
      /\ M.scope = scope /\ M.captured = {} /\ M.used = {}
  OBVIOUS
<1>7. IsReading(M)  BY <1>5, <1>6 DEF IsReading
<1>8. ASSUME NEW F, F.names = <<>>, F.fields = <<>>, F.table = t PROVE Agrees(F, M, this)
  <2>1. Len(F.fields) = Len(F.names)  BY <1>8
  <2>2. ToSet(F.names) = M.captured
    <3>1. DOMAIN F.names = {}  BY <1>8
    <3> QED  BY <1>6, <3>1 DEF ToSet
  <2>3. this <= this  OBVIOUS
  <2>4. ASSUME NEW n \in DOMAIN M.scope
        PROVE  /\ M.scope[n].of.in <= this
               /\ IF M.scope[n].of.in = this THEN OwnName(F, M.scope[n], this, n)
                  ELSE CapturedName(F, M.scope[n], M.used, n)
    <3>1. n \in params /\ M.scope[n] = scope[n]  BY ONLY <1>3, <1>6, <2>4
    <3>2. /\ t[n] = Value("arg", 0, Variable(this, n)) /\ scope[n].of = Variable(this, n)
          /\ scope[n].how = "value" /\ scope[n].of.in = this
      BY <1>4, <3>1
    <3>3. OwnName(F, scope[n], this, n)
      BY ONLY <1>3, <1>8, <3>1, <3>2 DEF OwnName
    <3> QED  BY ONLY <2>3, <3>1, <3>2, <3>3
  <2> QED  BY ONLY <1>3, <1>6, <1>8, <2>1, <2>2, <2>4 DEF Agrees
<1> QED  BY <1>1, <1>5, <1>7, <1>8

LEMMA InitHolds == Init => IInv
<1> SUFFICES ASSUME Init PROVE IInv
  OBVIOUS
<1>1. PICK params \in SUBSET Names :
        /\ functions =
             [f \in 1 .. Main |->
                IF f = Main
                  THEN [closure |-> FALSE, params |-> Cardinality(params), variadic |-> FALSE,
                        nest |-> FALSE, names |-> <<>>, fields |-> <<>>,
                        table |-> [p \in params |-> Value("arg", 0, Variable(Main, p))]]
                  ELSE [closure |-> FALSE, params |-> Functions[Module[f]].params,
                        variadic |-> Functions[Module[f]].variadic, nest |-> FALSE,
                        names |-> <<>>, fields |-> <<>>, table |-> <<>>]]
        /\ building = <<Main>>
        /\ holds = [v \in {Variable(0, f) : f \in DOMAIN Functions} |->
                      Callable(CHOOSE i \in DOMAIN Module : Module[i] = v.name, 0)]
        /\ meant = <<[scope |-> [p \in params |->
                        [of |-> Variable(Main, p), how |-> "value"]],
                      captured |-> {}, used |-> {}]>>
        /\ calls = {} /\ outcome = "compiling" /\ statements = 0
  BY DEF Init
<1> PICK t : t = [p \in params |-> Value("arg", 0, Variable(Main, p))]  OBVIOUS
<1> PICK M : M = [scope |-> [p \in params |-> [of |-> Variable(Main, p), how |-> "value"]],
                  captured |-> {}, used |-> {}]
  OBVIOUS
<1>2. Module \in Seq(DOMAIN Functions) /\ ToSet(Module) = DOMAIN Functions
  BY NamesAssumption, SetAsSequence DEF Module
<1> PICK L : L = Len(Module)  OBVIOUS
<1>3. L \in Nat /\ Main = L + 1 /\ DOMAIN Module = 1 .. L  BY <1>2 DEF Main
<1>4. /\ Main \in Nat \ {0} /\ Main \in 1 .. Main
      /\ \A f \in 1 .. Main : f # Main => f \in 1 .. L
      /\ \A f \in 1 .. L : f \in 1 .. Main /\ f # Main
  BY ONLY <1>3
<1>5. /\ Cardinality(params) \in Nat /\ Maps(t, Pointers) /\ IsReading(M)
      /\ \A F : F.names = <<>> /\ F.fields = <<>> /\ F.table = t => Agrees(F, M, Main)
  BY <1>4, MainBegins
<1>6. /\ functions[Main] =
           [closure |-> FALSE, params |-> Cardinality(params), variadic |-> FALSE,
            nest |-> FALSE, names |-> <<>>, fields |-> <<>>, table |-> t]
      /\ \A f \in 1 .. L : functions[f] =
           [closure |-> FALSE, params |-> Functions[Module[f]].params,
            variadic |-> Functions[Module[f]].variadic, nest |-> FALSE,
            names |-> <<>>, fields |-> <<>>, table |-> <<>>]
      /\ functions = [f \in 1 .. Main |-> functions[f]]
  BY <1>1, <1>4
<1>7. functions \in Seq(ToSet(functions)) /\ Len(functions) = Main /\ DOMAIN functions = 1 .. Main
  <2>1. Main \in Nat  BY <1>4
  <2> QED  BY ONLY <1>6, <2>1, SequenceOfItself
<1>8. IsFunction(functions[Main]) /\ functions[Main].names = <<>> /\ functions[Main].fields = <<>>
      /\ functions[Main].table = t /\ functions[Main].closure = FALSE
  <2> PICK k : k = Cardinality(params)  OBVIOUS
  <2> PICK F : F = functions[Main]  OBVIOUS
  <2>1. FALSE \in BOOLEAN /\ k \in Nat /\ Maps(t, Pointers)  BY ONLY <1>5, k = Cardinality(params)
  <2>2. F = [closure |-> FALSE, params |-> k, variadic |-> FALSE, nest |-> FALSE,
             names |-> <<>>, fields |-> <<>>, table |-> t]
    BY ONLY <1>6, k = Cardinality(params), F = functions[Main]
  <2>3. IsFunction(F)  BY ONLY <2>1, <2>2, PlainFunction
  <2>4. F.names = <<>> /\ F.fields = <<>> /\ F.table = t /\ F.closure = FALSE
    BY ONLY <2>2
  <2> QED  BY ONLY <2>3, <2>4, F = functions[Main]
<1>9. ASSUME NEW f \in 1 .. L
      PROVE  IsFunction(functions[f]) /\ functions[f].names = <<>>
  <2> PICK k : k = Functions[Module[f]].params  OBVIOUS
  <2> PICK b : b = Functions[Module[f]].variadic  OBVIOUS
  <2>1. Module[f] \in DOMAIN Functions  BY ONLY <1>2, <1>3, <1>9
  <2>2. Functions[Module[f]] \in [params : Nat, variadic : BOOLEAN]
    BY <2>1, NamesAssumption
  <2>3. k \in Nat /\ b \in BOOLEAN  BY <2>2
  <2>4. Maps(<<>>, Pointers)
    <3>1. DOMAIN <<>> = {} /\ <<>> = [x \in {} |-> <<>>[x]]  OBVIOUS
    <3> QED  BY <3>1 DEF Maps
  <2>5. functions[f] = [closure |-> FALSE, params |-> k, variadic |-> b, nest |-> FALSE,
                        names |-> <<>>, fields |-> <<>>, table |-> <<>>]
    BY <1>6
  <2> PICK F : F = functions[f]  OBVIOUS
  <2>6. F = [closure |-> FALSE, params |-> k, variadic |-> b, nest |-> FALSE,
             names |-> <<>>, fields |-> <<>>, table |-> <<>>]
    BY ONLY <2>5, F = functions[f]
  <2>7. IsFunction(F)  BY ONLY <2>3, <2>4, <2>6, PlainFunction
  <2>8. F.names = <<>>  BY ONLY <2>6
  <2> QED  BY ONLY <2>7, <2>8, F = functions[f]
<1>10. /\ Len(building) = 1 /\ DOMAIN building = {1} /\ building[1] = Main /\ building # <<>>
       /\ building \in Seq(1 .. Len(functions))
  BY <1>1, <1>4, <1>7
<1>11. meant = <<M>> /\ Len(meant) = 1 /\ DOMAIN meant = {1} /\ meant[1] = M
       /\ meant \in Seq(ToSet(meant))
  <2>1. meant = <<M>> /\ Len(meant) = 1 /\ DOMAIN meant = {1} /\ meant[1] = M  BY <1>1
  <2>2. M \in ToSet(meant)  BY <2>1 DEF ToSet
  <2> QED  BY <2>1, <2>2
<1>12. Nested  BY <1>8, <1>10 DEF Nested
<1>13. NamesAgree  BY <1>5, <1>8, <1>10, <1>11 DEF NamesAgree
<1>14. ASSUME NEW f \in DOMAIN Functions
       PROVE  /\ Variable(0, f) \in DOMAIN holds /\ Variable(0, f) \in Variables
              /\ holds[Variable(0, f)].bound = 0
              /\ holds[Variable(0, f)].function \in 1 .. L
              /\ holds[Variable(0, f)] \in CallableType
              /\ ~HasEnv(functions[holds[Variable(0, f)].function])
  <2> PICK i : i = CHOOSE j \in DOMAIN Module : Module[j] = f  OBVIOUS
  <2>1. \E j \in DOMAIN Module : Module[j] = f  BY ONLY <1>2, <1>14 DEF ToSet
  <2>2. i \in 1 .. L  BY ONLY <1>3, <2>1, i = CHOOSE j \in DOMAIN Module : Module[j] = f
  <2>3. Variable(0, f).name = f /\ Variable(0, f) \in Variables
    BY DEF Variable, Variables
  <2>4. Variable(0, f) \in DOMAIN holds /\ holds[Variable(0, f)] = Callable(i, 0)
    BY <1>1, <2>3
  <2>5. i \in 1 .. Len(functions)  BY ONLY <1>4, <1>7, <2>2
  <2>6. holds[Variable(0, f)].bound = 0 /\ holds[Variable(0, f)].function = i
        /\ holds[Variable(0, f)] \in CallableType
    BY ONLY <2>4, <2>5 DEF Callable, CallableType
  <2>7. ~HasEnv(functions[i])  BY <1>9, <2>2 DEF HasEnv
  <2> QED  BY ONLY <2>2, <2>3, <2>4, <2>6, <2>7
<1>15. DOMAIN holds = {Variable(0, f) : f \in DOMAIN Functions} /\ holds = [v \in DOMAIN holds |-> holds[v]]
  BY <1>1
<1>16. CallablesAgree
  <2>1. ASSUME NEW v \in DOMAIN holds PROVE Supplied(holds[v])
    <3>1. PICK f \in DOMAIN Functions : v = Variable(0, f)  BY ONLY <1>15, <2>1
    <3>2. holds[v].bound = 0 /\ ~HasEnv(functions[holds[v].function])
      BY ONLY <1>14, <3>1
    <3> QED  BY ONLY <3>2 DEF Supplied
  <2> QED  BY ONLY <1>14, <2>1 DEF CallablesAgree
<1>17. TypeOK
  <2>1. \A f \in DOMAIN functions : IsFunction(functions[f])
    BY ONLY <1>4, <1>7, <1>8, <1>9
  <2>2. holds \in [DOMAIN holds -> CallableType] /\ DOMAIN holds \subseteq Variables
    BY ONLY <1>14, <1>15
  <2>3. \A d \in DOMAIN meant : IsReading(meant[d])  BY ONLY <1>5, <1>11
  <2>4. /\ calls \subseteq [function : 1 .. Len(functions), bound : {0, 1}, given : Nat]
        /\ outcome \in {"compiling", "done", "error", "crash", "undefined"}
        /\ statements \in Nat
    BY <1>1
  <2> QED  BY ONLY <1>7, <1>10, <1>11, <2>1, <2>2, <2>3, <2>4 DEF TypeOK
<1>18. CallsReachParameters  BY <1>1 DEF CallsReachParameters
<1> QED  BY <1>12, <1>13, <1>16, <1>17, <1>18 DEF IInv
LEMMA StatementKeeps ==
  ASSUME IInv, outcome = "compiling", Statement
  PROVE  IInv'
<1>1. statements' \in Nat  BY DEF IInv, TypeOK, Statement
<1>2. ASSUME NEW s \in StatementsOf("let"), Let(s.name, s.value) PROVE IInv'
  BY <1>1, <1>2, LetKeeps, StatementsAssumption
<1>3. ASSUME NEW s \in StatementsOf("closure"), NEW names \in SetToSeqs(DOMAIN s.captures),
             Open(s.default, names, s.captures, s.params)
      PROVE  IInv'
  BY <1>1, <1>3, OpenKeeps
<1>4. ASSUME NEW s \in StatementsOf("call"), Call(s.callees, s.arguments, s.more, s.name)
      PROVE  IInv'
  BY <1>1, <1>4, CallKeeps
<1> QED  BY <1>2, <1>3, <1>4 DEF Statement

LEMMA EndKeeps ==
  ASSUME IInv, outcome = "compiling", End
  PROVE  IInv'
<1>1. statements' \in Nat  BY DEF IInv, TypeOK, End
<1>2. ASSUME NEW n \in Targets, Close(n) PROVE IInv'  BY <1>1, <1>2, CloseKeeps
<1>3. ASSUME FinishModule PROVE IInv'
  <2>1. Stop("done")  BY <1>3 DEF FinishModule
  <2> QED  BY <1>1, <2>1, StopKeeps
<1> QED  BY <1>2, <1>3 DEF End

LEMMA StutterKeeps ==
  ASSUME IInv, UNCHANGED vars
  PROVE  IInv'
<1>1. /\ functions' = functions /\ building' = building /\ holds' = holds
      /\ calls' = calls /\ meant' = meant /\ outcome' = outcome
      /\ statements' = statements
  BY DEF vars
<1>2. TypeOK'  BY <1>1 DEF IInv, TypeOK, CallableType
<1>3. Nested' /\ NamesAgree'  BY <1>1 DEF IInv, Nested, NamesAgree
<1>4. CallablesAgree' /\ CallsReachParameters'
  BY <1>1 DEF IInv, CallablesAgree, Supplied, CallsReachParameters
<1> QED  BY <1>2, <1>3, <1>4 DEF IInv

LEMMA NextKeeps == IInv /\ [Next]_vars => IInv'
<1> SUFFICES ASSUME IInv, [Next]_vars PROVE IInv'
  OBVIOUS
<1>1. CASE outcome = "compiling" /\ Statement  BY <1>1, StatementKeeps
<1>2. CASE outcome = "compiling" /\ End  BY <1>2, EndKeeps
<1>3. CASE Ended \/ UNCHANGED vars  BY <1>3, StutterKeeps DEF Ended
<1> QED  BY <1>1, <1>2, <1>3 DEF Next

------------------------------------------------------------------------------
(* Theorems *)

(* Every function under construction agrees with what its names mean, and  *)
(* every value that can be called has its environment supplied, after any  *)
(* sequence of lets, closures, ends of closures and calls.                 *)
THEOREM Invariance == Spec => []IInv
<1> QED  BY InitHolds, NextKeeps, PTL DEF Spec

(* The variables keep their types: an environment has no field without a   *)
(* name of the program, and every function that is named was made.         *)
THEOREM TypeCorrect == Spec => []TypeOK
<1>1. IInv => TypeOK  BY DEF IInv
<1> QED  BY <1>1, Invariance, PTL

(* However closures are nested and whatever they capture, a name in a body *)
(* is looked up (ident.hpp) to be the variable that it names in the text,  *)
(* the first time and later, unless a closure shadowed what it captured.   *)
THEOREM NamesMean == Spec => []NamesMeanTheirVariables
<1> QED  BY NamesAreFound, Invariance, PTL

(* A name stands for the value of its variable, unless a default capture   *)
(* took an address for it or this body looked it up before.                *)
THEOREM ValuesMean == Spec => []ValuesUnlessAddressed
<1> QED  BY ValuesAreFound, Invariance, PTL

(* Whether a let or a closure compiles, is an error or crashes the         *)
(* compiler can be told from the text of the program alone.                *)
THEOREM TextDecides == Spec => []CompilesAsMeant
<1> QED  BY StatementsCompile, Invariance, PTL

(* What is bound and what is given make up the parameters of the function  *)
(* that a call reaches, an environment is bound where there is one, and    *)
(* what is bound is passed as a nest parameter.                            *)
THEOREM CallsReach == Spec => []CallsReachParameters
<1>1. IInv => CallsReachParameters  BY DEF IInv
<1> QED  BY <1>1, Invariance, PTL

(* The only partial applications that compile name a function of the       *)
(* module and bind at most one argument; every other one is an error or    *)
(* undefined, and a call crashes the compiler like any other use of a name.*)
THEOREM ApplicationsMean == Spec => []PartialApplications
<1> QED  BY ApplicationsAre, Invariance, PTL
==============================================================================
