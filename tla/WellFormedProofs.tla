--------------------------- MODULE WellFormedProofs ---------------------------
(***************************************************************************)
(* Every block of a supported function ends in its only terminator.        *)
(*                                                                         *)
(* Wholeness (LoweringInv) says which blocks may still be open while the   *)
(* statements of a function are lowered: the one the builder is in and     *)
(* those the active calls will move it to.                                 *)
(*                                                                         *)
(* First, statement trees: what holds of all of a statement holds of its   *)
(* parts.                                                                  *)
(***************************************************************************)
EXTENDS LoweringProofs

------------------------------------------------------------------------------
(* Trees *)

Rooted(p) ==
  /\ p \in [Node -> Tree] /\ IsTree(p)
  /\ \A n \in Node : WellFormedNode(p[n])
  /\ p[Root].kind = "body"

(* The statements of a statement are statements.                           *)
LEMMA KidsAreNodes ==
  ASSUME NEW p, Rooted(p), NEW n \in Node
  PROVE  /\ p[n] \in Tree /\ WellFormedNode(p[n]) /\ p[n].kids \in Seq(Node)
         /\ p[n].arg \in Nat /\ p[n].kind \in Kinds
         /\ Len(p[n].kids) \in Nat /\ \A i \in 1..Len(p[n].kids) : p[n].kids[i] \in Node
         /\ ToSet(p[n].kids) = {p[n].kids[i] : i \in 1..Len(p[n].kids)}
         /\ ToSet(p[n].kids) \subseteq Node
<1>1. /\ p[n] \in Tree /\ WellFormedNode(p[n]) /\ p[n].kids \in Seq(Node)
      /\ p[n].arg \in Nat /\ p[n].kind \in Kinds
  BY DEF Rooted, Tree
<1>2. Len(p[n].kids) \in Nat /\ \A i \in 1..Len(p[n].kids) : p[n].kids[i] \in Node
  BY <1>1, ElementOfSeq
<1>3. /\ ToSet(p[n].kids) = {p[n].kids[i] : i \in 1..Len(p[n].kids)}
      /\ ToSet(p[n].kids) \subseteq Node
  BY <1>1, ToSetOf
<1> QED  BY <1>1, <1>2, <1>3

(* The statements of a statement are itself and those of its parts.        *)
LEMMA WithinIs ==
  ASSUME NEW p, Rooted(p), NEW n \in Node
  PROVE  Within(p)[n] = {n} \cup (UNION {Within(p)[k] : k \in ToSet(p[n].kids)})
<1> DEFINE E == [m \in Node |-> ToSet(p[m].kids)]
           Is(c) == c = [m \in Node |-> {m} \cup UNION {c[k] : k \in ToSet(p[m].kids)}]
<1>1. Is(LeastFrom(E))
  <2>1. \A m \in Node : E[m] = ToSet(p[m].kids) /\ E[m] \subseteq Node
    BY KidsAreNodes
  <2>2. LeastFrom(E) = [m \in Node |-> LeastFrom(E)[m]]
    BY DEF LeastFrom
  <2> HIDE DEF E
  <2>3. \A m \in Node : LeastFrom(E)[m] = {m} \cup (UNION {LeastFrom(E)[k] : k \in E[m]})
    BY <2>1, LeastIsClosed
  <2>4. \A m \in Node : LeastFrom(E)[m] = {m} \cup (UNION {LeastFrom(E)[k] : k \in ToSet(p[m].kids)})
    BY <2>1, <2>3
  <2> QED  BY <2>2, <2>4, Zenon
<1>2. Within(p) = CHOOSE c : Is(c)
  BY DEF Within
<1> HIDE DEF Is, E
<1>3. Is(Within(p))
  BY <1>1, <1>2
<1>4. PICK c : c = Within(p)
  OBVIOUS
<1>4b. Is(c)
  BY <1>3, <1>4
<1>5. c = [m \in Node |-> {m} \cup UNION {c[k] : k \in ToSet(p[m].kids)}]
  BY ONLY <1>4b, Zenon DEF Is
<1>6. c[n] = {n} \cup (UNION {c[k] : k \in ToSet(p[n].kids)})
  BY <1>5, Zenon
<1> QED  BY <1>4, <1>6

(* Likewise those that no loop of it surrounds.                            *)
LEMMA OutsideLoopsIs ==
  ASSUME NEW p, Rooted(p), NEW n \in Node
  PROVE  OutsideLoops(p)[n] = {n} \cup (UNION {OutsideLoops(p)[k] : k \in Unlooped(p[n])})
<1> DEFINE E == [m \in Node |-> Unlooped(p[m])]
           Is(c) == c = [m \in Node |-> {m} \cup UNION {c[k] : k \in Unlooped(p[m])}]
<1>1. Is(LeastFrom(E))
  <2>1. \A m \in Node : E[m] = Unlooped(p[m]) /\ E[m] \subseteq Node
    BY KidsAreNodes DEF Unlooped
  <2>2. LeastFrom(E) = [m \in Node |-> LeastFrom(E)[m]]
    BY DEF LeastFrom
  <2> HIDE DEF E
  <2>3. \A m \in Node : LeastFrom(E)[m] = {m} \cup (UNION {LeastFrom(E)[k] : k \in E[m]})
    BY <2>1, LeastIsClosed
  <2>4. \A m \in Node : LeastFrom(E)[m] = {m} \cup (UNION {LeastFrom(E)[k] : k \in Unlooped(p[m])})
    BY <2>1, <2>3
  <2> QED  BY <2>2, <2>4, Zenon
<1>2. OutsideLoops(p) = CHOOSE c : Is(c)
  BY DEF OutsideLoops
<1> HIDE DEF Is, E
<1>3. Is(OutsideLoops(p))
  BY <1>1, <1>2
<1>4. PICK c : c = OutsideLoops(p)
  OBVIOUS
<1>4b. Is(c)
  BY <1>3, <1>4
<1>5. c = [m \in Node |-> {m} \cup UNION {c[k] : k \in Unlooped(p[m])}]
  BY ONLY <1>4b, Zenon DEF Is
<1>6. c[n] = {n} \cup (UNION {c[k] : k \in Unlooped(p[n])})
  BY <1>5, Zenon
<1> QED  BY <1>4, <1>6

(* What holds of all of a statement holds of each of its parts.            *)
LEMMA PartsInherit ==
  ASSUME NEW p, Rooted(p), NEW n \in Node, NEW k \in ToSet(p[n].kids)
  PROVE  /\ Fine(p, n) => Fine(p, k)
         /\ StraightLine(p, n) => StraightLine(p, k)
         /\ NoJump(p, n) /\ p[n].kind \notin Loops => NoJump(p, k)
         /\ p[k].kind = "defer" => Has(p, n, {"defer"})
         /\ Has(p, k, {"defer"}) => Has(p, n, {"defer"})
<1>1. k \in Node /\ Within(p)[k] \subseteq Within(p)[n] /\ k \in Within(p)[k]
  <2>1. k \in Node  BY KidsAreNodes
  <2>2. Within(p)[n] = {n} \cup (UNION {Within(p)[j] : j \in ToSet(p[n].kids)})  BY WithinIs
  <2>3. k \in Within(p)[k]  BY <2>1, WithinIs
  <2> QED  BY <2>1, <2>2, <2>3
<1>2. ASSUME NoJump(p, n), p[n].kind \notin Loops
      PROVE  NoJump(p, k)
  <2>1. OutsideLoops(p)[n] = {n} \cup (UNION {OutsideLoops(p)[j] : j \in Unlooped(p[n])})
    BY OutsideLoopsIs
  <2>2. k \in Unlooped(p[n])  BY <1>2 DEF Unlooped
  <2>3. OutsideLoops(p)[k] \subseteq OutsideLoops(p)[n]  BY <2>1, <2>2
  <2> QED  BY <1>2, <2>3 DEF NoJump
<1>3. \A K : Has(p, k, K) => Has(p, n, K)
  BY <1>1 DEF Has
<1>4. Fine(p, n) => Fine(p, k)
  BY <1>1, <1>3 DEF Fine, NoBareBody
<1>5. p[k].kind = "defer" => Has(p, n, {"defer"})
  BY <1>1 DEF Has
<1>6. StraightLine(p, n) => StraightLine(p, k)
  BY <1>3 DEF StraightLine
<1> QED  BY <1>2, <1>3, <1>4, <1>5, <1>6

(* It holds of the statement itself.                                       *)
LEMMA SelfHolds ==
  ASSUME NEW p, Rooted(p), NEW n \in Node
  PROVE  /\ Fine(p, n) => SupportedStmt(p, n)
         /\ StraightLine(p, n) => p[n].kind \notin Branches \cup Loops
         /\ NoJump(p, n) => p[n].kind \notin Jumps
         /\ NoBareBody(p, n) /\ p[n].kind = "body" => \A k \in ToSet(p[n].kids) : p[k].kind # "body"
<1>1. n \in Within(p)[n]
  BY WithinIs
<1>2. n \in OutsideLoops(p)[n]
  BY OutsideLoopsIs
<1> QED  BY <1>1, <1>2 DEF Fine, StraightLine, Has, NoJump, NoBareBody

(* A supported function is all fine, and its jumps are in loops.           *)
LEMMA SupportedIsFine ==
  ASSUME NEW p, Rooted(p), Supported(p)
  PROVE  Fine(p, Root) /\ NoJump(p, Root)
BY DEF Supported, Fine, NoJump

(* A monotone step on sets of statements has a least set it leaves alone.  *)
Monotone(F) ==
  /\ F \in [SUBSET Node -> SUBSET Node]
  /\ \A S, T \in SUBSET Node : S \subseteq T => F[S] \subseteq F[T]
LeastFixed(F) == {n \in Node : \A S \in SUBSET Node : F[S] \subseteq S => n \in S}

LEMMA LeastIsFixed ==
  ASSUME NEW F, Monotone(F)
  PROVE  LeastFixed(F) \in SUBSET Node /\ F[LeastFixed(F)] = LeastFixed(F)
<1>1. PICK L : L = LeastFixed(F)
  OBVIOUS
<1>2. L \in SUBSET Node
  BY <1>1 DEF LeastFixed
<1>3. \A S \in SUBSET Node : F[S] \subseteq S => L \subseteq S
  BY <1>1 DEF LeastFixed
<1>4. F[L] \subseteq L
  <2>1. ASSUME NEW n \in F[L], NEW S \in SUBSET Node, F[S] \subseteq S
        PROVE  n \in S
    <3>1. L \subseteq S  BY <2>1, <1>3
    <3>2. F[L] \subseteq F[S]  BY <3>1, <1>2 DEF Monotone
    <3> QED  BY <2>1, <3>2
  <2>2. F[L] \in SUBSET Node  BY <1>2 DEF Monotone
  <2> QED  BY <1>1, <2>1, <2>2 DEF LeastFixed
<1>5. F[L] \in SUBSET Node /\ F[F[L]] \subseteq F[L]
  BY <1>2, <1>4 DEF Monotone
<1>6. L \subseteq F[L]
  BY <1>3, <1>5
<1> QED  BY <1>1, <1>2, <1>4, <1>6

(* The cases of Leaves.                                                    *)
LeavesWhen(p, n, S) ==
  \/ p[n].kind \in {"return", "break", "continue"}
  \/ p[n].kind = "body" /\ p[n].kids # <<>> /\ Last(p[n].kids) \in S
  \/ p[n].kind = "if" /\ Len(p[n].kids) = 2 /\ \A k \in ToSet(p[n].kids) : k \in S
  \/ p[n].kind = "typeswitch" /\ p[n].arg # 0 /\ p[n].kids[p[n].arg] \in S
LeavesOf(p, n, f) ==
  \/ p[n].kind \in {"return", "break", "continue"}
  \/ p[n].kind = "body" /\ p[n].kids # <<>> /\ f[Last(p[n].kids)]
  \/ p[n].kind = "if" /\ Len(p[n].kids) = 2 /\ \A k \in ToSet(p[n].kids) : f[k]
  \/ p[n].kind = "typeswitch" /\ p[n].arg # 0 /\ f[p[n].kids[p[n].arg]]

LEMMA LeavesIs ==
  ASSUME NEW p, Rooted(p), NEW n \in Node
  PROVE  Leaves(p)[n] <=> LeavesOf(p, n, Leaves(p))
<1> DEFINE F == [S \in SUBSET Node |-> {m \in Node : LeavesWhen(p, m, S)}]
           Is(c) == c = [m \in Node |-> LeavesOf(p, m, c)]
<1>1. Monotone(F)
  BY DEF Monotone, LeavesWhen
<1>2. PICK L \in SUBSET Node : F[L] = L
  <2> HIDE DEF F
  <2> QED  BY <1>1, LeastIsFixed
<1>3. \A m \in Node : m \in L <=> LeavesWhen(p, m, L)
  BY <1>2
<1>4. PICK c : c = [m \in Node |-> m \in L]
  OBVIOUS
<1>5. \A m \in Node : LeavesWhen(p, m, L) <=> LeavesOf(p, m, c)
  <2> TAKE m \in Node
  <2>1. \A k \in Node : c[k] <=> k \in L  BY <1>4
  <2>2. p[m].kind = "body" /\ p[m].kids # <<>> => Last(p[m].kids) \in Node
    <3> HAVE p[m].kind = "body" /\ p[m].kids # <<>>
    <3>1. Len(p[m].kids) \in 1..Len(p[m].kids)
      BY KidsAreNodes, EmptySeq
    <3> QED  BY <3>1, KidsAreNodes DEF Last
  <2>3. p[m].kind = "typeswitch" /\ p[m].arg # 0 => p[m].kids[p[m].arg] \in Node
    <3> HAVE p[m].kind = "typeswitch" /\ p[m].arg # 0
    <3>1. p[m].arg \in 1..Len(p[m].kids)
      BY KidsAreNodes DEF WellFormedNode
    <3> QED  BY <3>1, KidsAreNodes
  <2>4. ToSet(p[m].kids) \subseteq Node  BY KidsAreNodes
  <2> QED  BY <2>1, <2>2, <2>3, <2>4 DEF LeavesWhen, LeavesOf
<1>6. Is(c)
  <2>1. \A m \in Node : (m \in L) = LeavesOf(p, m, c)
    <3> TAKE m \in Node
    <3>1. m \in L <=> LeavesOf(p, m, c)  BY <1>3, <1>5
    <3>2. CASE m \in L
      <4>1. (m \in L) = TRUE /\ LeavesOf(p, m, c)  BY <3>1, <3>2
      <4>2. LeavesOf(p, m, c) = TRUE  BY <4>1 DEF LeavesOf
      <4> QED  BY ONLY <4>1, <4>2
    <3>3. CASE m \notin L
      <4>1. (m \in L) = FALSE /\ ~LeavesOf(p, m, c)  BY <3>1, <3>3
      <4>2. LeavesOf(p, m, c) = FALSE  BY <4>1 DEF LeavesOf
      <4> QED  BY ONLY <4>1, <4>2
    <3> QED  BY <3>2, <3>3
  <2> QED  BY <1>4, <2>1, Zenon
<1>7. Leaves(p) = CHOOSE f : Is(f)
  BY DEF Leaves, LeavesOf
<1> HIDE DEF Is
<1>8. Is(Leaves(p))
  BY <1>6, <1>7
<1>9. PICK f : f = Leaves(p)
  OBVIOUS
<1>10. Is(f)
  BY <1>8, <1>9
<1>11. f = [m \in Node |-> LeavesOf(p, m, f)]
  BY ONLY <1>10, Zenon DEF Is
<1>12. f[n] = LeavesOf(p, n, f)
  BY <1>11, Zenon
<1> QED  BY <1>9, <1>12

(* The cases of EndsFilled.                                                *)
FilledWhen(p, n, S) ==
  \/ p[n].kind \in {"expr", "return", "break", "continue"}
  \/ /\ p[n].kind = "body"
     /\ \E i \in 1..Len(p[n].kids) :
          /\ p[n].kids[i] \in S
          /\ \A j \in i + 1 .. Len(p[n].kids) : p[p[n].kids[j]].kind \in {"nop", "defer"}
FilledOf(p, n, f) ==
  \/ p[n].kind \in {"expr", "return", "break", "continue"}
  \/ /\ p[n].kind = "body"
     /\ \E i \in 1..Len(p[n].kids) :
          /\ f[p[n].kids[i]]
          /\ \A j \in i + 1 .. Len(p[n].kids) : p[p[n].kids[j]].kind \in {"nop", "defer"}

LEMMA EndsFilledIs ==
  ASSUME NEW p, Rooted(p), NEW n \in Node
  PROVE  EndsFilled(p)[n] <=> FilledOf(p, n, EndsFilled(p))
<1> DEFINE F == [S \in SUBSET Node |-> {m \in Node : FilledWhen(p, m, S)}]
           Is(c) == c = [m \in Node |-> FilledOf(p, m, c)]
<1>1. Monotone(F)
  BY DEF Monotone, FilledWhen
<1>2. PICK L \in SUBSET Node : F[L] = L
  <2> HIDE DEF F
  <2> QED  BY <1>1, LeastIsFixed
<1>3. \A m \in Node : m \in L <=> FilledWhen(p, m, L)
  BY <1>2
<1>4. PICK c : c = [m \in Node |-> m \in L]
  OBVIOUS
<1>5. \A m \in Node : FilledWhen(p, m, L) <=> FilledOf(p, m, c)
  <2> TAKE m \in Node
  <2>1. \A k \in Node : c[k] <=> k \in L  BY <1>4
  <2>2. \A i \in 1..Len(p[m].kids) : p[m].kids[i] \in Node  BY KidsAreNodes
  <2> QED  BY <2>1, <2>2 DEF FilledWhen, FilledOf
<1>6. Is(c)
  <2>1. \A m \in Node : (m \in L) = FilledOf(p, m, c)
    <3> TAKE m \in Node
    <3>1. m \in L <=> FilledOf(p, m, c)  BY <1>3, <1>5
    <3>2. CASE m \in L
      <4>1. (m \in L) = TRUE /\ FilledOf(p, m, c)  BY <3>1, <3>2
      <4>2. FilledOf(p, m, c) = TRUE  BY <4>1 DEF FilledOf
      <4> QED  BY ONLY <4>1, <4>2
    <3>3. CASE m \notin L
      <4>1. (m \in L) = FALSE /\ ~FilledOf(p, m, c)  BY <3>1, <3>3
      <4>2. FilledOf(p, m, c) = FALSE  BY <4>1 DEF FilledOf
      <4> QED  BY ONLY <4>1, <4>2
    <3> QED  BY <3>2, <3>3
  <2> QED  BY <1>4, <2>1, Zenon
<1>7. EndsFilled(p) = CHOOSE f : Is(f)
  BY DEF EndsFilled, FilledOf
<1> HIDE DEF Is
<1>8. Is(EndsFilled(p))
  BY <1>6, <1>7
<1>9. PICK f : f = EndsFilled(p)
  OBVIOUS
<1>10. Is(f)
  BY <1>8, <1>9
<1>11. f = [m \in Node |-> FilledOf(p, m, f)]
  BY ONLY <1>10, Zenon DEF Is
<1>12. f[n] = FilledOf(p, n, f)
  BY <1>11, Zenon
<1> QED  BY <1>9, <1>12

(* What the proof needs of the two.                                        *)
LEMMA LeavesFacts ==
  ASSUME NEW p, Rooted(p), NEW n \in Node
  PROVE  /\ p[n].kind \in {"return", "break", "continue"} => Leaves(p)[n]
         /\ p[n].kind = "body" /\ Len(p[n].kids) # 0 /\ Leaves(p)[p[n].kids[Len(p[n].kids)]] =>
              Leaves(p)[n]
         /\ p[n].kind = "typeswitch" /\ p[n].arg # 0 /\ Leaves(p)[p[n].kids[p[n].arg]] =>
              Leaves(p)[n]
<1>1. p[n].kids # <<>> <=> Len(p[n].kids) # 0
  BY KidsAreNodes, EmptySeq
<1> QED  BY <1>1, LeavesIs DEF LeavesOf, Last

LEMMA FilledFacts ==
  ASSUME NEW p, Rooted(p), NEW n \in Node, EndsFilled(p)[n]
  PROVE  \/ p[n].kind \in {"expr", "return", "break", "continue"}
         \/ p[n].kind = "body" /\ FillsBy(p, p[n].kids, Len(p[n].kids))
BY EndsFilledIs DEF FilledOf, FillsBy

------------------------------------------------------------------------------
(* How blocks end *)

(* A block that ends is not open, and one that returns ends.               *)
LEMMA EndFacts ==
  ASSUME NEW bs, NEW b, NEW S, bs[b].insts \in Seq(S)
  PROVE  /\ EndsOnce(bs, b) => ~Open(bs, b) /\ Filled(bs, b) /\ HasTerminator(bs, b)
         /\ HasTerminator(bs, b) => ~Open(bs, b)
         /\ ReturnsIn(bs, b) => HasTerminator(bs, b)
<1>1. Filled(bs, b) => Len(bs[b].insts) \in 1..Len(bs[b].insts)
  BY EmptySeq DEF Filled
<1>2. ReturnsIn(bs, b) => HasTerminator(bs, b)
  BY DEF ReturnsIn, Filled, HasTerminator, IsTerminator, Terminators, Ops
<1> QED  BY <1>1, <1>2 DEF EndsOnce, Open, Filled, HasTerminator

(* Two functions whose block b ends alike.                                 *)
Alike(bs, cs, b) ==
  /\ Open(bs, b) <=> Open(cs, b)
  /\ EndsOnce(bs, b) <=> EndsOnce(cs, b)
  /\ Filled(bs, b) <=> Filled(cs, b)
  /\ ReturnsIn(bs, b) <=> ReturnsIn(cs, b)

LEMMA SameAlike ==
  ASSUME NEW bs, NEW cs, NEW b, bs[b].insts = cs[b].insts
  PROVE  Alike(bs, cs, b)
BY DEF Alike, Open, EndsOnce, HasTerminator, Filled, ReturnsIn

(* A case more changes no opcode.                                          *)
LEMMA AddCaseAlike ==
  ASSUME NEW bs, NEW a, NEW d, NEW case, NEW b \in 1..Len(bs),
         bs[b].insts \in Seq(Inst)
  PROVE  Alike(bs, AddCase(bs, a, d, case), b)
<1>1. PICK s, t : s = bs[b].insts /\ t = AddCase(bs, a, d, case)[b].insts
  OBVIOUS
<1>2. t = WithCase(s, d, case)
  BY <1>1 DEF AddCase
<1>3. Len(s) \in Nat /\ t = [i \in 1..Len(s) |-> t[i]]
  BY <1>1, <1>2 DEF WithCase
<1>4. Len(t) = Len(s)
  BY <1>3, FunctionIsSeq
<1>5. \A i \in 1..Len(s) : t[i].op = s[i].op
  <2> TAKE i \in 1..Len(s)
  <2>1. t[i] = IF s[i].op = "switch" /\ s[i].to[1] = d
               THEN [s[i] EXCEPT !.to = Append(@, case)] ELSE s[i]
    BY <1>2 DEF WithCase
  <2>2. PICK e, u : e = s[i] /\ u = t[i]
    OBVIOUS
  <2>3. e \in Inst
    BY <1>1, <2>2, ElementOfSeq
  <2>4. u = [e EXCEPT !.to = Append(@, case)] \/ u = e
    BY <2>1, <2>2
  <2>5. u.op = e.op
    BY ONLY <2>3, <2>4 DEF Inst
  <2> QED  BY <2>2, <2>5
<1>6. s = <<>> <=> t = <<>>
  BY <1>1, <1>3, <1>4, EmptySeq
<1>7. s # <<>> => Len(s) \in 1..Len(s)
  BY <1>1, EmptySeq
<1>8. \A i \in 1..Len(s) : IsTerminator(t[i]) <=> IsTerminator(s[i])
  BY <1>5 DEF IsTerminator
<1>9. PICK n, cs : n = Len(s) /\ cs = AddCase(bs, a, d, case)
  OBVIOUS
<1>10. /\ bs[b].insts = s /\ cs[b].insts = t /\ Len(s) = n /\ Len(t) = n /\ n \in Nat
       /\ (s = <<>> <=> t = <<>>) /\ (s # <<>> => n \in 1..n)
       /\ \A i \in 1..n : t[i].op = s[i].op
       /\ \A i \in 1..n : IsTerminator(t[i]) <=> IsTerminator(s[i])
  BY <1>1, <1>3, <1>4, <1>5, <1>6, <1>7, <1>8, <1>9
<1>11. \A i \in 1..n - 1 : i \in 1..n
  BY ONLY <1>10
<1>12. Open(bs, b) <=> Open(cs, b)
  BY ONLY <1>10 DEF Open
<1>13. HasTerminator(bs, b) <=> HasTerminator(cs, b)
  BY ONLY <1>10 DEF HasTerminator
<1>14. EndsOnce(bs, b) <=> EndsOnce(cs, b)
  BY ONLY <1>10, <1>11, <1>13 DEF EndsOnce
<1>15. Filled(bs, b) <=> Filled(cs, b)
  BY ONLY <1>10 DEF Filled
<1>16. ReturnsIn(bs, b) <=> ReturnsIn(cs, b)
  BY ONLY <1>10, <1>15 DEF ReturnsIn, Filled
<1> QED  BY <1>9, <1>12, <1>14, <1>15, <1>16 DEF Alike

(* An instruction at the end of an open block, which a terminator ends.    *)
LEMMA EmitAtEnd ==
  ASSUME NEW bs, NEW at \in InsertPoint, at.at \in 1..Len(bs), ~at.back,
         NEW S, bs[at.at].insts \in Seq(S), NEW inst \in S, Open(bs, at.at)
  PROVE  /\ Filled(Emit(bs, at, inst), at.at)
         /\ ~IsTerminator(inst) => Open(Emit(bs, at, inst), at.at)
         /\ IsTerminator(inst) => EndsOnce(Emit(bs, at, inst), at.at)
         /\ inst.op = "ret" => ReturnsIn(Emit(bs, at, inst), at.at)
<1>1. PICK s, t : s = bs[at.at].insts /\ t = Emit(bs, at, inst)[at.at].insts
  OBVIOUS
<1>2. t = Append(s, inst)
  BY <1>1 DEF Emit, Placed
<1>3. PICK n : n = Len(s)
  OBVIOUS
<1>4. /\ n \in Nat /\ Len(t) = n + 1 /\ t[n + 1] = inst
      /\ \A i \in 1..n : t[i] = s[i]
  BY <1>1, <1>2, <1>3, AppendProperties
<1>5. t # <<>>
  BY <1>2, <1>1, AppendProperties
<1>6. \A i \in 1..n : ~IsTerminator(t[i])
  BY <1>1, <1>3, <1>4 DEF Open
<1>7. n + 1 - 1 = n /\ \A i \in 1..n + 1 : i \in 1..n \/ i = n + 1
  BY <1>4
<1>8. ~IsTerminator(inst) => \A i \in 1..Len(t) : ~IsTerminator(t[i])
  BY <1>4, <1>6, <1>7
<1>9. Len(t) - 1 = n
  BY <1>4, <1>7
<1> QED  BY <1>1, <1>4, <1>5, <1>6, <1>8, <1>9
           DEF Filled, Open, EndsOnce, HasTerminator, ReturnsIn

(* One that is no terminator, in front of the terminator of a block.       *)
LEMMA EmitBeforeLast ==
  ASSUME NEW bs, NEW at \in InsertPoint, at.at \in 1..Len(bs), at.back,
         NEW S, bs[at.at].insts \in Seq(S), NEW inst \in S,
         EndsOnce(bs, at.at), ~IsTerminator(inst)
  PROVE  /\ EndsOnce(Emit(bs, at, inst), at.at)
         /\ Filled(Emit(bs, at, inst), at.at)
         /\ ReturnsIn(bs, at.at) => ReturnsIn(Emit(bs, at, inst), at.at)
<1>1. PICK s, t : s = bs[at.at].insts /\ t = Emit(bs, at, inst)[at.at].insts
  OBVIOUS
<1>2. t = InsertAt(s, Len(s), inst)
  BY <1>1 DEF Emit, Placed
<1>3. PICK n : n = Len(s)
  OBVIOUS
<1>4. s # <<>> /\ s \in Seq(S)
  BY <1>1 DEF EndsOnce, HasTerminator
<1>5. n \in Nat \ {0}
  BY <1>3, <1>4, EmptySeq
<1>6. n \in 1..n + 1
  BY <1>5
<1>7. Inserted(S, t, s, n, inst)
  BY <1>2, <1>3, <1>4, <1>6, InsertAtInserts
<1>8. /\ t \in Seq(S) /\ Len(t) = n + 1 /\ t[n] = inst
      /\ \A i \in 1..n - 1 : t[i] = s[i]
      /\ t[n + 1] = s[n]
  <2>1. /\ t \in Seq(S) /\ Len(t) = n + 1
        /\ \A k \in 1..n + 1 : t[k] =
             IF k < n THEN s[k] ELSE IF k = n THEN inst ELSE s[k - 1]
    BY <1>3, <1>7 DEF Inserted
  <2>2. /\ n \in 1..n + 1 /\ ~(n < n) /\ n + 1 \in 1..n + 1 /\ ~(n + 1 < n)
        /\ n + 1 # n /\ n + 1 - 1 = n
        /\ \A i \in 1..n - 1 : i \in 1..n + 1 /\ i < n
    BY ONLY <1>5
  <2> QED  BY ONLY <2>1, <2>2
<1>9. t # <<>>
  BY <1>5, <1>8, EmptySeq
<1>10. \A i \in 1..n - 1 : ~IsTerminator(s[i])
  BY <1>1, <1>3 DEF EndsOnce
<1>11. n + 1 - 1 = n /\ \A i \in 1..n : i \in 1..n - 1 \/ i = n
  BY <1>5
<1>12. \A i \in 1..Len(t) - 1 : ~IsTerminator(t[i])
  <2>1. Len(t) - 1 = n
    <3>1. Len(t) = n + 1  BY <1>8
    <3> QED  BY ONLY <1>5, <3>1
  <2>2. \A i \in 1..n : ~IsTerminator(t[i])
    <3> TAKE i \in 1..n
    <3>1. CASE i = n
      BY <1>8, <3>1
    <3>2. CASE i \in 1..n - 1
      <4>1. t[i] = s[i] /\ ~IsTerminator(s[i])  BY <1>8, <1>10, <3>2
      <4> QED  BY ONLY <4>1
    <3> QED  BY <1>11, <3>1, <3>2
  <2> QED  BY <2>1, <2>2
<1>13. IsTerminator(t[Len(t)])
  BY <1>1, <1>3, <1>8 DEF EndsOnce, HasTerminator
<1>14. ReturnsIn(bs, at.at) => t[Len(t)].op = "ret"
  BY <1>1, <1>3, <1>8 DEF ReturnsIn
<1> QED  BY <1>1, <1>9, <1>12, <1>13, <1>14
           DEF Filled, EndsOnce, HasTerminator, ReturnsIn

(* The other blocks stay as they are.                                      *)
LEMMA EmitElsewhere ==
  ASSUME NEW bs, NEW at, NEW inst, NEW b \in 1..Len(bs), b # at.at
  PROVE  Alike(bs, Emit(bs, at, inst), b)
<1>1. Emit(bs, at, inst)[b].insts = bs[b].insts
  BY DEF Emit
<1> QED  BY <1>1, SameAlike

------------------------------------------------------------------------------
(* The statements of the active calls *)

(* t is the stack s whose last call has gone on as f, or has been joined   *)
(* by g, or has returned.                                                  *)
Onto(s, t, f) ==
  /\ Len(s) \in Nat \ {0} /\ Len(t) = Len(s) /\ t[Len(s)] = f /\ t # <<>>
  /\ \A k \in 1..Len(s) - 1 : t[k] = s[k]
Pushed(s, t, g) ==
  /\ Len(s) \in Nat \ {0} /\ Len(t) = Len(s) + 1 /\ t[Len(s) + 1] = g /\ t # <<>>
  /\ \A k \in 1..Len(s) : t[k] = s[k]
Popped(s, t) ==
  /\ Len(s) \in Nat \ {0} /\ Len(t) = Len(s) - 1
  /\ \A k \in 1..Len(s) - 1 : t[k] = s[k]

(* Only the outermost call is buildFunction's.                             *)
LEMMA OneBuild ==
  ASSUME NEW p, NEW s, Chain(p, s), Len(s) \in Nat
  PROVE  /\ \A k \in 2..Len(s) : s[k].act # "build" /\ (Coding(s[k]) \/ Unwinding(s[k]))
         /\ \A k \in 1..Len(s) : s[k].act # "build" => k # 1
         /\ Len(s) > 1 => s[1].pc \in {1, 2}
<1>1. \A k \in 2..Len(s) : Calls(p, s[k-1], s[k])
  BY DEF Chain
<1>2. \A g, f : Calls(p, g, f) => f.act # "build" /\ (Coding(f) \/ Unwinding(f))
  BY DEF Calls, Coding, Unwinding
<1>3. s[1].act = "build"
  BY DEF Chain
<1>4. Len(s) > 1 => s[1].pc \in {1, 2}
  <2> HAVE Len(s) > 1
  <2>1. 2 \in 2..Len(s) /\ 2 - 1 = 1  OBVIOUS
  <2>2. Calls(p, s[1], s[2])  BY <1>1, <2>1
  <2> QED  BY <1>3, <2>2 DEF Calls, Coding, Unwinding
<1> QED  BY <1>1, <1>2, <1>3, <1>4

(* The call goes on in the same statement.                                 *)
LEMMA ChainGoesOn ==
  ASSUME NEW p, NEW s, NEW t, NEW f, Chain(p, s), Onto(s, t, f),
         f.act = s[Len(s)].act, f.n = s[Len(s)].n
  PROVE  Chain(p, t)
<1> DEFINE n == Len(s)
<1>1. /\ n \in Nat \ {0} /\ Len(t) = n /\ t[n] = f /\ t # <<>>
      /\ \A k \in 1..n - 1 : t[k] = s[k]
  BY DEF Onto
<1>2. \A k \in 1..n : t[k].act = s[k].act /\ t[k].n = s[k].n
  <2>1. \A k \in 1..n : k \in 1..n - 1 \/ k = n  BY <1>1
  <2> QED  BY <1>1, <2>1
<1>3. /\ s # <<>> /\ s[1].act = "build" /\ s[1].n = Root /\ 1 \in 1..n
      /\ n # 1 => t[1] = s[1] /\ (Closing(t) <=> Closing(s))
  BY <1>1 DEF Chain, Closing
<1> HIDE DEF n
<1>4. \A k \in 2..n : s[k].act # "build"
  <2>1. Len(s) \in Nat  BY <1>1 DEF n
  <2> QED  BY <2>1, OneBuild DEF n
<1>5. \A k \in 1..n : (Coding(t[k]) <=> Coding(s[k])) /\ (Unwinding(t[k]) <=> Unwinding(s[k]))
  BY <1>2 DEF Coding, Unwinding
<1>6. \A k, l \in 1..n : k < l => k \in 1..n - 1 /\ t[k] = s[k]
  BY <1>1
<1>7. \A k \in 2..n : k - 1 \in 1..n - 1 /\ k \in 1..n /\ Calls(p, t[k-1], t[k])
  <2> TAKE k \in 2..n
  <2>1. k - 1 \in 1..n - 1 /\ k \in 1..n  BY <1>1
  <2>2. t[k-1] = s[k-1] /\ Calls(p, s[k-1], s[k])  BY <1>1, <2>1 DEF Chain, n
  <2>3. Calls(p, s[k-1], t[k])  BY <1>2, <2>1, <2>2 DEF Calls, Coding, Unwinding
  <2> QED  BY <2>1, <2>2, <2>3
<1>8. \A k \in 1..n : Fine(p, t[k].n)
  BY <1>2 DEF Chain, n
<1>9. \A k, l \in 1..n : k < l =>
        /\ t[k].n <= t[l].n
        /\ Coding(t[k]) /\ Coding(t[l]) => t[k].n < t[l].n
        /\ InArm(p, t[k]) => StraightLine(p, t[l].n)
  BY <1>2, <1>5, <1>6 DEF Chain, n
<1>10. \A l \in 1..n : Unwinding(t[l]) /\ ~Closing(t) => StraightLine(p, t[l].n)
  <2> TAKE l \in 1..n
  <2>1. CASE n = 1
    <3>1. l = 1  BY <2>1
    <3> QED  BY <1>2, <1>3, <3>1 DEF Unwinding
  <2>2. CASE n # 1
    BY <1>2, <1>3, <1>5, <2>2 DEF Chain, n
  <2> QED  BY <2>1, <2>2
<1>11. \A l \in 1..n :
         Coding(t[l]) /\ (Closing(t) \/ \E k \in 1..l-1 : Unwinding(t[k])) => p[t[l].n].kind = "expr"
  <2> TAKE l \in 1..n
  <2>1. CASE n = 1
    <3>1. l = 1  BY <2>1
    <3> QED  BY <1>2, <1>3, <3>1 DEF Coding
  <2>2. CASE n # 1
    <3>1. \A k \in 1..l-1 : k \in 1..n  BY <1>1
    <3>2. (\E k \in 1..l-1 : Unwinding(t[k])) => \E k \in 1..l-1 : Unwinding(s[k])
      BY <1>5, <3>1
    <3>3. Coding(s[l]) /\ (Closing(s) \/ \E k \in 1..l-1 : Unwinding(s[k])) => p[s[l].n].kind = "expr"
      BY DEF Chain, n
    <3> QED  BY <1>2, <1>3, <1>5, <2>2, <3>2, <3>3
  <2> QED  BY <2>1, <2>2
<1>12. \A l \in 1..n :
         (\A k \in 1..l-1 : ~Iterates(p, t[k])) => Unwinding(t[l]) \/ NoJump(p, t[l].n)
  <2> TAKE l \in 1..n
  <2>1. \A k \in 1..l-1 : t[k] = s[k]
    <3>1. \A k \in 1..l-1 : k \in 1..n - 1  BY <1>1
    <3> QED  BY <1>1, <3>1
  <2>2. (\A k \in 1..l-1 : ~Iterates(p, s[k])) => Unwinding(s[l]) \/ NoJump(p, s[l].n)
    BY DEF Chain, n
  <2> QED  BY <1>2, <1>5, <2>1, <2>2
<1> QED  BY <1>1, <1>2, <1>3, <1>7, <1>8, <1>9, <1>10, <1>11, <1>12 DEF Chain

(* It ends in a call to the scope exit of a part.                          *)
LEMMA ChainPasses ==
  ASSUME NEW p, NEW s, NEW t, NEW f, Chain(p, s), Onto(s, t, f),
         \A k \in 1..Len(s) : s[k].n \in Nat,
         Unwinding(s[Len(s)]), f.act = "exit", f.n \in Nat, s[Len(s)].n <= f.n,
         Fine(p, f.n), StraightLine(p, s[Len(s)].n) => StraightLine(p, f.n)
  PROVE  Chain(p, t)
<1> DEFINE n == Len(s)
<1>1. /\ n \in Nat \ {0} /\ Len(t) = n /\ t[n] = f /\ t # <<>>
      /\ \A k \in 1..n - 1 : t[k] = s[k]
  BY DEF Onto
<1>2. Unwinding(f) /\ ~Coding(f) /\ ~Coding(s[n]) /\ s[n].act # "build"
  BY DEF Unwinding, Coding
<1>3. s # <<>> /\ s[1].act = "build" /\ s[1].n = Root /\ 1 \in 1..n
  BY <1>1 DEF Chain
<1> HIDE DEF n
<1>4. n # 1 /\ 1 \in 1..n - 1 /\ t[1] = s[1] /\ (Closing(t) <=> Closing(s))
  BY <1>1, <1>2, <1>3 DEF Closing
<1>5. \A k \in 1..n : k \in 1..n - 1 \/ k = n
  BY <1>1
<1>6. \A k, l \in 1..n : k < l => k \in 1..n - 1 /\ t[k] = s[k]
  BY <1>1
<1>7. \A k \in 2..n : Calls(p, t[k-1], t[k])
  <2> TAKE k \in 2..n
  <2>1. k - 1 \in 1..n - 1 /\ k \in 1..n  BY <1>1
  <2>2. t[k-1] = s[k-1] /\ Calls(p, s[k-1], s[k])  BY <1>1, <2>1 DEF Chain, n
  <2>3. CASE k = n
    <3>1. t[k] = f /\ Unwinding(s[k])  BY <1>1, <2>3 DEF n
    <3> QED  BY <1>2, <2>2, <3>1 DEF Calls, Coding, Unwinding
  <2>4. CASE k # n
    <3>1. t[k] = s[k]  BY <1>1, <1>5, <2>1, <2>4
    <3> QED  BY <2>2, <3>1
  <2> QED  BY <2>3, <2>4
<1>8. \A k \in 1..n : Fine(p, t[k].n)
  BY <1>1, <1>5 DEF Chain, n
<1>9. \A k, l \in 1..n : k < l =>
        /\ t[k].n <= t[l].n
        /\ Coding(t[k]) /\ Coding(t[l]) => t[k].n < t[l].n
        /\ InArm(p, t[k]) => StraightLine(p, t[l].n)
  <2> TAKE k, l \in 1..n
  <2> HAVE k < l
  <2>1. t[k] = s[k]  BY <1>6
  <2>2. /\ s[k].n <= s[l].n
        /\ Coding(s[k]) /\ Coding(s[l]) => s[k].n < s[l].n
        /\ InArm(p, s[k]) => StraightLine(p, s[l].n)
    BY DEF Chain, n
  <2>3. CASE l = n
    <3>1. s[k].n \in Nat /\ s[n].n \in Nat /\ f.n \in Nat /\ s[n].n <= f.n
      BY <1>1 DEF n
    <3>2. s[k].n <= f.n  BY ONLY <2>2, <2>3, <3>1
    <3> QED  BY <1>1, <1>2, <2>1, <2>2, <2>3, <3>2 DEF n
  <2>4. CASE l # n
    BY <1>1, <1>5, <2>1, <2>2, <2>4
  <2> QED  BY <2>3, <2>4
<1>10. \A l \in 1..n : Unwinding(t[l]) /\ ~Closing(t) => StraightLine(p, t[l].n)
  <2> TAKE l \in 1..n
  <2>1. Unwinding(s[l]) /\ ~Closing(s) => StraightLine(p, s[l].n)
    BY DEF Chain, n
  <2>2. CASE l = n
    BY <1>1, <1>4, <2>1, <2>2 DEF n
  <2>3. CASE l # n
    BY <1>1, <1>4, <1>5, <2>1, <2>3
  <2> QED  BY <2>2, <2>3
<1>11. \A l \in 1..n :
         Coding(t[l]) /\ (Closing(t) \/ \E k \in 1..l-1 : Unwinding(t[k])) => p[t[l].n].kind = "expr"
  <2> TAKE l \in 1..n
  <2>1. CASE l = n
    BY <1>1, <1>2, <2>1
  <2>2. CASE l # n
    <3>1. t[l] = s[l] /\ \A k \in 1..l-1 : t[k] = s[k]
      <4>1. l \in 1..n - 1 /\ \A k \in 1..l-1 : k \in 1..n - 1  BY <1>1, <1>5, <2>2
      <4> QED  BY <1>1, <4>1
    <3>2. Coding(s[l]) /\ (Closing(s) \/ \E k \in 1..l-1 : Unwinding(s[k])) => p[s[l].n].kind = "expr"
      BY DEF Chain, n
    <3> QED  BY <1>4, <3>1, <3>2
  <2> QED  BY <2>1, <2>2
<1>12. \A l \in 1..n :
         (\A k \in 1..l-1 : ~Iterates(p, t[k])) => Unwinding(t[l]) \/ NoJump(p, t[l].n)
  <2> TAKE l \in 1..n
  <2>1. CASE l = n
    BY <1>1, <1>2, <2>1
  <2>2. CASE l # n
    <3>1. t[l] = s[l] /\ \A k \in 1..l-1 : t[k] = s[k]
      <4>1. l \in 1..n - 1 /\ \A k \in 1..l-1 : k \in 1..n - 1  BY <1>1, <1>5, <2>2
      <4> QED  BY <1>1, <4>1
    <3>2. (\A k \in 1..l-1 : ~Iterates(p, s[k])) => Unwinding(s[l]) \/ NoJump(p, s[l].n)
      BY DEF Chain, n
    <3> QED  BY <3>1, <3>2
  <2> QED  BY <2>1, <2>2
<1> QED  BY <1>1, <1>3, <1>4, <1>7, <1>8, <1>9, <1>10, <1>11, <1>12 DEF Chain

(* It calls g.                                                             *)
Follows(p, s, g) ==
  LET f == s[Len(s)]
  IN  /\ Calls(p, f, g) /\ Fine(p, g.n) /\ g.n \in Nat /\ f.n <= g.n
      /\ f.act = "build" \/ f.n < g.n \/ ~Coding(g)
      /\ InArm(p, f) \/ StraightLine(p, f.n) => StraightLine(p, g.n)
      /\ Unwinding(g) /\ ~Closing(s) => StraightLine(p, g.n)
      /\ Coding(g) => /\ Closing(s) \/ Unwinding(f) => p[g.n].kind = "expr"
                      /\ ~Iterates(p, f) /\ (Unwinding(f) \/ NoJump(p, f.n)) => NoJump(p, g.n)
                      /\ Coding(f) => p[f.n].kind # "expr"

LEMMA ChainPush ==
  ASSUME NEW p, NEW s, NEW t, NEW g, Chain(p, s), Pushed(s, t, g),
         \A k \in 1..Len(s) : s[k].n \in Nat, Follows(p, s, g)
  PROVE  Chain(p, t)
<1> DEFINE n == Len(s)
           f == s[n]
<1>1. /\ n \in Nat \ {0} /\ Len(t) = n + 1 /\ t[n + 1] = g /\ t # <<>>
      /\ \A k \in 1..n : t[k] = s[k]
  BY DEF Pushed
<1>2. /\ Calls(p, f, g) /\ Fine(p, g.n) /\ g.n \in Nat /\ f.n <= g.n
      /\ f.act = "build" \/ f.n < g.n \/ ~Coding(g)
      /\ InArm(p, f) \/ StraightLine(p, f.n) => StraightLine(p, g.n)
      /\ Unwinding(g) /\ ~Closing(s) => StraightLine(p, g.n)
      /\ Coding(g) => /\ Closing(s) \/ Unwinding(f) => p[g.n].kind = "expr"
                      /\ ~Iterates(p, f) /\ (Unwinding(f) \/ NoJump(p, f.n)) => NoJump(p, g.n)
                      /\ Coding(f) => p[f.n].kind # "expr"
  BY DEF Follows
<1>3. /\ s # <<>> /\ s[1].act = "build" /\ s[1].n = Root /\ 1 \in 1..n /\ n \in 1..n
      /\ t[1] = s[1] /\ (Closing(t) <=> Closing(s)) /\ f.n \in Nat
  BY <1>1 DEF Chain, Closing
<1> HIDE DEF n, f
<1>4. /\ \A k \in 2..n : s[k].act # "build" /\ (Coding(s[k]) \/ Unwinding(s[k]))
      /\ \A k \in 1..n : s[k].act # "build" => k # 1
  <2>1. Len(s) \in Nat  BY <1>1 DEF n
  <2> QED  BY <2>1, OneBuild DEF n
<1>4b. f.act = "build" => n = 1
  <2>0. n \in Nat \ {0}  BY <1>1
  <2>1. n = 1 \/ n \in 2..n  BY ONLY <2>0
  <2> QED  BY <1>4, <2>1 DEF f
<1>5. \A k \in 1..n + 1 : k \in 1..n \/ k = n + 1
  BY <1>1
<1>6. \A k, l \in 1..n + 1 : k < l => k \in 1..n /\ t[k] = s[k] /\ (k < n \/ k = n)
  BY <1>1
<1>7. \A k \in 2..n + 1 : Calls(p, t[k-1], t[k])
  <2> TAKE k \in 2..n + 1
  <2>1. CASE k = n + 1
    <3>1. k - 1 = n  BY <1>1, <2>1
    <3> QED  BY <1>1, <1>2, <1>3, <2>1, <3>1 DEF f
  <2>2. CASE k # n + 1
    <3>1. k \in 2..n /\ k \in 1..n /\ k - 1 \in 1..n  BY <1>1, <2>2
    <3> QED  BY <1>1, <3>1 DEF Chain, n
  <2> QED  BY <2>1, <2>2
<1>8. \A k \in 1..n + 1 : Fine(p, t[k].n)
  BY <1>1, <1>2, <1>5 DEF Chain, n
<1>9. \A k, l \in 1..n + 1 : k < l =>
        /\ t[k].n <= t[l].n
        /\ Coding(t[k]) /\ Coding(t[l]) => t[k].n < t[l].n
        /\ InArm(p, t[k]) => StraightLine(p, t[l].n)
  <2> TAKE k, l \in 1..n + 1
  <2> HAVE k < l
  <2>1. k \in 1..n /\ t[k] = s[k] /\ (k < n \/ k = n) /\ s[k].n \in Nat  BY <1>6 DEF n
  <2>2. CASE l = n + 1
    <3>1. k < n => /\ s[k].n <= f.n
                   /\ Coding(s[k]) /\ Coding(f) => s[k].n < f.n
                   /\ InArm(p, s[k]) => StraightLine(p, f.n)
      BY <1>3, <2>1 DEF Chain, n, f
    <3>2. k = n => s[k] = f  BY DEF f
    <3>3. s[k].n <= g.n
      <4>1. s[k].n <= f.n  BY <1>3, <2>1, <3>1, <3>2
      <4> QED  BY ONLY <1>2, <1>3, <2>1, <4>1
    <3>4. InArm(p, s[k]) => StraightLine(p, g.n)
      BY <1>2, <2>1, <3>1, <3>2
    <3>5. Coding(s[k]) /\ Coding(g) => s[k].n < g.n
      <4> HAVE Coding(s[k]) /\ Coding(g)
      <4>1. f.act # "build"
        <5>1. k # 1  BY <1>3 DEF Coding
        <5>2. n # 1  BY <1>1, <2>1, <5>1
        <5> QED  BY <1>4b, <5>2
      <4>2. f.n < g.n  BY <1>2, <4>1
      <4>3. s[k].n <= f.n  BY <1>3, <2>1, <3>1, <3>2
      <4> QED  BY ONLY <1>2, <1>3, <2>1, <4>2, <4>3
    <3> QED  BY <1>1, <2>1, <2>2, <3>3, <3>4, <3>5
  <2>3. CASE l # n + 1
    <3>1. l \in 1..n /\ t[l] = s[l]  BY <1>1, <1>5, <2>3
    <3> QED  BY <2>1, <3>1 DEF Chain, n
  <2> QED  BY <2>2, <2>3
<1>10. \A l \in 1..n + 1 : Unwinding(t[l]) /\ ~Closing(t) => StraightLine(p, t[l].n)
  BY <1>1, <1>2, <1>3, <1>5 DEF Chain, n
<1>11. \A l \in 1..n + 1 :
         Coding(t[l]) /\ (Closing(t) \/ \E k \in 1..l-1 : Unwinding(t[k])) => p[t[l].n].kind = "expr"
  <2> TAKE l \in 1..n + 1
  <2>0. \A k \in 1..l-1 : k \in 1..n /\ t[k] = s[k]
    <3>1. \A k \in 1..l-1 : k \in 1..n  BY <1>1
    <3> QED  BY <1>1, <3>1
  <2>1. CASE l = n + 1
    <3> HAVE Coding(t[l]) /\ (Closing(t) \/ \E k \in 1..l-1 : Unwinding(t[k]))
    <3>1. Coding(g) /\ t[l] = g  BY <1>1, <2>1
    <3>2. CASE Closing(t)
      BY <1>2, <1>3, <3>1, <3>2
    <3>3. CASE \E k \in 1..l-1 : Unwinding(t[k])
      <4>1. PICK k \in 1..n : Unwinding(s[k]) /\ (k < n \/ k = n)
        <5>1. PICK k \in 1..l-1 : Unwinding(t[k])  BY <3>3
        <5>2. k \in 1..n /\ t[k] = s[k]  BY <2>0
        <5>3. k < n \/ k = n  BY <1>1, <5>2
        <5> QED  BY <5>1, <5>2, <5>3
      <4>2. CASE k = n
        BY <1>2, <3>1, <4>1, <4>2 DEF f
      <4>3. CASE k < n
        <5>1. k \in 1..n - 1 /\ n \in 2..n  BY <1>1, <4>3
        <5>2. Coding(f) \/ Unwinding(f)  BY <1>4, <5>1 DEF f
        <5>3. Coding(f) => p[f.n].kind = "expr"
          BY <1>3, <4>1, <5>1 DEF Chain, n, f
        <5> QED  BY <1>2, <3>1, <5>2, <5>3
      <4> QED  BY <4>1, <4>2, <4>3
    <3> QED  BY <3>2, <3>3
  <2>2. CASE l # n + 1
    <3>1. l \in 1..n /\ t[l] = s[l]  BY <1>1, <1>5, <2>2
    <3>2. Coding(s[l]) /\ (Closing(s) \/ \E k \in 1..l-1 : Unwinding(s[k])) => p[s[l].n].kind = "expr"
      BY <3>1 DEF Chain, n
    <3> QED  BY <1>3, <2>0, <3>1, <3>2
  <2> QED  BY <2>1, <2>2
<1>12. \A l \in 1..n + 1 :
         (\A k \in 1..l-1 : ~Iterates(p, t[k])) => Unwinding(t[l]) \/ NoJump(p, t[l].n)
  <2> TAKE l \in 1..n + 1
  <2> HAVE \A k \in 1..l-1 : ~Iterates(p, t[k])
  <2>0. \A k \in 1..l-1 : k \in 1..n /\ t[k] = s[k]
    <3>1. \A k \in 1..l-1 : k \in 1..n  BY <1>1
    <3> QED  BY <1>1, <3>1
  <2>1. CASE l = n + 1
    <3>1. n \in 1..l-1 /\ (\A k \in 1..n-1 : k \in 1..l-1)  BY <1>1, <2>1
    <3>2. ~Iterates(p, f) /\ \A k \in 1..n-1 : ~Iterates(p, s[k])
      BY <2>0, <3>1 DEF f
    <3>3. Unwinding(f) \/ NoJump(p, f.n)
      BY <1>3, <3>2 DEF Chain, n, f
    <3>4. Unwinding(g) \/ Coding(g)
      BY <1>2 DEF Calls, Coding, Unwinding
    <3> QED  BY <1>1, <1>2, <2>1, <3>2, <3>3, <3>4
  <2>2. CASE l # n + 1
    <3>1. l \in 1..n /\ t[l] = s[l]  BY <1>1, <1>5, <2>2
    <3>2. (\A k \in 1..l-1 : ~Iterates(p, s[k])) => Unwinding(s[l]) \/ NoJump(p, s[l].n)
      BY <3>1 DEF Chain, n
    <3> QED  BY <2>0, <3>1, <3>2
  <2> QED  BY <2>1, <2>2
<1> QED  BY <1>1, <1>3, <1>7, <1>8, <1>9, <1>10, <1>11, <1>12 DEF Chain

(* It returns.                                                             *)
LEMMA ChainPops ==
  ASSUME NEW p, NEW s, NEW t, Chain(p, s), Popped(s, t), Len(s) # 1
  PROVE  Chain(p, t)
<1> DEFINE n == Len(s)
<1>1. /\ n \in Nat \ {0, 1} /\ Len(t) = n - 1
      /\ \A k \in 1..n - 1 : t[k] = s[k]
  BY DEF Popped
<1> HIDE DEF n
<1>2. /\ s[1].act = "build" /\ s[1].n = Root /\ 1 \in 1..n - 1 /\ t[1] = s[1]
      /\ (Closing(t) <=> Closing(s)) /\ t # <<>>
  <2>1. 1 \in 1..n - 1 /\ n - 1 # 0  BY <1>1
  <2>2. t # <<>>  BY <1>1, <2>1
  <2> QED  BY <1>1, <2>1, <2>2 DEF Chain, Closing
<1>3. \A l \in 1..n - 1 : l \in 1..n /\ t[l] = s[l] /\ \A k \in 1..l - 1 : t[k] = s[k]
  <2>1. \A l \in 1..n - 1 : l \in 1..n /\ \A k \in 1..l - 1 : k \in 1..n - 1  BY <1>1
  <2> QED  BY <1>1, <2>1
<1>4. \A k \in 2..n - 1 : Calls(p, t[k-1], t[k])
  <2> TAKE k \in 2..n - 1
  <2>1. k \in 2..n /\ k \in 1..n - 1 /\ k - 1 \in 1..n - 1  BY <1>1
  <2> QED  BY <1>1, <2>1 DEF Chain, n
<1>5. \A k \in 1..n - 1 : Fine(p, t[k].n)
  BY <1>3 DEF Chain, n
<1>6. \A k, l \in 1..n - 1 : k < l =>
        /\ t[k].n <= t[l].n
        /\ Coding(t[k]) /\ Coding(t[l]) => t[k].n < t[l].n
        /\ InArm(p, t[k]) => StraightLine(p, t[l].n)
  BY <1>3 DEF Chain, n
<1>7. \A l \in 1..n - 1 : Unwinding(t[l]) /\ ~Closing(t) => StraightLine(p, t[l].n)
  BY <1>2, <1>3 DEF Chain, n
<1>8. \A l \in 1..n - 1 :
        Coding(t[l]) /\ (Closing(t) \/ \E k \in 1..l-1 : Unwinding(t[k])) => p[t[l].n].kind = "expr"
  <2> TAKE l \in 1..n - 1
  <2>1. Coding(s[l]) /\ (Closing(s) \/ \E k \in 1..l-1 : Unwinding(s[k])) => p[s[l].n].kind = "expr"
    BY <1>3 DEF Chain, n
  <2> QED  BY <1>2, <1>3, <2>1
<1>9. \A l \in 1..n - 1 :
        (\A k \in 1..l-1 : ~Iterates(p, t[k])) => Unwinding(t[l]) \/ NoJump(p, t[l].n)
  <2> TAKE l \in 1..n - 1
  <2>1. (\A k \in 1..l-1 : ~Iterates(p, s[k])) => Unwinding(s[l]) \/ NoJump(p, s[l].n)
    BY <1>3 DEF Chain, n
  <2> QED  BY <1>3, <2>1
<1> QED  BY <1>1, <1>2, <1>4, <1>5, <1>6, <1>7, <1>8, <1>9 DEF Chain

------------------------------------------------------------------------------
(* The running call of a supported function *)

Good ==
  /\ IInv /\ Placement /\ status = "run"
  /\ Rooted(prog) /\ Supported(prog) /\ Whole

(* What is known of any running call.                                      *)
LEMMA Running ==
  ASSUME Good
  PROVE  /\ stack # <<>> /\ Len(stack) \in Nat \ {0} /\ Len(stack) \in 1..Len(stack)
         /\ \A k \in 1..Len(stack) : stack[k] \in Frame /\ stack[k].n \in Node /\ stack[k].n \in Nat
         /\ Top \in Frame /\ Top.n \in Node /\ Top.n \in Nat /\ Top.pc \in Nat /\ Top.i \in Nat
         /\ Fine(prog, Top.n) /\ SupportedStmt(prog, Top.n)
         /\ Chain(prog, stack)
<1>1. stack # <<>> /\ Chain(prog, stack)
  BY DEF Good, Whole, Chain
<1>2. /\ Len(stack) \in Nat \ {0}
      /\ \A k \in 1..Len(stack) : stack[k] \in Frame
      /\ Top \in Frame
  BY <1>1, BelowProperties DEF Good, IInv
<1>3. Len(stack) \in 1..Len(stack)
  BY <1>2
<1>4. \A k \in 1..Len(stack) : stack[k].n \in Node /\ stack[k].n \in Nat
  BY <1>2, NodeAssumption DEF Frame
<1>5. Top.n \in Node /\ Top.n \in Nat /\ Top.pc \in Nat /\ Top.i \in Nat
  BY <1>2, NodeAssumption DEF Frame
<1>6. Fine(prog, Top.n)
  BY <1>1, <1>3 DEF Chain, Top
<1>7. SupportedStmt(prog, Top.n)
  BY <1>5, <1>6, SelfHolds DEF Good
<1> QED  BY <1>1, <1>2, <1>3, <1>4, <1>5, <1>6, <1>7

LEMMA AtMost ==
  ASSUME NEW a \in Nat, NEW b \in Nat
  PROVE  /\ a < b => a <= b
         /\ a <= a
OBVIOUS

(* What a statement's own statements inherit.                              *)
LEMMA KidFine ==
  ASSUME Good, NEW i \in 1..Len(Me.kids)
  PROVE  /\ Kid(i) \in Node /\ Kid(i) \in Nat /\ Top.n < Kid(i) /\ Kid(i) \in ToSet(Me.kids)
         /\ Fine(prog, Kid(i)) /\ SupportedStmt(prog, Kid(i))
         /\ StraightLine(prog, Top.n) => StraightLine(prog, Kid(i))
         /\ NoJump(prog, Top.n) /\ Me.kind \notin Loops => NoJump(prog, Kid(i))
         /\ \A n \in Node : \A j \in 1..Len(prog[n].kids) :
              prog[n].kids[j] = Kid(i) => n = Top.n /\ j = i
<1>1. Top.n \in Node /\ Fine(prog, Top.n)
  BY Running
<1>2. Rooted(prog)
  BY DEF Good
<1>3. Kid(i) \in Node /\ Kid(i) \in ToSet(Me.kids)
  BY <1>1, <1>2, KidsAreNodes DEF Kid, Me
<1>4. /\ Top.n < Kid(i)
      /\ \A n \in Node : \A j \in 1..Len(prog[n].kids) :
           prog[n].kids[j] = Kid(i) => n = Top.n /\ j = i
  BY <1>1, <1>2 DEF Rooted, IsTree, Kid, Me
<1>5. /\ Fine(prog, Kid(i))
      /\ StraightLine(prog, Top.n) => StraightLine(prog, Kid(i))
      /\ NoJump(prog, Top.n) /\ Me.kind \notin Loops => NoJump(prog, Kid(i))
  BY <1>1, <1>2, <1>3, PartsInherit DEF Me
<1>6. SupportedStmt(prog, Kid(i))
  BY <1>2, <1>3, <1>5, SelfHolds
<1>7. Kid(i) \in Nat
  BY <1>3, NodeAssumption
<1> QED  BY <1>3, <1>4, <1>5, <1>6, <1>7

(* A statement lowered where it stands has only such statements around it. *)
LEMMA Alone ==
  ASSUME Good, Coding(Top), ~Ending
  PROVE  /\ ~Final /\ Len(stack) > 1 /\ ~Unwinding(Caller)
         /\ \A k \in 1..Len(stack) - 1 : ~Unwinding(stack[k]) /\ ~Awaits(stack[k])
<1> DEFINE n == Len(stack)
<1>1. /\ n \in Nat \ {0} /\ Chain(prog, stack) /\ Top = stack[n]
      /\ stack[1].act = "build"
  BY Running DEF Top, Chain
<1>2. /\ \A k \in 2..n : stack[k].act # "build" /\ (Coding(stack[k]) \/ Unwinding(stack[k]))
      /\ \A k \in 2..n : Calls(prog, stack[k-1], stack[k])
  <2>1. Len(stack) \in Nat  BY <1>1
  <2> QED  BY <1>1, <2>1, OneBuild DEF Chain
<1>3. n > 1 /\ ~Unwinding(Caller) /\ Caller = stack[n - 1]
  <2>1. n # 1  BY <1>1 DEF Coding
  <2>2. n > 1
    <3> HIDE DEF n
    <3> QED  BY <1>1, <2>1
  <2> QED  BY <2>2 DEF Ending, Caller
<1> HIDE DEF n
<1>4. n \in 2..n /\ n - 1 \in 1..n
  BY <1>1, <1>3
<1>5. \A k \in 1..n - 1 : ~Unwinding(stack[k])
  <2> SUFFICES ASSUME NEW k \in 1..n - 1, Unwinding(stack[k])  PROVE FALSE
    OBVIOUS
  <2>1. k # n - 1  BY <1>3
  <2>2. k # 1  BY <1>1 DEF Unwinding
  <2>3. n - 1 \in 2..n /\ k \in 1..(n - 1) - 1  BY <1>1, <2>1, <2>2
  <2>4. Coding(Caller)  BY <1>2, <1>3, <2>3
  <2>5. prog[Caller.n].kind = "expr"
    <3>1. Coding(stack[n - 1]) /\ (Closing(stack) \/ \E j \in 1..(n - 1) - 1 : Unwinding(stack[j])) =>
            prog[stack[n - 1].n].kind = "expr"
      BY <1>1, <1>4 DEF Chain, n
    <3> QED  BY <1>3, <2>3, <2>4, <3>1
  <2>6. Calls(prog, Caller, Top)  BY <1>1, <1>2, <1>3, <1>4
  <2> QED  BY <2>4, <2>5, <2>6 DEF Calls, Busy, Coding, Unwinding
<1>6. ~Final
  <2> SUFFICES ASSUME Final  PROVE FALSE
    OBVIOUS
  <2>1. 2 \in 2..n /\ 2 - 1 = 1  BY <1>1, <1>3
  <2>2. Calls(prog, stack[1], stack[2])  BY <1>2, <2>1
  <2>3. Unwinding(stack[2])
    BY <1>1, <2>2 DEF Calls, Coding, Unwinding, Final, Closing
  <2>4. n # 2  BY <1>1, <2>3 DEF Coding, Unwinding
  <2>5. 2 \in 1..n - 1  BY <1>1, <1>3, <2>4
  <2> QED  BY <1>5, <2>3, <2>5
<1>7. \A k \in 1..n - 1 : ~Awaits(stack[k])
  <2> SUFFICES ASSUME NEW k \in 1..n - 1, Awaits(stack[k])  PROVE FALSE
    OBVIOUS
  <2>1. k + 1 \in 2..n /\ (k + 1) - 1 = k  BY <1>1
  <2>2. Calls(prog, stack[k], stack[k + 1])  BY <1>2, <2>1
  <2>3. Unwinding(stack[k + 1])
    BY <2>2 DEF Awaits, Calls, Doing, Coding, Unwinding
  <2>4. k + 1 # n  BY <1>1, <2>3 DEF Coding, Unwinding
  <2>5. k + 1 \in 1..n - 1  BY <1>1, <2>4
  <2> QED  BY <1>5, <2>3, <2>5
<1> QED  BY <1>3, <1>5, <1>6, <1>7 DEF n

(* All but an expression is lowered where it stands, and what branches or  *)
(* loops outside the arms of others.                                       *)
LEMMA InPlace ==
  ASSUME Good, Coding(Top)
  PROVE  /\ Me.kind # "expr" => ~Ending
         /\ \A k \in 1..Len(stack) - 1 : Coding(stack[k]) => stack[k].n < Top.n
         /\ Me.kind \in Branches \cup Loops =>
              \A k \in 1..Len(stack) - 1 : ~InArm(prog, stack[k])
<1>1. Me.kind # "expr" => ~Ending
  BY DEF Good, Whole, Found
<1>2. Len(stack) \in Nat \ {0} /\ Chain(prog, stack) /\ Top = stack[Len(stack)] /\ Top.n \in Node
  BY Running DEF Top
<1>3. \A k \in 1..Len(stack) - 1 : k \in 1..Len(stack) /\ k < Len(stack)
  BY <1>2
<1>4. \A k \in 1..Len(stack) - 1 :
        /\ Coding(stack[k]) => stack[k].n < Top.n
        /\ InArm(prog, stack[k]) => StraightLine(prog, Top.n)
  <2>1. Len(stack) \in 1..Len(stack)  BY <1>2
  <2> QED  BY <1>2, <1>3, <2>1 DEF Chain
<1>5. StraightLine(prog, Top.n) => Me.kind \notin Branches \cup Loops
  BY <1>2, SelfHolds DEF Good, Me
<1> QED  BY <1>1, <1>4, <1>5

------------------------------------------------------------------------------
(* What a step does to the active calls *)

(* The running call goes on as f.                                          *)
LEMMA ChainGo ==
  ASSUME Good, NEW f, Become(f), f.act = Top.act, f.n = Top.n
  PROVE  Chain(prog, stack') /\ Onto(stack, stack', f)
<1>1. PICK t : t = stack'
  OBVIOUS
<1>2. Onto(stack, t, f)
  <2>1. /\ Len(t) = Len(stack) /\ t[Len(stack)] = f /\ Len(stack) \in Nat \ {0}
        /\ \A k \in 1..Len(stack) - 1 : t[k] = stack[k]
    BY <1>1, Running, AfterBecome DEF Good
  <2>2. t # <<>>  BY <2>1
  <2> QED  BY <2>1, <2>2 DEF Onto
<1>3. Chain(prog, t)
  BY <1>2, Running, ChainGoesOn DEF Top
<1> QED  BY <1>1, <1>2, <1>3

(* It ends in a call to the scope exit of a part, or its own.              *)
LEMMA ChainTail ==
  ASSUME Good, NEW m \in Node, Become(Enter("exit", m)), Unwinding(Top),
         Top.n <= m, Fine(prog, m), StraightLine(prog, Top.n) => StraightLine(prog, m)
  PROVE  Chain(prog, stack') /\ Onto(stack, stack', Enter("exit", m))
<1>1. PICK t, f : t = stack' /\ f = Enter("exit", m)
  OBVIOUS
<1>2. Onto(stack, t, f)
  <2>1. /\ Len(t) = Len(stack) /\ t[Len(stack)] = f /\ Len(stack) \in Nat \ {0}
        /\ \A k \in 1..Len(stack) - 1 : t[k] = stack[k]
    BY <1>1, Running, AfterBecome DEF Good
  <2>2. t # <<>>  BY <2>1
  <2> QED  BY <2>1, <2>2 DEF Onto
<1>3. f.act = "exit" /\ f.n = m /\ m \in Nat
  BY <1>1, NodeAssumption DEF Enter
<1>4. Chain(prog, t)
  BY <1>2, <1>3, Running, ChainPasses DEF Top
<1> QED  BY <1>1, <1>2, <1>4

(* It returns.                                                             *)
LEMMA ChainGone ==
  ASSUME Good, Return, Top.act # "build"
  PROVE  /\ Chain(prog, stack') /\ Popped(stack, stack')
         /\ Len(stack) > 1 /\ Len(stack') \in Nat \ {0} /\ Top' = Caller
<1>1. PICK t : t = stack'
  OBVIOUS
<1>2. Len(stack) \in Nat \ {0} /\ Chain(prog, stack) /\ stack[1].act = "build"
  BY Running DEF Chain
<1>3. Popped(stack, t)
  BY <1>1, <1>2, Running, BelowProperties DEF Good, IInv, Return, Popped
<1>4. Len(stack) # 1
  BY <1>2 DEF Top
<1>5. Chain(prog, t)
  BY <1>2, <1>3, <1>4, ChainPops
<1>6. Len(stack) - 1 \in 1..Len(stack) - 1 /\ Len(stack) - 1 \in Nat \ {0} /\ Len(stack) > 1
  <2>1. PICK n : n = Len(stack)  OBVIOUS
  <2>2. n \in Nat \ {0, 1}  BY <1>2, <1>4, <2>1
  <2>3. n - 1 \in 1..n - 1 /\ n - 1 \in Nat \ {0} /\ n > 1  BY ONLY <2>2
  <2> QED  BY <2>1, <2>3
<1>7. Top' = Caller
  BY <1>1, <1>3, <1>6 DEF Popped, Top, Caller
<1> QED  BY <1>1, <1>3, <1>5, <1>6, <1>7 DEF Popped

(* It calls g, and will go on as f.                                        *)
Called(s, t, f, g) ==
  /\ Len(s) \in Nat \ {0} /\ Len(t) = Len(s) + 1
  /\ t[Len(s)] = f /\ t[Len(s) + 1] = g
  /\ \A k \in 1..Len(s) - 1 : t[k] = s[k]

LEMMA ChainInvoke ==
  ASSUME Good, NEW f, NEW g, Invoke(f, g), f.act = Top.act, f.n = Top.n,
         Calls(prog, f, g), Fine(prog, g.n), g.n \in Nat, f.n <= g.n,
         f.act = "build" \/ f.n < g.n \/ ~Coding(g),
         InArm(prog, f) \/ StraightLine(prog, f.n) => StraightLine(prog, g.n),
         Unwinding(g) /\ ~Closing(stack') => StraightLine(prog, g.n),
         Coding(g) => /\ Closing(stack') \/ Unwinding(f) => prog[g.n].kind = "expr"
                      /\ ~Iterates(prog, f) /\ (Unwinding(f) \/ NoJump(prog, f.n)) => NoJump(prog, g.n)
                      /\ Coding(f) => prog[f.n].kind # "expr"
  PROVE  Chain(prog, stack') /\ Called(stack, stack', f, g)
<1> DEFINE n == Len(stack)
           m == [k \in 1..n |-> stack'[k]]
<1>1. PICK t : t = stack'
  OBVIOUS
<1>2. /\ Len(t) = n + 1 /\ t[n] = f /\ t[n + 1] = g
      /\ \A k \in 1..n - 1 : t[k] = stack[k]
      /\ n \in Nat \ {0}
  BY <1>1, Running, AfterInvoke DEF Good
<1>3. Len(m) = n
  <2> DEFINE S == {stack'[k] : k \in 1..n}
  <2>1. m \in [1..n -> S]  OBVIOUS
  <2>2. n \in Nat  BY <1>2
  <2> HIDE DEF S, n, m
  <2> QED  BY <2>1, <2>2, FunctionIsSeq
<1>4. \A k \in 1..n : m[k] = t[k]
  BY <1>1
<1>5. Called(stack, t, f, g)
  BY <1>2 DEF Called
<1> HIDE DEF m, n
<1>6. 1 \in 1..n /\ n \in 1..n /\ \A k \in 1..n - 1 : k \in 1..n
  BY <1>2
<1>7. Onto(stack, m, f)
  <2>1. m # <<>>  BY <1>2, <1>3
  <2> QED  BY <1>2, <1>3, <1>4, <1>6, <2>1 DEF Onto, n
<1>8. Pushed(m, t, g)
  <2>1. t # <<>>  BY <1>2
  <2> QED  BY <1>2, <1>3, <1>4, <2>1 DEF Pushed
<1>9. Chain(prog, m)
  BY <1>7, Running, ChainGoesOn DEF Top
<1>10. /\ m[n] = f /\ (Closing(m) <=> Closing(stack'))
       /\ \A k \in 1..Len(m) : m[k].n \in Nat
  <2>1. \A k \in 1..n : k \in 1..n - 1 \/ k = n  BY <1>2
  <2>2. \A k \in 1..n : stack[k].n \in Nat  BY Running DEF n
  <2>3. Top.n \in Nat  BY Running
  <2> QED  BY <1>1, <1>2, <1>3, <1>4, <1>6, <2>1, <2>2, <2>3 DEF Closing
<1>11. Follows(prog, m, g)
  BY <1>3, <1>10 DEF Follows
<1>12. Chain(prog, t)
  BY <1>8, <1>9, <1>10, <1>11, ChainPush
<1> QED  BY <1>1, <1>5, <1>12

(* The outermost call stays where it is when another one steps.            *)
LEMMA FinalStays ==
  ASSUME Good, Len(stack) > 1, NEW f,
         Onto(stack, stack', f) \/ Popped(stack, stack') \/ \E g : Called(stack, stack', f, g)
  PROVE  stack'[1] = stack[1] /\ (Closing(stack') <=> Final)
<1>1. 1 \in 1..Len(stack) - 1
  BY Running
<1> QED  BY <1>1 DEF Onto, Popped, Called, Final, Closing

(* The codegen of a statement calls that of a part.                        *)
LEMMA CallKid ==
  ASSUME Good, Coding(Top), NEW i \in 1..Len(Me.kids), NEW f,
         Invoke(f, Enter("codegen", Kid(i))), f.act = Top.act, f.n = Top.n,
         Calls(prog, f, Enter("codegen", Kid(i))),
         Me.kind \in {"for", "match", "typeswitch"} => StraightLine(prog, Kid(i)),
         Me.kind \in Loops => f.pc # 0
  PROVE  Chain(prog, stack') /\ Called(stack, stack', f, Enter("codegen", Kid(i)))
<1>1. PICK g : g = Enter("codegen", Kid(i))
  OBVIOUS
<1>2. g.act = "codegen" /\ g.n = Kid(i) /\ Coding(g) /\ ~Unwinding(g) /\ Coding(f) /\ ~Unwinding(f)
  BY <1>1 DEF Enter, Coding, Unwinding
<1>3. Me.kind # "expr"
  <2>1. WellFormedNode(Me)  BY Running, RunningCall DEF Good
  <2>2. Len(<<>>) = 0  BY EmptySeq
  <2> QED  BY <2>1, <2>2 DEF WellFormedNode
<1>4. ~Closing(stack')
  <2>1. ~Final /\ Len(stack) > 1  BY <1>3, InPlace, Alone
  <2>2. stack'[1] = stack[1]
    <3>1. \A k \in 1..Len(stack) - 1 : stack'[k] = stack[k]
      BY Running, AfterInvoke DEF Good
    <3>2. 1 \in 1..Len(stack) - 1  BY <2>1, Running
    <3> QED  BY <3>1, <3>2
  <2> QED  BY <2>1, <2>2 DEF Final, Closing
<1>5. /\ Kid(i) \in Nat /\ Top.n < Kid(i) /\ Fine(prog, Kid(i)) /\ Top.n \in Nat
      /\ StraightLine(prog, Top.n) => StraightLine(prog, Kid(i))
      /\ NoJump(prog, Top.n) /\ Me.kind \notin Loops => NoJump(prog, Kid(i))
  BY KidFine, Running
<1>6. InArm(prog, f) => StraightLine(prog, Kid(i))
  BY DEF InArm, Doing, Me
<1>7. ~Iterates(prog, f) => Me.kind \notin Loops
  BY <1>2 DEF Iterates, Doing, Me
<1>8. f.n <= g.n /\ f.n < g.n
  <2>1. f.n = Top.n /\ g.n = Kid(i)  BY <1>2
  <2> QED  BY <1>5, <2>1
<1>9. Chain(prog, stack') /\ Called(stack, stack', f, g)
  BY <1>1, <1>2, <1>3, <1>4, <1>5, <1>6, <1>7, <1>8, ChainInvoke DEF Me
<1> QED  BY <1>1, <1>9

(* The scope of a part is ended.                                           *)
LEMMA CallExit ==
  ASSUME Good, NEW f, NEW g, Invoke(f, g), f.act = Top.act, f.n = Top.n,
         Coding(Top) \/ Unwinding(Top), Calls(prog, f, g), Unwinding(g), g.n \in Node, Top.n <= g.n,
         Fine(prog, g.n),
         IF Unwinding(Top) THEN StraightLine(prog, Top.n) => StraightLine(prog, g.n)
                           ELSE StraightLine(prog, g.n)
  PROVE  Chain(prog, stack') /\ Called(stack, stack', f, g)
<1>1. /\ ~Coding(g) /\ f.act # "build" /\ g.n \in Nat
      /\ Unwinding(Top) => ~InArm(prog, f)
  BY NodeAssumption DEF Coding, Unwinding, InArm, Doing
<1>2. Unwinding(Top) /\ ~Closing(stack') => StraightLine(prog, Top.n)
  <2> HAVE Unwinding(Top) /\ ~Closing(stack')
  <2>1. /\ Len(stack) \in Nat \ {0} /\ Len(stack) \in 1..Len(stack)
        /\ Chain(prog, stack) /\ stack[1].act = "build"
    BY Running DEF Chain
  <2>2. Len(stack) # 1  BY <2>1 DEF Unwinding, Top
  <2>3. 1 \in 1..Len(stack) - 1
    <3>1. PICK n : n = Len(stack)  OBVIOUS
    <3>2. n \in Nat \ {0, 1}  BY <2>1, <2>2, <3>1
    <3>3. 1 \in 1..n - 1  BY ONLY <3>2
    <3> QED  BY <3>1, <3>3
  <2>4. stack'[1] = stack[1]
    BY <2>3, Running, AfterInvoke DEF Good
  <2>5. ~Closing(stack)  BY <2>4 DEF Closing
  <2> QED  BY <2>1, <2>5 DEF Chain, Top
<1> QED  BY <1>1, <1>2, ChainInvoke

(* A step of runScopeExit leaves the calls of codegen as they are, and     *)
(* adds none.                                                              *)
Unwound ==
  /\ Len(stack') \in Nat \ {0} /\ Len(stack) - 1 <= Len(stack')
  /\ \A k \in 1..Len(stack) - 1 : stack'[k] = stack[k]
  /\ \A k \in Len(stack)..Len(stack') : Unwinding(stack'[k])

LEMMA UnwoundOn ==
  ASSUME Good, Unwinding(Top), NEW f, Unwinding(f), Onto(stack, stack', f)
  PROVE  Unwound
<1>1. \A k \in Len(stack)..Len(stack') : k = Len(stack)
  BY DEF Onto
<1>2. Len(stack') \in Nat \ {0} /\ Len(stack) - 1 <= Len(stack')
  BY DEF Onto
<1> QED  BY <1>1, <1>2 DEF Unwound, Onto

LEMMA UnwoundCall ==
  ASSUME Good, Unwinding(Top), NEW f, Unwinding(f), NEW g, Unwinding(g), Called(stack, stack', f, g)
  PROVE  Unwound
<1>1. \A k \in Len(stack)..Len(stack') : k = Len(stack) \/ k = Len(stack) + 1
  BY DEF Called
<1>2. Len(stack') \in Nat \ {0} /\ Len(stack) - 1 <= Len(stack')
  BY DEF Called
<1> QED  BY <1>1, <1>2 DEF Unwound, Called

LEMMA UnwoundBack ==
  ASSUME Good, Unwinding(Top), Return
  PROVE  Chain(prog, stack') /\ Unwound
<1>1. Top.act # "build"  BY DEF Unwinding
<1>2. /\ Chain(prog, stack') /\ Popped(stack, stack') /\ Len(stack') \in Nat \ {0}
  BY <1>1, ChainGone
<1>3. \A k \in Len(stack)..Len(stack') : FALSE
  BY <1>2 DEF Popped
<1>4. Len(stack) - 1 <= Len(stack')
  BY <1>2 DEF Popped
<1> QED  BY <1>2, <1>3, <1>4 DEF Unwound, Popped

(* The running scope exit goes on.                                         *)
LEMMA ExitGoes ==
  ASSUME Good, Unwinding(Top), NEW f, f.act = Top.act, f.n = Top.n, Become(f)
  PROVE  Chain(prog, stack') /\ Unwound
<1>1. Unwinding(f)  BY DEF Unwinding
<1> QED  BY <1>1, ChainGo, UnwoundOn

(* It passes on to a part.                                                 *)
LEMMA ExitPasses ==
  ASSUME Good, Unwinding(Top), NEW m, m = Top.n \/ \E i \in 1..Len(Me.kids) : m = Kid(i),
         Become(Enter("exit", m))
  PROVE  Chain(prog, stack') /\ Unwound
<1>1. /\ m \in Node /\ Top.n <= m /\ Fine(prog, m)
      /\ StraightLine(prog, Top.n) => StraightLine(prog, m)
  <2>1. CASE m = Top.n
    <3>1. Top.n <= Top.n  BY Running, AtMost
    <3> QED  BY <2>1, <3>1, Running
  <2>2. CASE \E i \in 1..Len(Me.kids) : m = Kid(i)
    <3>1. PICK i \in 1..Len(Me.kids) : m = Kid(i)  BY <2>2
    <3>2. /\ Kid(i) \in Node /\ Kid(i) \in Nat /\ Top.n < Kid(i) /\ Fine(prog, Kid(i))
          /\ StraightLine(prog, Top.n) => StraightLine(prog, Kid(i))
          /\ Top.n \in Nat
      BY KidFine, Running
    <3>6. Top.n <= Kid(i)  BY <3>2, AtMost
    <3> QED  BY <3>1, <3>2, <3>6
  <2> QED  BY <2>1, <2>2
<1>2. Unwinding(Enter("exit", m))  BY DEF Unwinding, Enter
<1>3. PICK f : f = Enter("exit", m)  OBVIOUS
<1>4. Chain(prog, stack') /\ Onto(stack, stack', f)
  BY <1>1, <1>3, ChainTail
<1> QED  BY <1>2, <1>3, <1>4, UnwoundOn

(* It ends the scope of a part, or runs a defer.                           *)
LEMMA ExitCalls ==
  ASSUME Good, Unwinding(Top), NEW f, f.act = Top.act, f.n = Top.n, NEW g, Unwinding(g),
         Invoke(f, g), g.n = Top.n \/ g.n \in ToSet(Me.kids)
  PROVE  Chain(prog, stack') /\ Unwound
<1>1. /\ g.n \in Node /\ Top.n <= g.n /\ Fine(prog, g.n)
      /\ StraightLine(prog, Top.n) => StraightLine(prog, g.n)
  <2>1. CASE g.n = Top.n
    <3>1. Top.n <= Top.n  BY Running, AtMost
    <3> QED  BY <2>1, <3>1, Running
  <2>2. CASE g.n \in ToSet(Me.kids)
    <3>0. ToSet(Me.kids) = {Me.kids[i] : i \in 1..Len(Me.kids)}
      BY Running, KidsAreNodes DEF Me, Good
    <3>1. PICK i \in 1..Len(Me.kids) : g.n = Kid(i)  BY <2>2, <3>0 DEF Kid
    <3>2. /\ Kid(i) \in Node /\ Kid(i) \in Nat /\ Top.n < Kid(i) /\ Fine(prog, Kid(i))
          /\ StraightLine(prog, Top.n) => StraightLine(prog, Kid(i))
          /\ Top.n \in Nat
      BY KidFine, Running
    <3>6. Top.n <= Kid(i)  BY <3>2, AtMost
    <3> QED  BY <3>1, <3>2, <3>6
  <2> QED  BY <2>1, <2>2
<1>2. Unwinding(f) /\ Calls(prog, f, g)
  BY DEF Unwinding, Calls
<1>3. Chain(prog, stack') /\ Called(stack, stack', f, g)
  BY <1>1, <1>2, CallExit
<1> QED  BY <1>2, <1>3, UnwoundCall

LEMMA KidNumbers ==
  ASSUME NEW t, WellFormedNode(t), Len(t.kids) \in Nat
  PROVE  /\ t.kind \in {"defer", "while", "for"} => Len(t.kids) = 1
         /\ t.kind \in {"defer", "while", "for", "if"} => 1 \in 1..Len(t.kids)
         /\ t.kind = "if" => Len(t.kids) \in {1, 2}
         /\ t.kind = "typeswitch" /\ t.arg \in Nat \ {0} => t.arg \in 1..Len(t.kids)
<1>1. t.kind \in {"defer", "while", "for"} => Len(t.kids) = 1
  BY DEF WellFormedNode
<1>2. t.kind = "if" => Len(t.kids) \in {1, 2}
  BY DEF WellFormedNode
<1>3. t.kind = "typeswitch" => t.arg <= Len(t.kids)
  BY DEF WellFormedNode
<1>4. PICK n, a : n = Len(t.kids) /\ a = t.arg
  OBVIOUS
<1>5. n \in {1, 2} => 1 \in 1..n
  OBVIOUS
<1>6. t.kind = "typeswitch" /\ t.arg \in Nat \ {0} => t.arg \in 1..Len(t.kids)
  <2> HAVE t.kind = "typeswitch" /\ t.arg \in Nat \ {0}
  <2>1. n \in Nat /\ a \in Nat \ {0} /\ a <= n  BY <1>3, <1>4
  <2>2. a \in 1..n  BY ONLY <2>1
  <2> QED  BY <1>4, <2>2
<1> QED  BY <1>1, <1>2, <1>4, <1>5, <1>6

LEMMA ScopeExitUnwinds ==
  ASSUME Good, ScopeExit, ~RunDefer, status' = "run"
  PROVE  Unwinding(Top) /\ Chain(prog, stack') /\ Unwound
<1>0. /\ IInv /\ Rooted(prog) /\ Top \in Frame /\ WellFormedNode(Me) /\ Me.kids \in Seq(Node)
      /\ Len(Me.kids) \in Nat /\ Top.i \in Nat
      /\ \A i \in 1..Len(Me.kids) : Kid(i) \in ToSet(Me.kids)
  BY Running, RunningCall, KidFine DEF Good
<1>1. /\ \A kind, pc : InCall("exit", kind, pc) => Unwinding(Top) /\ Me.kind = kind /\ Top.act = "exit" /\ Top.pc = pc
      /\ \A kind, pc : InCall("apply", kind, pc) => Unwinding(Top) /\ Me.kind = kind /\ Top.act = "apply" /\ Top.pc = pc
  BY DEF InCall, Unwinding
<1>2. \A m : Unwinding(Enter("exit", m)) /\ Enter("exit", m).n = m
  BY DEF Unwinding, Enter
<1>3. CASE ExitNothing \/ ExitBodyEnd \/ ApplyEnd
  <2>1. Unwinding(Top)
    BY <1>1, <1>3 DEF ExitNothing, ExitBodyEnd, ApplyEnd
  <2>2. Return
    BY <1>3 DEF ExitNothing, ExitBodyEnd, ApplyEnd, EndWith
  <2> QED  BY <2>1, <2>2, UnwoundBack
<1>4. CASE ExitIfThen
  <2>1. Unwinding(Top) /\ Me.kind = "if"
    BY <1>1, <1>4 DEF ExitIfThen
  <2>2. 1 \in 1..Len(Me.kids)
    BY <1>0, <2>1, KidNumbers
  <2>3. CASE HasElse
    <3>1. PICK f, g : f = [Top EXCEPT !.pc = 1] /\ g = Enter("exit", Kid(1))
      OBVIOUS
    <3>2. f.act = Top.act /\ f.n = Top.n  BY <1>0, <3>1 DEF Frame
    <3>3. Invoke(f, g)  BY <1>4, <2>3, <3>1 DEF ExitIfThen
    <3> QED  BY <1>0, <1>2, <2>1, <2>2, <3>1, <3>2, <3>3, ExitCalls
  <2>4. CASE ~HasElse
    <3>1. Become(Enter("exit", Kid(1)))  BY <1>4, <2>4 DEF ExitIfThen
    <3> QED  BY <2>1, <2>2, <3>1, ExitPasses
  <2> QED  BY <2>3, <2>4
<1>5. CASE ExitIfElse
  <2>1. Unwinding(Top) /\ Me.kind = "if" /\ Top.pc = 1 /\ Top.act = "exit"
    BY <1>1, <1>5 DEF ExitIfElse
  <2>2. 2 \in 1..Len(Me.kids)
    <3>1. ExitOK(Top, lowered)  BY <1>0, <2>1, Running, RunningCall DEF FrameOK
    <3>2. Len(Me.kids) = 2  BY <1>0, <2>1, <3>1 DEF ExitOK, Me
    <3> QED  BY <3>2
  <2>3. Become(Enter("exit", Kid(2)))  BY <1>5 DEF ExitIfElse
  <2> QED  BY <2>1, <2>2, <2>3, ExitPasses
<1>6. CASE ExitWhile \/ ExitFor
  <2>1. Unwinding(Top) /\ Me.kind \in {"while", "for"}
    BY <1>1, <1>6 DEF ExitWhile, ExitFor
  <2>2. 1 \in 1..Len(Me.kids)
    BY <1>0, <2>1, KidNumbers
  <2>3. Become(Enter("exit", Kid(1)))  BY <1>6 DEF ExitWhile, ExitFor
  <2> QED  BY <2>1, <2>2, <2>3, ExitPasses
<1>7. CASE RunDeferExit
  <2>1. Unwinding(Top) /\ Me.kind = "defer"
    BY <1>1, <1>7 DEF RunDeferExit
  <2>2. 1 \in 1..Len(Me.kids)
    BY <1>0, <2>1, KidNumbers
  <2>3. Become(Enter("exit", Kid(1)))  BY <1>7 DEF RunDeferExit
  <2> QED  BY <2>1, <2>2, <2>3, ExitPasses
<1>8. CASE ApplyHere
  <2>1. Unwinding(Top) /\ Become(Enter("exit", Top.n))
    BY <1>1, <1>8 DEF ApplyHere
  <2> QED  BY <2>1, ExitPasses
<1>9. CASE ExitBody \/ ExitBodyDefers \/ ApplyBranch
  <2>1. Unwinding(Top)
    BY <1>1, <1>9 DEF ExitBody, ExitBodyDefers, ApplyBranch
  <2>2. PICK f : Become(f) /\ f.act = Top.act /\ f.n = Top.n
    <3>1. PICK s : s = Succs(blocks, Top.y)  OBVIOUS
    <3>2. PICK f : /\ Become(f)
                   /\ \/ f = [Top EXCEPT !.pc = 1, !.x = ip.at] \/ f = [Top EXCEPT !.pc = 2, !.i = 0]
                      \/ f = [Top EXCEPT !.pc = 1, !.todo = s]
      BY <1>9, <3>1 DEF ExitBody, ExitBodyDefers, ApplyBranch
    <3>3. f.act = Top.act /\ f.n = Top.n  BY <1>0, <3>2 DEF Frame
    <3> QED  BY <3>2, <3>3
  <2> QED  BY <2>1, <2>2, ExitGoes
<1>10. CASE ExitBodyStmt
  <2>1. Unwinding(Top) /\ Top.i < Len(Me.kids)
    BY <1>1, <1>10 DEF ExitBodyStmt
  <2>2. Top.i + 1 \in 1..Len(Me.kids)
    BY <1>0, <2>1
  <2>3. PICK f, g : f = [Top EXCEPT !.i = @ + 1] /\ g = Enter("exit", Kid(Top.i + 1))
    OBVIOUS
  <2>4. f.act = Top.act /\ f.n = Top.n  BY <1>0, <2>3 DEF Frame
  <2>5. Become(f) \/ Invoke(f, g)
    BY <1>10, <2>3 DEF ExitBodyStmt
  <2>6. Unwinding(g) /\ g.n \in ToSet(Me.kids)
    BY <1>0, <1>2, <2>2, <2>3
  <2> QED  BY <2>1, <2>4, <2>5, <2>6, ExitGoes, ExitCalls
<1>11. CASE ExitBodyDefer
  <2>1. Unwinding(Top) /\ Top.i < Len(deferrals[Top.n])
    BY <1>1, <1>11 DEF ExitBodyDefer
  <2>2. PICK d : d = deferrals[Top.n][Top.i + 1]
    OBVIOUS
  <2>3. d.stmt \in ToSet(Me.kids)
    <3>1. Top.n \in Node /\ deferrals[Top.n] \in Seq(Deferral)
      BY <1>0, Running DEF IInv, DeferralsOK
    <3>2. Top.i + 1 \in 1..Len(deferrals[Top.n])
      BY <1>0, <2>1, <3>1, LenProperties
    <3> QED  BY <2>2, <3>1, <3>2 DEF Good, Whole, Remembered, Me
  <2>4. PICK f, g : f = [Top EXCEPT !.i = @ + 1] /\ g = ApplyDefer(d.stmt, Top.x, d.at)
    OBVIOUS
  <2>5. f.act = Top.act /\ f.n = Top.n  BY <1>0, <2>4 DEF Frame
  <2>6. Invoke(f, g)  BY <1>11, <2>2, <2>4 DEF ExitBodyDefer
  <2>7. g.n = d.stmt /\ Unwinding(g)  BY <2>4 DEF ApplyDefer, Enter, Unwinding
  <2> QED  BY <2>1, <2>3, <2>5, <2>6, <2>7, ExitCalls
<1>12. CASE ApplyNext
  <2>1. Unwinding(Top)  BY <1>1, <1>12 DEF ApplyNext
  <2>2. PICK f, g : /\ f = [Top EXCEPT !.todo = Tail(@)]
                    /\ Invoke(f, g) /\ g.n = Top.n /\ Unwinding(g)
    <3>1. PICK s : s = Head(Top.todo)  OBVIOUS
    <3>2. \/ Invoke([Top EXCEPT !.todo = Tail(@)], Enter("exit", Top.n))
          \/ Invoke([Top EXCEPT !.todo = Tail(@)], ApplyDefer(Top.n, Top.x, s))
      BY <1>12, <3>1 DEF ApplyNext
    <3>3. ApplyDefer(Top.n, Top.x, s).n = Top.n /\ Unwinding(ApplyDefer(Top.n, Top.x, s))
      BY DEF ApplyDefer, Enter, Unwinding
    <3> QED  BY <1>2, <3>2, <3>3
  <2>3. f.act = Top.act /\ f.n = Top.n  BY <1>0, <2>2 DEF Frame
  <2> QED  BY <2>1, <2>2, <2>3, ExitCalls
<1> QED  BY <1>3, <1>4, <1>5, <1>6, <1>7, <1>8, <1>9, <1>10, <1>11, <1>12 DEF ScopeExit

(* A defer lowers its expression again.                                    *)
LEMMA RunDeferCalls ==
  ASSUME Good, RunDefer, status' = "run"
  PROVE  /\ Unwinding(Top) /\ Top.act = "exit" /\ Me.kind = "defer" /\ Len(Me.kids) = 1
         /\ prog[Kid(1)].kind = "expr" /\ Kid(1) \in Node /\ 1 \in 1..Len(Me.kids)
         /\ Chain(prog, stack')
         /\ \E f : /\ f.act = "exit" /\ f.n = Top.n
                   /\ Called(stack, stack', f, Enter("codegen", Kid(1)))
<1>1. /\ Unwinding(Top) /\ Top.act = "exit" /\ Me.kind = "defer" /\ Top \in Frame
      /\ WellFormedNode(Me) /\ Top.n \in Nat /\ Len(Me.kids) \in Nat
  BY Running, RunningCall DEF RunDefer, InCall, Unwinding, Good
<1>2. Len(Me.kids) = 1 /\ 1 \in 1..Len(Me.kids)
  BY <1>1, KidNumbers
<1>3. /\ Kid(1) \in Node /\ Kid(1) \in Nat /\ Top.n < Kid(1) /\ Fine(prog, Kid(1))
      /\ StraightLine(prog, Top.n) => StraightLine(prog, Kid(1))
  BY <1>2, KidFine
<1>4. prog[Kid(1)].kind = "expr"
  BY <1>1, Running DEF SupportedStmt, Me, Kid
<1>5. PICK f, g : f = [Top EXCEPT !.pc = 1] /\ g = Enter("codegen", Kid(1))
  OBVIOUS
<1>6. /\ f.act = "exit" /\ f.n = Top.n /\ f.pc = 1
      /\ g.act = "codegen" /\ g.n = Kid(1) /\ Coding(g) /\ ~Unwinding(g) /\ Unwinding(f) /\ ~Coding(f)
      /\ ~InArm(prog, f) /\ ~Iterates(prog, f)
  BY <1>1, <1>5 DEF Frame, Enter, Coding, Unwinding, InArm, Iterates, Doing
<1>7. Invoke(f, g)
  BY <1>5 DEF RunDefer, EndWith
<1>8. Calls(prog, f, g)
  BY <1>1, <1>6 DEF Calls, Me, Kid
<1>9. NoJump(prog, g.n)
  <2>1. Rooted(prog)  BY DEF Good
  <2>2. prog[Kid(1)].kids = <<>>  BY <1>3, <1>4, <2>1 DEF Rooted, WellFormedNode
  <2>3. Unlooped(prog[Kid(1)]) = {}
    BY <2>2, EmptySeq DEF Unlooped, ToSet
  <2>4. OutsideLoops(prog)[Kid(1)] = {Kid(1)}
    BY <1>3, <2>1, <2>3, OutsideLoopsIs
  <2> QED  BY <1>4, <1>6, <2>4 DEF NoJump, Jumps
<1>10. f.n <= g.n /\ f.n < g.n
  <2>1. Top.n <= Kid(1)  BY <1>1, <1>3, AtMost
  <2> QED  BY <1>3, <1>6, <2>1
<1>11. Chain(prog, stack') /\ Called(stack, stack', f, g)
  BY <1>1, <1>3, <1>4, <1>6, <1>7, <1>8, <1>9, <1>10, ChainInvoke
<1> QED  BY <1>1, <1>2, <1>3, <1>4, <1>5, <1>6, <1>11

------------------------------------------------------------------------------
(* What has been started on *)

CodingIn(s) == {s[k].n : k \in {l \in 1..Len(s) : Coding(s[l])}}

LEMMA BegunIs ==
  ASSUME Good
  PROVE  /\ Begun = lowered \cup CodingIn(stack) /\ Begun' = lowered' \cup CodingIn(stack')
         /\ Coding(Top) => Top.n \in Begun
BY Running DEF Begun, CodingIn, Top

LEMMA CodingOnto ==
  ASSUME NEW s, NEW t, NEW f, Onto(s, t, f), Coding(s[Len(s)]) <=> Coding(f),
         Coding(f) => f.n = s[Len(s)].n
  PROVE  CodingIn(t) = CodingIn(s)
<1> DEFINE n == Len(s)
<1>1. /\ n \in Nat \ {0} /\ Len(t) = n /\ t[n] = f
      /\ \A k \in 1..n - 1 : t[k] = s[k]
  BY DEF Onto
<1>2. \A k \in 1..n : k \in 1..n - 1 \/ k = n
  <2> HIDE DEF n
  <2> QED  BY <1>1
<1>3. \A k \in 1..n : (Coding(t[k]) <=> Coding(s[k])) /\ (Coding(t[k]) => t[k].n = s[k].n)
  BY <1>1, <1>2
<1> QED  BY <1>1, <1>3 DEF CodingIn

LEMMA CodingCalled ==
  ASSUME NEW s, NEW t, NEW f, NEW g, Called(s, t, f, g), Coding(s[Len(s)]) <=> Coding(f),
         Coding(f) => f.n = s[Len(s)].n
  PROVE  CodingIn(t) = CodingIn(s) \cup (IF Coding(g) THEN {g.n} ELSE {})
<1> DEFINE n == Len(s)
<1>1. /\ n \in Nat \ {0} /\ Len(t) = n + 1 /\ t[n] = f /\ t[n + 1] = g
      /\ \A k \in 1..n - 1 : t[k] = s[k]
  BY DEF Called
<1>2. /\ \A k \in 1..n : k \in 1..n - 1 \/ k = n
      /\ \A k \in 1..n + 1 : k \in 1..n \/ k = n + 1
      /\ n + 1 \in 1..n + 1 /\ \A k \in 1..n : k \in 1..n + 1
  <2> HIDE DEF n
  <2> QED  BY <1>1
<1>3. \A k \in 1..n : (Coding(t[k]) <=> Coding(s[k])) /\ (Coding(t[k]) => t[k].n = s[k].n)
  BY <1>1, <1>2
<1>4. CodingIn(s) \subseteq CodingIn(t)
  BY <1>1, <1>2, <1>3 DEF CodingIn
<1>5. Coding(g) => g.n \in CodingIn(t)
  BY <1>1, <1>2 DEF CodingIn
<1>6. \A m \in CodingIn(t) : m \in CodingIn(s) \/ (Coding(g) /\ m = g.n)
  <2> TAKE m \in CodingIn(t)
  <2>1. PICK k \in 1..n + 1 : Coding(t[k]) /\ m = t[k].n
    BY <1>1 DEF CodingIn
  <2>2. CASE k \in 1..n
    BY <1>3, <2>1, <2>2 DEF CodingIn
  <2>3. CASE k = n + 1
    BY <1>1, <2>1, <2>3
  <2> QED  BY <1>2, <2>2, <2>3
<1> HIDE DEF n
<1>7. CASE Coding(g)  BY <1>4, <1>5, <1>6, <1>7
<1>8. CASE ~Coding(g)  BY <1>4, <1>6, <1>8
<1> QED  BY <1>7, <1>8

LEMMA CodingPopped ==
  ASSUME NEW s, NEW t, Popped(s, t)
  PROVE  /\ CodingIn(t) \subseteq CodingIn(s)
         /\ CodingIn(s) \subseteq CodingIn(t) \cup {s[Len(s)].n}
         /\ ~Coding(s[Len(s)]) => CodingIn(s) \subseteq CodingIn(t)
<1> DEFINE n == Len(s)
<1>1. /\ n \in Nat \ {0} /\ Len(t) = n - 1
      /\ \A k \in 1..n - 1 : t[k] = s[k]
  BY DEF Popped
<1>2. /\ \A k \in 1..n : k \in 1..n - 1 \/ k = n
      /\ \A k \in 1..n - 1 : k \in 1..n
  <2> HIDE DEF n
  <2> QED  BY <1>1
<1> QED  BY <1>1, <1>2 DEF CodingIn

(* A statement is only started on after the ones around it and before the  *)
(* ones that come later.                                                   *)
LEMMA StartsStep ==
  ASSUME Good, Coding(Top), prog' = prog, NEW f, f.n = Top.n, NEW K,
         K = {} \/ \E i \in 1..Len(Me.kids) : K = {Kid(i)} /\ Later(prog, Top, i) /\ ~Later(prog, f, i),
         Begun' = Begun \cup K,
         \A j \in 1..Len(Me.kids) : Later(prog, f, j) => Later(prog, Top, j),
         \A k \in 1..Len(stack') : Coding(stack'[k]) =>
           (k \in 1..Len(stack) - 1 /\ stack'[k] = stack[k]) \/ stack'[k] = f \/ stack'[k].n \in K,
         \A n \in Node : deferrals'[n] # <<>> => deferrals[n] # <<>> \/ n = Top.n,
         1 \in 1..Len(stack) - 1 => stack'[1] = stack[1]
  PROVE  Starts'
<1>1. /\ Len(stack) \in Nat \ {0} /\ Len(stack) \in 1..Len(stack) /\ Top = stack[Len(stack)]
      /\ Top.n \in Node /\ Top.n \in Nat /\ Top.n \in Begun
      /\ \A k \in 1..Len(stack) : stack[k].n \in Node /\ stack[k].n \in Nat
  BY Running, BegunIs DEF Top
<1>2. /\ \A n \in Node : deferrals[n] # <<>> => n \in Begun
      /\ \A n \in Node : \A j \in 1..Len(prog[n].kids) : prog[n].kids[j] \in Begun \ {Root} => n \in Begun
      /\ \A k \in 1..Len(stack) : Coding(stack[k]) =>
           \A j \in 1..Len(prog[stack[k].n].kids) :
             Later(prog, stack[k], j) => prog[stack[k].n].kids[j] \notin Begun
  BY DEF Good, Whole, Starts
<1>3. \A j \in 1..Len(Me.kids) : Later(prog, Top, j) => Kid(j) \notin Begun
  BY <1>1, <1>2 DEF Me, Kid
<1>4. \A i \in 1..Len(Me.kids) :
        /\ Kid(i) \in Node /\ Kid(i) # Top.n
        /\ \A n \in Node : \A j \in 1..Len(prog[n].kids) :
             prog[n].kids[j] = Kid(i) => n = Top.n /\ j = i
  <2> TAKE i \in 1..Len(Me.kids)
  <2>1. Kid(i) \in Nat /\ Top.n < Kid(i)  BY KidFine
  <2>2. Kid(i) # Top.n
    <3>1. PICK a, b : a = Top.n /\ b = Kid(i)  OBVIOUS
    <3>2. a \in Nat /\ b \in Nat /\ a < b  BY <1>1, <2>1, <3>1
    <3>3. a # b  BY ONLY <3>2
    <3> QED  BY <3>1, <3>3
  <2> QED  BY <2>2, KidFine
<1>5. \A k \in 1..Len(stack) - 1 : k \in 1..Len(stack) /\ (Coding(stack[k]) => stack[k].n # Top.n)
  <2> TAKE k \in 1..Len(stack) - 1
  <2>1. k \in 1..Len(stack)
    <3>1. PICK n : n = Len(stack)  OBVIOUS
    <3>2. n \in Nat  BY <1>1, <3>1
    <3>3. \A l \in 1..n - 1 : l \in 1..n  BY ONLY <3>2
    <3> QED  BY <3>1, <3>3
  <2>2. Coding(stack[k]) => stack[k].n < Top.n  BY InPlace
  <2>3. stack[k].n \in Nat  BY <1>1, <2>1
  <2> QED  BY <1>1, <2>1, <2>2, <2>3
<1>6. \A n \in Node : deferrals'[n] # <<>> => n \in Begun'
  BY <1>1, <1>2
<1>7. \A n \in Node : \A j \in 1..Len(prog[n].kids) : prog[n].kids[j] \in Begun' \ {Root} => n \in Begun'
  BY <1>1, <1>2, <1>4
<1>8. \A k \in 1..Len(stack') : Coding(stack'[k]) =>
        \A j \in 1..Len(prog[stack'[k].n].kids) :
          Later(prog, stack'[k], j) => prog[stack'[k].n].kids[j] \notin Begun'
  <2> SUFFICES ASSUME NEW k \in 1..Len(stack'), Coding(stack'[k]),
                      NEW j \in 1..Len(prog[stack'[k].n].kids), Later(prog, stack'[k], j),
                      prog[stack'[k].n].kids[j] \in Begun'
               PROVE  FALSE
    OBVIOUS
  <2>1. CASE k \in 1..Len(stack) - 1 /\ stack'[k] = stack[k]
    <3>1. prog[stack[k].n].kids[j] \notin Begun  BY <1>2, <1>5, <2>1
    <3>2. PICK i \in 1..Len(Me.kids) : prog[stack[k].n].kids[j] = Kid(i)
      BY <2>1, <3>1
    <3>3. stack[k].n \in Node  BY <1>1, <1>5, <2>1
    <3>4. stack[k].n = Top.n  BY <1>4, <2>1, <3>2, <3>3
    <3> QED  BY <1>5, <2>1, <3>4
  <2>2. CASE stack'[k] = f
    <3>1. j \in 1..Len(Me.kids) /\ prog[stack'[k].n].kids[j] = Kid(j) /\ Later(prog, f, j)
      BY <2>2 DEF Me, Kid
    <3>2. Kid(j) \notin Begun  BY <1>3, <3>1
    <3>3. PICK i \in 1..Len(Me.kids) : Kid(j) = Kid(i) /\ ~Later(prog, f, i)
      BY <3>1, <3>2
    <3>4. j = i
      <4>1. prog[Top.n].kids[j] = Kid(i) /\ j \in 1..Len(prog[Top.n].kids)
        BY <3>1, <3>3 DEF Me, Kid
      <4> QED  BY <1>1, <1>4, <4>1
    <3> QED  BY <3>1, <3>3, <3>4
  <2>3. CASE stack'[k].n \in K
    <3>1. PICK i \in 1..Len(Me.kids) : stack'[k].n = Kid(i) /\ K = {Kid(i)} /\ Later(prog, Top, i)
      BY <2>3
    <3>2. Kid(i) \in Node /\ Kid(i) \notin Begun  BY <1>3, <1>4, <3>1
    <3>3. j \in 1..Len(prog[Kid(i)].kids) /\ prog[Kid(i)].kids[j] \in Begun \cup {Kid(i)}
      BY <3>1
    <3>4. prog[Kid(i)].kids[j] # Kid(i)  BY <1>4, <3>2, <3>3
    <3>5. prog[Kid(i)].kids[j] # Root
      <4>1. PICK a, b, c : a = Top.n /\ b = Kid(i) /\ c = prog[Kid(i)].kids[j]  OBVIOUS
      <4>2. a \in Nat /\ b \in Nat /\ c \in Nat /\ a < b /\ b < c
        <5>1. Rooted(prog) /\ Node \subseteq Nat  BY NodeAssumption DEF Good
        <5>2. c \in Node /\ b < c  BY <3>2, <3>3, <4>1, <5>1, KidsAreNodes DEF Rooted, IsTree
        <5> QED  BY <1>1, <3>2, <4>1, <5>1, <5>2, KidFine
      <4>3. Root \in Nat /\ Root <= a
        <5>1. Chain(prog, stack) /\ Root \in Nat  BY Running, NodeAssumption DEF Chain
        <5>2. stack[1].n = Root /\ 1 \in 1..Len(stack)
          <6>1. PICK n : n = Len(stack)  OBVIOUS
          <6>2. n \in Nat \ {0}  BY <1>1, <6>1
          <6>3. 1 \in 1..n  BY ONLY <6>2
          <6> QED  BY <5>1, <6>1, <6>3 DEF Chain
        <5>3. CASE Len(stack) = 1
          BY <1>1, <4>1, <5>1, <5>2, <5>3, AtMost
        <5>4. CASE Len(stack) # 1
          <6>1. PICK n : n = Len(stack)  OBVIOUS
          <6>2. n \in Nat \ {0, 1}  BY <1>1, <5>4, <6>1
          <6>3. 1 < n  BY ONLY <6>2
          <6> QED  BY <1>1, <4>1, <5>1, <5>2, <6>1, <6>3 DEF Chain
        <5> QED  BY <5>3, <5>4
      <4>4. c # Root  BY ONLY <4>2, <4>3
      <4> QED  BY <4>1, <4>4
    <3> QED  BY <1>2, <3>2, <3>3, <3>4, <3>5
  <2> QED  BY <2>1, <2>2, <2>3
<1>9. stack'[1].pc # 0
  <2>1. Len(stack) > 1 /\ stack[1].pc \in {1, 2}
    <3>1. Chain(prog, stack) /\ stack[1].act = "build"  BY Running DEF Chain
    <3>2. Len(stack) # 1  BY <1>1, <3>1 DEF Coding
    <3>3. Len(stack) > 1
      <4>1. PICK n : n = Len(stack)  OBVIOUS
      <4>2. n \in Nat \ {0, 1}  BY <1>1, <3>2, <4>1
      <4>3. n > 1  BY ONLY <4>2
      <4> QED  BY <4>1, <4>3
    <3>4. Len(stack) \in Nat  BY <1>1
    <3> QED  BY <3>1, <3>3, <3>4, OneBuild
  <2>2. 1 \in 1..Len(stack) - 1
    <3>1. PICK n : n = Len(stack)  OBVIOUS
    <3>2. n \in Nat /\ n > 1  BY <1>1, <2>1, <3>1
    <3>3. 1 \in 1..n - 1  BY ONLY <3>2
    <3> QED  BY <3>1, <3>3
  <2> QED  BY <2>1, <2>2
<1> QED  BY <1>6, <1>7, <1>8, <1>9 DEF Starts

------------------------------------------------------------------------------
(* Which blocks are open *)

LEMMA PendingIs ==
  ASSUME NEW p, NEW f
  PROVE  /\ Doing(p, f, {"if"}) => Pending(p, f) = IF f.pc = 1 THEN {f.x, f.y} ELSE {f.y}
         /\ Doing(p, f, {"while"}) => Pending(p, f) = {f.x + 1, f.y}
         /\ Doing(p, f, {"for"}) => Pending(p, f) = {f.y}
         /\ Doing(p, f, {"match"}) =>
              Pending(p, f) = IF f.i < Len(p[f.n].kids) THEN {f.x, f.y} ELSE {f.y}
         /\ Doing(p, f, {"if", "for", "match"}) => Pending(p, f) \subseteq {f.x, f.y}
         /\ ~Doing(p, f, {"if", "while", "for", "match"}) => Pending(p, f) = {}
<1>1. \A K : Doing(p, f, K) <=> Coding(f) /\ p[f.n].kind \in K /\ f.pc # 0
  BY DEF Doing
<1>2. Doing(p, f, {"if"}) => Pending(p, f) = IF f.pc = 1 THEN {f.x, f.y} ELSE {f.y}
  BY <1>1 DEF Pending
<1>3. Doing(p, f, {"while"}) => Pending(p, f) = {f.x + 1, f.y}
  BY <1>1 DEF Pending
<1>4. Doing(p, f, {"for"}) => Pending(p, f) = {f.y}
  BY <1>1 DEF Pending
<1>5. Doing(p, f, {"match"}) =>
        Pending(p, f) = IF f.i < Len(p[f.n].kids) THEN {f.x, f.y} ELSE {f.y}
  BY <1>1 DEF Pending
<1>6. ~Doing(p, f, {"if", "while", "for", "match"}) => Pending(p, f) = {}
  BY <1>1 DEF Pending
<1>7. Doing(p, f, {"if", "for", "match"}) => Pending(p, f) \subseteq {f.x, f.y}
  BY <1>1, <1>2, <1>4, <1>5
<1> QED  BY <1>2, <1>3, <1>4, <1>5, <1>6, <1>7

(* The blocks a call will move the builder to have been created.           *)
LEMMA PendingMade ==
  ASSUME Good, NEW k \in 1..Len(stack)
  PROVE  PendingAt(k) \subseteq Made
<1>1. PICK f : f = stack[k]
  OBVIOUS
<1>2. /\ f \in Frame /\ Len(blocks) \in Nat
      /\ f.act = "codegen" => CodegenOK(f, Promised(k))
      /\ Standing \subseteq Made
  <2>1. StackOK /\ layout \in Seq(Made) /\ Len(blocks) \in Nat
    <3>1. IInv  BY DEF Good
    <3> QED  BY <3>1, LinkedProperties DEF IInv, LayoutOK, BlocksOK
  <2>2. ToSet(layout) \subseteq Made  BY <2>1, ToSetOf
  <2> QED  BY <1>1, <2>1, <2>2, Running DEF StackOK, FrameOK, Standing
<1>3. Doing(prog, f, {"while"}) => f.x + 1 \in Made /\ f.y \in Made
  <2> HAVE Doing(prog, f, {"while"})
  <2>1. f.x \in Jumpable /\ f.y \in Made  BY <1>2 DEF Doing, Coding, CodegenOK
  <2>2. f.y = f.x + 2  BY <1>1 DEF Good, Whole, Order
  <2>3. PICK x, y, n : x = f.x /\ y = f.y /\ n = Len(blocks)  OBVIOUS
  <2>4. x \in 2..n /\ y \in 1..n /\ y = x + 2 /\ n \in Nat
    BY <1>2, <2>1, <2>2, <2>3 DEF Jumpable, Made
  <2>5. x + 1 \in 1..n  BY ONLY <2>4
  <2> QED  BY <2>1, <2>3, <2>5 DEF Made
<1>4. Doing(prog, f, {"if", "for", "match"}) => f.x \in Made /\ f.y \in Made
  <2>1. Jumpable \subseteq Made  BY <1>2 DEF Jumpable, Made
  <2> QED  BY <1>2, <2>1 DEF Doing, Coding, CodegenOK
<1>5. Pending(prog, f) \subseteq Made
  <2>1. CASE Doing(prog, f, {"while"})
    <3>1. Pending(prog, f) = {f.x + 1, f.y}  BY <2>1, PendingIs
    <3> QED  BY <1>3, <2>1, <3>1
  <2>2. CASE Doing(prog, f, {"if", "for", "match"})
    <3>1. Pending(prog, f) \subseteq {f.x, f.y}  BY <2>2, PendingIs
    <3> QED  BY <1>4, <2>2, <3>1
  <2>3. CASE ~Doing(prog, f, {"if", "while", "for", "match"})
    BY <2>3, PendingIs
  <2> QED  BY <2>1, <2>2, <2>3 DEF Doing
<1> QED  BY <1>1, <1>5 DEF PendingAt

(* A call that has not begun, and one that ends a scope, has none.         *)
LEMMA NothingPending ==
  ASSUME NEW p, NEW f, ~Coding(f) \/ f.pc = 0
  PROVE  Pending(p, f) = {} /\ ~InArm(p, f) /\ ~Iterates(p, f) /\ ~Awaits(f)
         /\ \A kinds : ~Doing(p, f, kinds)
BY DEF Pending, Doing, InArm, Iterates, Awaits

(* The frames of a step of codegen: those below stay, the running one goes *)
(* on as f or is gone, and one it calls has done nothing.                  *)
Beneath(s, t, f) ==
  \A k \in 1..Len(t) :
    \/ k \in 1..Len(s) - 1 /\ t[k] = s[k]
    \/ k = Len(s) /\ t[k] = f
    \/ k = Len(s) + 1 /\ (~Coding(t[k]) \/ t[k].pc = 0)
Staying(s, t) == \A k \in 1..Len(s) - 1 : k \in 1..Len(t) /\ t[k] = s[k]

LEMMA BlocksStep ==
  ASSUME Good, ~Final, ~Final', prog' = prog, NEW f, NEW N,
         Beneath(stack, stack', f), Staying(stack, stack'),
         Pending(prog, f) = {} \/ (Len(stack) \in 1..Len(stack') /\ stack'[Len(stack)] = f),
         Made' = Made \cup N, N \cap Made = {},
         Pending(prog, f) \subseteq Pending(prog, Top) \cup N,
         \A b \in Pending(prog, f) : Open(blocks', b) /\ b # ip'.at,
         \A b \in Made : b # ip.at /\ b \notin Pending(prog, Top) => Alike(blocks, blocks', b),
         ip'.at \in {ip.at} \cup Pending(prog, Top) \cup N,
         \A b \in {ip.at} \cup Pending(prog, Top) \cup N :
           b = ip'.at \/ b \in Pending(prog, f) \/ EndsOnce(blocks', b),
         Open(blocks', ip'.at) \/ EndsOnce(blocks', ip'.at),
         ip'.back => EndsOnce(blocks', ip'.at)
  PROVE  Blocks'
<1> DEFINE P == Pending(prog, Top)
           V == Pending(prog, f)
<1>1. /\ Len(stack) \in Nat \ {0} /\ Len(stack) \in 1..Len(stack) /\ Top = stack[Len(stack)]
      /\ \A k \in 1..Len(stack) - 1 : k \in 1..Len(stack) /\ k # Len(stack)
  <2>1. Len(stack) \in Nat \ {0}  BY Running
  <2> QED  BY <2>1 DEF Top
<1>2. /\ \A b \in Made : Open(blocks, b) \/ Complete(b)
      /\ \A k \in 1..Len(stack) : \A b \in PendingAt(k) : Open(blocks, b) /\ b # ip.at
      /\ \A k, l \in 1..Len(stack) : k # l => PendingAt(k) \cap PendingAt(l) = {}
      /\ \A b \in Made :
           b = ip.at \/ Complete(b) \/ \E k \in 1..Len(stack) : b \in PendingAt(k)
  BY DEF Good, Whole, Blocks
<1>3. PendingAt(Len(stack)) = P
  BY <1>1 DEF PendingAt
<1>4. \A k \in 1..Len(stack') :
        \/ k \in 1..Len(stack) - 1 /\ Pending(prog, stack'[k]) = PendingAt(k)
        \/ k = Len(stack) /\ Pending(prog, stack'[k]) = V
        \/ Pending(prog, stack'[k]) = {}
  BY NothingPending DEF Beneath, PendingAt
<1>5. \A k \in 1..Len(stack) - 1 : \A b \in PendingAt(k) :
        b \in Made /\ b # ip.at /\ b \notin P /\ b \notin N /\ b \notin V /\ Open(blocks', b) /\ b # ip'.at
  <2> TAKE k \in 1..Len(stack) - 1
  <2> TAKE b \in PendingAt(k)
  <2>1. b \in Made  BY <1>1, PendingMade
  <2>2. Open(blocks, b) /\ b # ip.at /\ b \notin P  BY <1>1, <1>2, <1>3
  <2>3. Open(blocks', b)  BY <2>1, <2>2 DEF Alike
  <2> QED  BY <2>1, <2>2, <2>3
<1>6. \A b \in Made' : b \in {ip.at} \cup P \cup N \/ (b \in Made /\ Alike(blocks, blocks', b) /\ b # ip.at /\ b \notin P)
  <2> TAKE b \in Made'
  <2>1. b \in Made \/ b \in N  OBVIOUS
  <2> HIDE DEF P, V
  <2>2. \A c \in Made : c # ip.at /\ c \notin P => Alike(blocks, blocks', c)  BY DEF P
  <2> QED  BY <2>1, <2>2
<1> HIDE DEF P, V
<1>7. \A b \in Made' : Open(blocks', b) \/ EndsOnce(blocks', b)
  <2> TAKE b \in Made'
  <2>1. CASE b \in {ip.at} \cup P \cup N
    BY <2>1 DEF P, V
  <2>2. CASE b \in Made /\ Alike(blocks, blocks', b)
    BY <1>2, <2>2 DEF Alike, Complete
  <2> QED  BY <1>6, <2>1, <2>2
<1>8. \A k \in 1..Len(stack') : \A b \in Pending(prog, stack'[k]) : Open(blocks', b) /\ b # ip'.at
  BY <1>4, <1>5 DEF V
<1>9. \A k, l \in 1..Len(stack') : k # l => Pending(prog, stack'[k]) \cap Pending(prog, stack'[l]) = {}
  <2> SUFFICES ASSUME NEW k \in 1..Len(stack'), NEW l \in 1..Len(stack'), k # l,
                      NEW b \in Pending(prog, stack'[k]), b \in Pending(prog, stack'[l])
               PROVE  FALSE
    OBVIOUS
  <2>1. CASE k \in 1..Len(stack) - 1 /\ b \in PendingAt(k)
    <3>1. CASE l \in 1..Len(stack) - 1 /\ b \in PendingAt(l)
      BY <1>1, <1>2, <2>1, <3>1
    <3>2. CASE b \in V
      BY <1>5, <2>1, <3>2
    <3> QED  BY <1>4, <3>1, <3>2
  <2>2. CASE k = Len(stack) /\ b \in V
    <3>1. l \in 1..Len(stack) - 1 /\ b \in PendingAt(l)  BY <1>4, <2>2
    <3> QED  BY <1>5, <2>2, <3>1
  <2> QED  BY <1>4, <2>1, <2>2
<1>10. \A b \in Made' : b = ip'.at \/ EndsOnce(blocks', b) \/ \E k \in 1..Len(stack') : b \in Pending(prog, stack'[k])
  <2> TAKE b \in Made'
  <2>1. CASE b \in {ip.at} \cup P \cup N
    BY <2>1 DEF P, V
  <2>2. CASE b \in Made /\ Alike(blocks, blocks', b) /\ b # ip.at /\ b \notin P
    <3>1. CASE Complete(b)  BY <2>2, <3>1 DEF Alike, Complete
    <3>2. CASE \E k \in 1..Len(stack) : b \in PendingAt(k)
      <4>1. PICK k \in 1..Len(stack) : b \in PendingAt(k)  BY <3>2
      <4>2. k # Len(stack)  BY <1>3, <2>2, <4>1
      <4>3. k \in 1..Len(stack) - 1  BY <1>1, <4>2
      <4>4. k \in 1..Len(stack') /\ stack'[k] = stack[k]  BY <4>3 DEF Staying
      <4> QED  BY <4>1, <4>4 DEF PendingAt
    <3> QED  BY <1>2, <2>2, <3>1, <3>2
  <2> QED  BY <1>6, <2>1, <2>2
<1> QED  BY <1>7, <1>8, <1>9, <1>10 DEF Blocks, PendingAt, Complete

------------------------------------------------------------------------------
(* The order of the blocks *)

(* What is behind a block.                                                 *)
LEMMA BehindIs ==
  ASSUME NEW s, NEW b, NEW e
  PROVE  e \in Behind(s, b) <=>
           \E k \in 1..Len(s) : e = s[k] /\ \E i \in 1..k-1 : s[i] = b
BY DEF Behind

(* Nothing is behind the last block.                                       *)
LEMMA BehindLast ==
  ASSUME NEW S, NEW s \in Seq(S), s # <<>>, Distinct(s)
  PROVE  Behind(s, s[Len(s)]) = {} /\ s[Len(s)] \in ToSet(s)
<1>1. PICK n : n = Len(s)
  OBVIOUS
<1>2. n \in Nat \ {0}
  BY <1>1, EmptySeq
<1>3. \A k \in 1..n : \A i \in 1..k-1 : i \in 1..n /\ n \in 1..n /\ i # n
  BY ONLY <1>2
<1>4. \A e : e \notin Behind(s, s[n])
  BY <1>1, <1>3, BehindIs DEF Distinct
<1>5. n \in 1..n
  BY ONLY <1>2
<1>6. s[n] \in ToSet(s)
  BY <1>1, <1>5, ToSetOf
<1> QED  BY <1>1, <1>4, <1>6

(* A block with nothing behind it is the last one.                         *)
LEMMA NothingBehind ==
  ASSUME NEW S, NEW s \in Seq(S), NEW b \in ToSet(s), Behind(s, b) = {}
  PROVE  b = s[Len(s)]
<1>1. PICK i \in 1..Len(s) : s[i] = b
  BY ToSetOf
<1>2. PICK n : n = Len(s)
  OBVIOUS
<1>3. n \in Nat /\ i \in 1..n
  BY <1>1, <1>2
<1>4. i # n => n \in 1..n /\ i \in 1..n - 1
  BY ONLY <1>3
<1>5. i # n => s[n] \in Behind(s, b)
  BY <1>1, <1>2, <1>4, BehindIs
<1> QED  BY <1>1, <1>2, <1>5

(* A block that is moved has behind it what was behind the other.          *)
LEMMA BehindMoved ==
  ASSUME NEW S, NEW s, NEW T, Lists(S, s, T), NEW b \in T, NEW c \in T, b # c
  PROVE  /\ Lists(S, MoveAfter(s, b, c), T)
         /\ Behind(MoveAfter(s, b, c), b) \subseteq Behind(s, c) \ {b}
<1>1. Lists(S, MoveAfter(s, b, c), T)
  BY MovedOnce
<1>2. PICK i0, r, j0, t : /\ i0 = IndexOf(s, b) /\ r = RemoveAt(s, i0)
                          /\ j0 = IndexOf(r, c) /\ t = MoveAfter(s, b, c)
  OBVIOUS
<1>3. s \in Seq(S) /\ Distinct(s) /\ ToSet(s) = T
  BY DEF Lists
<1>4. i0 \in 1..Len(s) /\ s[i0] = b /\ Len(s) \in Nat
  BY <1>2, <1>3, IndexOfProperties
<1>5. /\ r \in Seq(S) /\ Len(r) = Len(s) - 1
      /\ \A k \in 1..Len(s) - 1 : r[k] = IF k < i0 THEN s[k] ELSE s[k + 1]
  BY <1>2, <1>3, <1>4, RemoveAtProperties
<1>6. Lists(S, r, T \ {b})
  BY <1>2, <1>4, RemovedOnce
<1>7. j0 \in 1..Len(r) /\ r[j0] = c
  BY <1>2, <1>5, <1>6, IndexOfProperties DEF Lists
<1>8. Inserted(S, t, r, j0 + 1, b)
  <2>1. t = InsertAt(r, j0 + 1, b)
    BY <1>2 DEF MoveAfter, Without
  <2>2. j0 + 1 \in 1..Len(r) + 1
    BY <1>4, <1>5, <1>7
  <2>3. b \in S  BY <1>3, ToSetOf
  <2> QED  BY <1>5, <2>1, <2>2, <2>3, InsertAtInserts
<1>9. PICK n : n = Len(r)
  OBVIOUS
<1>10. /\ n \in Nat /\ Len(s) = n + 1 /\ i0 \in 1..n + 1 /\ j0 \in 1..n /\ Len(t) = n + 1
       /\ \A k \in 1..n : r[k] = IF k < i0 THEN s[k] ELSE s[k + 1]
       /\ \A k \in 1..n + 1 : t[k] =
            IF k < j0 + 1 THEN r[k] ELSE IF k = j0 + 1 THEN b ELSE r[k - 1]
  <2>1. n \in Nat /\ Len(s) = n + 1
    <3>1. PICK m : m = Len(s)  OBVIOUS
    <3>2. m \in Nat /\ n = m - 1 /\ i0 \in 1..m  BY <1>4, <1>5, <1>9, <3>1
    <3>3. n \in Nat /\ m = n + 1  BY ONLY <3>2
    <3> QED  BY <3>1, <3>3
  <2>2. Len(s) - 1 = n  BY <1>5, <1>9
  <2> QED  BY <1>4, <1>5, <1>7, <1>8, <1>9, <2>1, <2>2 DEF Inserted
<1>11. Distinct(t) /\ Len(t) = n + 1
  BY <1>1, <1>2, <1>10 DEF Lists
<1>12. j0 + 1 \in 1..n + 1 /\ t[j0 + 1] = b
  <2>1. j0 + 1 \in 1..n + 1 /\ ~(j0 + 1 < j0 + 1)  BY ONLY <1>10
  <2> QED  BY <1>10, <2>1
<1>13. ASSUME NEW e \in Behind(t, b)
       PROVE  e \in Behind(s, c) /\ e # b
  <2>1. PICK k \in 1..n + 1 : e = t[k] /\ \E i \in 1..k-1 : t[i] = b
    BY <1>10, <1>13, BehindIs
  <2>2. PICK i \in 1..k-1 : t[i] = b
    BY <2>1
  <2>3. i \in 1..n + 1
    BY ONLY <2>1, <2>2, <1>10
  <2>4. i = j0 + 1
    BY <1>11, <1>12, <2>2, <2>3 DEF Distinct
  <2>5. k # j0 + 1 /\ ~(k < j0 + 1) /\ k - 1 \in 1..n /\ j0 < k - 1
    BY ONLY <2>2, <2>4, <1>10
  <2>6. e = r[k - 1]
    BY <1>10, <2>1, <2>5
  <2>7. e # b
    BY <1>11, <1>12, <2>1, <2>5 DEF Distinct
  <2>8. PICK x, y : /\ x = (IF j0 < i0 THEN j0 ELSE j0 + 1)
                    /\ y = (IF k - 1 < i0 THEN k - 1 ELSE (k - 1) + 1)
    OBVIOUS
  <2>9. s[x] = c /\ s[y] = e
    BY <1>7, <1>10, <2>5, <2>6, <2>8
  <2>10. y \in 1..n + 1 /\ x \in 1..y - 1
    BY ONLY <1>10, <2>5, <2>8
  <2>11. e \in Behind(s, c)
    BY <1>10, <2>9, <2>10, BehindIs
  <2> QED  BY <2>7, <2>11
<1> QED  BY <1>1, <1>2, <1>13

(* A step that moves no block keeps them in order when it is not one of a  *)
(* loop or a match.                                                        *)
InOrder(p, s, lay, at) ==
  (\A k \in 1..Len(s) : ~Doing(p, s[k], {"for", "match"})) =>
     /\ at \in ToSet(lay)
     /\ \A b \in Behind(lay, at) :
          \E k \in 1..Len(s) : Newest(p, s, k) /\ b \in Pending(p, s[k])

LEMMA OrderStep ==
  ASSUME Good, Coding(Top), ~Ending, prog' = prog, NEW f, Beneath(stack, stack', f),
         \A n \in Node : n # Top.n => held'[n] = held[n],
         Doing(prog, f, {"while"}) => f.y = f.x + 2 /\ held'[f.n].a = f.x + 1,
         Doing(prog, f, {"match"}) => f.y = f.x + 1,
         Doing(prog, f, {"for", "match"}) => f.y = layout'[Len(layout')],
         \/ layout'[Len(layout')] = layout[Len(layout)]
         \/ Me.kind \in Branches \cup Loops,
         InOrder(prog, stack', layout', ip'.at)
  PROVE  Order'
<1>1. /\ \A k \in 1..Len(stack) : Doing(prog, stack[k], {"while"}) =>
           stack[k].y = stack[k].x + 2 /\ held[stack[k].n].a = stack[k].x + 1
      /\ \A k \in 1..Len(stack) : Doing(prog, stack[k], {"match"}) => stack[k].y = stack[k].x + 1
      /\ \A k \in 1..Len(stack) : Doing(prog, stack[k], {"for", "match"}) => stack[k].y = LastBlock
  BY DEF Good, Whole, Order
<1>2. \A k \in 1..Len(stack) - 1 :
        /\ k \in 1..Len(stack) /\ stack[k].n \in Node
        /\ Coding(stack[k]) => held'[stack[k].n] = held[stack[k].n]
        /\ Doing(prog, stack[k], {"for", "match"}) => stack[k].y = layout'[Len(layout')]
  <2> TAKE k \in 1..Len(stack) - 1
  <2>1. k \in 1..Len(stack)
    <3>1. Len(stack) \in Nat  BY Running
    <3> QED  BY <3>1
  <2>2. stack[k].n \in Node /\ stack[k].n \in Nat /\ Top.n \in Nat  BY <2>1, Running
  <2>3. Coding(stack[k]) => stack[k].n # Top.n
    <3> HAVE Coding(stack[k])
    <3>1. stack[k].n < Top.n  BY InPlace
    <3>2. PICK a, b : a = stack[k].n /\ b = Top.n  OBVIOUS
    <3>3. a \in Nat /\ b \in Nat /\ a < b  BY <2>2, <3>1, <3>2
    <3>4. a # b  BY ONLY <3>3
    <3> QED  BY <3>2, <3>4
  <2>4. Doing(prog, stack[k], {"for", "match"}) => InArm(prog, stack[k])
    BY DEF Doing, InArm
  <2> QED  BY <1>1, <2>1, <2>2, <2>3, <2>4, InPlace DEF LastBlock
<1>3. \A k \in 1..Len(stack') : \A kinds : Doing(prog, stack'[k], kinds) =>
        (k \in 1..Len(stack) - 1 /\ stack'[k] = stack[k] /\ Coding(stack[k])) \/ stack'[k] = f
  BY NothingPending DEF Beneath, Doing
<1>4. \A k \in 1..Len(stack') : Doing(prog, stack'[k], {"while"}) =>
        stack'[k].y = stack'[k].x + 2 /\ held'[stack'[k].n].a = stack'[k].x + 1
  BY <1>1, <1>2, <1>3
<1>5. \A k \in 1..Len(stack') : Doing(prog, stack'[k], {"match"}) => stack'[k].y = stack'[k].x + 1
  BY <1>1, <1>2, <1>3
<1>6. \A k \in 1..Len(stack') : Doing(prog, stack'[k], {"for", "match"}) =>
        stack'[k].y = layout'[Len(layout')]
  <2> TAKE k \in 1..Len(stack')
  <2> HAVE Doing(prog, stack'[k], {"for", "match"})
  <2>1. CASE k \in 1..Len(stack) - 1 /\ stack'[k] = stack[k]
    <3>1. Doing(prog, stack[k], {"for", "match"})  BY <2>1
    <3> QED  BY <1>2, <2>1, <3>1
  <2>2. CASE stack'[k] = f
    <3>1. Doing(prog, f, {"for", "match"})  BY <2>2
    <3> QED  BY <2>2, <3>1
  <2> QED  BY <1>3, <2>1, <2>2
<1> QED  BY <1>4, <1>5, <1>6 DEF Order, InOrder, LastBlock, PendingAt

(* The builder stays in its block, and no loop or match begins or ends.    *)
LEMMA OrderQuiet ==
  ASSUME Good, ~Final, NEW f, Beneath(stack, stack', f), Staying(stack, stack'),
         ~Doing(prog, f, {"while", "for", "match"}), ~Doing(prog, Top, {"while", "for", "match"})
  PROVE  InOrder(prog, stack', layout, ip.at)
<1>1. Len(stack) \in Nat \ {0} /\ Top = stack[Len(stack)]
  BY Running DEF Top
<1>2. PICK n : n = Len(stack)
  OBVIOUS
<1>3. \A k \in 1..n : k \in 1..n - 1 \/ k = n
  BY <1>1, <1>2
<1>4. \A k \in 1..Len(stack') : \A K : Doing(prog, stack'[k], K) =>
        (k \in 1..n - 1 /\ stack'[k] = stack[k]) \/ stack'[k] = f
  BY <1>2, NothingPending DEF Beneath
<1>5. \A k \in 1..n - 1 : k \in 1..Len(stack') /\ stack'[k] = stack[k]
  BY <1>2 DEF Staying
<1>6. /\ \A g : Doing(prog, g, {"for", "match"}) => Doing(prog, g, {"while", "for", "match"})
      /\ \A g : Doing(prog, g, {"while"}) => Doing(prog, g, {"while", "for", "match"})
  BY DEF Doing
<1> SUFFICES ASSUME \A k \in 1..Len(stack') : ~Doing(prog, stack'[k], {"for", "match"})
             PROVE  /\ ip.at \in ToSet(layout)
                    /\ \A b \in Behind(layout, ip.at) :
                         \E k \in 1..Len(stack') : Newest(prog, stack', k) /\ b \in Pending(prog, stack'[k])
  BY DEF InOrder
<1>7. \A k \in 1..Len(stack) : ~Doing(prog, stack[k], {"for", "match"})
  BY <1>1, <1>2, <1>3, <1>5, <1>6
<1>8. /\ ip.at \in ToSet(layout)
      /\ \A b \in Behind(layout, ip.at) :
           \E k \in 1..Len(stack) : Newest(prog, stack, k) /\ b \in PendingAt(k)
  BY <1>7 DEF Good, Whole, Order
<1>9. ASSUME NEW k \in 1..Len(stack), Newest(prog, stack, k)
      PROVE  k \in 1..Len(stack') /\ Newest(prog, stack', k) /\ stack'[k] = stack[k]
  <2>1. Doing(prog, stack[k], {"while"}) /\ \A l \in k+1..Len(stack) : ~Doing(prog, stack[l], {"while"})
    BY <1>9 DEF Newest
  <2>2. k \in 1..n - 1  BY <1>1, <1>2, <1>3, <1>6, <2>1
  <2>3. \A l \in k+1..Len(stack') : l \in 1..Len(stack') /\ (l \in 1..n - 1 => l \in k+1..Len(stack))
    <3>1. n \in Nat  BY <1>1, <1>2
    <3>2. \A l \in k+1..Len(stack') : l \in 1..Len(stack')
      BY <2>2
    <3>3. \A l \in 1..n - 1 : l \in k+1..Len(stack') => l \in k+1..n
      BY <2>2, <3>1
    <3> QED  BY <1>2, <3>2, <3>3
  <2>4. \A l \in k+1..Len(stack') : ~Doing(prog, stack'[l], {"while"})
    BY <1>4, <1>6, <2>1, <2>3
  <2> QED  BY <1>5, <2>1, <2>2, <2>4 DEF Newest
<1> QED  BY <1>8, <1>9 DEF PendingAt

------------------------------------------------------------------------------
(* What a call finds *)

(* The parts of Found that are about the running call.                     *)
Resumes == Coding(Top) => Finds(Top)
Pauses ==
  /\ Coding(Top) /\ Me.kind \in {"nop", "defer"}
  /\ Len(stack) > 1 /\ Coding(Caller) /\ prog[Caller.n].kind = "body"
  => FilledUpto(Caller)
Awaited == \A k \in 1..Len(stack) : Awaits(stack[k]) => LeftBy(Callee(prog, stack[k]))
Jumped ==
  Complete(ip.at) /\ (\A k \in 1..Len(stack) : ~Iterates(prog, stack[k])) =>
    ReturnsIn(blocks, ip.at) \/ (Doing(prog, Top, {"match"}) /\ Top.pc = 1)

(* Where a step of codegen leaves the outermost calls.                     *)
LEMMA StillRunning ==
  ASSUME Good, Coding(Top), ~Ending, NEW f, Beneath(stack, stack', f), Staying(stack, stack'),
         Coding(f), stack' # <<>>, Len(stack') \in Nat
  PROVE  /\ ~Final' /\ stack'[1] = stack[1] /\ stack'[1].pc # 0
         /\ Len(stack') \in 1..Len(stack') /\ Top' = stack'[Len(stack')]
         /\ Coding(Top)' => ~Ending'
         /\ \A k \in 1..Len(stack') :
              Awaits(stack'[k]) /\ prog' = prog => k = Len(stack) /\ stack'[k] = f
<1>1. /\ Len(stack) \in Nat \ {0} /\ Chain(prog, stack)
      /\ ~Final /\ Len(stack) > 1
      /\ \A k \in 1..Len(stack) - 1 : ~Unwinding(stack[k]) /\ ~Awaits(stack[k])
  BY Running, Alone
<1>2. PICK n, m : n = Len(stack) /\ m = Len(stack')
  OBVIOUS
<1>3. n \in Nat \ {0} /\ n > 1 /\ m \in Nat /\ m # 0
  BY <1>1, <1>2, EmptySeq
<1>4. 1 \in 1..n - 1 /\ m \in 1..m
  BY ONLY <1>3
<1>5. stack'[1] = stack[1] /\ stack[1].pc # 0
  <2>1. Len(stack) \in Nat  BY <1>1
  <2> QED  BY <1>1, <1>2, <1>4, <2>1, OneBuild DEF Staying
<1>6. ~Final'
  BY <1>1, <1>5 DEF Final, Closing
<1>7. \A k \in 1..m : \/ k \in 1..n - 1 /\ stack'[k] = stack[k]
                      \/ k = n /\ stack'[k] = f
                      \/ k = n + 1 /\ (~Coding(stack'[k]) \/ stack'[k].pc = 0)
  BY <1>2 DEF Beneath
<1>8. ~Unwinding(f)
  BY DEF Coding, Unwinding
<1>9. Coding(Top)' => ~Ending'
  <2>1. \A k \in 1..m - 1 : k \in 1..m /\ ~(k = n + 1)
    <3>1. m <= n + 1
      <4>1. m \in 1..n - 1 \/ m = n \/ m = n + 1  BY <1>4, <1>7
      <4> QED  BY ONLY <1>3, <4>1
    <3> QED  BY ONLY <1>3, <3>1
  <2>2. \A k \in 1..m - 1 : ~Unwinding(stack'[k])
    BY <1>1, <1>2, <1>7, <1>8, <2>1
  <2>3. m > 1 => m - 1 \in 1..m - 1
    BY ONLY <1>3
  <2>4. Coding(Top)' => ~Unwinding(Top)'
    BY DEF Coding, Unwinding
  <2>5. Len(stack') > 1 => ~Unwinding(Caller)'
    BY <1>2, <2>2, <2>3 DEF Caller, Unwinding
  <2> QED  BY <2>4, <2>5 DEF Ending
<1>10. \A k \in 1..m : Awaits(stack'[k]) /\ prog' = prog => k = n /\ stack'[k] = f
  BY <1>1, <1>2, <1>7, NothingPending DEF Awaits, Doing
<1>11. Top' = stack'[Len(stack')]
  BY DEF Top
<1> QED  BY <1>2, <1>4, <1>5, <1>6, <1>9, <1>10, <1>11

LEMMA FoundStep ==
  ASSUME Good, Coding(Top), ~Ending, prog' = prog, NEW f, Beneath(stack, stack', f),
         Staying(stack, stack'), Coding(f), stack' # <<>>, Len(stack') \in Nat,
         Resumes', Pauses', Jumped',
         Awaits(f) => LeftBy(Callee(prog, f))'
  PROVE  Found'
<1>1. /\ ~Final' /\ stack'[1] = stack[1] /\ stack'[1].pc # 0
      /\ Coding(Top)' => ~Ending'
      /\ \A k \in 1..Len(stack') : Awaits(stack'[k]) => k = Len(stack) /\ stack'[k] = f
  BY StillRunning
<1>2. Awaited'
  <2>1. \A g : Awaits(g) => (Doing(prog, g, {"match"}) /\ g.pc = 3) \/ (Doing(prog, g, {"typeswitch"}) /\ g.pc = 2)
    BY DEF Awaits
  <2>2. ASSUME NEW k \in 1..Len(stack'),
               (Doing(prog, stack'[k], {"match"}) /\ stack'[k].pc = 3)
               \/ (Doing(prog, stack'[k], {"typeswitch"}) /\ stack'[k].pc = 2)
        PROVE  stack'[k] = f /\ Awaits(f)
    <3>1. Awaits(stack'[k])  BY <2>2 DEF Awaits
    <3> QED  BY <1>1, <3>1
  <2>3. PICK c : c = Callee(prog, f)  OBVIOUS
  <2>4. Awaits(f) => LeftBy(c)'  BY <2>3
  <2> QED  BY <2>2, <2>3, <2>4 DEF Awaited, Awaits, LeftBy
<1>3. (Coding(Top) /\ Ending => Me.kind = "expr" /\ (Complete(ip.at) => ip.back))'
  BY <1>1
<1>4. (stack[1].pc = 0 => Open(blocks, ip.at))'
  BY <1>1
<1>5. (Coding(Top) /\ ~Ending => Finds(Top))'
  BY DEF Resumes
<1> QED  BY <1>2, <1>3, <1>4, <1>5 DEF Found, Awaited, Pauses, Jumped

(* A call returns to one that finds the builder's block as it was left.    *)
LEMMA ReturnFinds ==
  ASSUME Good, Coding(Top), ~Ending, prog' = prog, Return, NEW n, n = Top.n, LeftBy(n)',
         Me.kind \in {"nop", "defer"} => (Filled(blocks, ip.at) => Filled(blocks', ip'.at))
  PROVE  Resumes' /\ Pauses'
<1>1. /\ Chain(prog, stack') /\ Popped(stack, stack')
      /\ Len(stack) > 1 /\ Len(stack') \in Nat \ {0} /\ Top' = Caller
  BY ChainGone DEF Coding
<1>2. PICK c : c = Caller
  OBVIOUS
<1>3. Calls(prog, c, Top) /\ c.n \in Node /\ c \in Frame
  <2>1. PICK m : m = Len(stack)  OBVIOUS
  <2>2. m \in Nat /\ m > 1  BY <1>1, <2>1, Running
  <2>3. m \in 2..m /\ m - 1 \in 1..m  BY ONLY <2>2
  <2>4. Chain(prog, stack) /\ stack[m-1] \in Frame /\ stack[m-1].n \in Node
    BY <2>1, <2>3, Running
  <2>5. Calls(prog, stack[m-1], stack[m])  BY <2>1, <2>3, <2>4 DEF Chain
  <2> QED  BY <1>2, <2>1, <2>4, <2>5 DEF Caller, Top
<1>4. Coding(c) => Busy(prog, c) /\ Top.n = Callee(prog, c)
  BY <1>3 DEF Calls, Coding, Unwinding
<1>5. ASSUME Coding(c), prog[c.n].kind = "body", FillsBy(prog, prog[c.n].kids, c.i)
      PROVE  Filled(blocks', ip'.at)
  <2>1. PICK j \in 1..c.i : /\ EndsFilled(prog)[prog[c.n].kids[j]]
                            /\ \A m \in j+1..c.i : prog[prog[c.n].kids[m]].kind \in {"nop", "defer"}
    BY <1>5 DEF FillsBy
  <2>2. prog[c.n].kids[c.i] = n
    BY <1>4, <1>5 DEF Callee
  <2>3. CASE j = c.i
    BY <2>1, <2>2, <2>3 DEF LeftBy
  <2>4. CASE j # c.i
    <3>1. c.i \in j+1..c.i
      <4>1. c.i \in Nat  BY <1>3 DEF Frame
      <4> QED  BY <2>4, <4>1
    <3>2. Me.kind \in {"nop", "defer"}
      BY <2>1, <2>2, <3>1 DEF Me
    <3>3. FilledUpto(c)
      BY <1>1, <1>2, <1>5, <3>2 DEF Good, Whole, Found
    <3>4. Filled(blocks, ip.at)
      BY <1>5, <3>3 DEF FilledUpto
    <3> QED  BY <3>2, <3>4
  <2> QED  BY <2>3, <2>4
<1>6. Resumes'
  <2> SUFFICES ASSUME Coding(c)  PROVE Finds(c)'
    BY <1>1, <1>2 DEF Resumes
  <2>1. Busy(prog, c)' /\ Callee(prog, c)' = n
    BY <1>4 DEF Busy, Callee
  <2>2. (prog[c.n].kind = "body" => FilledUpto(c))'
    BY <1>5 DEF FilledUpto
  <2>3. ~(prog[c.n].kind = "match" /\ c.pc = 0)
    BY <1>4 DEF Busy
  <2> QED  BY <2>1, <2>2, <2>3 DEF Finds
<1>7. Pauses'
  <2>1. Coding(c) => prog[c.n].kind \notin {"nop", "defer"}
    BY <1>4 DEF Busy
  <2> QED  BY <1>1, <1>2, <2>1 DEF Pauses, Me
<1> QED  BY <1>6, <1>7

(* A block that ends is not open.                                          *)
LEMMA LinkedEnds ==
  ASSUME NEW bs, Linked(bs), NEW b \in 1..Len(bs)
  PROVE  /\ EndsOnce(bs, b) => ~Open(bs, b) /\ Filled(bs, b) /\ HasTerminator(bs, b)
         /\ HasTerminator(bs, b) => ~Open(bs, b)
         /\ ReturnsIn(bs, b) => HasTerminator(bs, b)
<1>1. bs[b].insts \in Seq(InstIn(Len(bs)))
  BY LinkedProperties
<1> QED  BY <1>1, EndFacts

(* It calls the codegen of a part in an open block.                        *)
LEMMA CallFinds ==
  ASSUME Good, Coding(Top), ~Ending, prog' = prog, NEW i \in 1..Len(Me.kids), NEW f,
         Called(stack, stack', f, Enter("codegen", Kid(i))), f.n = Top.n, Coding(f),
         Open(blocks', ip'.at), Linked(blocks'), ip'.at \in 1..Len(blocks'),
         Me.kind = "body" => /\ i = Top.i + 1 /\ f.i = i
                             /\ Filled(blocks, ip.at) => Filled(blocks', ip'.at)
  PROVE  Resumes' /\ Pauses' /\ Jumped'
<1>1. PICK g, n, m : g = Enter("codegen", Kid(i)) /\ n = Len(stack) /\ m = Len(stack')
  OBVIOUS
<1>2. g.act = "codegen" /\ g.n = Kid(i) /\ g.pc = 0 /\ g.i = 0
  BY <1>1 DEF Enter
<1>3. n \in Nat \ {0} /\ m = n + 1 /\ stack'[n] = f /\ stack'[n + 1] = g
  BY <1>1 DEF Called
<1>4. m - 1 = n /\ m > 1
  BY ONLY <1>3
<1>5. Top' = g /\ Caller' = f /\ Len(stack') > 1
  BY <1>1, <1>3, <1>4 DEF Top, Caller
<1>6. Resumes'
  <2>1. ~Busy(prog, g)' /\ ~(prog[g.n].kind = "match" /\ g.pc = 1)
    BY <1>2 DEF Busy
  <2>2. ~FillsBy(prog, prog[g.n].kids, g.i)
    <3>1. \A j \in 1..0 : FALSE  OBVIOUS
    <3> QED  BY <1>2, <3>1 DEF FillsBy
  <2>3. FilledUpto(g)'
    BY <2>2 DEF FilledUpto
  <2>4. Finds(g)'
    BY <1>2, <2>1, <2>3 DEF Finds
  <2> QED  BY <1>5, <2>4 DEF Resumes
<1>7. Pauses'
  <2> SUFFICES ASSUME prog[g.n].kind \in {"nop", "defer"}, prog[f.n].kind = "body"
               PROVE  FilledUpto(f)'
    BY <1>5 DEF Pauses, Me
  <2>1. SUFFICES ASSUME FillsBy(prog, prog[f.n].kids, f.i)  PROVE Filled(blocks', ip'.at)
    BY DEF FilledUpto
  <2>2. Me.kind = "body" /\ i = Top.i + 1 /\ f.i = i /\ prog[f.n].kids[i] = Kid(i) /\ Kid(i) \in Node
    BY KidFine DEF Me, Kid
  <2>3. PICK j \in 1..f.i : /\ EndsFilled(prog)[prog[f.n].kids[j]]
                            /\ \A k \in j+1..f.i : prog[prog[f.n].kids[k]].kind \in {"nop", "defer"}
    BY <2>1 DEF FillsBy
  <2>4. j # i
    <3>1. ~EndsFilled(prog)[Kid(i)]
      <4>1. Rooted(prog)  BY DEF Good
      <4> QED  BY <1>2, <2>2, <4>1, FilledFacts
    <3> QED  BY <2>2, <2>3, <3>1
  <2>5. j \in 1..Top.i /\ \A k \in j+1..Top.i : k \in j+1..f.i
    <3>1. PICK c : c = Top.i  OBVIOUS
    <3>2. c \in Nat  BY <3>1, Running
    <3>3. j \in 1..c + 1 /\ j # c + 1  BY <2>2, <2>3, <2>4, <3>1
    <3>4. j \in 1..c /\ \A k \in j+1..c : k \in j+1..c + 1  BY ONLY <3>2, <3>3
    <3> QED  BY <2>2, <3>1, <3>4
  <2>6. FillsBy(prog, Me.kids, Top.i)
    BY <2>3, <2>5 DEF FillsBy, Me
  <2>7. FilledUpto(Top)
    BY <2>2 DEF Good, Whole, Found, Finds, Me
  <2>8. Filled(blocks, ip.at)
    BY <2>6, <2>7 DEF FilledUpto, Me
  <2> QED  BY <2>2, <2>8
<1>8. Jumped'
  <2>1. ~EndsOnce(blocks', ip'.at)  BY LinkedEnds
  <2> QED  BY <2>1 DEF Jumped, Complete
<1> QED  BY <1>6, <1>7, <1>8

------------------------------------------------------------------------------
(* Where defers have been reached *)

Attentive == \A k \in 1..Len(stack) : Here(stack[k])

LEMMA HereStep ==
  ASSUME Good, Coding(Top), ~Ending, prog' = prog, NEW f, Beneath(stack, stack', f), Coding(f),
         ip'.at = ip.at \/ Me.kind \in Branches \cup Loops,
         \A n \in Node : AllAt(n, ip.at) =>
           \A j \in 1..Len(deferrals'[n]) : deferrals'[n][j].at = ip.at,
         Doing(prog, f, {"match", "typeswitch"}) /\ Busy(prog, f) =>
           \A j \in 1..Len(deferrals'[Callee(prog, f)]) : deferrals'[Callee(prog, f)][j].at = ip'.at,
         \A k \in 1..Len(stack') : k = Len(stack) + 1 =>
           \/ Coding(stack'[k])
           \/ /\ stack'[k].act = "exit" /\ stack'[k].pc = 0
              /\ \A j \in 1..Len(deferrals'[stack'[k].n]) : deferrals'[stack'[k].n][j].at = ip'.at
  PROVE  Attentive'
<1>1. /\ Len(stack) \in Nat \ {0}
      /\ \A k \in 1..Len(stack) - 1 : k \in 1..Len(stack)
  <2>1. Len(stack) \in Nat \ {0}  BY Running
  <2> QED  BY <2>1
<1>2. /\ ~Final
      /\ \A k \in 1..Len(stack) - 1 : ~Unwinding(stack[k])
      /\ Me.kind \in Branches \cup Loops => \A k \in 1..Len(stack) - 1 : ~InArm(prog, stack[k])
  BY Alone, InPlace
<1>3. SUFFICES ASSUME NEW k \in 1..Len(stack'), NEW g, g = stack'[k]
               PROVE  Here(g)'
  <2>1. PICK t : t = stack'  OBVIOUS
  <2>2. \A k \in 1..Len(t) : Here(t[k])'  BY <2>1, <1>3
  <2> QED  BY <2>1, <2>2 DEF Attentive, Here, AllAt
<1>4. ASSUME k \in 1..Len(stack) - 1, g = stack[k]
      PROVE  Here(g)'
  <2>1. g.act \notin {"exit", "apply"}  BY <1>2, <1>4 DEF Unwinding
  <2>2. ASSUME Doing(prog, g, {"match", "typeswitch"}), Busy(prog, g)
        PROVE  \A j \in 1..Len(deferrals'[Callee(prog, g)]) : deferrals'[Callee(prog, g)][j].at = ip'.at
    <3>1. InArm(prog, g)  BY <2>2 DEF Doing, InArm
    <3>2. ip'.at = ip.at  BY <1>2, <1>4, <3>1
    <3>3. AllAt(Callee(prog, g), ip.at)
      BY <1>1, <1>2, <1>4, <2>2 DEF Good, Whole, Remembered, Here
    <3>4. Callee(prog, g) \in Node
      <4>1. FrameOK(g, Promised(k)) /\ g \in Frame /\ g.n \in Node
        BY <1>1, <1>4, Running DEF Good, IInv, StackOK
      <4>2. /\ Rooted(prog) /\ \A j \in 1..Len(prog[g.n].kids) : prog[g.n].kids[j] \in Node
            /\ prog[g.n].arg \in Nat /\ WellFormedNode(prog[g.n]) /\ Len(prog[g.n].kids) \in Nat
        BY <4>1, KidsAreNodes DEF Good
      <4>3. CASE prog[g.n].kind = "match"
        <5>1. g.i \in 1..Len(prog[g.n].kids)
          BY <2>2, <4>1, <4>3 DEF FrameOK, CodegenOK, Doing, Coding, Busy
        <5> QED  BY <4>2, <4>3, <5>1 DEF Callee
      <4>4. CASE prog[g.n].kind = "typeswitch"
        <5>1. prog[g.n].arg # 0
          BY <2>2, <4>1, <4>4 DEF FrameOK, CodegenOK, Doing, Coding
        <5>2. prog[g.n].arg \in 1..Len(prog[g.n].kids)
          BY <4>2, <4>4, <5>1, KidNumbers
        <5> QED  BY <4>2, <4>4, <5>2 DEF Callee
      <4> QED  BY <2>2, <4>3, <4>4 DEF Doing
    <3> QED  BY <3>2, <3>3, <3>4
  <2> QED  BY <2>1, <2>2 DEF Here, AllAt
<1>5. ASSUME g = f
      PROVE  Here(g)'
  BY <1>5 DEF Here, AllAt, Coding
<1>6. ASSUME k = Len(stack) + 1, ~Coding(g) \/ g.pc = 0
      PROVE  Here(g)'
  <2>1. ~Doing(prog, g, {"match", "typeswitch"})  BY <1>6, NothingPending
  <2>2. CASE Coding(g)
    BY <2>1, <2>2 DEF Here, AllAt, Coding
  <2>3. CASE g.act = "exit" /\ g.pc = 0 /\ \A j \in 1..Len(deferrals'[g.n]) : deferrals'[g.n][j].at = ip'.at
    BY <2>1, <2>3 DEF Here, AllAt
  <2> QED  BY <1>3, <1>6, <2>2, <2>3
<1> QED  BY <1>3, <1>4, <1>5, <1>6 DEF Beneath

------------------------------------------------------------------------------
(* The steps of codegen *)

(* A call of codegen returns.                                              *)
LEMMA WholeReturn ==
  ASSUME Good, Coding(Top), ~Ending, Lowered, Linked(blocks'), NEW n, n = Top.n,
         Len(blocks') = Len(blocks),
         \A b \in Made : b # ip.at /\ b \notin Pending(prog, Top) => Alike(blocks, blocks', b),
         ip'.at \in {ip.at} \cup Pending(prog, Top),
         \A b \in {ip.at} \cup Pending(prog, Top) : b = ip'.at \/ EndsOnce(blocks', b),
         Open(blocks', ip'.at) \/ EndsOnce(blocks', ip'.at),
         ip'.back => EndsOnce(blocks', ip'.at),
         LeftBy(n)',
         Me.kind \in {"nop", "defer"} => (Filled(blocks, ip.at) => Filled(blocks', ip'.at)),
         ip'.at = ip.at \/ Me.kind \in Branches \cup Loops,
         \A m \in Node : m # Top.n => held'[m] = held[m],
         layout'[Len(layout')] = layout[Len(layout)] \/ Me.kind \in Branches \cup Loops,
         InOrder(prog, stack', layout', ip'.at),
         Jumped'
  PROVE  Whole'
<1>1. prog' = prog /\ deferrals' = deferrals /\ lowered' = lowered \cup {Top.n} /\ Return
  BY DEF Lowered, tree
<1>2. /\ Chain(prog, stack') /\ Popped(stack, stack')
      /\ Len(stack) > 1 /\ Len(stack') \in Nat \ {0} /\ Top' = Caller
  BY <1>1, ChainGone DEF Coding
<1>3. PICK f : f = Enter("codegen", Top.n)
  OBVIOUS
<1>4. /\ Coding(f) /\ f.pc = 0 /\ Pending(prog, f) = {} /\ ~Awaits(f)
      /\ \A K : ~Doing(prog, f, K)
  <2>1. Coding(f) /\ f.pc = 0  BY <1>3 DEF Enter, Coding
  <2> QED  BY <2>1, NothingPending
<1>5. /\ Beneath(stack, stack', f) /\ Staying(stack, stack') /\ stack' # <<>>
      /\ \A k \in 1..Len(stack') : k # Len(stack) + 1
  <2>1. Len(stack) \in Nat /\ Len(stack') = Len(stack) - 1  BY <1>2 DEF Popped
  <2>2. \A k \in 1..Len(stack') : k \in 1..Len(stack) - 1  BY <2>1
  <2>3. \A k \in 1..Len(stack) - 1 : k \in 1..Len(stack')  BY <2>1
  <2>4. stack' # <<>>  BY <1>2
  <2>5. \A k \in 1..Len(stack') : k # Len(stack) + 1  BY <2>1
  <2> QED  BY <1>2, <2>2, <2>3, <2>4, <2>5 DEF Beneath, Staying, Popped
<1>6. ~Final /\ ~Final' /\ stack'[1] = stack[1]
  BY <1>2, <1>4, <1>5, Alone, StillRunning
<1>7. Blocks'
  <2>1. PICK N : N = {}  OBVIOUS
  <2>2. Made' = Made \cup N /\ N \cap Made = {}
    BY <2>1 DEF Made
  <2> QED  BY <1>1, <1>4, <1>5, <1>6, <2>1, <2>2, BlocksStep
<1>8. Found'
  <2>1. Resumes' /\ Pauses'
    BY <1>1, ReturnFinds
  <2> QED  BY <1>1, <1>2, <1>4, <1>5, <2>1, FoundStep
<1>9. Order'
  BY <1>1, <1>4, <1>5, OrderStep
<1>10. Starts'
  <2>1. Begun' = Begun \cup {}
    <3>1. /\ CodingIn(stack') \subseteq CodingIn(stack)
          /\ CodingIn(stack) \subseteq CodingIn(stack') \cup {Top.n}
          /\ Top.n \in Begun
      BY <1>2, BegunIs, CodingPopped DEF Top
    <3> QED  BY <1>1, <3>1, BegunIs
  <2>2. \A k \in 1..Len(stack') : k \in 1..Len(stack) - 1 /\ stack'[k] = stack[k]
    <3>1. Len(stack) \in Nat /\ Len(stack') = Len(stack) - 1  BY <1>2 DEF Popped
    <3>2. \A k \in 1..Len(stack') : k \in 1..Len(stack) - 1  BY <3>1
    <3> QED  BY <1>2, <3>2 DEF Popped
  <2>3. PICK g, K : g = Top /\ K = {}  OBVIOUS
  <2>4. /\ g.n = Top.n /\ Begun' = Begun \cup K
        /\ \A j \in 1..Len(Me.kids) : Later(prog, g, j) => Later(prog, Top, j)
        /\ \A k \in 1..Len(stack') : Coding(stack'[k]) =>
             (k \in 1..Len(stack) - 1 /\ stack'[k] = stack[k]) \/ stack'[k] = g \/ stack'[k].n \in K
        /\ \A m \in Node : deferrals'[m] # <<>> => deferrals[m] # <<>> \/ m = Top.n
    BY <1>1, <2>1, <2>2, <2>3
  <2> QED  BY <1>1, <1>6, <2>3, <2>4, StartsStep
<1>11. Remembered'
  <2>1. Attentive'
    BY <1>1, <1>4, <1>5, HereStep DEF AllAt
  <2> QED  BY <1>1, <2>1 DEF Good, Whole, Remembered, Attentive
<1> QED  BY <1>1, <1>2, <1>7, <1>8, <1>9, <1>10, <1>11 DEF Whole

(* A call of codegen calls that of a part.                                 *)
LEMMA WholeCall ==
  ASSUME Good, Coding(Top), ~Ending, prog' = prog, lowered' = lowered, deferrals' = deferrals,
         Linked(blocks'), ip' \in InsertPoint, ip'.at \in 1..Len(blocks'), ~ip'.back,
         NEW i \in 1..Len(Me.kids), NEW f, Invoke(f, Enter("codegen", Kid(i))),
         f.act = Top.act, f.n = Top.n, Busy(prog, f), Callee(prog, f) = Kid(i),
         Me.kind = "match" => f.pc = 2, Me.kind = "typeswitch" => f.pc = 1 /\ Me.arg # 0,
         Later(prog, Top, i), ~Later(prog, f, i),
         \A j \in 1..Len(Me.kids) : Later(prog, f, j) => Later(prog, Top, j),
         NEW N, Made' = Made \cup N, N \cap Made = {},
         Pending(prog, f) \subseteq Pending(prog, Top) \cup N,
         \A b \in Pending(prog, f) : Open(blocks', b) /\ b # ip'.at,
         \A b \in Made : b # ip.at /\ b \notin Pending(prog, Top) => Alike(blocks, blocks', b),
         ip'.at \in {ip.at} \cup Pending(prog, Top) \cup N,
         \A b \in {ip.at} \cup Pending(prog, Top) \cup N :
           b = ip'.at \/ b \in Pending(prog, f) \/ EndsOnce(blocks', b),
         Open(blocks', ip'.at),
         Me.kind = "body" => /\ i = Top.i + 1 /\ f.i = i
                             /\ Filled(blocks, ip.at) => Filled(blocks', ip'.at),
         ip'.at = ip.at \/ Me.kind \in Branches \cup Loops,
         \A m \in Node : m # Top.n => held'[m] = held[m],
         Doing(prog, f, {"while"}) => f.y = f.x + 2 /\ held'[f.n].a = f.x + 1,
         Doing(prog, f, {"match"}) => f.y = f.x + 1,
         Doing(prog, f, {"for", "match"}) => f.y = layout'[Len(layout')],
         layout'[Len(layout')] = layout[Len(layout)] \/ Me.kind \in Branches \cup Loops,
         InOrder(prog, stack', layout', ip'.at)
  PROVE  Whole'
<1>1. PICK g : g = Enter("codegen", Kid(i))
  OBVIOUS
<1>2. /\ g.act = "codegen" /\ g.n = Kid(i) /\ g.pc = 0 /\ Coding(g) /\ Coding(f)
      /\ Me.kind \in Loops => f.pc # 0
  BY <1>1 DEF Enter, Coding, Busy, Me, Loops
<1>3. Calls(prog, f, g)
  BY <1>2 DEF Calls, Me
<1>4. Me.kind \in {"for", "match", "typeswitch"} => StraightLine(prog, Kid(i))
  <2>1. SupportedStmt(prog, Top.n) /\ Me.kids[i] \in ToSet(Me.kids) /\ Kid(i) = Me.kids[i]
    BY Running, KidFine DEF Kid
  <2>2. CASE Me.kind = "for"
    <3>1. Kid(i) = Me.kids[1]  BY <2>2 DEF Callee, Me
    <3> QED  BY <2>1, <2>2, <3>1 DEF SupportedStmt, Me
  <2>3. CASE Me.kind = "match"
    BY <2>1, <2>3 DEF SupportedStmt, Me
  <2>4. CASE Me.kind = "typeswitch"
    <3>1. Kid(i) = Me.kids[Me.arg]  BY <2>4 DEF Callee, Me
    <3>2. Me.arg # 0
      BY <2>4
    <3>3. Me.kids[Me.arg] \in Parts(Me)  BY <2>4, <3>2 DEF Parts
    <3> QED  BY <2>1, <2>4, <3>1, <3>3 DEF SupportedStmt, Me
  <2> QED  BY <2>2, <2>3, <2>4
<1>5. Chain(prog, stack') /\ Called(stack, stack', f, g)
  BY <1>1, <1>2, <1>3, <1>4, CallKid
<1>6. /\ Beneath(stack, stack', f) /\ Staying(stack, stack') /\ stack' # <<>> /\ Len(stack') \in Nat
      /\ Len(stack) \in 1..Len(stack') /\ stack'[Len(stack)] = f
      /\ \A k \in 1..Len(stack') : k = Len(stack) + 1 => stack'[k] = g
  <2>1. PICK n, m : n = Len(stack) /\ m = Len(stack')  OBVIOUS
  <2>2. n \in Nat \ {0} /\ m = n + 1  BY <1>5, <2>1 DEF Called
  <2>3. \A k \in 1..m : k \in 1..n - 1 \/ k = n \/ k = n + 1  BY ONLY <2>2
  <2>4. \A k \in 1..n - 1 : k \in 1..m  BY ONLY <2>2
  <2>5. m \in Nat /\ n \in 1..m /\ m # 0  BY ONLY <2>2
  <2>6. stack' # <<>>  BY <2>1, <2>5
  <2> QED  BY <1>2, <1>5, <2>1, <2>3, <2>4, <2>5, <2>6 DEF Beneath, Staying, Called
<1>7. ~Final /\ ~Final' /\ stack'[1] = stack[1]
  BY <1>2, <1>6, Alone, StillRunning
<1>8. Blocks'
  BY <1>6, <1>7, BlocksStep
<1>9. Kid(i) \notin Begun /\ deferrals[Kid(i)] = <<>>
  <2>1. /\ Len(stack) \in 1..Len(stack) /\ Top = stack[Len(stack)] /\ Kid(i) \in Node
    BY Running, KidFine DEF Top
  <2>2. Kid(i) \notin Begun
    BY <2>1 DEF Good, Whole, Starts, Me, Kid
  <2> QED  BY <2>1, <2>2 DEF Good, Whole, Starts
<1>10. Found'
  <2>1. Resumes' /\ Pauses' /\ Jumped'
    BY <1>1, <1>2, <1>5, CallFinds
  <2>2. ~Awaits(f)
    BY <1>2 DEF Awaits, Doing, Me
  <2> QED  BY <1>2, <1>6, <2>1, <2>2, FoundStep
<1>11. Order'
  BY <1>6, OrderStep
<1>12. Starts'
  <2>1. PICK K : K = {Kid(i)}  OBVIOUS
  <2>2. Begun' = Begun \cup K
    <3>1. CodingIn(stack') = CodingIn(stack) \cup {g.n}
      BY <1>2, <1>5, CodingCalled DEF Top
    <3> QED  BY <1>2, <2>1, <3>1, BegunIs
  <2>3. /\ \A k \in 1..Len(stack') : Coding(stack'[k]) =>
             (k \in 1..Len(stack) - 1 /\ stack'[k] = stack[k]) \/ stack'[k] = f \/ stack'[k].n \in K
    BY <1>2, <1>6, <2>1 DEF Beneath
  <2>4. \A m \in Node : deferrals'[m] # <<>> => deferrals[m] # <<>> \/ m = Top.n
    OBVIOUS
  <2> QED  BY <1>7, <2>1, <2>2, <2>3, <2>4, StartsStep
<1>13. Remembered'
  <2>1. Len(<<>>) = 0 /\ \A j \in 1..0 : FALSE
    BY EmptySeq
  <2>2. \A k \in 1..Len(stack') : k = Len(stack) + 1 => Coding(stack'[k])
    BY <1>2, <1>6
  <2>3. Attentive'
    BY <1>2, <1>6, <1>9, <2>1, <2>2, HereStep DEF AllAt
  <2> QED  BY <2>3 DEF Good, Whole, Remembered, Attentive
<1> QED  BY <1>5, <1>8, <1>10, <1>11, <1>12, <1>13 DEF Whole

(* What a call of codegen may rely on.                                     *)
LEMMA CodingFacts ==
  ASSUME Good, NEW kind, NEW pc, InCall("codegen", kind, pc)
  PROVE  /\ Coding(Top) /\ Me.kind = kind /\ Top.pc = pc /\ Top.act = "codegen"
         /\ kind # "expr" => ~Ending
         /\ CodegenOK(Top, lowered) /\ Top.todo \in Seq(Made)
         /\ Top \in Frame /\ Top.n \in Node /\ Top.n \in Nat /\ Top.i \in Nat /\ prog[Top.n] = Me
         /\ WellFormedNode(Me) /\ Len(Me.kids) \in Nat /\ Me.arg \in Nat
         /\ \A i \in 1..Len(Me.kids) : Kid(i) = Me.kids[i]
         /\ SupportedStmt(prog, Top.n) /\ Rooted(prog)
<1>1. Top.act = "codegen" /\ Me.kind = kind /\ Top.pc = pc
  BY DEF InCall
<1>2. Coding(Top)
  BY <1>1 DEF Coding
<1>3. kind # "expr" => ~Ending
  BY <1>1, <1>2, InPlace
<1>4. CodegenOK(Top, lowered) /\ Top.todo \in Seq(Made)
  BY CodegenCall DEF Good
<1>5. WellFormedNode(Me) /\ Len(Me.kids) \in Nat /\ Me.arg \in Nat
  BY Running, RunningCall DEF Good
<1>6. /\ Top \in Frame /\ Top.n \in Node /\ Top.n \in Nat /\ Top.i \in Nat
      /\ SupportedStmt(prog, Top.n) /\ Rooted(prog)
  BY Running DEF Good
<1>7. prog[Top.n] = Me /\ \A i \in 1..Len(Me.kids) : Kid(i) = Me.kids[i]
  BY DEF Me, Kid
<1> QED  BY <1>1, <1>2, <1>3, <1>4, <1>5, <1>6, <1>7

LEMMA BlockFacts ==
  ASSUME Good
  PROVE  /\ Linked(blocks) /\ Len(blocks) \in Nat \ {0} /\ Made = 1..Len(blocks)
         /\ ip \in InsertPoint /\ ip.at \in Made /\ ip.at \in 1..Len(blocks)
         /\ ip.back => Complete(ip.at)
         /\ \A b \in Made : /\ blocks[b].insts \in Seq(InstIn(Len(blocks)))
                            /\ Open(blocks, b) \/ Complete(b)
                            /\ Complete(b) => ~Open(blocks, b) /\ Filled(blocks, b) /\ HasTerminator(blocks, b)
                            /\ HasTerminator(blocks, b) => ~Open(blocks, b)
         /\ Open(blocks, ip.at) => ~ip.back
         /\ Pending(prog, Top) \subseteq Made
         /\ \A b \in Pending(prog, Top) : Open(blocks, b) /\ b # ip.at
         /\ Coding(Top) /\ ~Ending => Finds(Top)
         /\ layout \in Seq(Made) /\ layout # <<>> /\ Distinct(layout)
         /\ ToSet(layout) \subseteq Made
<1>1. /\ Linked(blocks) /\ blocks # <<>> /\ ip \in InsertPoint /\ ip.at \in Made
      /\ layout \in Seq(Made) /\ layout # <<>> /\ Distinct(layout)
  BY DEF Good, IInv, BlocksOK, IpOK, LayoutOK, Placement
<1>2. Made = 1..Len(blocks)
  BY DEF Made
<1>3. Len(blocks) \in Nat \ {0}
  <2>1. Len(blocks) \in Nat  BY <1>1, <1>2, LinkedProperties
  <2>2. blocks \in Seq(Block)  BY <1>1, LinkedBlocks
  <2> QED  BY <1>1, <2>1, <2>2, EmptySeq
<1>4. /\ \A b \in Made : Open(blocks, b) \/ Complete(b)
      /\ \A k \in 1..Len(stack) : \A b \in PendingAt(k) : Open(blocks, b) /\ b # ip.at
      /\ ip.back => Complete(ip.at)
      /\ Coding(Top) /\ ~Ending => Finds(Top)
  BY DEF Good, Whole, Blocks, Found
<1>5. \A b \in Made : /\ blocks[b].insts \in Seq(InstIn(Len(blocks)))
                      /\ Complete(b) => ~Open(blocks, b) /\ Filled(blocks, b) /\ HasTerminator(blocks, b)
                      /\ HasTerminator(blocks, b) => ~Open(blocks, b)
  BY <1>1, <1>2, LinkedProperties, LinkedEnds DEF Complete
<1>6. /\ Len(stack) \in 1..Len(stack) /\ PendingAt(Len(stack)) = Pending(prog, Top)
  BY Running DEF PendingAt, Top
<1>7. Pending(prog, Top) \subseteq Made
  BY <1>6, PendingMade
<1>8. \A b \in Pending(prog, Top) : Open(blocks, b) /\ b # ip.at
  BY <1>4, <1>6
<1>9. ToSet(layout) \subseteq Made
  BY <1>1, ToSetOf
<1> QED  BY <1>1, <1>2, <1>3, <1>4, <1>5, <1>7, <1>8, <1>9

(* A call that returns without having moved anything.                      *)
LEMMA QuietReturn ==
  ASSUME Good, Coding(Top), ~Ending, Return, Me.kind \notin {"while", "for", "match"}
  PROVE  /\ InOrder(prog, stack', layout, ip.at)
         /\ blocks' = blocks /\ ip' = ip /\ prog' = prog => Jumped'
<1>1. Popped(stack, stack') /\ Len(stack) \in Nat \ {0}
  BY Running, ChainGone DEF Coding
<1>2. PICK f : f = Enter("codegen", Top.n)
  OBVIOUS
<1>3. \A K : ~Doing(prog, f, K)
  <2>1. f.pc = 0  BY <1>2 DEF Enter
  <2> QED  BY <2>1, NothingPending
<1>4. \A k \in 1..Len(stack) - 1 : k \in 1..Len(stack') /\ k \in 1..Len(stack) /\ stack'[k] = stack[k]
  <2>1. Len(stack') = Len(stack) - 1  BY <1>1 DEF Popped
  <2>2. \A k \in 1..Len(stack) - 1 : k \in 1..Len(stack') /\ k \in 1..Len(stack)  BY <1>1, <2>1
  <2> QED  BY <1>1, <2>2 DEF Popped
<1>5. \A k \in 1..Len(stack) : k \in 1..Len(stack) - 1 \/ k = Len(stack)
  BY <1>1
<1>6. Beneath(stack, stack', f) /\ Staying(stack, stack')
  <2>1. \A k \in 1..Len(stack') : k \in 1..Len(stack) - 1
    BY <1>1 DEF Popped
  <2> QED  BY <1>1, <1>4, <2>1 DEF Beneath, Staying, Popped
<1>7. ~Doing(prog, Top, {"while", "for", "match"})
  BY DEF Doing, Me
<1>8. InOrder(prog, stack', layout, ip.at)
  BY <1>3, <1>6, <1>7, Alone, OrderQuiet
<1>9. ASSUME blocks' = blocks, ip' = ip, prog' = prog,
             EndsOnce(blocks', ip'.at), \A k \in 1..Len(stack') : ~Iterates(prog, stack'[k])
      PROVE  ReturnsIn(blocks', ip'.at)
  <2>1. \A k \in 1..Len(stack) : ~Iterates(prog, stack[k])
    BY <1>4, <1>5, <1>9, <1>7 DEF Iterates, Doing, Loops, Top
  <2>2. ~Doing(prog, Top, {"match"})
    BY DEF Doing, Me
  <2> QED  BY <1>9, <2>1, <2>2, Alone DEF Good, Whole, Found, Complete
<1>10. blocks' = blocks /\ ip' = ip /\ prog' = prog => Jumped'
  BY <1>9 DEF Jumped, Complete, Iterates
<1> QED  BY <1>8, <1>10

(* A step that ends where the builder is in an open block.                 *)
LEMMA OpenJumped ==
  ASSUME IInv', Open(blocks', ip'.at)
  PROVE  Jumped'
<1>1. Linked(blocks') /\ ip'.at \in 1..Len(blocks')
  BY DEF IInv, BlocksOK, IpOK, Made
<1>2. ~EndsOnce(blocks', ip'.at)
  BY <1>1, LinkedEnds
<1> QED  BY <1>2 DEF Jumped, Complete

(* A statement leaves all as its last part did.                            *)
LEMMA QuietWhole ==
  ASSUME Good, IInv', Coding(Top), ~Ending, Lowered,
         blocks' = blocks, layout' = layout, ip' = ip, held' = held,
         Me.kind \notin {"if", "while", "for", "match"}, NEW n, n = Top.n, LeftBy(n)
  PROVE  Whole'
<1>1. Return /\ prog' = prog
  BY DEF Lowered, tree
<1>2. Pending(prog, Top) = {}
  <2>1. ~Doing(prog, Top, {"if", "while", "for", "match"})  BY DEF Doing, Me
  <2> QED  BY <2>1, PendingIs
<1>3. LeftBy(n)'
  BY <1>1 DEF LeftBy
<1>4. InOrder(prog, stack', layout, ip.at) /\ Jumped'
  BY <1>1, QuietReturn
<1>5. Linked(blocks') /\ Len(blocks') = Len(blocks)
  BY BlockFacts
<1>6. \A b \in Made : Alike(blocks, blocks', b)
  BY SameAlike
<1>7. /\ Open(blocks', ip'.at) \/ EndsOnce(blocks', ip'.at)
      /\ ip'.back => EndsOnce(blocks', ip'.at)
  BY BlockFacts DEF Complete
<1> QED  BY <1>1, <1>2, <1>3, <1>4, <1>5, <1>6, <1>7, WholeReturn

(* A comment, or a defer that is reached.                                  *)
LEMMA SilentWhole ==
  ASSUME Good, IInv', Silent
  PROVE  Whole'
<1>1. PICK kind \in {"nop", "defer"} : InCall("codegen", kind, 0)
  BY DEF Silent
<1>2. Lowered /\ blocks' = blocks /\ layout' = layout /\ ip' = ip /\ held' = held
  BY DEF Silent, code
<1>3. /\ Coding(Top) /\ Me.kind \in {"nop", "defer"} /\ ~Ending /\ Top.n \in Node /\ Rooted(prog)
      /\ prog[Top.n] = Me
  BY <1>1, CodingFacts
<1>4. Open(blocks, ip.at)
  <2>1. Finds(Top)  BY <1>3, BlockFacts
  <2>2. ~Busy(prog, Top) /\ Me.kind # "match"  BY <1>3 DEF Busy
  <2> QED  BY <1>3, <2>1, <2>2 DEF Finds
<1>5. PICK n : n = Top.n
  OBVIOUS
<1>6. LeftBy(n)
  <2>1. ~EndsFilled(prog)[n]
    BY <1>3, <1>5, FilledFacts
  <2> QED  BY <1>4, <2>1 DEF LeftBy
<1> QED  BY <1>2, <1>3, <1>5, <1>6, QuietWhole

(* The end of a body.                                                      *)
LEMMA BodyEndWhole ==
  ASSUME Good, IInv', BodyEnd
  PROVE  Whole'
<1>1. InCall("codegen", "body", 0) /\ Top.i = Len(Me.kids)
  BY DEF BodyEnd
<1>2. Lowered /\ blocks' = blocks /\ layout' = layout /\ ip' = ip /\ held' = held
  BY DEF BodyEnd, code
<1>3. /\ Coding(Top) /\ Me.kind = "body" /\ ~Ending /\ Top.n \in Node /\ Rooted(prog)
      /\ prog[Top.n] = Me
  BY <1>1, CodingFacts
<1>4. PICK n : n = Top.n
  OBVIOUS
<1>5. Finds(Top)
  BY <1>3, BlockFacts
<1>6. Open(blocks, ip.at) \/ Leaves(prog)[n]
  <2>1. CASE Top.i = 0
    <3>1. ~Busy(prog, Top)  BY <1>3, <2>1 DEF Busy
    <3> QED  BY <1>3, <1>5, <3>1 DEF Finds
  <2>2. CASE Top.i # 0
    <3>1. Busy(prog, Top) /\ Callee(prog, Top) = Me.kids[Len(Me.kids)]
      BY <1>1, <1>3, <2>2 DEF Busy, Callee
    <3>2. Open(blocks, ip.at) \/ Leaves(prog)[Me.kids[Len(Me.kids)]]
      BY <1>5, <3>1 DEF Finds, LeftBy
    <3> QED  BY <1>1, <1>3, <1>4, <2>2, <3>2, LeavesFacts
  <2> QED  BY <2>1, <2>2
<1>7. EndsFilled(prog)[n] => Filled(blocks, ip.at)
  <2> HAVE EndsFilled(prog)[n]
  <2>1. FillsBy(prog, Me.kids, Len(Me.kids))
    BY <1>3, <1>4, FilledFacts
  <2> QED  BY <1>1, <1>3, <1>5, <2>1 DEF Finds, FilledUpto
<1>8. LeftBy(n)
  BY <1>6, <1>7 DEF LeftBy
<1> QED  BY <1>2, <1>3, <1>4, <1>8, QuietWhole

(* The end of a typeswitch.                                                *)
LEMMA TypeSwitchEndWhole ==
  ASSUME Good, IInv', TypeSwitchEnd
  PROVE  Whole'
<1>1. PICK pc : /\ InCall("codegen", "typeswitch", pc)
                /\ (pc = 0 /\ Me.arg = 0) \/ pc = 2
  BY DEF TypeSwitchEnd
<1>2. Lowered /\ blocks' = blocks /\ layout' = layout /\ ip' = ip /\ held' = held
  BY DEF TypeSwitchEnd, code
<1>3. /\ Coding(Top) /\ Me.kind = "typeswitch" /\ Top.pc = pc /\ ~Ending /\ Top.n \in Node /\ Rooted(prog)
      /\ prog[Top.n] = Me /\ CodegenOK(Top, lowered)
  BY <1>1, CodingFacts
<1>4. PICK n : n = Top.n
  OBVIOUS
<1>5. Finds(Top)
  BY <1>3, BlockFacts
<1>6. Open(blocks, ip.at) \/ Leaves(prog)[n]
  <2>1. CASE pc = 0
    <3>1. ~Busy(prog, Top)  BY <1>3, <2>1 DEF Busy
    <3> QED  BY <1>3, <1>5, <3>1 DEF Finds
  <2>2. CASE pc # 0
    <3>1. Busy(prog, Top) /\ Callee(prog, Top) = Me.kids[Me.arg] /\ Me.arg # 0
      BY <1>1, <1>3, <2>2 DEF Busy, Callee, CodegenOK
    <3>2. Open(blocks, ip.at) \/ Leaves(prog)[Me.kids[Me.arg]]
      BY <1>5, <3>1 DEF Finds, LeftBy
    <3> QED  BY <1>3, <1>4, <3>1, <3>2, LeavesFacts
  <2> QED  BY <2>1, <2>2
<1>7. ~EndsFilled(prog)[n]
  BY <1>3, <1>4, FilledFacts
<1>8. LeftBy(n)
  BY <1>6, <1>7 DEF LeftBy
<1> QED  BY <1>2, <1>3, <1>4, <1>8, QuietWhole

(* An instruction that falls in an open block: an expression, a return or  *)
(* a jump.                                                                 *)
LEMMA EmitWhole ==
  ASSUME Good, IInv', Coding(Top), ~Ending, Lowered, NEW n, n = Top.n,
         Me.kind \in {"expr", "return", "break", "continue"},
         NEW inst \in InstIn(Len(blocks)), blocks' = Emit(blocks, ip, inst),
         layout' = layout, ip' = ip, held' = held,
         Me.kind = "expr" <=> ~IsTerminator(inst),
         Me.kind = "return" => inst.op = "ret",
         Me.kind \in {"break", "continue"} => \E k \in 1..Len(stack) - 1 : Iterates(prog, stack[k])
  PROVE  Whole'
<1>1. Return /\ prog' = prog
  BY DEF Lowered, tree
<1>2. Pending(prog, Top) = {}
  <2>1. ~Doing(prog, Top, {"if", "while", "for", "match"})  BY DEF Doing, Me
  <2> QED  BY <2>1, PendingIs
<1>3. Open(blocks, ip.at) /\ ~ip.back
  <2>1. Finds(Top)  BY BlockFacts
  <2>2. ~Busy(prog, Top) /\ Me.kind # "match"  BY DEF Busy, Me
  <2> QED  BY <2>1, <2>2, BlockFacts DEF Finds, Me
<1>4. /\ Filled(blocks', ip.at)
      /\ Me.kind = "expr" => Open(blocks', ip.at)
      /\ Me.kind # "expr" => EndsOnce(blocks', ip.at)
      /\ Me.kind = "return" => ReturnsIn(blocks', ip.at)
  BY <1>3, BlockFacts, EmitAtEnd
<1>5. \A b \in Made : b # ip.at => Alike(blocks, blocks', b)
  BY BlockFacts, EmitElsewhere
<1>6. Linked(blocks') /\ Len(blocks') = Len(blocks)
  BY EmitHere DEF Good
<1>7. LeftBy(n)'
  <2>1. Me.kind # "expr" => Leaves(prog)[n]
    <3>1. Rooted(prog) /\ n \in Node /\ prog[n] = Me  BY Running DEF Good, Me
    <3> QED  BY <3>1, LeavesFacts
  <2> QED  BY <1>1, <1>4, <2>1 DEF LeftBy
<1>8. InOrder(prog, stack', layout, ip.at)
  BY <1>1, QuietReturn
<1>9. Jumped'
  <2>1. CASE Me.kind = "expr"
    BY <1>4, <2>1, OpenJumped
  <2>2. CASE Me.kind = "return"
    BY <1>4, <2>2 DEF Jumped
  <2>3. CASE Me.kind \in {"break", "continue"}
    <3>1. PICK k \in 1..Len(stack) - 1 : Iterates(prog, stack[k])  BY <2>3
    <3>2. Popped(stack, stack')
      BY <1>1, ChainGone DEF Coding
    <3>3. k \in 1..Len(stack') /\ stack'[k] = stack[k]
      BY <3>2 DEF Popped
    <3> QED  BY <1>1, <3>1, <3>3 DEF Jumped, Iterates
  <2> QED  BY <2>1, <2>2, <2>3
<1> QED  BY <1>1, <1>2, <1>3, <1>4, <1>5, <1>6, <1>7, <1>8, <1>9, WholeReturn

LEMMA StraightWhole ==
  ASSUME Good, IInv', Straight, ~Ending
  PROVE  Whole'
<1>1. PICK kind \in {"expr", "return"} : InCall("codegen", kind, 0)
  BY DEF Straight
<1>2. Coding(Top) /\ Me.kind = kind /\ Top.n \in Nat /\ Me.arg \in Nat
  BY <1>1, CodingFacts
<1>3. PICK n, inst : n = Top.n /\ inst = Emitted
  OBVIOUS
<1>4. /\ inst \in InstIn(Len(blocks))
      /\ Me.kind = "expr" <=> ~IsTerminator(inst)
      /\ Me.kind = "return" => inst.op = "ret"
  <2>1. CASE kind = "expr"
    <3>1. inst = Call(n)  BY <1>2, <1>3, <2>1 DEF Emitted
    <3> QED  BY <1>2, <1>3, <2>1, <3>1, InstFacts DEF Call, IsTerminator, Terminators
  <2>2. CASE kind = "return"
    <3>1. inst = Ret(n, Me.arg)  BY <1>2, <1>3, <2>2 DEF Emitted
    <3> QED  BY <1>2, <1>3, <2>2, <3>1, InstFacts DEF Ret, IsTerminator, Terminators, Ops
  <2> QED  BY <2>1, <2>2
<1>5. /\ Lowered /\ layout' = layout /\ ip' = ip /\ held' = held /\ blocks' = Emit(blocks, ip, inst)
  BY <1>3 DEF Straight
<1> QED  BY <1>2, <1>3, <1>4, <1>5, EmitWhole

(* A break or a continue has a loop around it.                             *)
LEMMA JumpWhole ==
  ASSUME Good, IInv', BreakFound \/ ContinueFound
  PROVE  Whole'
<1>1. PICK n : n = Top.n
  OBVIOUS
<1>2. PICK kind \in {"break", "continue"} : InCall("codegen", kind, 1) /\ Top.todo # <<>> /\ IsLoop(Head(Top.todo))
  BY DEF BreakFound, ContinueFound, Searching
<1>3. /\ Coding(Top) /\ Me.kind = kind /\ ~Ending /\ Top.n \in Node /\ Top.n \in Nat /\ Rooted(prog)
      /\ Top.todo \in Seq(Made) /\ prog[Top.n] = Me
  BY <1>2, CodingFacts
<1>4. Head(Top.todo) \in Made
  BY <1>2, <1>3, HeadTailProperties
<1>5. PICK b \in Jumpable : blocks' = Emit(blocks, ip, Jump(n, b))
  <2>1. CASE BreakFound
    <3>1. PICK b \in BreakTargets(Head(Top.todo)) :
            blocks' = Emit(blocks, ip, Jump(n, b))
      BY <1>1, <2>1 DEF BreakFound
    <3>2. PICK p \in ToSet(SinglePred(blocks, Head(Top.todo))) :
            b = Succs(blocks, p)[2] /\ Len(Succs(blocks, p)) = 2
      BY <3>1 DEF BreakTargets
    <3>3. Linked(blocks) /\ Head(Top.todo) \in 1..Len(blocks)
      BY <1>4, BlockFacts
    <3>4. p \in 1..Len(blocks)
      BY <3>2, <3>3, LinkedProperties
    <3>5. Succs(blocks, p) \in Seq(2..Len(blocks))
      BY <3>3, <3>4, LinkedProperties
    <3>6. b \in Jumpable
      <4>1. 2 \in 1..Len(Succs(blocks, p))  BY <3>2
      <4> QED  BY <3>2, <3>5, <4>1, ElementOfSeq DEF Jumpable
    <3> QED  BY <3>1, <3>6
  <2>2. CASE ContinueFound
    <3>1. blocks' = Emit(blocks, ip, Jump(n, Head(Top.todo)))
      BY <1>1, <2>2 DEF ContinueFound, ContinueTarget
    <3>2. Head(Top.todo) # 1
      BY <1>2 DEF IsLoop, Good, IInv, BlocksOK
    <3>3. Head(Top.todo) \in Jumpable
      BY <1>4, <3>2 DEF Made, Jumpable
    <3> QED  BY <3>1, <3>3
  <2> QED  BY <2>1, <2>2
<1>6. PICK inst : inst = Jump(n, b)
  OBVIOUS
<1>7. inst \in InstIn(Len(blocks)) /\ IsTerminator(inst)
  BY <1>1, <1>3, <1>6, InstFacts DEF Jumpable, Jump, IsTerminator, Terminators, Ops
<1>8. \E k \in 1..Len(stack) - 1 : Iterates(prog, stack[k])
  <2>1. ~NoJump(prog, Top.n)
    BY <1>3, SelfHolds DEF Jumps
  <2>2. /\ Chain(prog, stack) /\ Len(stack) \in 1..Len(stack) /\ Top = stack[Len(stack)]
    BY Running DEF Top
  <2>3. ~Unwinding(Top)
    BY <1>3 DEF Coding, Unwinding
  <2> QED  BY <2>1, <2>2, <2>3 DEF Chain
<1>9. /\ Lowered /\ layout' = layout /\ ip' = ip /\ held' = held /\ blocks' = Emit(blocks, ip, inst)
  BY <1>5, <1>6 DEF BreakFound, ContinueFound
<1> QED  BY <1>1, <1>3, <1>7, <1>8, <1>9, EmitWhole

(* Where a branch or an arm ends the builder's block ends, too.            *)
LEMMA FallsThrough ==
  ASSUME Good, Filled(blocks, ip.at), NEW cont \in Jumpable, FallThrough(cont)
  PROVE  /\ EndsOnce(blocks', ip.at) /\ Linked(blocks') /\ Len(blocks') = Len(blocks)
         /\ \A b \in Made : b # ip.at => Alike(blocks, blocks', b)
         /\ ReturnsIn(blocks, ip.at) => ReturnsIn(blocks', ip.at)
<1>1. PICK terminated \in BackIsTerminator(blocks, ip.at) :
        blocks' = IF terminated THEN blocks ELSE Emit(blocks, ip, Br(cont))
  BY DEF FallThrough
<1>2. terminated <=> HasTerminator(blocks, ip.at)
  BY <1>1 DEF BackIsTerminator, HasTerminator, Filled
<1>3. CASE terminated
  <2>1. blocks' = blocks  BY <1>1, <1>3
  <2>2. Complete(ip.at)  BY <1>2, <1>3, BlockFacts
  <2>3. \A b \in Made : Alike(blocks, blocks', b)  BY <2>1, SameAlike
  <2> QED  BY <2>1, <2>2, <2>3, BlockFacts DEF Complete
<1>4. CASE ~terminated
  <2>1. PICK inst : inst = Br(cont)  OBVIOUS
  <2>2. blocks' = Emit(blocks, ip, inst)  BY <1>1, <1>4, <2>1
  <2>3. inst \in InstIn(Len(blocks)) /\ IsTerminator(inst)
    <3>1. 0 \in Nat  OBVIOUS
    <3> QED  BY <2>1, <3>1, InstFacts DEF Jumpable, Br, Jump, IsTerminator, Terminators, Ops
  <2>4. Open(blocks, ip.at) /\ ~ip.back  BY <1>2, <1>4, BlockFacts
  <2>5. EndsOnce(blocks', ip.at)
    BY <2>2, <2>3, <2>4, BlockFacts, EmitAtEnd
  <2>6. \A b \in Made : b # ip.at => Alike(blocks, blocks', b)
    BY <2>2, BlockFacts, EmitElsewhere
  <2>7. Linked(blocks') /\ Len(blocks') = Len(blocks)
    BY <2>2, <2>3, EmitHere DEF Good
  <2>8. ~ReturnsIn(blocks, ip.at)
    BY <1>2, <1>4, BlockFacts, LinkedEnds
  <2> QED  BY <2>5, <2>6, <2>7, <2>8
<1> QED  BY <1>3, <1>4

(* The builder goes to the last block.                                     *)
LEMMA InOrderLast ==
  ASSUME IInv', Placement', NEW b, b = layout'[Len(layout')]
  PROVE  \A p, s : InOrder(p, s, layout', b)
<1>1. PICK lay, M : lay = layout' /\ M = Made'
  OBVIOUS
<1>2. lay \in Seq(M) /\ lay # <<>> /\ Distinct(lay)
  BY <1>1 DEF IInv, LayoutOK, Placement
<1>3. Behind(lay, b) = {} /\ b \in ToSet(lay)
  BY <1>1, <1>2, BehindLast
<1> QED  BY <1>1, <1>3 DEF InOrder

(* A call about an if or a loop leaves its block open behind it.           *)
LEMMA LeavesOpen ==
  ASSUME Good, Open(blocks', ip'.at), prog' = prog,
         Me.kind \in {"if", "while", "for", "match"}, NEW n, n = Top.n
  PROVE  LeftBy(n)'
<1>1. Rooted(prog) /\ n \in Node /\ prog[n] = Me
  BY Running DEF Good, Me
<1>2. ~EndsFilled(prog)[n]
  BY <1>1, FilledFacts
<1> QED  BY <1>2 DEF LeftBy

(* The branches of an if end in a statement of their own.                  *)
LEMMA BranchFilled ==
  ASSUME Good, Coding(Top), ~Ending, Me.kind = "if", Top.pc \in {1, 2}, Top.pc <= Len(Me.kids)
  PROVE  Filled(blocks, ip.at)
<1>1. Finds(Top)
  BY BlockFacts
<1>2. Top.pc \in 1..Len(Me.kids) /\ Me.kids[Top.pc] \in ToSet(Me.kids)
  <2>1. Top.n \in Node /\ Rooted(prog) /\ prog[Top.n] = Me  BY Running DEF Good, Me
  <2>2. Me.kids \in Seq(Node) /\ Len(Me.kids) \in Nat  BY <2>1, KidsAreNodes
  <2>3. Top.pc \in 1..Len(Me.kids)  BY <2>2
  <2> QED  BY <2>3, KidFine DEF Kid
<1>3. Busy(prog, Top) /\ Callee(prog, Top) = Me.kids[Top.pc]
  BY DEF Busy, Callee, Me
<1>4. LeftBy(Me.kids[Top.pc])
  BY <1>1, <1>3 DEF Finds
<1>5. EndsFilled(prog)[Me.kids[Top.pc]]
  <2>1. SupportedStmt(prog, Top.n)  BY Running
  <2> QED  BY <1>2, <2>1 DEF SupportedStmt, Me
<1> QED  BY <1>4, <1>5 DEF LeftBy

(* The end of an if.                                                       *)
LEMMA IfJoinWhole ==
  ASSUME Good, IInv', Placement', IfJoin
  PROVE  Whole'
<1>1. PICK pc : /\ InCall("codegen", "if", pc)
                /\ (pc = 1 /\ ~HasElse) \/ pc = 2
  BY DEF IfJoin
<1>2. /\ Lowered /\ FallThrough(Top.y) /\ Place(Top.y)
      /\ \A m \in Node : m # Top.n => held'[m] = held[m]
  <2>1. held \in [Node -> [a : Nat, b : Nat]]  BY DEF Good, IInv, HeldOK
  <2> QED  BY <2>1 DEF IfJoin
<1>3. /\ Coding(Top) /\ Me.kind = "if" /\ Top.pc = pc /\ ~Ending /\ Top.n \in Node
      /\ CodegenOK(Top, lowered) /\ prog[Top.n] = Me /\ WellFormedNode(Me) /\ Len(Me.kids) \in Nat
  BY <1>1, CodingFacts
<1>4. PICK n, y : n = Top.n /\ y = Top.y
  OBVIOUS
<1>5. y \in Jumpable /\ pc <= Len(Me.kids)
  <2>1. pc # 0 /\ pc \in {1, 2}  BY <1>1
  <2>2. y \in Jumpable  BY <1>3, <1>4, <2>1 DEF CodegenOK
  <2>3. pc = 2 => Len(Me.kids) = 2  BY <1>3 DEF CodegenOK
  <2>4. Len(Me.kids) \in {1, 2}  BY <1>3, KidNumbers
  <2> QED  BY <2>1, <2>2, <2>3, <2>4
<1>6. Pending(prog, Top) = {y}
  <2>1. Doing(prog, Top, {"if"})
    <3>1. pc # 0  BY <1>1
    <3> QED  BY <1>3, <3>1 DEF Doing
  <2>2. CASE pc = 2
    <3>1. pc # 1  BY <2>2
    <3> QED  BY <1>3, <1>4, <2>1, <3>1, PendingIs
  <2>3. CASE pc = 1
    <3>1. Orderly(prog, Top, Len(stack))  BY Running DEF Good, Placement, Top
    <3>2. Waits(prog, Top) = {Top.x, Top.y}  BY <1>3, <2>3 DEF Waits, Coding
    <3>3. ~(Len(Me.kids) = 2)  BY <1>1, <2>3 DEF HasElse
    <3>4. Top.x = Top.y  BY <1>3, <2>3, <3>1, <3>2, <3>3 DEF Orderly
    <3> QED  BY <1>3, <1>4, <2>1, <2>3, <3>4, PendingIs
  <2> QED  BY <1>1, <2>2, <2>3
<1>7. Filled(blocks, ip.at)
  <2>1. pc \in {1, 2}  BY <1>1
  <2> QED  BY <1>3, <1>5, <2>1, BranchFilled
<1>8. /\ EndsOnce(blocks', ip.at) /\ Linked(blocks') /\ Len(blocks') = Len(blocks)
      /\ \A b \in Made : b # ip.at => Alike(blocks, blocks', b)
  BY <1>2, <1>4, <1>5, <1>7, FallsThrough
<1>9. ip' = AtEnd(y) /\ ip'.at = y /\ ~ip'.back /\ layout' = Append(layout, y)
  BY <1>2, <1>4 DEF Place, AtEnd
<1>10. y \in Made /\ y # ip.at /\ Open(blocks, y)
  BY <1>6, BlockFacts
<1>11. Open(blocks', y)
  BY <1>8, <1>10 DEF Alike
<1>12. LeftBy(n)'
  <2>1. prog' = prog  BY <1>2 DEF Lowered, tree
  <2> QED  BY <1>3, <1>4, <1>9, <1>11, <2>1, LeavesOpen
<1>13. InOrder(prog, stack', layout', y)
  <2>1. y = layout'[Len(layout')]
    <3>1. layout \in Seq(Made)  BY BlockFacts
    <3> QED  BY <1>9, <1>10, <3>1
  <2> QED  BY <2>1, InOrderLast
<1>14. Jumped'
  BY <1>9, <1>11, OpenJumped
<1>15. Me.kind \in Branches \cup Loops
  BY <1>3 DEF Branches
<1> QED  BY <1>2, <1>3, <1>4, <1>6, <1>8, <1>9, <1>11, <1>12, <1>13, <1>14, <1>15, WholeReturn

LEMMA AlikeTwice ==
  ASSUME NEW bs, NEW cs, NEW ds, NEW b, Alike(bs, cs, b), Alike(cs, ds, b)
  PROVE  Alike(bs, ds, b)
BY DEF Alike

(* The body of a loop does not leave.                                      *)
LEMMA BodyOpen ==
  ASSUME Good, Coding(Top), ~Ending, Me.kind \in Loops, Top.pc # 0
  PROVE  Open(blocks, ip.at) /\ ~ip.back
<1>1. Finds(Top)
  BY BlockFacts
<1>2. Busy(prog, Top) /\ Callee(prog, Top) = Me.kids[1]
  BY DEF Busy, Callee, Me, Loops
<1>3. LeftBy(Me.kids[1])
  BY <1>1, <1>2 DEF Finds
<1>4. ~Leaves(prog)[Me.kids[1]]
  <2>1. SupportedStmt(prog, Top.n)  BY Running
  <2> QED  BY <2>1 DEF SupportedStmt, Me, Loops
<1>5. Open(blocks, ip.at)
  BY <1>3, <1>4 DEF LeftBy
<1> QED  BY <1>5, BlockFacts

(* The blocks of a while that ends are behind its body.                    *)
LEMMA WhileBlocks ==
  ASSUME Good, InCall("codegen", "while", 1), Inside
  PROVE  /\ held[Top.n].a = Top.x + 1 /\ Top.y = Top.x + 2 /\ Top.x \in Jumpable
         /\ Top.x + 1 \in ToSet(layout) /\ Top.y \in ToSet(layout)
         /\ Pending(prog, Top) = {Top.x + 1, Top.y} /\ Top.y # Top.x + 1
         /\ (\A k \in 1..Len(stack) - 1 : ~Doing(prog, stack[k], {"for", "match"})) =>
              Behind(layout, ip.at) \subseteq Pending(prog, Top)
<1>1. /\ Coding(Top) /\ Me.kind = "while" /\ Top.pc = 1 /\ ~Ending /\ Top.n \in Node
      /\ CodegenOK(Top, lowered) /\ prog[Top.n] = Me
  BY CodingFacts
<1>2. Doing(prog, Top, {"while"}) /\ ~Doing(prog, Top, {"for", "match"})
  BY <1>1 DEF Doing
<1>3. Len(stack) \in Nat \ {0} /\ Len(stack) \in 1..Len(stack) /\ Top = stack[Len(stack)]
  BY Running DEF Top
<1>4. held[Top.n].a = Top.x + 1 /\ Top.y = Top.x + 2
  BY <1>2, <1>3 DEF Good, Whole, Order
<1>5. Top.x \in Jumpable /\ Top.y \in Standing /\ held[Top.n].a # 0
  BY <1>1 DEF CodegenOK
<1>6. held[Top.n].a \in Standing
  BY <1>1, <1>5 DEF Good, IInv, HeldOK
<1>7. Pending(prog, Top) = {Top.x + 1, Top.y}
  BY <1>2, PendingIs
<1>8. Top.y # Top.x + 1
  BY <1>4, <1>5 DEF Jumpable
<1>9. ASSUME \A k \in 1..Len(stack) - 1 : ~Doing(prog, stack[k], {"for", "match"})
      PROVE  Behind(layout, ip.at) \subseteq Pending(prog, Top)
  <2>1. \A k \in 1..Len(stack) : ~Doing(prog, stack[k], {"for", "match"})
    <3>1. \A k \in 1..Len(stack) : k = Len(stack) \/ k \in 1..Len(stack) - 1  BY <1>3
    <3> QED  BY <1>2, <1>3, <1>9, <3>1
  <2>2. ~Final  BY <1>1, Alone
  <2>3. SUFFICES ASSUME NEW b \in Behind(layout, ip.at) PROVE b \in Pending(prog, Top)
    OBVIOUS
  <2>4. PICK k \in 1..Len(stack) : Newest(prog, stack, k) /\ b \in PendingAt(k)
    BY <2>1, <2>2 DEF Good, Whole, Order
  <2>5. k = Len(stack)
    <3> SUFFICES ASSUME k # Len(stack) PROVE FALSE  OBVIOUS
    <3>1. Len(stack) \in k+1..Len(stack)  BY <1>3
    <3> QED  BY <1>2, <1>3, <2>4, <3>1 DEF Newest
  <2> QED  BY <1>3, <2>4, <2>5 DEF PendingAt
<1> QED  BY <1>4, <1>5, <1>6, <1>7, <1>8, <1>9 DEF Standing

(* The end of a while.                                                     *)
LEMMA WhileEndWhole ==
  ASSUME Good, IInv', Placement', WhileEnd
  PROVE  Whole'
<1>1. InCall("codegen", "while", 1) /\ Inside
  BY DEF WhileEnd
<1>2. PICK n, x, y, d : n = Top.n /\ x = Top.x /\ y = Top.y /\ d = x + 1
  OBVIOUS
<1>3. /\ d \in ToSet(layout) /\ y \in ToSet(layout) /\ x \in Jumpable
      /\ Pending(prog, Top) = {d, y} /\ y # d /\ held[n].a = d
      /\ (\A k \in 1..Len(stack) - 1 : ~Doing(prog, stack[k], {"for", "match"})) =>
              Behind(layout, ip.at) \subseteq {d, y}
  BY <1>1, <1>2, WhileBlocks
<1>4. /\ Coding(Top) /\ Me.kind = "while" /\ Top.pc = 1 /\ ~Ending /\ n \in Node /\ n \in Nat
  BY <1>1, <1>2, CodingFacts
<1>5. Me.kind \in Branches \cup Loops /\ Me.kind \in Loops
  BY <1>4 DEF Loops
<1>6. Open(blocks, ip.at) /\ ~ip.back
  BY <1>4, <1>5, BodyOpen
<1>7. d \in Made /\ y \in Made /\ d # ip.at /\ y # ip.at /\ Open(blocks, d) /\ Open(blocks, y)
  BY <1>3, BlockFacts
<1>8. d \in Jumpable /\ y \in Jumpable
  <2>1. Linked(blocks) /\ Len(blocks) \in Nat  BY BlockFacts
  <2>2. d # 1 /\ y # 1
    <3>1. x \in Nat /\ x >= 2  BY <1>3, <2>1 DEF Jumpable
    <3>2. y = x + 2  BY <1>1, <1>2, WhileBlocks
    <3> QED  BY <1>2, <3>1, <3>2
  <2> QED  BY <1>7, <2>1, <2>2 DEF Made, Jumpable
<1>9. PICK one, two, bs : /\ one = CondBr(n, x, d) /\ two = Br(y) /\ bs = Emit(blocks, ip, one)
  OBVIOUS
<1>10. /\ blocks' = Emit(bs, AtEnd(d), two) /\ layout' = MoveAfter(MoveAfter(layout, d, ip.at), y, d)
       /\ ip' = AtEnd(y) /\ Lowered /\ held' = held
  BY <1>2, <1>3, <1>9 DEF WhileEnd, MoveBehind
<1>11. one \in InstIn(Len(blocks)) /\ IsTerminator(one)
  BY <1>3, <1>4, <1>8, <1>9, InstFacts DEF Jumpable, CondBr, IsTerminator, Terminators, Ops
<1>12. two \in InstIn(Len(blocks)) /\ IsTerminator(two)
  BY <1>4, <1>8, <1>9, InstFacts DEF Jumpable, Br, Jump, IsTerminator, Terminators, Ops
<1>13. /\ Linked(bs) /\ Len(bs) = Len(blocks) /\ EndsOnce(bs, ip.at)
       /\ \A b \in Made : b # ip.at => Alike(blocks, bs, b)
  <2>1. Linked(bs) /\ Len(bs) = Len(blocks)  BY <1>9, <1>11, EmitHere DEF Good
  <2>2. EndsOnce(bs, ip.at)  BY <1>6, <1>9, <1>11, BlockFacts, EmitAtEnd
  <2>3. \A b \in Made : b # ip.at => Alike(blocks, bs, b)  BY <1>9, BlockFacts, EmitElsewhere
  <2> QED  BY <2>1, <2>2, <2>3
<1>14. PICK at : at = AtEnd(d)
  OBVIOUS
<1>15. at \in InsertPoint /\ at.at = d /\ ~at.back /\ d \in 1..Len(bs)
  <2>1. d \in Nat  BY <1>8, BlockFacts DEF Jumpable
  <2> QED  BY <1>7, <1>13, <1>14, <2>1, BlockFacts DEF AtEnd, InsertPoint
<1>16. /\ Linked(blocks') /\ Len(blocks') = Len(blocks) /\ EndsOnce(blocks', d)
       /\ \A b \in Made : b # d => Alike(bs, blocks', b)
  <2>1. Linked(blocks') /\ Len(blocks') = Len(bs)
    BY <1>10, <1>12, <1>13, <1>14, <1>15, EmitProperties
  <2>2. Open(bs, d)  BY <1>7, <1>13 DEF Alike
  <2>3. bs[d].insts \in Seq(InstIn(Len(bs)))  BY <1>13, <1>15, LinkedProperties
  <2>4. EndsOnce(blocks', d)
    BY <1>10, <1>12, <1>13, <1>14, <1>15, <2>2, <2>3, EmitAtEnd
  <2>5. \A b \in Made : b # d => Alike(bs, blocks', b)
    BY <1>10, <1>13, <1>14, <1>15, BlockFacts, EmitElsewhere
  <2> QED  BY <1>13, <2>1, <2>4, <2>5
<1>17. \A b \in Made : b # ip.at /\ b # d => Alike(blocks, blocks', b)
  BY <1>13, <1>16, AlikeTwice
<1>18. EndsOnce(blocks', ip.at) /\ Open(blocks', y)
  BY <1>3, <1>7, <1>13, <1>16, <1>17, BlockFacts DEF Alike
<1>19. ip'.at = y /\ ~ip'.back
  BY <1>10 DEF AtEnd
<1>20. LeftBy(n)'
  <2>1. prog' = prog  BY <1>10 DEF Lowered, tree
  <2> QED  BY <1>2, <1>4, <1>18, <1>19, <2>1, LeavesOpen
<1>21. InOrder(prog, stack', layout', y)
  <2>1. Lists(Made, layout, ToSet(layout)) /\ ip.at \in ToSet(layout)
    BY <1>1, BlockFacts DEF Lists, Inside
  <2>2. PICK T, at1, l1 : T = ToSet(layout) /\ at1 = ip.at /\ l1 = MoveAfter(layout, d, at1)
    OBVIOUS
  <2>3. Lists(Made, l1, T) /\ Behind(l1, d) \subseteq Behind(layout, at1) \ {d}
    BY <1>3, <1>7, <2>1, <2>2, BehindMoved
  <2>4. layout' = MoveAfter(l1, y, d)
    BY <1>10, <2>2
  <2>5. Lists(Made, layout', T) /\ Behind(layout', y) \subseteq Behind(l1, d) \ {y}
    BY <1>3, <2>2, <2>3, <2>4, BehindMoved
  <2>6. y \in ToSet(layout')
    BY <1>3, <2>2, <2>5 DEF Lists
  <2>7. Popped(stack, stack')
    <3>1. Return  BY <1>10 DEF Lowered
    <3> QED  BY <1>4, <3>1, ChainGone DEF Coding
  <2>8. ASSUME \A k \in 1..Len(stack') : ~Doing(prog, stack'[k], {"for", "match"})
        PROVE  Behind(layout', y) = {}
    <3>1. \A k \in 1..Len(stack) - 1 : ~Doing(prog, stack[k], {"for", "match"})
      BY <2>7, <2>8 DEF Popped
    <3>2. Behind(layout, at1) \subseteq {d, y}
      BY <1>3, <2>2, <3>1
    <3> QED  BY <2>3, <2>5, <3>2
  <2> QED  BY <2>6, <2>8 DEF InOrder
<1>22. Jumped'
  BY <1>18, <1>19, OpenJumped
<1> QED  BY <1>2, <1>3, <1>5, <1>10, <1>16, <1>17, <1>18, <1>19, <1>20, <1>21, <1>22, <1>4, WholeReturn

(* The end of a for.                                                       *)
LEMMA ForEndWhole ==
  ASSUME Good, IInv', Placement', ForEnd
  PROVE  Whole'
<1>1. InCall("codegen", "for", 1)
  BY DEF ForEnd
<1>2. PICK n, x, y : n = Top.n /\ x = Top.x /\ y = Top.y
  OBVIOUS
<1>3. /\ Coding(Top) /\ Me.kind = "for" /\ Top.pc = 1 /\ ~Ending /\ n \in Node /\ n \in Nat
      /\ CodegenOK(Top, lowered) /\ prog[Top.n] = Me
  BY <1>1, <1>2, CodingFacts
<1>4. Doing(prog, Top, {"for"}) /\ Doing(prog, Top, {"for", "match"})
  BY <1>3 DEF Doing
<1>5. x \in Jumpable /\ y \in Jumpable
  BY <1>2, <1>3 DEF CodegenOK
<1>6. Pending(prog, Top) = {y}
  BY <1>2, <1>4, PendingIs
<1>7. y = layout[Len(layout)]
  <2>1. Len(stack) \in 1..Len(stack) /\ Top = stack[Len(stack)]  BY Running DEF Top
  <2> QED  BY <1>2, <1>4, <2>1 DEF Good, Whole, Order, LastBlock
<1>8. y \in Made /\ y # ip.at /\ Open(blocks, y)
  BY <1>6, BlockFacts
<1>9. Me.kind \in Branches \cup Loops /\ Me.kind \in Loops
  BY <1>3 DEF Loops
<1>10. Open(blocks, ip.at) /\ ~ip.back
  BY <1>3, <1>9, BodyOpen
<1>11. PICK one, two, bs : one = Call(n) /\ two = CondBr(n, x, y) /\ bs = Emit(blocks, ip, one)
  OBVIOUS
<1>12. /\ blocks' = Emit(bs, ip, two) /\ ip' = AtEnd(y) /\ Lowered
       /\ layout' = layout /\ held' = held
  BY <1>2, <1>11 DEF ForEnd
<1>13. one \in InstIn(Len(blocks)) /\ ~IsTerminator(one)
  BY <1>3, <1>11, InstFacts DEF Call, IsTerminator, Terminators
<1>14. two \in InstIn(Len(blocks)) /\ IsTerminator(two)
  BY <1>3, <1>5, <1>11, InstFacts DEF Jumpable, CondBr, IsTerminator, Terminators, Ops
<1>15. /\ Linked(bs) /\ Len(bs) = Len(blocks) /\ Open(bs, ip.at)
       /\ \A b \in Made : b # ip.at => Alike(blocks, bs, b)
  <2>1. Linked(bs) /\ Len(bs) = Len(blocks)  BY <1>11, <1>13, EmitHere DEF Good
  <2>2. Open(bs, ip.at)  BY <1>10, <1>11, <1>13, BlockFacts, EmitAtEnd
  <2>3. \A b \in Made : b # ip.at => Alike(blocks, bs, b)  BY <1>11, BlockFacts, EmitElsewhere
  <2> QED  BY <2>1, <2>2, <2>3
<1>16. /\ Linked(blocks') /\ Len(blocks') = Len(blocks) /\ EndsOnce(blocks', ip.at)
       /\ \A b \in Made : b # ip.at => Alike(bs, blocks', b)
  <2>1. ip \in InsertPoint /\ ip.at \in 1..Len(bs)  BY <1>15, BlockFacts
  <2>2. Linked(blocks') /\ Len(blocks') = Len(bs)
    BY <1>10, <1>12, <1>14, <1>15, <2>1, EmitProperties
  <2>3. bs[ip.at].insts \in Seq(InstIn(Len(bs)))  BY <1>15, <2>1, LinkedProperties
  <2>4. EndsOnce(blocks', ip.at)
    BY <1>10, <1>12, <1>14, <1>15, <2>1, <2>3, EmitAtEnd
  <2>5. \A b \in Made : b # ip.at => Alike(bs, blocks', b)
    BY <1>12, <1>15, BlockFacts, EmitElsewhere
  <2> QED  BY <1>15, <2>2, <2>4, <2>5
<1>17. \A b \in Made : b # ip.at => Alike(blocks, blocks', b)
  BY <1>15, <1>16, AlikeTwice
<1>18. Open(blocks', y)
  BY <1>8, <1>17 DEF Alike
<1>19. ip'.at = y /\ ~ip'.back
  BY <1>12 DEF AtEnd
<1>20. LeftBy(n)'
  <2>1. prog' = prog  BY <1>12 DEF Lowered, tree
  <2> QED  BY <1>2, <1>3, <1>18, <1>19, <2>1, LeavesOpen
<1>21. InOrder(prog, stack', layout', y)
  BY <1>7, <1>12, InOrderLast
<1>22. Jumped'
  BY <1>18, <1>19, OpenJumped
<1> QED  BY <1>2, <1>3, <1>6, <1>8, <1>9, <1>12, <1>16, <1>17, <1>18, <1>19, <1>20, <1>21, <1>22, WholeReturn

(* The end of a match.                                                     *)
LEMMA MatchJoinWhole ==
  ASSUME Good, IInv', Placement', MatchJoin
  PROVE  Whole'
<1>1. InCall("codegen", "match", 1) /\ Top.i = Len(Me.kids)
  BY DEF MatchJoin
<1>2. PICK n, y : n = Top.n /\ y = Top.y
  OBVIOUS
<1>3. /\ Coding(Top) /\ Me.kind = "match" /\ Top.pc = 1 /\ ~Ending /\ n \in Node
      /\ prog[Top.n] = Me /\ Len(Me.kids) \in Nat
  BY <1>1, <1>2, CodingFacts
<1>4. Doing(prog, Top, {"match"}) /\ Doing(prog, Top, {"for", "match"})
  BY <1>3 DEF Doing
<1>5. Pending(prog, Top) = {y}
  <2>1. ~(Top.i < Len(Me.kids))  BY <1>1, <1>3
  <2> QED  BY <1>2, <1>3, <1>4, <2>1, PendingIs
<1>6. y = layout[Len(layout)]
  <2>1. Len(stack) \in 1..Len(stack) /\ Top = stack[Len(stack)]  BY Running DEF Top
  <2> QED  BY <1>2, <1>4, <2>1 DEF Good, Whole, Order, LastBlock
<1>7. y \in Made /\ y # ip.at /\ Open(blocks, y)
  BY <1>5, BlockFacts
<1>8. Complete(ip.at)
  <2>1. Finds(Top)  BY <1>3, BlockFacts
  <2>2. ~Busy(prog, Top)  BY <1>3 DEF Busy
  <2> QED  BY <1>3, <2>1, <2>2 DEF Finds
<1>9. /\ blocks' = blocks /\ ip' = AtEnd(y) /\ Lowered /\ layout' = layout /\ held' = held
  BY <1>2 DEF MatchJoin
<1>10. ip'.at = y /\ ~ip'.back /\ Me.kind \in Branches \cup Loops
  BY <1>3, <1>9 DEF AtEnd, Branches
<1>11. /\ Open(blocks', y) /\ EndsOnce(blocks', ip.at) /\ Linked(blocks') /\ Len(blocks') = Len(blocks)
       /\ \A b \in Made : Alike(blocks, blocks', b)
  BY <1>7, <1>8, <1>9, BlockFacts, SameAlike DEF Complete
<1>12. LeftBy(n)'
  <2>1. prog' = prog  BY <1>9 DEF Lowered, tree
  <2> QED  BY <1>2, <1>3, <1>10, <1>11, <2>1, LeavesOpen
<1>13. InOrder(prog, stack', layout', y)
  BY <1>6, <1>9, InOrderLast
<1>14. Jumped'
  BY <1>10, <1>11, OpenJumped
<1> QED  BY <1>2, <1>3, <1>5, <1>7, <1>9, <1>10, <1>11, <1>12, <1>13, <1>14, WholeReturn

(* The calls, once the running one has called g.                           *)
LEMMA InvokeBeneath ==
  ASSUME Good, NEW f, NEW g, Invoke(f, g), ~Coding(g) \/ g.pc = 0
  PROVE  /\ Called(stack, stack', f, g) /\ Beneath(stack, stack', f) /\ Staying(stack, stack')
         /\ stack' # <<>> /\ Len(stack') \in Nat
         /\ Len(stack) \in 1..Len(stack') /\ stack'[Len(stack)] = f
         /\ \A k \in 1..Len(stack') : k = Len(stack) + 1 => stack'[k] = g
<1>1. Called(stack, stack', f, g)
  <2>1. stack # <<>> /\ IInv  BY Running DEF Good
  <2> QED  BY <2>1, AfterInvoke DEF Called
<1>2. PICK n, m : n = Len(stack) /\ m = Len(stack')  OBVIOUS
<1>3. n \in Nat \ {0} /\ m = n + 1  BY <1>1, <1>2 DEF Called
<1>4. \A k \in 1..m : k \in 1..n - 1 \/ k = n \/ k = n + 1  BY ONLY <1>3
<1>5. \A k \in 1..n - 1 : k \in 1..m  BY ONLY <1>3
<1>6. m \in Nat /\ n \in 1..m /\ m # 0  BY ONLY <1>3
<1>7. stack' # <<>>  BY <1>2, <1>6
<1> QED  BY <1>1, <1>2, <1>4, <1>5, <1>6, <1>7 DEF Beneath, Staying, Called

(* A body lowers its next statement.                                       *)
LEMMA BodyStmtCalls ==
  ASSUME Good, IInv', BodyStmt, prog[Kid(Top.i + 1)].kind # "defer"
  PROVE  Whole'
<1>1. InCall("codegen", "body", 0) /\ Top.i < Len(Me.kids)
  BY DEF BodyStmt
<1>2. PICK i, f : i = Top.i + 1 /\ f = [Top EXCEPT !.i = i]
  OBVIOUS
<1>3. /\ Invoke(f, Enter("codegen", Kid(i)))
      /\ deferrals' = deferrals /\ lowered' = lowered /\ prog' = prog
      /\ blocks' = blocks /\ layout' = layout /\ ip' = ip /\ held' = held
  <2>1. /\ Invoke([Top EXCEPT !.i = @ + 1], Enter("codegen", Kid(Top.i + 1)))
        /\ UNCHANGED <<deferrals, lowered>> /\ UNCHANGED <<tree, code, held>>
    BY DEF BodyStmt
  <2>2. f = [Top EXCEPT !.i = @ + 1]  BY <1>2
  <2> QED  BY <1>2, <2>1, <2>2 DEF tree, code
<1>4. /\ Coding(Top) /\ Me.kind = "body" /\ Top.pc = 0 /\ ~Ending /\ Top.act = "codegen"
      /\ Top \in Frame /\ Top.i \in Nat /\ Len(Me.kids) \in Nat /\ prog[Top.n] = Me
      /\ SupportedStmt(prog, Top.n) /\ Rooted(prog) /\ \A j \in 1..Len(Me.kids) : Kid(j) = Me.kids[j]
  BY <1>1, CodingFacts
<1>5. PICK a, n : a = Top.i /\ n = Len(Me.kids)
  OBVIOUS
<1>6. i \in 1..n /\ i = a + 1 /\ a \in Nat /\ n \in Nat /\ i # 0 /\ i > a /\ (a # 0 => a \in 1..n - 1)
      /\ \A j \in 1..n : j > i => j > a
  <2>1. a \in Nat /\ n \in Nat /\ a < n /\ i = a + 1  BY <1>1, <1>2, <1>4, <1>5
  <2> QED  BY ONLY <2>1
<1>7. f \in Frame /\ f.act = Top.act /\ f.n = Top.n /\ f.i = i /\ f.pc = 0 /\ Coding(f)
  BY <1>2, <1>4, <1>6 DEF Frame, Coding
<1>8. Open(blocks, ip.at) /\ ~ip.back
  <2>1. Finds(Top)  BY <1>4, BlockFacts
  <2>2. CASE a = 0
    <3>1. ~Busy(prog, Top)  BY <1>4, <1>5, <2>2 DEF Busy
    <3> QED  BY <1>4, <2>1, <3>1, BlockFacts DEF Finds
  <2>3. CASE a # 0
    <3>1. Busy(prog, Top) /\ Callee(prog, Top) = Me.kids[a]
      BY <1>4, <1>5, <2>3 DEF Busy, Callee
    <3>2. ~Leaves(prog)[Me.kids[a]]
      BY <1>4, <1>5, <1>6, <2>3 DEF SupportedStmt
    <3> QED  BY <2>1, <3>1, <3>2, BlockFacts DEF Finds, LeftBy
  <2> QED  BY <2>2, <2>3
<1>9. /\ Busy(prog, f) /\ Callee(prog, f) = Kid(i)
      /\ Later(prog, Top, i) /\ ~Later(prog, f, i)
      /\ \A j \in 1..Len(Me.kids) : Later(prog, f, j) => Later(prog, Top, j)
  <2>1. Busy(prog, f) /\ Callee(prog, f) = Kid(i)
    BY <1>4, <1>5, <1>6, <1>7 DEF Busy, Callee
  <2>2. \A j \in 1..n : (Later(prog, f, j) <=> j > i) /\ (Later(prog, Top, j) <=> j > a)
    BY <1>4, <1>5, <1>7 DEF Later
  <2>3. ~(i > i)  BY <1>6
  <2> QED  BY <1>5, <1>6, <2>1, <2>2, <2>3
<1>10. /\ ~Doing(prog, f, {"if", "while", "for", "match"}) /\ ~Doing(prog, f, {"while", "for", "match"})
       /\ ~Doing(prog, Top, {"if", "while", "for", "match"}) /\ ~Doing(prog, Top, {"while", "for", "match"})
       /\ ~Doing(prog, f, {"while"}) /\ ~Doing(prog, f, {"match"}) /\ ~Doing(prog, f, {"for", "match"})
  BY <1>4, <1>7 DEF Doing
<1>11. Pending(prog, f) = {} /\ Pending(prog, Top) = {}
  BY <1>10, PendingIs
<1>12. \A b \in Made : Alike(blocks, blocks', b)
  BY <1>3, SameAlike
<1>13. InOrder(prog, stack', layout', ip'.at)
  <2>1. PICK g : g = Enter("codegen", Kid(i))  OBVIOUS
  <2>2. g.pc = 0  BY <2>1 DEF Enter
  <2>3. Beneath(stack, stack', f) /\ Staying(stack, stack')
    BY <1>3, <2>1, <2>2, InvokeBeneath
  <2>4. ~Final  BY <1>4, Alone
  <2> QED  BY <1>3, <1>10, <2>3, <2>4, OrderQuiet
<1>14. PICK N : N = {}
  OBVIOUS
<1>15. Made' = Made \cup N /\ N \cap Made = {}
  BY <1>3, <1>14 DEF Made
<1> QED
  BY <1>3, <1>4, <1>5, <1>2, <1>6, <1>7, <1>8, <1>9, <1>10, <1>11, <1>12, <1>13, <1>14, <1>15, BlockFacts, WholeCall

(* A typeswitch lowers the option it selects.                              *)
LEMMA TypeSwitchWhole ==
  ASSUME Good, IInv', TypeSwitch
  PROVE  Whole'
<1>1. InCall("codegen", "typeswitch", 0) /\ Me.arg # 0
  BY DEF TypeSwitch
<1>2. PICK i, f : i = Me.arg /\ f = [Top EXCEPT !.pc = 1]
  OBVIOUS
<1>3. /\ Invoke(f, Enter("codegen", Kid(i)))
      /\ deferrals' = deferrals /\ lowered' = lowered /\ prog' = prog
      /\ blocks' = blocks /\ layout' = layout /\ ip' = ip /\ held' = held
  BY <1>2 DEF TypeSwitch, StackOnly, tree, code, notes
<1>4. /\ Coding(Top) /\ Me.kind = "typeswitch" /\ Top.pc = 0 /\ ~Ending /\ Top.act = "codegen"
      /\ Top \in Frame /\ prog[Top.n] = Me /\ WellFormedNode(Me) /\ Me.arg \in Nat /\ Len(Me.kids) \in Nat
      /\ \A j \in 1..Len(Me.kids) : Kid(j) = Me.kids[j]
  BY <1>1, CodingFacts
<1>5. i \in 1..Len(Me.kids)
  BY <1>1, <1>2, <1>4, KidNumbers
<1>6. f \in Frame /\ f.act = Top.act /\ f.n = Top.n /\ f.pc = 1 /\ Coding(f)
  BY <1>2, <1>4 DEF Frame, Coding
<1>7. Open(blocks, ip.at) /\ ~ip.back
  <2>1. Finds(Top)  BY <1>4, BlockFacts
  <2>2. ~Busy(prog, Top)  BY <1>4 DEF Busy
  <2> QED  BY <1>4, <2>1, <2>2, BlockFacts DEF Finds
<1>8. /\ Busy(prog, f) /\ Callee(prog, f) = Kid(i)
      /\ Later(prog, Top, i) /\ ~Later(prog, f, i)
      /\ \A j \in 1..Len(Me.kids) : Later(prog, f, j) => Later(prog, Top, j)
  BY <1>2, <1>4, <1>5, <1>6 DEF Busy, Callee, Later
<1>9. /\ ~Doing(prog, f, {"if", "while", "for", "match"}) /\ ~Doing(prog, f, {"while", "for", "match"})
      /\ ~Doing(prog, Top, {"if", "while", "for", "match"}) /\ ~Doing(prog, Top, {"while", "for", "match"})
      /\ ~Doing(prog, f, {"while"}) /\ ~Doing(prog, f, {"match"}) /\ ~Doing(prog, f, {"for", "match"})
  BY <1>4, <1>6 DEF Doing
<1>10. Pending(prog, f) = {} /\ Pending(prog, Top) = {}
  BY <1>9, PendingIs
<1>11. \A b \in Made : Alike(blocks, blocks', b)
  BY <1>3, SameAlike
<1>12. InOrder(prog, stack', layout', ip'.at)
  <2>1. PICK g : g = Enter("codegen", Kid(i))  OBVIOUS
  <2>2. g.pc = 0  BY <2>1 DEF Enter
  <2>3. Beneath(stack, stack', f) /\ Staying(stack, stack')
    BY <1>3, <2>1, <2>2, InvokeBeneath
  <2>4. ~Final  BY <1>4, Alone
  <2> QED  BY <1>3, <1>9, <2>3, <2>4, OrderQuiet
<1>13. PICK N : N = {}
  OBVIOUS
<1>14. Made' = Made \cup N /\ N \cap Made = {}
  BY <1>3, <1>13 DEF Made
<1> QED
  BY <1>1, <1>3, <1>4, <1>5, <1>6, <1>7, <1>8, <1>9, <1>10, <1>11, <1>12, <1>13, <1>14, BlockFacts, WholeCall

(* New blocks are empty, and the block that jumps to them ends.            *)
LEMMA NewBlocksOpen ==
  ASSUME Good, NEW new \in Seq({Fresh(x) : x \in Names}), NEW n, n = Len(blocks) + Len(new),
         NEW inst \in InstIn(n), Open(blocks, ip.at), IsTerminator(inst),
         blocks' = Emit(blocks \o new, ip, inst)
  PROVE  /\ Linked(blocks') /\ Len(blocks') = n /\ EndsOnce(blocks', ip.at)
         /\ \A b \in Made : b # ip.at => Alike(blocks, blocks', b)
         /\ \A b \in Made' : b \notin Made => Open(blocks', b)
<1>1. PICK all, m, at : all = blocks \o new /\ m = Len(blocks) /\ at = ip.at
  OBVIOUS
<1>2. /\ n \in Nat /\ m \in Nat \ {0} /\ m <= n /\ Linked(all) /\ Len(all) = n
      /\ Linked(blocks') /\ Len(blocks') = n
  BY <1>1, EmitAfterFresh DEF Good
<1>3. at \in 1..m /\ at \in 1..n /\ ip \in InsertPoint /\ ~ip.back
  BY <1>1, <1>2, BlockFacts DEF Made
<1>4. /\ \A b \in 1..m : all[b] = blocks[b] /\ b \in 1..n
      /\ \A b \in 1..n : b \notin 1..m => all[b] \in {Fresh(x) : x \in Names}
  <2>1. blocks \in Seq(Block)  BY BlockFacts, LinkedBlocks
  <2>2. PICK F, l : F = {Fresh(x) : x \in Names} /\ l = Len(new)  OBVIOUS
  <2>3. new \in Seq(F) /\ l \in Nat  BY <2>2
  <2>4. \A b \in 1..m : all[b] = blocks[b]  BY <1>1, <2>1, <2>3
  <2>5. n = m + l  BY <1>1, <2>2
  <2>6. \A b \in 1..n : b \notin 1..m => all[b] = new[b - m] /\ b - m \in 1..l
    BY <1>1, <1>2, <2>1, <2>2, <2>3, <2>5
  <2>7. \A b \in 1..n : b \notin 1..m => new[b - m] \in F
    BY <2>2, <2>3, <2>6, ElementOfSeq
  <2> QED  BY <1>2, <2>2, <2>4, <2>6, <2>7
<1>5. \A b \in 1..n : b \notin 1..m => Open(all, b)
  <2>1. \A x : Fresh(x).insts = <<>>  BY DEF Fresh
  <2>2. Len(<<>>) = 0 /\ \A i \in 1..0 : FALSE  BY EmptySeq
  <2> QED  BY <1>4, <2>1, <2>2 DEF Open
<1>6. \A b \in 1..m : Alike(blocks, all, b)
  BY <1>4, SameAlike
<1>7. Open(all, at) /\ all[at].insts \in Seq(InstIn(n))
  BY <1>1, <1>2, <1>3, <1>6, LinkedProperties DEF Alike
<1>8. EndsOnce(blocks', at)
  BY <1>1, <1>2, <1>3, <1>7, EmitAtEnd
<1>9. \A b \in 1..n : b # at => Alike(all, blocks', b)
  BY <1>1, <1>2, EmitElsewhere
<1>10. \A b \in 1..m : b # at => Alike(blocks, blocks', b)
  BY <1>4, <1>6, <1>9, AlikeTwice
<1>11. \A b \in 1..n : b \notin 1..m => Open(blocks', b)
  BY <1>3, <1>5, <1>9 DEF Alike
<1> QED  BY <1>1, <1>2, <1>8, <1>10, <1>11 DEF Made

(* A statement that has not begun finds an open block.                     *)
LEMMA EntersOpen ==
  ASSUME Good, Coding(Top), ~Ending, Me.kind \in Branches \cup Loops, Top.pc = 0
  PROVE  /\ Open(blocks, ip.at) /\ ~ip.back /\ Pending(prog, Top) = {} /\ ~Final
         /\ ~Doing(prog, Top, {"while", "for", "match"})
<1>1. Finds(Top)
  BY BlockFacts
<1>2. ~Busy(prog, Top)
  BY DEF Busy, Me, Branches, Loops
<1>3. Open(blocks, ip.at)
  BY <1>1, <1>2 DEF Finds
<1> QED  BY <1>3, BlockFacts, NothingPending, Alone

(* The start of an if.                                                     *)
LEMMA IfEnterWhole ==
  ASSUME Good, IInv', Placement', IfEnter
  PROVE  Whole'
<1>1. InCall("codegen", "if", 0)
  BY DEF IfEnter
<1>2. PICK n, l : n = Top.n /\ l = Len(blocks)
  OBVIOUS
<1>3. PICK cont : cont = IF HasElse THEN l + 3 ELSE l + 2
  OBVIOUS
<1>4. PICK new : new = IF HasElse THEN <<Fresh("then"), Fresh("else"), Fresh("cont")>>
                                  ELSE <<Fresh("then"), Fresh("cont")>>
  OBVIOUS
<1>5. PICK f, inst : /\ f = [Top EXCEPT !.pc = 1, !.x = l + 2, !.y = cont]
                     /\ inst = CondBr(n, l + 1, l + 2)
  OBVIOUS
<1>6. /\ Coding(Top) /\ Me.kind = "if" /\ Top.pc = 0 /\ ~Ending /\ Top.act = "codegen"
      /\ Top \in Frame /\ n \in Node /\ n \in Nat /\ prog[n] = Me /\ WellFormedNode(Me) /\ Len(Me.kids) \in Nat
      /\ \A j \in 1..Len(Me.kids) : Kid(j) = Me.kids[j]
  BY <1>1, <1>2, CodingFacts
<1>7. /\ l + 1 = Next1 /\ l + 2 = Next1 + 1 /\ l + 3 = Next1 + 2 /\ l \in Nat \ {0}
  BY <1>2, BlockFacts DEF Next1
<1>8. /\ blocks' = Emit(blocks \o new, ip, inst) /\ layout' = Append(layout, l + 1)
      /\ ip' = AtEnd(l + 1) /\ held' = [held EXCEPT ![n].a = l + 1]
      /\ Invoke(f, Enter("codegen", Kid(1)))
      /\ prog' = prog /\ deferrals' = deferrals /\ lowered' = lowered
  BY <1>2, <1>3, <1>4, <1>5, <1>7, Zenon DEF IfEnter, tree
<1>9. 1 \in 1..Len(Me.kids)
  BY <1>6, KidNumbers
<1>10. PICK t : t = l + Len(new)
  OBVIOUS
<1>11. /\ new \in Seq({Fresh(x) : x \in Names})
       /\ (HasElse /\ t = l + 3 /\ cont = l + 3) \/ (~HasElse /\ t = l + 2 /\ cont = l + 2)
  <2>1. {"then", "else", "cont"} \subseteq Names  BY DEF Names
  <2>2. CASE HasElse
    <3>1. new = <<Fresh("then"), Fresh("else"), Fresh("cont")>>  BY <1>4, <2>2
    <3>2. new \in Seq({Fresh(x) : x \in Names}) /\ Len(new) = 3  BY <2>1, <3>1, FreshNames
    <3> QED  BY <1>3, <1>10, <2>2, <3>2
  <2>3. CASE ~HasElse
    <3>1. new = <<Fresh("then"), Fresh("cont")>>  BY <1>4, <2>3
    <3>2. new \in Seq({Fresh(x) : x \in Names}) /\ Len(new) = 2  BY <2>1, <3>1, FreshNames
    <3> QED  BY <1>3, <1>10, <2>3, <3>2
  <2> QED  BY <2>2, <2>3
<1>12. inst \in InstIn(t) /\ IsTerminator(inst)
  <2>1. l + 1 \in 2..t /\ l + 2 \in 2..t  BY <1>7, <1>11
  <2> QED  BY <1>5, <1>6, <2>1, InstFacts DEF CondBr, IsTerminator, Terminators, Ops
<1>13. Me.kind \in Branches \cup Loops
  BY <1>6 DEF Branches
<1>14. Open(blocks, ip.at) /\ ~ip.back /\ Pending(prog, Top) = {}
  BY <1>6, <1>13, EntersOpen
<1>15. /\ Linked(blocks') /\ Len(blocks') = t /\ EndsOnce(blocks', ip.at)
       /\ \A b \in Made : b # ip.at => Alike(blocks, blocks', b)
       /\ \A b \in Made' : b \notin Made => Open(blocks', b)
  BY <1>2, <1>8, <1>10, <1>11, <1>12, <1>14, NewBlocksOpen
<1>16. PICK N : N = {l + 1, l + 2, cont}
  OBVIOUS
<1>17. Made' = Made \cup N /\ N \cap Made = {}
  <2>1. Made = 1..l /\ Made' = 1..t  BY <1>2, <1>15 DEF Made
  <2>2. 1..t = 1..l \cup N /\ N \cap 1..l = {}  BY ONLY <1>7, <1>11, <1>16
  <2> QED  BY <2>1, <2>2
<1>18. f \in Frame /\ f.act = Top.act /\ f.n = n /\ f.pc = 1 /\ f.x = l + 2 /\ f.y = cont /\ Coding(f)
  <2>1. cont \in Nat /\ l + 2 \in Nat  BY <1>7, <1>11
  <2> QED  BY <1>2, <1>5, <1>6, <2>1 DEF Frame, Coding
<1>19. Pending(prog, f) = {l + 2, cont}
  <2>1. Doing(prog, f, {"if"})  BY <1>6, <1>18 DEF Doing
  <2> QED  BY <1>18, <2>1, PendingIs
<1>20. ip' \in InsertPoint /\ ip'.at = l + 1 /\ ~ip'.back /\ l + 1 \in Made' /\ l + 1 \in 1..Len(blocks')
  <2>1. l + 1 \in Nat /\ l + 1 \in 1..t  BY <1>7, <1>11
  <2> QED  BY <1>8, <1>15, <2>1 DEF AtEnd, InsertPoint, Made
<1>21. \A b \in N : Open(blocks', b)
  BY <1>15, <1>17
<1>22. l + 1 # l + 2 /\ l + 1 # cont
  BY <1>7, <1>11
<1>23. InOrder(prog, stack', layout', ip'.at)
  <2>1. l + 1 = layout'[Len(layout')]
    <3>1. layout \in Seq(Made) /\ Len(layout) \in Nat  BY BlockFacts
    <3> QED  BY <1>8, <3>1
  <2> QED  BY <1>20, <2>1, InOrderLast
<1>24. /\ Busy(prog, f) /\ Callee(prog, f) = Kid(1)
       /\ Later(prog, Top, 1) /\ ~Later(prog, f, 1)
       /\ \A j \in 1..Len(Me.kids) : Later(prog, f, j) => Later(prog, Top, j)
  <2>1. \A j \in 1..Len(Me.kids) : j > 1 => j > 0  OBVIOUS
  <2> QED  BY <1>2, <1>6, <1>9, <1>18, <2>1 DEF Busy, Callee, Later
<1>25. \A m \in Node : m # n => held'[m] = held[m]
  <2>1. held \in [Node -> [a : Nat, b : Nat]]  BY DEF Good, IInv, HeldOK
  <2> QED  BY <1>8, <2>1
<1>26. ~Doing(prog, f, {"while"}) /\ ~Doing(prog, f, {"match"}) /\ ~Doing(prog, f, {"for", "match"})
  BY <1>6, <1>18 DEF Doing
<1>27. \A b \in Pending(prog, f) : Open(blocks', b) /\ b # ip'.at
  BY <1>16, <1>19, <1>20, <1>21, <1>22
<1>28. /\ Pending(prog, f) \subseteq Pending(prog, Top) \cup N
       /\ ip'.at \in {ip.at} \cup Pending(prog, Top) \cup N
       /\ \A b \in {ip.at} \cup Pending(prog, Top) \cup N :
            b = ip'.at \/ b \in Pending(prog, f) \/ EndsOnce(blocks', b)
       /\ Open(blocks', ip'.at)
  BY <1>14, <1>15, <1>16, <1>19, <1>20, <1>21
<1> QED
  BY <1>2, <1>6, <1>8, <1>9, <1>13, <1>15, <1>17, <1>18, <1>20, <1>23, <1>24, <1>25, <1>26, <1>27, <1>28, WholeCall

(* The other branch of an if.                                              *)
LEMMA IfElseWhole ==
  ASSUME Good, IInv', Placement', IfElse
  PROVE  Whole'
<1>1. InCall("codegen", "if", 1) /\ HasElse
  BY DEF IfElse
<1>2. PICK n, x, y, f : n = Top.n /\ x = Top.x /\ y = Top.y /\ f = [Top EXCEPT !.pc = 2]
  OBVIOUS
<1>3. /\ Coding(Top) /\ Me.kind = "if" /\ Top.pc = 1 /\ ~Ending /\ Top.act = "codegen"
      /\ Top \in Frame /\ n \in Node /\ prog[n] = Me /\ Len(Me.kids) \in Nat
      /\ CodegenOK(Top, lowered) /\ \A j \in 1..Len(Me.kids) : Kid(j) = Me.kids[j]
  BY <1>1, <1>2, CodingFacts
<1>4. /\ FallThrough(y) /\ layout' = Append(layout, x) /\ ip' = AtEnd(x)
      /\ Invoke(f, Enter("codegen", Kid(2)))
      /\ prog' = prog /\ deferrals' = deferrals /\ lowered' = lowered
      /\ \A m \in Node : m # n => held'[m] = held[m]
  <2>1. held \in [Node -> [a : Nat, b : Nat]]  BY DEF Good, IInv, HeldOK
  <2>2. held' = [held EXCEPT ![Top.n].a = ip.at, ![Top.n].b = Top.x]  BY DEF IfElse
  <2>3. \A m \in Node : m # n => held'[m] = held[m]  BY <1>2, <2>1, <2>2
  <2> QED  BY <1>2, <2>3 DEF IfElse, Place, tree
<1>5. x \in Jumpable /\ y \in Jumpable /\ 2 \in 1..Len(Me.kids) /\ Top.pc <= Len(Me.kids)
  <2>1. Len(Me.kids) = 2  BY <1>1 DEF HasElse
  <2>2. 2 \in 1..Len(Me.kids) /\ Top.pc <= Len(Me.kids)  BY <1>3, <2>1
  <2> QED  BY <1>2, <1>3, <2>2 DEF CodegenOK
<1>6. f \in Frame /\ f.act = Top.act /\ f.n = n /\ f.pc = 2 /\ f.x = x /\ f.y = y /\ Coding(f)
  BY <1>2, <1>3 DEF Frame, Coding
<1>7. Pending(prog, Top) = {x, y} /\ x # y /\ Pending(prog, f) = {y}
  <2>1. Doing(prog, Top, {"if"})  BY <1>2, <1>3 DEF Doing
  <2>2. Doing(prog, f, {"if"}) /\ f.pc # 1  BY <1>3, <1>6 DEF Doing
  <2>3. Orderly(prog, Top, Len(stack))  BY Running DEF Good, Placement, Top
  <2>4. Waits(prog, Top) = {x, y}  BY <1>2, <1>3 DEF Waits, Coding
  <2>5. x # y  BY <1>1, <1>2, <1>3, <2>3, <2>4 DEF Orderly, HasElse
  <2> QED  BY <1>2, <1>3, <1>6, <2>1, <2>2, <2>5, PendingIs
<1>8. Filled(blocks, ip.at)
  BY <1>3, <1>5, BranchFilled
<1>9. /\ EndsOnce(blocks', ip.at) /\ Linked(blocks') /\ Len(blocks') = Len(blocks)
      /\ \A b \in Made : b # ip.at => Alike(blocks, blocks', b)
  BY <1>4, <1>5, <1>8, FallsThrough
<1>10. /\ x \in Made /\ x # ip.at /\ Open(blocks, x)
       /\ y \in Made /\ y # ip.at /\ Open(blocks, y)
  BY <1>7, BlockFacts
<1>11. Open(blocks', x) /\ Open(blocks', y)
  BY <1>9, <1>10 DEF Alike
<1>12. ip' \in InsertPoint /\ ip'.at = x /\ ~ip'.back /\ x \in 1..Len(blocks')
  <2>1. x \in Nat  BY <1>10, BlockFacts
  <2> QED  BY <1>4, <1>9, <1>10, <2>1 DEF AtEnd, InsertPoint, Made
<1>13. InOrder(prog, stack', layout', ip'.at)
  <2>1. x = layout'[Len(layout')]
    <3>1. layout \in Seq(Made) /\ Len(layout) \in Nat  BY BlockFacts
    <3> QED  BY <1>4, <3>1
  <2> QED  BY <1>12, <2>1, InOrderLast
<1>14. PICK N : N = {}
  OBVIOUS
<1>15. Made' = Made \cup N /\ N \cap Made = {}
  BY <1>9, <1>14 DEF Made
<1>16. /\ Busy(prog, f) /\ Callee(prog, f) = Kid(2)
       /\ Later(prog, Top, 2) /\ ~Later(prog, f, 2)
       /\ \A j \in 1..Len(Me.kids) : Later(prog, f, j) => Later(prog, Top, j)
  <2>1. \A j \in 1..Len(Me.kids) : j > 2 => j > 1  OBVIOUS
  <2> QED  BY <1>2, <1>3, <1>5, <1>6, <2>1 DEF Busy, Callee, Later
<1>17. ~Doing(prog, f, {"while"}) /\ ~Doing(prog, f, {"match"}) /\ ~Doing(prog, f, {"for", "match"})
  BY <1>3, <1>6 DEF Doing
<1>18. Me.kind \in Branches \cup Loops
  BY <1>3 DEF Branches
<1>19. /\ \A b \in Pending(prog, f) : Open(blocks', b) /\ b # ip'.at
       /\ Pending(prog, f) \subseteq Pending(prog, Top) \cup N
       /\ ip'.at \in {ip.at} \cup Pending(prog, Top) \cup N
       /\ \A b \in {ip.at} \cup Pending(prog, Top) \cup N :
            b = ip'.at \/ b \in Pending(prog, f) \/ EndsOnce(blocks', b)
       /\ Open(blocks', ip'.at)
  BY <1>7, <1>9, <1>11, <1>12, <1>14
<1> QED
  BY <1>2, <1>3, <1>4, <1>5, <1>6, <1>9, <1>12, <1>13, <1>15, <1>16, <1>17, <1>18, <1>19, WholeCall

(* Behind the first of the last three blocks are the other two.            *)
LEMMA BehindThree ==
  ASSUME NEW r, NEW n \in Nat, Len(r) = n + 3, Distinct(r)
  PROVE  \A e \in Behind(r, r[n + 1]) : e = r[n + 2] \/ e = r[n + 3]
<1>1. PICK m : m = n + 3
  OBVIOUS
<1>2. /\ \A k \in 1..m : \A i \in 1..k-1 : i \in 1..m /\ (i = n + 1 => k = n + 2 \/ k = n + 3)
      /\ n + 1 \in 1..m
  BY ONLY <1>1, n \in Nat
<1>3. \A i \in 1..m : r[i] = r[n + 1] => i = n + 1
  BY <1>1, <1>2 DEF Distinct
<1>4. Len(r) = m
  BY <1>1
<1>5. \A e : e \in Behind(r, r[n + 1]) => e = r[n + 2] \/ e = r[n + 3]
  <2> SUFFICES ASSUME NEW e, e \in Behind(r, r[n + 1]) PROVE e = r[n + 2] \/ e = r[n + 3]
    OBVIOUS
  <2>1. PICK b : b = r[n + 1]
    OBVIOUS
  <2>2. \E k \in 1..Len(r) : e = r[k] /\ \E i \in 1..k-1 : r[i] = b
    BY <2>1, BehindIs
  <2> QED  BY <1>2, <1>3, <1>4, <2>1, <2>2
<1> QED  BY <1>5

(* The start of a while.                                                   *)
LEMMA WhileEnterWhole ==
  ASSUME Good, IInv', Placement', WhileEnter, status' = "run"
  PROVE  Whole'
<1>1. InCall("codegen", "while", 0)
  BY DEF WhileEnter
<1>2. PICK n, l, new : /\ n = Top.n /\ l = Len(blocks)
                       /\ new = <<Fresh("while"), Fresh("deferBlock"), Fresh("cont")>>
  OBVIOUS
<1>3. PICK f, inst : /\ f = [Top EXCEPT !.pc = 1, !.x = l + 1, !.y = l + 3]
                     /\ inst = CondBr(n, l + 1, l + 2)
  OBVIOUS
<1>4. /\ Coding(Top) /\ Me.kind = "while" /\ Top.pc = 0 /\ ~Ending /\ Top.act = "codegen"
      /\ Top \in Frame /\ n \in Node /\ n \in Nat /\ prog[n] = Me /\ WellFormedNode(Me) /\ Len(Me.kids) \in Nat
      /\ \A j \in 1..Len(Me.kids) : Kid(j) = Me.kids[j]
  BY <1>1, <1>2, CodingFacts
<1>5. l + 1 = Next1 /\ l + 2 = Next1 + 1 /\ l + 3 = Next1 + 2 /\ l \in Nat \ {0}
  BY <1>2, BlockFacts DEF Next1
<1>6. Me.ok
  BY DEF WhileEnter, EndWith
<1>7. /\ blocks' = Emit(blocks \o new, ip, inst) /\ layout' = layout \o <<l + 1, l + 2, l + 3>>
      /\ ip' = AtEnd(l + 1) /\ held' = [held EXCEPT ![n].a = l + 2]
      /\ Invoke(f, Enter("codegen", Kid(1)))
      /\ prog' = prog /\ deferrals' = deferrals /\ lowered' = lowered
  BY <1>2, <1>3, <1>5, <1>6, Zenon DEF WhileEnter, tree
<1>8. 1 \in 1..Len(Me.kids)
  BY <1>4, KidNumbers
<1>9. PICK t : t = l + 3
  OBVIOUS
<1>10. new \in Seq({Fresh(x) : x \in Names}) /\ t = l + Len(new)
  <2>1. {"while", "deferBlock", "cont"} \subseteq Names  BY DEF Names
  <2>2. new \in Seq({Fresh(x) : x \in Names}) /\ Len(new) = 3  BY <1>2, <2>1, FreshNames
  <2> QED  BY <1>9, <2>2
<1>11. inst \in InstIn(t) /\ IsTerminator(inst)
  <2>1. l + 1 \in 2..t /\ l + 2 \in 2..t  BY <1>5, <1>9
  <2> QED  BY <1>3, <1>4, <2>1, InstFacts DEF CondBr, IsTerminator, Terminators, Ops
<1>12. Me.kind \in Branches \cup Loops
  BY <1>4 DEF Loops
<1>13. Open(blocks, ip.at) /\ ~ip.back /\ Pending(prog, Top) = {}
  BY <1>4, <1>12, EntersOpen
<1>14. /\ Linked(blocks') /\ Len(blocks') = t /\ EndsOnce(blocks', ip.at)
       /\ \A b \in Made : b # ip.at => Alike(blocks, blocks', b)
       /\ \A b \in Made' : b \notin Made => Open(blocks', b)
  BY <1>2, <1>7, <1>10, <1>11, <1>13, NewBlocksOpen
<1>15. PICK N : N = {l + 1, l + 2, l + 3}
  OBVIOUS
<1>16. Made' = Made \cup N /\ N \cap Made = {}
  <2>1. Made = 1..l /\ Made' = 1..t  BY <1>2, <1>14 DEF Made
  <2>2. 1..t = 1..l \cup N /\ N \cap 1..l = {}  BY ONLY <1>5, <1>9, <1>15
  <2> QED  BY <2>1, <2>2
<1>17. /\ f \in Frame /\ f.act = Top.act /\ f.n = n /\ f.pc = 1 /\ f.x = l + 1 /\ f.y = l + 3 /\ Coding(f)
       /\ f.y = f.x + 2 /\ f.x + 1 = l + 2
  <2>1. l + 1 \in Nat /\ l + 3 \in Nat  BY <1>5
  <2>2. f \in Frame /\ f.act = Top.act /\ f.n = n /\ f.pc = 1 /\ f.x = l + 1 /\ f.y = l + 3 /\ Coding(f)
    BY <1>2, <1>3, <1>4, <2>1 DEF Frame, Coding
  <2> QED  BY <1>5, <2>2
<1>18. Doing(prog, f, {"while"}) /\ Pending(prog, f) = {l + 2, l + 3}
  <2>1. Doing(prog, f, {"while"})  BY <1>4, <1>17 DEF Doing
  <2> QED  BY <1>17, <2>1, PendingIs
<1>19. ip' \in InsertPoint /\ ip'.at = l + 1 /\ ~ip'.back /\ l + 1 \in 1..Len(blocks')
  <2>1. l + 1 \in Nat /\ l + 1 \in 1..t  BY <1>5, <1>9
  <2> QED  BY <1>7, <1>14, <2>1 DEF AtEnd, InsertPoint
<1>20. \A b \in N : Open(blocks', b)
  BY <1>14, <1>16
<1>21. l + 1 # l + 2 /\ l + 1 # l + 3
  BY <1>5
<1>22. InOrder(prog, stack', layout', ip'.at)
  <2>1. PICK g, r : g = Enter("codegen", Kid(1)) /\ r = layout'  OBVIOUS
  <2>2. g.pc = 0  BY <2>1 DEF Enter
  <2>3. /\ Called(stack, stack', f, g) /\ Len(stack) \in 1..Len(stack') /\ stack'[Len(stack)] = f
    BY <1>7, <2>1, <2>2, InvokeBeneath
  <2>4. Newest(prog, stack', Len(stack))
    <3>1. \A j \in Len(stack)+1..Len(stack') : stack'[j] = g
      <4>1. PICK c, d : c = Len(stack) /\ d = Len(stack')  OBVIOUS
      <4>2. c \in Nat /\ d = c + 1  BY <2>3, <4>1 DEF Called
      <4>3. \A j \in c+1..d : j = c + 1  BY ONLY <4>2
      <4> QED  BY <2>3, <4>1, <4>3 DEF Called
    <3>2. ~Doing(prog, g, {"while"})  BY <2>2, NothingPending
    <3> QED  BY <1>18, <2>3, <3>1, <3>2 DEF Newest
  <2>5. Distinct(r) /\ layout \in Seq(Made)
    BY <2>1, BlockFacts DEF Placement
  <2>6. Behind(r, l + 1) \subseteq {l + 2, l + 3} /\ l + 1 \in ToSet(r)
    <3>1. PICK c : c = Len(layout)  OBVIOUS
    <3>2. c \in Nat /\ Len(r) = c + 3 /\ r[c + 1] = l + 1 /\ r[c + 2] = l + 2 /\ r[c + 3] = l + 3
      BY <1>7, <2>1, <2>5, <3>1
    <3>3. Behind(r, l + 1) \subseteq {l + 2, l + 3}  BY <2>5, <3>2, BehindThree
    <3>4. c + 1 \in 1..c + 3  BY ONLY <3>2
    <3> QED  BY <3>2, <3>3, <3>4 DEF ToSet
  <2> QED  BY <1>18, <1>19, <2>1, <2>3, <2>4, <2>6 DEF InOrder
<1>23. /\ Busy(prog, f) /\ Callee(prog, f) = Kid(1)
       /\ Later(prog, Top, 1) /\ ~Later(prog, f, 1)
       /\ \A j \in 1..Len(Me.kids) : Later(prog, f, j) => Later(prog, Top, j)
  BY <1>2, <1>4, <1>8, <1>17 DEF Busy, Callee, Later
<1>24. /\ \A m \in Node : m # Top.n => held'[m] = held[m]
       /\ Doing(prog, f, {"while"}) => f.y = f.x + 2 /\ held'[f.n].a = f.x + 1
  <2>1. held \in [Node -> [a : Nat, b : Nat]]  BY DEF Good, IInv, HeldOK
  <2> QED  BY <1>2, <1>4, <1>7, <1>17, <2>1
<1>25. ~Doing(prog, f, {"match"}) /\ ~Doing(prog, f, {"for", "match"})
  BY <1>4, <1>17 DEF Doing
<1>26. \A b \in Pending(prog, f) : Open(blocks', b) /\ b # ip'.at
  BY <1>15, <1>18, <1>19, <1>20, <1>21
<1>27. /\ Pending(prog, f) \subseteq Pending(prog, Top) \cup N
       /\ ip'.at \in {ip.at} \cup Pending(prog, Top) \cup N
       /\ \A b \in {ip.at} \cup Pending(prog, Top) \cup N :
            b = ip'.at \/ b \in Pending(prog, f) \/ EndsOnce(blocks', b)
       /\ Open(blocks', ip'.at)
  BY <1>13, <1>14, <1>15, <1>18, <1>19, <1>20
<1>28. /\ Invoke(f, Enter("codegen", Kid(1))) /\ f.act = Top.act /\ f.n = Top.n
       /\ prog' = prog /\ deferrals' = deferrals /\ lowered' = lowered
       /\ Coding(Top) /\ ~Ending /\ Me.kind = "while"
       /\ \A b \in Made : b # ip.at => Alike(blocks, blocks', b)
       /\ Linked(blocks')
  BY <1>2, <1>4, <1>7, <1>14, <1>17
<1> QED
  BY <1>8, <1>12, <1>16, <1>19, <1>22, <1>23, <1>24, <1>25, <1>26, <1>27, <1>28, WholeCall

(* The start of a for.                                                     *)
LEMMA ForEnterWhole ==
  ASSUME Good, IInv', Placement', ForEnter, status' = "run"
  PROVE  Whole'
<1>1. InCall("codegen", "for", 0)
  BY DEF ForEnter
<1>2. PICK n, l, new : n = Top.n /\ l = Len(blocks) /\ new = <<Fresh("for"), Fresh("cont")>>
  OBVIOUS
<1>3. PICK f, inst : /\ f = [Top EXCEPT !.pc = 1, !.x = l + 1, !.y = l + 2]
                     /\ inst = CondBr(n, l + 1, l + 2)
  OBVIOUS
<1>4. /\ Coding(Top) /\ Me.kind = "for" /\ Top.pc = 0 /\ ~Ending /\ Top.act = "codegen"
      /\ Top \in Frame /\ n \in Node /\ n \in Nat /\ prog[n] = Me /\ WellFormedNode(Me) /\ Len(Me.kids) \in Nat
      /\ \A j \in 1..Len(Me.kids) : Kid(j) = Me.kids[j]
  BY <1>1, <1>2, CodingFacts
<1>5. l + 1 = Next1 /\ l + 2 = Next1 + 1 /\ l \in Nat \ {0}
  BY <1>2, BlockFacts DEF Next1
<1>6. Me.ok
  BY DEF ForEnter, EndWith
<1>7. /\ blocks' = Emit(blocks \o new, ip, inst) /\ layout' = layout \o <<l + 1, l + 2>>
      /\ ip' = AtEnd(l + 1) /\ held' = held
      /\ Invoke(f, Enter("codegen", Kid(1)))
      /\ prog' = prog /\ deferrals' = deferrals /\ lowered' = lowered
  BY <1>2, <1>3, <1>5, <1>6, Zenon DEF ForEnter, tree, notes
<1>8. 1 \in 1..Len(Me.kids)
  BY <1>4, KidNumbers
<1>9. PICK t : t = l + 2
  OBVIOUS
<1>10. new \in Seq({Fresh(x) : x \in Names}) /\ t = l + Len(new)
  <2>1. {"for", "cont"} \subseteq Names  BY DEF Names
  <2>2. new \in Seq({Fresh(x) : x \in Names}) /\ Len(new) = 2  BY <1>2, <2>1, FreshNames
  <2> QED  BY <1>9, <2>2
<1>11. inst \in InstIn(t) /\ IsTerminator(inst)
  <2>1. l + 1 \in 2..t /\ l + 2 \in 2..t  BY <1>5, <1>9
  <2> QED  BY <1>3, <1>4, <2>1, InstFacts DEF CondBr, IsTerminator, Terminators, Ops
<1>12. Me.kind \in Branches \cup Loops
  BY <1>4 DEF Loops
<1>13. Open(blocks, ip.at) /\ ~ip.back /\ Pending(prog, Top) = {}
  BY <1>4, <1>12, EntersOpen
<1>14. /\ Linked(blocks') /\ Len(blocks') = t /\ EndsOnce(blocks', ip.at)
       /\ \A b \in Made : b # ip.at => Alike(blocks, blocks', b)
       /\ \A b \in Made' : b \notin Made => Open(blocks', b)
  BY <1>2, <1>7, <1>10, <1>11, <1>13, NewBlocksOpen
<1>15. PICK N : N = {l + 1, l + 2}
  OBVIOUS
<1>16. Made' = Made \cup N /\ N \cap Made = {}
  <2>1. Made = 1..l /\ Made' = 1..t  BY <1>2, <1>14 DEF Made
  <2>2. 1..t = 1..l \cup N /\ N \cap 1..l = {}  BY ONLY <1>5, <1>9, <1>15
  <2> QED  BY <2>1, <2>2
<1>17. f \in Frame /\ f.act = Top.act /\ f.n = n /\ f.pc = 1 /\ f.x = l + 1 /\ f.y = l + 2 /\ Coding(f)
  <2>1. l + 1 \in Nat /\ l + 2 \in Nat  BY <1>5
  <2> QED  BY <1>2, <1>3, <1>4, <2>1 DEF Frame, Coding
<1>18. Doing(prog, f, {"for"}) /\ Doing(prog, f, {"for", "match"}) /\ Pending(prog, f) = {l + 2}
  <2>1. Doing(prog, f, {"for"}) /\ Doing(prog, f, {"for", "match"})  BY <1>4, <1>17 DEF Doing
  <2> QED  BY <1>17, <2>1, PendingIs
<1>19. ip' \in InsertPoint /\ ip'.at = l + 1 /\ ~ip'.back /\ l + 1 \in 1..Len(blocks')
  <2>1. l + 1 \in Nat /\ l + 1 \in 1..t  BY <1>5, <1>9
  <2> QED  BY <1>7, <1>14, <2>1 DEF AtEnd, InsertPoint
<1>20. \A b \in N : Open(blocks', b)
  BY <1>14, <1>16
<1>21. l + 1 # l + 2
  BY <1>5
<1>22. InOrder(prog, stack', layout', ip'.at)
  <2>1. PICK g : g = Enter("codegen", Kid(1))  OBVIOUS
  <2>2. g.pc = 0  BY <2>1 DEF Enter
  <2>3. Len(stack) \in 1..Len(stack') /\ stack'[Len(stack)] = f
    BY <1>7, <2>1, <2>2, InvokeBeneath
  <2> QED  BY <1>18, <2>3 DEF InOrder
<1>23. /\ Busy(prog, f) /\ Callee(prog, f) = Kid(1)
       /\ Later(prog, Top, 1) /\ ~Later(prog, f, 1)
       /\ \A j \in 1..Len(Me.kids) : Later(prog, f, j) => Later(prog, Top, j)
  BY <1>2, <1>4, <1>8, <1>17 DEF Busy, Callee, Later
<1>24. ~Doing(prog, f, {"match"}) /\ ~Doing(prog, f, {"while"})
  BY <1>4, <1>17 DEF Doing
<1>25. f.y = layout'[Len(layout')]
  <2>1. layout \in Seq(Made) /\ Len(layout) \in Nat  BY BlockFacts
  <2> QED  BY <1>7, <1>17, <2>1
<1>26. \A b \in Pending(prog, f) : Open(blocks', b) /\ b # ip'.at
  BY <1>15, <1>18, <1>19, <1>20, <1>21
<1>27. /\ Pending(prog, f) \subseteq Pending(prog, Top) \cup N
       /\ ip'.at \in {ip.at} \cup Pending(prog, Top) \cup N
       /\ \A b \in {ip.at} \cup Pending(prog, Top) \cup N :
            b = ip'.at \/ b \in Pending(prog, f) \/ EndsOnce(blocks', b)
       /\ Open(blocks', ip'.at)
  BY <1>13, <1>14, <1>15, <1>18, <1>19, <1>20
<1> QED
  BY <1>2, <1>4, <1>7, <1>8, <1>12, <1>14, <1>16, <1>17, <1>19, <1>22, <1>23, <1>24, <1>25, <1>26, <1>27, WholeCall

(* A block in front of the last one leaves that the last.                  *)
LEMMA InsertBeforeLast ==
  ASSUME NEW S, NEW s \in Seq(S), NEW b \in S, s # <<>>, Distinct(s), NEW y, y = s[Len(s)],
         NEW t, t = InsertBefore(s, b, y)
  PROVE  t[Len(t)] = y
<1>1. PICK n : n = Len(s)
  OBVIOUS
<1>2. n \in Nat \ {0}
  BY <1>1, EmptySeq
<1>3. n \in 1..n /\ n + 1 \in 1..n + 1 /\ n \in 1..n + 1 /\ ~(n + 1 < n) /\ n + 1 # n /\ n + 1 - 1 = n
  BY ONLY <1>2
<1>4. y \in ToSet(s)
  BY <1>1, <1>3, ToSetOf
<1>5. PICK i : i = IndexOf(s, y)
  OBVIOUS
<1>6. i \in 1..n /\ s[i] = y
  BY <1>1, <1>4, <1>5, IndexOfProperties
<1>7. i = n
  BY <1>1, <1>3, <1>6 DEF Distinct
<1>8. t = InsertAt(s, n, b)
  BY <1>5, <1>7 DEF InsertBefore
<1>9. Inserted(S, t, s, n, b)
  BY <1>1, <1>3, <1>8, InsertAtInserts
<1>10. Len(t) = n + 1 /\ t[n + 1] = s[n]
  BY <1>1, <1>3, <1>9 DEF Inserted
<1> QED  BY <1>1, <1>10

(* What the arms of a supported match are.                                 *)
LEMMA ArmFacts ==
  ASSUME Good, NEW pc, InCall("codegen", "match", pc), pc # 0
  PROVE  /\ HasDefault /\ Me.kids # <<>>
         /\ \A i \in 1..Len(Me.kids) : EndsFilled(prog)[Me.kids[i]] /\ StraightLine(prog, Me.kids[i])
         /\ Top.x \in Jumpable /\ Top.y \in Jumpable /\ Top.y = Top.x + 1 /\ Top.x # Top.y
         /\ Top.y = layout[Len(layout)]
         /\ Doing(prog, Top, {"match"}) /\ Len(Top.todo) = 1 /\ Top.todo[1] \in Made
         /\ Pending(prog, Top) = IF Top.i < Len(Me.kids) THEN {Top.x, Top.y} ELSE {Top.y}
<1>1. /\ Coding(Top) /\ Me.kind = "match" /\ Top.pc = pc /\ Top.n \in Node /\ prog[Top.n] = Me
      /\ CodegenOK(Top, lowered) /\ Top.todo \in Seq(Made) /\ SupportedStmt(prog, Top.n) /\ Rooted(prog)
      /\ \A i \in 1..Len(Me.kids) : Kid(i) = Me.kids[i]
  BY CodingFacts
<1>2. /\ Me.arg = 1 /\ Me.kids # <<>>
      /\ \A k \in ToSet(Me.kids) : EndsFilled(prog)[k] /\ StraightLine(prog, k)
  BY <1>1 DEF SupportedStmt
<1>3. \A i \in 1..Len(Me.kids) : Me.kids[i] \in ToSet(Me.kids)
  BY <1>1, KidFine
<1>4. Doing(prog, Top, {"match"}) /\ Doing(prog, Top, {"for", "match"})
  BY <1>1 DEF Doing
<1>5. Len(stack) \in 1..Len(stack) /\ Top = stack[Len(stack)]
  BY Running DEF Top
<1>6. Top.y = Top.x + 1 /\ Top.y = layout[Len(layout)]
  BY <1>4, <1>5 DEF Good, Whole, Order, LastBlock
<1>7. Top.x \in Jumpable /\ Top.y \in Standing /\ Len(Top.todo) = 1
  BY <1>1 DEF CodegenOK
<1>8. Top.todo[1] \in Made
  <2>1. 1 \in 1..Len(Top.todo)  BY <1>7
  <2> QED  BY <1>1, <2>1, ElementOfSeq
<1>9. Top.y \in Jumpable /\ Top.x # Top.y
  <2>1. Len(blocks) \in Nat /\ ToSet(layout) \subseteq 1..Len(blocks)  BY BlockFacts DEF Made
  <2> QED  BY <1>6, <1>7, <2>1 DEF Jumpable, Standing
<1>10. Pending(prog, Top) = IF Top.i < Len(Me.kids) THEN {Top.x, Top.y} ELSE {Top.y}
  BY <1>1, <1>4, PendingIs
<1> QED  BY <1>2, <1>3, <1>4, <1>6, <1>7, <1>8, <1>9, <1>10 DEF HasDefault

(* Between two arms the builder's block has ended.                         *)
LEMMA BetweenArms ==
  ASSUME Good, InCall("codegen", "match", 1)
  PROVE  Complete(ip.at)
<1>1. Coding(Top) /\ Me.kind = "match" /\ Top.pc = 1 /\ ~Ending
  BY CodingFacts
<1>2. Finds(Top)
  BY <1>1, BlockFacts
<1>3. ~Busy(prog, Top)
  BY <1>1 DEF Busy, Me
<1> QED  BY <1>1, <1>2, <1>3 DEF Finds, Me

(* An arm of a match.                                                      *)
LEMMA MatchCaseWhole ==
  ASSUME Good, IInv', Placement', MatchCase
  PROVE  Whole'
<1>1. InCall("codegen", "match", 1) /\ Top.i < Len(Me.kids) /\ ~IsDefault(Top.i + 1)
  BY DEF MatchCase
<1>2. PICK n, i, f, c, x, y, a, l : /\ n = Top.n /\ i = Top.i + 1 /\ l = Len(blocks) /\ c = l + 1
                                 /\ f = [Top EXCEPT !.pc = 2, !.i = i]
                                 /\ x = Top.x /\ y = Top.y /\ a = Top.todo[1]
  OBVIOUS
<1>3. /\ Coding(Top) /\ Me.kind = "match" /\ Top.pc = 1 /\ ~Ending /\ Top.act = "codegen"
      /\ Top \in Frame /\ n \in Node /\ prog[n] = Me /\ Len(Me.kids) \in Nat /\ Top.i \in Nat
      /\ \A j \in 1..Len(Me.kids) : Kid(j) = Me.kids[j]
  BY <1>1, <1>2, CodingFacts
<1>4. /\ HasDefault /\ x \in Jumpable /\ y \in Jumpable /\ y = x + 1 /\ y = layout[Len(layout)]
      /\ a \in Made /\ Pending(prog, Top) = {x, y}
  BY <1>1, <1>2, ArmFacts
<1>5. PICK bs, new : new = <<Fresh("case")>> /\ bs = blocks \o new
  OBVIOUS
<1>6. /\ blocks' = AddCase(bs, a, x, c) /\ layout' = InsertBefore(layout, c, y) /\ ip' = AtEnd(c)
      /\ Invoke(f, Enter("codegen", Kid(i)))
      /\ prog' = prog /\ deferrals' = deferrals /\ lowered' = lowered /\ held' = held
  <2>1. Append(blocks, Fresh("case")) = bs
    BY <1>5, AppendIsConcat DEF Good, IInv, BlocksOK, Linked
  <2>2. c = Next1  BY <1>2 DEF Next1
  <2>3. f = [Top EXCEPT !.pc = 2, !.i = @ + 1]  BY <1>2
  <2> QED  BY <1>2, <2>1, <2>2, <2>3 DEF MatchCase, tree, notes
<1>7. i \in 1..Len(Me.kids) /\ i < Len(Me.kids) /\ i \in Nat /\ i = Top.i + 1
  <2>1. i # Len(Me.kids)  BY <1>1, <1>2, <1>4 DEF IsDefault
  <2> QED  BY <1>1, <1>2, <1>3, <2>1
<1>8. /\ l \in Nat \ {0} /\ Linked(bs) /\ Len(bs) = c /\ bs # <<>>
      /\ \A b \in Made : bs[b] = blocks[b]
      /\ bs[c] = Fresh("case")
  <2>1. l \in Nat \ {0} /\ Linked(blocks)  BY <1>2, BlockFacts
  <2>2. new \in Seq({Fresh(z) : z \in Names}) /\ Len(new) = 1
    BY <1>5, FreshNames DEF Names
  <2>3. Linked(bs) /\ Len(bs) = c /\ \A b \in Made : bs[b] = blocks[b]
    BY <1>2, <1>5, <2>1, <2>2, FreshProperties DEF Made
  <2>4. blocks \in Seq(Block)  BY <2>1, LinkedBlocks
  <2>5. bs[c] = Fresh("case")  BY <1>2, <1>5, <2>1, <2>4
  <2>6. bs # <<>>  BY <1>2, <2>1, <2>3
  <2> QED  BY <2>1, <2>3, <2>5, <2>6
<1>9. Linked(blocks') /\ Len(blocks') = c
  <2>1. a \in 1..Len(bs) /\ c \in 2..Len(bs)
    BY <1>2, <1>4, <1>8 DEF Made
  <2> QED  BY <1>6, <1>8, <2>1, AddCaseProperties
<1>10. \A b \in 1..c : Alike(bs, blocks', b)
  <2>1. bs \in Seq(Block)  BY <1>8, LinkedBlocks
  <2>2. \A b \in 1..c : bs[b].insts \in Seq(Inst)
    <3>1. \A b \in 1..c : bs[b] \in Block  BY <1>8, <2>1, ElementOfSeq
    <3> QED  BY <3>1 DEF Block
  <2> QED  BY <1>6, <1>8, <2>2, AddCaseAlike
<1>11. \A b \in Made : Alike(blocks, blocks', b)
  <2>1. \A b \in Made : b \in 1..c  BY <1>2, <1>8 DEF Made
  <2>2. \A b \in Made : Alike(blocks, bs, b)  BY <1>8, SameAlike
  <2> QED  BY <1>10, <2>1, <2>2, AlikeTwice
<1>12. Open(blocks', c)
  <2>1. Open(bs, c)
    <3>1. bs[c].insts = <<>>  BY <1>8 DEF Fresh
    <3>2. Len(<<>>) = 0 /\ \A j \in 1..0 : FALSE  BY EmptySeq
    <3> QED  BY <3>1, <3>2 DEF Open
  <2>2. c \in 1..c  BY <1>2, <1>8
  <2> QED  BY <1>10, <2>1, <2>2 DEF Alike
<1>13. PICK N : N = {c}
  OBVIOUS
<1>14. Made' = Made \cup N /\ N \cap Made = {} /\ c \notin Made
  <2>1. Made = 1..l /\ Made' = 1..c  BY <1>2, <1>9 DEF Made
  <2>2. 1..c = 1..l \cup {c} /\ c \notin 1..l
    <3>1. c = l + 1 /\ l \in Nat  BY <1>2, <1>8
    <3> QED  BY ONLY <3>1
  <2> QED  BY <1>13, <2>1, <2>2
<1>15. /\ f \in Frame /\ f.act = Top.act /\ f.n = n /\ f.pc = 2 /\ f.i = i /\ f.x = x /\ f.y = y /\ Coding(f)
  BY <1>2, <1>3, <1>7 DEF Frame, Coding
<1>16. Doing(prog, f, {"match"}) /\ Doing(prog, f, {"for", "match"}) /\ Pending(prog, f) = {x, y}
  <2>1. Doing(prog, f, {"match"}) /\ Doing(prog, f, {"for", "match"})  BY <1>3, <1>15 DEF Doing
  <2> QED  BY <1>3, <1>7, <1>15, <2>1, PendingIs
<1>17. ip' \in InsertPoint /\ ip'.at = c /\ ~ip'.back /\ c \in 1..Len(blocks')
  <2>1. c \in Nat /\ c \in 1..c  BY <1>2, <1>8
  <2> QED  BY <1>6, <1>9, <2>1 DEF AtEnd, InsertPoint
<1>18. x \in Made /\ y \in Made /\ Open(blocks', x) /\ Open(blocks', y) /\ x # c /\ y # c
  BY <1>4, <1>11, <1>14, BlockFacts DEF Alike
<1>19. InOrder(prog, stack', layout', ip'.at)
  <2>1. PICK g : g = Enter("codegen", Kid(i))  OBVIOUS
  <2>2. g.pc = 0  BY <2>1 DEF Enter
  <2>3. Len(stack) \in 1..Len(stack') /\ stack'[Len(stack)] = f
    BY <1>6, <2>1, <2>2, InvokeBeneath
  <2> QED  BY <1>16, <2>3 DEF InOrder
<1>20. /\ Busy(prog, f) /\ Callee(prog, f) = Kid(i)
       /\ Later(prog, Top, i) /\ ~Later(prog, f, i)
       /\ \A j \in 1..Len(Me.kids) : Later(prog, f, j) => Later(prog, Top, j)
  <2>1. \A j \in 1..Len(Me.kids) : j > i => j > Top.i  BY <1>3, <1>7
  <2>2. i > Top.i /\ ~(i > i)  BY <1>3, <1>7
  <2> QED  BY <1>2, <1>3, <1>7, <1>15, <2>1, <2>2 DEF Busy, Callee, Later
<1>21. ~Doing(prog, f, {"while"})
  BY <1>3, <1>15 DEF Doing
<1>22. f.y = layout'[Len(layout')]
  <2>1. PICK S : S = 1..c  OBVIOUS
  <2>2. layout \in Seq(S) /\ layout # <<>> /\ Distinct(layout) /\ c \in S
    <3>1. Made \subseteq S  BY <1>2, <1>8, <2>1 DEF Made
    <3>2. c \in S  BY <1>2, <1>8, <2>1
    <3> QED  BY <3>1, <3>2, SeqMonotonic, BlockFacts
  <2>3. layout'[Len(layout')] = y
    BY <1>4, <1>6, <2>2, InsertBeforeLast
  <2> QED  BY <1>15, <2>3
<1>23. EndsOnce(blocks', ip.at)
  <2>1. Complete(ip.at)  BY <1>1, BetweenArms
  <2> QED  BY <1>11, <2>1, BlockFacts DEF Complete, Alike
<1>24. Me.kind \in Branches \cup Loops
  BY <1>3 DEF Branches
<1>25. /\ \A b \in Pending(prog, f) : Open(blocks', b) /\ b # ip'.at
       /\ Pending(prog, f) \subseteq Pending(prog, Top) \cup N
       /\ ip'.at \in {ip.at} \cup Pending(prog, Top) \cup N
       /\ \A b \in {ip.at} \cup Pending(prog, Top) \cup N :
            b = ip'.at \/ b \in Pending(prog, f) \/ EndsOnce(blocks', b)
       /\ Open(blocks', ip'.at)
  BY <1>4, <1>12, <1>13, <1>16, <1>17, <1>18, <1>23
<1>26. /\ Invoke(f, Enter("codegen", Kid(i))) /\ f.act = Top.act /\ f.n = Top.n
       /\ prog' = prog /\ deferrals' = deferrals /\ lowered' = lowered /\ held' = held
       /\ Coding(Top) /\ ~Ending /\ Me.kind = "match" /\ f.pc = 2 /\ f.y = f.x + 1
       /\ \A b \in Made : b # ip.at => Alike(blocks, blocks', b)
       /\ Linked(blocks')
  BY <1>2, <1>3, <1>4, <1>6, <1>9, <1>11, <1>15
<1> QED
  BY <1>7, <1>14, <1>17, <1>19, <1>20, <1>21, <1>22, <1>24, <1>25, <1>26, WholeCall

(* The default of a match.                                                 *)
LEMMA MatchDefaultWhole ==
  ASSUME Good, IInv', Placement', MatchDefault
  PROVE  Whole'
<1>1. InCall("codegen", "match", 1) /\ Top.i < Len(Me.kids) /\ IsDefault(Top.i + 1)
  BY DEF MatchDefault
<1>2. PICK n, i, f, x, y : /\ n = Top.n /\ i = Top.i + 1
                           /\ f = [Top EXCEPT !.pc = 2, !.i = i]
                           /\ x = Top.x /\ y = Top.y
  OBVIOUS
<1>3. /\ Coding(Top) /\ Me.kind = "match" /\ Top.pc = 1 /\ ~Ending /\ Top.act = "codegen"
      /\ Top \in Frame /\ n \in Node /\ prog[n] = Me /\ Len(Me.kids) \in Nat /\ Top.i \in Nat
      /\ \A j \in 1..Len(Me.kids) : Kid(j) = Me.kids[j]
  BY <1>1, <1>2, CodingFacts
<1>4. /\ x \in Jumpable /\ y \in Jumpable /\ y = x + 1 /\ x # y /\ y = layout[Len(layout)]
      /\ Pending(prog, Top) = {x, y}
  BY <1>1, <1>2, ArmFacts
<1>5. /\ blocks' = blocks /\ layout' = layout /\ ip' = AtEnd(x)
      /\ Invoke(f, Enter("codegen", Kid(i)))
      /\ prog' = prog /\ deferrals' = deferrals /\ lowered' = lowered /\ held' = held
  <2>1. f = [Top EXCEPT !.pc = 2, !.i = @ + 1]  BY <1>2
  <2> QED  BY <1>2, <2>1 DEF MatchDefault, AndIp, tree, notes
<1>6. i \in 1..Len(Me.kids) /\ ~(i < Len(Me.kids)) /\ i \in Nat /\ i = Top.i + 1
  <2>1. i = Len(Me.kids)  BY <1>1, <1>2 DEF IsDefault
  <2> QED  BY <1>1, <1>2, <1>3, <2>1
<1>7. /\ f \in Frame /\ f.act = Top.act /\ f.n = n /\ f.pc = 2 /\ f.i = i /\ f.x = x /\ f.y = y /\ Coding(f)
  BY <1>2, <1>3, <1>6 DEF Frame, Coding
<1>8. Doing(prog, f, {"match"}) /\ Doing(prog, f, {"for", "match"}) /\ Pending(prog, f) = {y}
  <2>1. Doing(prog, f, {"match"}) /\ Doing(prog, f, {"for", "match"})  BY <1>3, <1>7 DEF Doing
  <2> QED  BY <1>3, <1>6, <1>7, <2>1, PendingIs
<1>9. x \in Made /\ y \in Made /\ Open(blocks, x) /\ Open(blocks, y)
  BY <1>4, BlockFacts
<1>10. ip' \in InsertPoint /\ ip'.at = x /\ ~ip'.back /\ x \in 1..Len(blocks')
  <2>1. x \in Nat  BY <1>9, BlockFacts
  <2> QED  BY <1>5, <1>9, <2>1 DEF AtEnd, InsertPoint, Made
<1>11. InOrder(prog, stack', layout', ip'.at)
  <2>1. PICK g : g = Enter("codegen", Kid(i))  OBVIOUS
  <2>2. g.pc = 0  BY <2>1 DEF Enter
  <2>3. Len(stack) \in 1..Len(stack') /\ stack'[Len(stack)] = f
    BY <1>5, <2>1, <2>2, InvokeBeneath
  <2> QED  BY <1>8, <2>3 DEF InOrder
<1>12. /\ Busy(prog, f) /\ Callee(prog, f) = Kid(i)
       /\ Later(prog, Top, i) /\ ~Later(prog, f, i)
       /\ \A j \in 1..Len(Me.kids) : Later(prog, f, j) => Later(prog, Top, j)
  <2>1. \A j \in 1..Len(Me.kids) : j > i => j > Top.i  BY <1>3, <1>6
  <2>2. i > Top.i /\ ~(i > i)  BY <1>3, <1>6
  <2> QED  BY <1>2, <1>3, <1>6, <1>7, <2>1, <2>2 DEF Busy, Callee, Later
<1>13. ~Doing(prog, f, {"while"})
  BY <1>3, <1>7 DEF Doing
<1>14. EndsOnce(blocks', ip.at)
  <2>1. Complete(ip.at)  BY <1>1, BetweenArms
  <2> QED  BY <1>5, <2>1 DEF Complete
<1>15. Me.kind \in Branches \cup Loops
  BY <1>3 DEF Branches
<1>16. PICK N : N = {}
  OBVIOUS
<1>17. Made' = Made \cup N /\ N \cap Made = {}
  BY <1>5, <1>16 DEF Made
<1>18. /\ \A b \in Pending(prog, f) : Open(blocks', b) /\ b # ip'.at
       /\ Pending(prog, f) \subseteq Pending(prog, Top) \cup N
       /\ ip'.at \in {ip.at} \cup Pending(prog, Top) \cup N
       /\ \A b \in {ip.at} \cup Pending(prog, Top) \cup N :
            b = ip'.at \/ b \in Pending(prog, f) \/ EndsOnce(blocks', b)
       /\ Open(blocks', ip'.at)
  BY <1>4, <1>5, <1>8, <1>9, <1>10, <1>14, <1>16
<1>19. \A b \in Made : Alike(blocks, blocks', b)
  BY <1>5, SameAlike
<1>20. /\ Invoke(f, Enter("codegen", Kid(i))) /\ f.act = Top.act /\ f.n = Top.n
       /\ prog' = prog /\ deferrals' = deferrals /\ lowered' = lowered /\ held' = held
       /\ Coding(Top) /\ ~Ending /\ Me.kind = "match" /\ f.pc = 2 /\ f.y = f.x + 1
       /\ f.y = layout'[Len(layout')] /\ Linked(blocks')
  BY <1>2, <1>3, <1>4, <1>5, <1>7, BlockFacts
<1> QED
  BY <1>6, <1>10, <1>11, <1>12, <1>13, <1>15, <1>17, <1>18, <1>19, <1>20, WholeCall

(* The scope of an arm, or of a typeswitch's option, is ended.             *)
LEMMA WholeArmExit ==
  ASSUME Good, Coding(Top), ~Ending, NEW i \in 1..Len(Me.kids), NEW f,
         Invoke(f, Enter("exit", Kid(i))), StackOnly, f.act = Top.act, f.n = Top.n,
         Calls(prog, f, Enter("exit", Kid(i))), StraightLine(prog, Kid(i)),
         Busy(prog, f), Callee(prog, f) = Kid(i), Busy(prog, Top), Callee(prog, Top) = Kid(i),
         Pending(prog, f) = Pending(prog, Top),
         \A j \in 1..Len(Me.kids) : Later(prog, f, j) => Later(prog, Top, j),
         \/ Me.kind = "match" /\ f.pc # 0 /\ f.y = f.x + 1 /\ f.y = layout[Len(layout)] /\ Top.pc \notin {0, 1}
         \/ Me.kind = "typeswitch" /\ Top.pc # 0
  PROVE  Whole'
<1>1. PICK g : g = Enter("exit", Kid(i))
  OBVIOUS
<1>2. /\ g.act = "exit" /\ g.n = Kid(i) /\ g.pc = 0 /\ ~Coding(g) /\ Unwinding(g) /\ Coding(f)
      /\ Kid(i) \in Node /\ Top.n < Kid(i) /\ Fine(prog, Kid(i)) /\ Top.n \in Nat /\ Kid(i) \in Nat
  BY <1>1, KidFine, Running DEF Enter, Coding, Unwinding
<1>3. /\ blocks' = blocks /\ layout' = layout /\ ip' = ip /\ held' = held
      /\ deferrals' = deferrals /\ lowered' = lowered /\ prog' = prog /\ status' = status
  BY DEF StackOnly, Going, tree, code, notes
<1>4. Chain(prog, stack') /\ Called(stack, stack', f, g)
  <2>1. Top.n <= g.n  BY <1>2, AtMost
  <2>2. ~Unwinding(Top)  BY DEF Coding, Unwinding
  <2> QED  BY <1>1, <1>2, <2>1, <2>2, CallExit
<1>5. /\ Beneath(stack, stack', f) /\ Staying(stack, stack') /\ stack' # <<>> /\ Len(stack') \in Nat
      /\ Len(stack) \in 1..Len(stack') /\ stack'[Len(stack)] = f
      /\ \A k \in 1..Len(stack') : k = Len(stack) + 1 => stack'[k] = g
  BY <1>1, <1>2, InvokeBeneath
<1>6. /\ ~Final /\ ~Final' /\ stack'[1] = stack[1]
      /\ Len(stack) \in 1..Len(stack) /\ Top = stack[Len(stack)]
  BY <1>2, <1>5, Alone, StillRunning, Running DEF Top
<1>7. Blocks'
  <2>1. PICK N : N = {}  OBVIOUS
  <2>2. Made' = Made \cup N /\ N \cap Made = {}  BY <1>3, <2>1 DEF Made
  <2>3. \A b \in Made : Alike(blocks, blocks', b)  BY <1>3, SameAlike
  <2>4. /\ Pending(prog, f) \subseteq Pending(prog, Top) \cup N
        /\ \A b \in Pending(prog, f) : Open(blocks', b) /\ b # ip'.at
        /\ ip'.at \in {ip.at} \cup Pending(prog, Top) \cup N
        /\ \A b \in {ip.at} \cup Pending(prog, Top) \cup N :
             b = ip'.at \/ b \in Pending(prog, f) \/ EndsOnce(blocks', b)
    BY <1>3, <2>1, BlockFacts
  <2>5. (Open(blocks', ip'.at) \/ EndsOnce(blocks', ip'.at)) /\ (ip'.back => EndsOnce(blocks', ip'.at))
    BY <1>3, BlockFacts DEF Complete
  <2> QED  BY <1>3, <1>5, <1>6, <2>2, <2>3, <2>4, <2>5, BlocksStep
<1>8. Found'
  <2>1. Top' = g
    <3>1. PICK n, m : n = Len(stack) /\ m = Len(stack')  OBVIOUS
    <3>2. m = n + 1 /\ stack'[n + 1] = g  BY <1>4, <3>1 DEF Called
    <3> QED  BY <3>1, <3>2 DEF Top
  <2>2. Resumes' /\ Pauses'
    BY <1>2, <2>1 DEF Resumes, Pauses
  <2>3. Jumped'
    <3>1. SUFFICES ASSUME Complete(ip.at), \A k \in 1..Len(stack') : ~Iterates(prog, stack'[k])
                   PROVE  ReturnsIn(blocks, ip.at)
      BY <1>3 DEF Jumped, Complete, Iterates
    <3>2. ~Iterates(prog, Top)
      BY DEF Iterates, Doing, Loops, Me
    <3>3. \A k \in 1..Len(stack) : ~Iterates(prog, stack[k])
      <4>1. \A k \in 1..Len(stack) : k = Len(stack) \/ k \in 1..Len(stack) - 1
        <5>1. Len(stack) \in Nat  BY Running
        <5> QED  BY <5>1
      <4>2. \A k \in 1..Len(stack) - 1 : ~Iterates(prog, stack[k])
        BY <1>5, <3>1 DEF Staying
      <4> QED  BY <1>6, <3>2, <4>1, <4>2
    <3>4. ~(Doing(prog, Top, {"match"}) /\ Top.pc = 1)
      BY DEF Doing, Me
    <3> QED  BY <1>6, <3>1, <3>3, <3>4 DEF Good, Whole, Found
  <2>4. LeftBy(Callee(prog, f))'
    <3>1. Finds(Top)  BY BlockFacts
    <3>2. LeftBy(Kid(i))  BY <3>1 DEF Finds
    <3>3. PICK n : n = Kid(i)  OBVIOUS
    <3>4. LeftBy(n)'  BY <1>3, <3>2, <3>3 DEF LeftBy
    <3>5. Callee(prog, f)' = n  BY <1>3, <3>3 DEF Callee
    <3> QED  BY <1>3, <3>4, <3>5
  <2> QED  BY <1>2, <1>3, <1>5, <2>2, <2>3, <2>4, FoundStep
<1>9. Order'
  <2>1. InOrder(prog, stack', layout', ip'.at)
    <3>1. CASE Me.kind = "match"
      <4>1. Doing(prog, f, {"for", "match"})  BY <1>2, <3>1 DEF Doing, Me
      <4> QED  BY <1>5, <4>1 DEF InOrder
    <3>2. CASE Me.kind = "typeswitch"
      <4>1. ~Doing(prog, f, {"while", "for", "match"}) /\ ~Doing(prog, Top, {"while", "for", "match"})
        BY <3>2 DEF Doing, Me
      <4> QED  BY <1>3, <1>5, <1>6, <4>1, OrderQuiet
    <3> QED  BY <3>1, <3>2
  <2>2. /\ Doing(prog, f, {"while"}) => FALSE
        /\ Doing(prog, f, {"match"}) => f.y = f.x + 1
        /\ Doing(prog, f, {"for", "match"}) => f.y = layout'[Len(layout')]
    BY <1>3 DEF Doing, Me
  <2> QED  BY <1>3, <1>5, <2>1, <2>2, OrderStep
<1>10. Starts'
  <2>1. PICK K : K = {}  OBVIOUS
  <2>2. Begun' = Begun \cup K
    <3>1. PICK s, t : s = stack /\ t = stack'  OBVIOUS
    <3>2. Called(s, t, f, g) /\ Coding(s[Len(s)]) /\ f.n = s[Len(s)].n
      BY <1>4, <3>1 DEF Top
    <3>3. CodingIn(t) = CodingIn(s) \cup (IF Coding(g) THEN {g.n} ELSE {})
      BY <1>2, <3>2, CodingCalled
    <3>4. CodingIn(t) = CodingIn(s)
      BY <1>2, <3>3
    <3> QED  BY <1>3, <2>1, <3>1, <3>4, BegunIs
  <2>3. /\ \A k \in 1..Len(stack') : Coding(stack'[k]) =>
             (k \in 1..Len(stack) - 1 /\ stack'[k] = stack[k]) \/ stack'[k] = f \/ stack'[k].n \in K
    BY <1>2, <1>5 DEF Beneath
  <2>4. \A m \in Node : deferrals'[m] # <<>> => deferrals[m] # <<>> \/ m = Top.n
    BY <1>3
  <2> QED  BY <1>3, <1>6, <2>1, <2>2, <2>3, <2>4, StartsStep
<1>11. Remembered'
  <2>1. AllAt(Kid(i), ip.at)
    <3>1. Here(Top)  BY <1>6 DEF Good, Whole, Remembered
    <3>2. Doing(prog, Top, {"match", "typeswitch"})  BY DEF Doing, Me
    <3> QED  BY <3>1, <3>2 DEF Here
  <2>2. \A j \in 1..Len(deferrals'[Kid(i)]) : deferrals'[Kid(i)][j].at = ip'.at
    BY <1>3, <2>1 DEF AllAt
  <2>3. \A m \in Node : AllAt(m, ip.at) =>
           \A j \in 1..Len(deferrals'[m]) : deferrals'[m][j].at = ip.at
    BY <1>3 DEF AllAt
  <2>4. \A k \in 1..Len(stack') : k = Len(stack) + 1 =>
           \/ Coding(stack'[k])
           \/ /\ stack'[k].act = "exit" /\ stack'[k].pc = 0
              /\ \A j \in 1..Len(deferrals'[stack'[k].n]) : deferrals'[stack'[k].n][j].at = ip'.at
    BY <1>2, <1>5, <2>2
  <2>5. Attentive'
    BY <1>2, <1>3, <1>5, <2>2, <2>3, <2>4, HereStep
  <2> QED  BY <1>3, <2>5 DEF Good, Whole, Remembered, Attentive
<1> QED  BY <1>3, <1>4, <1>7, <1>8, <1>9, <1>10, <1>11 DEF Whole

LEMMA MatchArmExitWhole ==
  ASSUME Good, IInv', MatchArmExit
  PROVE  Whole'
<1>1. InCall("codegen", "match", 2) /\ 2 # 0
  BY DEF MatchArmExit
<1>2. PICK i, f : i = Top.i /\ f = [Top EXCEPT !.pc = 3]
  OBVIOUS
<1>3. Invoke(f, Enter("exit", Kid(i))) /\ StackOnly
  BY <1>2 DEF MatchArmExit
<1>4. /\ Coding(Top) /\ Me.kind = "match" /\ Top.pc = 2 /\ ~Ending /\ Top.act = "codegen"
      /\ Top \in Frame /\ prog[Top.n] = Me /\ Len(Me.kids) \in Nat /\ Top.i \in Nat
      /\ CodegenOK(Top, lowered) /\ \A j \in 1..Len(Me.kids) : Kid(j) = Me.kids[j]
  BY <1>1, CodingFacts
<1>5. i \in 1..Len(Me.kids)
  BY <1>2, <1>4 DEF CodegenOK
<1>6. /\ Top.y = Top.x + 1 /\ Top.y = layout[Len(layout)] /\ StraightLine(prog, Me.kids[i])
      /\ Pending(prog, Top) = IF Top.i < Len(Me.kids) THEN {Top.x, Top.y} ELSE {Top.y}
  BY <1>1, <1>5, ArmFacts
<1>7. /\ f \in Frame /\ f.act = "codegen" /\ f.n = Top.n /\ f.pc = 3 /\ f.i = i
      /\ f.x = Top.x /\ f.y = Top.y /\ Coding(f)
  BY <1>2, <1>4 DEF Frame, Coding
<1>8. Pending(prog, f) = Pending(prog, Top)
  <2>1. Doing(prog, f, {"match"})  BY <1>4, <1>7 DEF Doing
  <2>2. Pending(prog, f) = IF f.i < Len(Me.kids) THEN {f.x, f.y} ELSE {f.y}
    BY <1>4, <1>7, <2>1, PendingIs
  <2> QED  BY <1>2, <1>6, <1>7, <2>2
<1>9. /\ Busy(prog, f) /\ Callee(prog, f) = Kid(i) /\ Busy(prog, Top) /\ Callee(prog, Top) = Kid(i)
      /\ \A j \in 1..Len(Me.kids) : Later(prog, f, j) => Later(prog, Top, j)
  BY <1>2, <1>4, <1>5, <1>7 DEF Busy, Callee, Later
<1>10. Calls(prog, f, Enter("exit", Kid(i)))
  BY <1>4, <1>7 DEF Calls, Enter
<1>11. Top.pc \notin {0, 1} /\ f.pc # 0
  BY <1>4, <1>7
<1> QED
  BY <1>3, <1>4, <1>5, <1>6, <1>7, <1>8, <1>9, <1>10, <1>11, WholeArmExit

LEMMA TypeSwitchExitWhole ==
  ASSUME Good, IInv', TypeSwitchExit
  PROVE  Whole'
<1>1. InCall("codegen", "typeswitch", 1)
  BY DEF TypeSwitchExit
<1>2. PICK i, f : i = Me.arg /\ f = [Top EXCEPT !.pc = 2]
  OBVIOUS
<1>3. Invoke(f, Enter("exit", Kid(i))) /\ StackOnly
  BY <1>2 DEF TypeSwitchExit
<1>4. /\ Coding(Top) /\ Me.kind = "typeswitch" /\ Top.pc = 1 /\ ~Ending /\ Top.act = "codegen"
      /\ Top \in Frame /\ prog[Top.n] = Me /\ Len(Me.kids) \in Nat /\ Me.arg \in Nat
      /\ WellFormedNode(Me) /\ SupportedStmt(prog, Top.n)
      /\ CodegenOK(Top, lowered) /\ \A j \in 1..Len(Me.kids) : Kid(j) = Me.kids[j]
  BY <1>1, CodingFacts
<1>5. i # 0 /\ i \in 1..Len(Me.kids)
  <2>1. 1 # 0  OBVIOUS
  <2>2. Me.arg # 0  BY <1>4, <2>1 DEF CodegenOK
  <2> QED  BY <1>2, <1>4, <2>2, KidNumbers
<1>6. StraightLine(prog, Me.kids[i])
  <2>1. Me.kids[i] \in Parts(Me)  BY <1>2, <1>4, <1>5 DEF Parts
  <2> QED  BY <1>4, <2>1 DEF SupportedStmt
<1>7. f \in Frame /\ f.act = "codegen" /\ f.n = Top.n /\ f.pc = 2 /\ Coding(f)
  BY <1>2, <1>4 DEF Frame, Coding
<1>8. Pending(prog, f) = Pending(prog, Top)
  <2>1. /\ ~Doing(prog, f, {"if", "while", "for", "match"})
        /\ ~Doing(prog, Top, {"if", "while", "for", "match"})  BY <1>4, <1>7 DEF Doing
  <2> QED  BY <2>1, PendingIs
<1>9. /\ Busy(prog, f) /\ Callee(prog, f) = Kid(i) /\ Busy(prog, Top) /\ Callee(prog, Top) = Kid(i)
      /\ \A j \in 1..Len(Me.kids) : Later(prog, f, j) => Later(prog, Top, j)
  BY <1>2, <1>4, <1>5, <1>7 DEF Busy, Callee, Later
<1>10. Calls(prog, f, Enter("exit", Kid(i)))
  BY <1>4, <1>7 DEF Calls, Enter
<1>11. Top.pc # 0
  BY <1>4
<1> QED
  BY <1>3, <1>4, <1>5, <1>6, <1>7, <1>8, <1>9, <1>10, <1>11, WholeArmExit

(* The calls, once the running one goes on as f.                           *)
LEMMA BecomeBeneath ==
  ASSUME Good, NEW f, Become(f)
  PROVE  /\ Onto(stack, stack', f) /\ Beneath(stack, stack', f) /\ Staying(stack, stack')
         /\ stack' # <<>> /\ Len(stack') \in Nat /\ Len(stack') = Len(stack)
         /\ Len(stack) \in 1..Len(stack') /\ stack'[Len(stack)] = f /\ Top' = f
<1>1. /\ Len(stack') = Len(stack) /\ stack'[Len(stack)] = f /\ Len(stack) \in Nat \ {0}
      /\ \A k \in 1..Len(stack) - 1 : stack'[k] = stack[k]
  <2>1. stack # <<>> /\ IInv  BY Running DEF Good
  <2> QED  BY <2>1, AfterBecome
<1>2. PICK n : n = Len(stack)
  OBVIOUS
<1>3. /\ n \in Nat \ {0} /\ n \in 1..n
      /\ \A k \in 1..n : k \in 1..n - 1 \/ k = n
      /\ \A k \in 1..n - 1 : k \in 1..n
  <2>1. n \in Nat \ {0}  BY <1>1, <1>2
  <2> QED  BY ONLY <2>1
<1>4. stack' # <<>>
  BY <1>1
<1> QED  BY <1>1, <1>2, <1>3, <1>4 DEF Onto, Beneath, Staying, Top

(* A call of codegen goes on.                                              *)
LEMMA WholeGoes ==
  ASSUME Good, Coding(Top), ~Ending, prog' = prog, NEW f, Become(f), f.act = Top.act, f.n = Top.n,
         Me.kind \notin {"nop", "defer"}, ~Awaits(f),
         NEW N, Made' = Made \cup N, N \cap Made = {},
         Pending(prog, f) \subseteq Pending(prog, Top) \cup N,
         \A b \in Pending(prog, f) : Open(blocks', b) /\ b # ip'.at,
         \A b \in Made : b # ip.at /\ b \notin Pending(prog, Top) => Alike(blocks, blocks', b),
         ip'.at \in {ip.at} \cup Pending(prog, Top) \cup N,
         \A b \in {ip.at} \cup Pending(prog, Top) \cup N :
           b = ip'.at \/ b \in Pending(prog, f) \/ EndsOnce(blocks', b),
         Open(blocks', ip'.at) \/ EndsOnce(blocks', ip'.at),
         ip'.back => EndsOnce(blocks', ip'.at),
         Finds(f)', Jumped',
         held' = held,
         Doing(prog, f, {"while"}) => FALSE,
         Doing(prog, f, {"match"}) => f.y = f.x + 1,
         Doing(prog, f, {"for", "match"}) => f.y = layout'[Len(layout')],
         layout'[Len(layout')] = layout[Len(layout)] \/ Me.kind \in Branches \cup Loops,
         InOrder(prog, stack', layout', ip'.at),
         NEW K, lowered' = lowered \cup K,
         K = {} \/ \E i \in 1..Len(Me.kids) : K = {Kid(i)} /\ Later(prog, Top, i) /\ ~Later(prog, f, i),
         \A j \in 1..Len(Me.kids) : Later(prog, f, j) => Later(prog, Top, j),
         \A n \in Node : deferrals'[n] # <<>> => deferrals[n] # <<>> \/ n = Top.n,
         \A n \in Node : \A i \in 1..Len(deferrals'[n]) :
           /\ deferrals'[n][i].stmt \in ToSet(prog[n].kids)
           /\ Fine(prog, deferrals'[n][i].stmt),
         ip'.at = ip.at \/ Me.kind \in Branches \cup Loops,
         \A n \in Node : AllAt(n, ip.at) =>
           \A j \in 1..Len(deferrals'[n]) : deferrals'[n][j].at = ip.at,
         Doing(prog, f, {"match", "typeswitch"}) /\ Busy(prog, f) => FALSE
  PROVE  Whole'
<1>1. Coding(f)
  BY DEF Coding
<1>2. /\ Onto(stack, stack', f) /\ Beneath(stack, stack', f) /\ Staying(stack, stack')
      /\ stack' # <<>> /\ Len(stack') \in Nat /\ Len(stack') = Len(stack)
      /\ Len(stack) \in 1..Len(stack') /\ stack'[Len(stack)] = f /\ Top' = f
  BY BecomeBeneath
<1>3. Chain(prog, stack')
  BY ChainGo
<1>4. ~Final /\ ~Final' /\ stack'[1] = stack[1]
  BY <1>1, <1>2, Alone, StillRunning
<1>5. Blocks'
  BY <1>2, <1>4, BlocksStep
<1>6. Found'
  <2>1. Resumes'
    BY <1>2 DEF Resumes
  <2>2. Pauses'
    BY <1>2 DEF Pauses, Me
  <2> QED  BY <1>1, <1>2, <2>1, <2>2, FoundStep
<1>7. Order'
  BY <1>2, OrderStep
<1>8. Starts'
  <2>1. Begun' = Begun \cup K
    <3>1. PICK s, t : s = stack /\ t = stack'  OBVIOUS
    <3>2. Onto(s, t, f) /\ Coding(s[Len(s)]) /\ f.n = s[Len(s)].n
      BY <1>2, <3>1 DEF Top
    <3>3. CodingIn(t) = CodingIn(s)
      BY <1>1, <3>2, CodingOnto
    <3> QED  BY <3>1, <3>3, BegunIs
  <2>2. \A k \in 1..Len(stack') : Coding(stack'[k]) =>
             (k \in 1..Len(stack) - 1 /\ stack'[k] = stack[k]) \/ stack'[k] = f \/ stack'[k].n \in K
    <3>1. Len(stack) + 1 \notin 1..Len(stack')  BY <1>2
    <3> QED  BY <1>2, <3>1 DEF Beneath
  <2> QED  BY <1>4, <2>1, <2>2, StartsStep
<1>9. Remembered'
  <2>1. \A k \in 1..Len(stack') : k = Len(stack) + 1 => FALSE
    BY <1>2
  <2>2. Attentive'
    BY <1>1, <1>2, <2>1, HereStep
  <2> QED  BY <2>2 DEF Remembered, Attentive
<1> QED  BY <1>3, <1>5, <1>6, <1>7, <1>8, <1>9 DEF Whole

(* A break or a continue looks for its loop.                               *)
LEMMA SearchWhole ==
  ASSUME Good, IInv', SearchStart \/ SearchOn
  PROVE  Whole'
<1>1. PICK kind \in {"break", "continue"}, pc \in {0, 1} : InCall("codegen", kind, pc)
  BY DEF SearchStart, SearchOn, Searching
<1>2. /\ Coding(Top) /\ Me.kind = kind /\ ~Ending /\ Top.act = "codegen" /\ Top \in Frame
      /\ prog[Top.n] = Me /\ WellFormedNode(Me)
  BY <1>1, CodingFacts
<1>3. PICK f : Become(f) /\ f.act = Top.act /\ f.n = Top.n
  <2>1. CASE SearchStart
    <3>1. PICK f : f = [Top EXCEPT !.pc = 1, !.todo = blocks[ip.at].preds]  OBVIOUS
    <3>2. f.act = Top.act /\ f.n = Top.n  BY <1>2, <3>1 DEF Frame
    <3> QED  BY <2>1, <3>1, <3>2 DEF SearchStart
  <2>2. CASE SearchOn
    <3>1. PICK f : f = [Top EXCEPT !.todo = SearchMore(@)]  OBVIOUS
    <3>2. f.act = Top.act /\ f.n = Top.n  BY <1>2, <3>1 DEF Frame
    <3> QED  BY <2>2, <3>1, <3>2 DEF SearchOn
  <2> QED  BY <2>1, <2>2
<1>4. /\ blocks' = blocks /\ layout' = layout /\ ip' = ip /\ held' = held
      /\ deferrals' = deferrals /\ lowered' = lowered /\ prog' = prog
  BY DEF SearchStart, SearchOn, StackOnly, tree, code, notes
<1>5. Open(blocks, ip.at) /\ ~ip.back
  <2>1. Finds(Top)  BY <1>2, BlockFacts
  <2>2. ~Busy(prog, Top)  BY <1>2 DEF Busy
  <2> QED  BY <1>2, <2>1, <2>2, BlockFacts DEF Finds
<1>6. Finds(f)'
  <2>1. ~Busy(prog, f) /\ prog[f.n].kind \notin {"match", "body"}  BY <1>2, <1>3 DEF Busy
  <2>2. ~Busy(prog, f)'  BY <1>4, <2>1 DEF Busy
  <2> QED  BY <1>4, <1>5, <2>1, <2>2 DEF Finds
<1>7. /\ ~Doing(prog, f, {"if", "while", "for", "match"}) /\ ~Doing(prog, f, {"while", "for", "match"})
      /\ ~Doing(prog, Top, {"if", "while", "for", "match"}) /\ ~Doing(prog, Top, {"while", "for", "match"})
      /\ ~Doing(prog, f, {"while"}) /\ ~Doing(prog, f, {"match"}) /\ ~Doing(prog, f, {"for", "match"})
      /\ ~Awaits(f) /\ ~Doing(prog, f, {"match", "typeswitch"})
  BY <1>2, <1>3 DEF Doing, Awaits
<1>8. Pending(prog, f) = {} /\ Pending(prog, Top) = {}
  BY <1>7, PendingIs
<1>9. \A b \in Made : Alike(blocks, blocks', b)
  BY <1>4, SameAlike
<1>10. InOrder(prog, stack', layout', ip'.at)
  <2>1. Beneath(stack, stack', f) /\ Staying(stack, stack')  BY <1>3, BecomeBeneath
  <2>2. ~Final  BY <1>2, Alone
  <2> QED  BY <1>4, <1>7, <2>1, <2>2, OrderQuiet
<1>11. PICK N : N = {}
  OBVIOUS
<1>12. Made' = Made \cup N /\ N \cap Made = {}
  BY <1>4, <1>11 DEF Made
<1>13. lowered' = lowered \cup N
  BY <1>4, <1>11
<1>14. \A j \in 1..Len(Me.kids) : FALSE
  <2>1. Me.kids = <<>>  BY <1>2 DEF WellFormedNode
  <2>2. Len(<<>>) = 0 /\ \A j \in 1..0 : FALSE  BY EmptySeq
  <2> QED  BY <2>1, <2>2
<1>15. Jumped'
  BY <1>4, <1>5, OpenJumped
<1>16. \A n \in Node : /\ deferrals'[n] # <<>> => deferrals[n] # <<>>
                       /\ AllAt(n, ip.at) => \A j \in 1..Len(deferrals'[n]) : deferrals'[n][j].at = ip.at
                       /\ \A i \in 1..Len(deferrals'[n]) :
                            /\ deferrals'[n][i].stmt \in ToSet(prog[n].kids)
                            /\ Fine(prog, deferrals'[n][i].stmt)
  BY <1>4 DEF AllAt, Good, Whole, Remembered
<1>17. /\ Me.kind \notin {"nop", "defer"}
       /\ Open(blocks', ip'.at) /\ ~ip'.back /\ ip'.at = ip.at
       /\ layout'[Len(layout')] = layout[Len(layout)]
  BY <1>2, <1>4, <1>5
<1> QED
  BY <1>2, <1>3, <1>4, <1>6, <1>7, <1>8, <1>9, <1>10, <1>11, <1>12, <1>13, <1>14, <1>15, <1>16, <1>17, WholeGoes

(* The end of an arm.                                                      *)
LEMMA MatchArmEndWhole ==
  ASSUME Good, IInv', Placement', MatchArmEnd
  PROVE  Whole'
<1>1. InCall("codegen", "match", 3) /\ 3 # 0
  BY DEF MatchArmEnd
<1>2. PICK y, f, i : y = Top.y /\ f = [Top EXCEPT !.pc = 1] /\ i = Top.i
  OBVIOUS
<1>3. /\ FallThrough(y) /\ Become(f) /\ ip' = ip /\ layout' = layout /\ held' = held
      /\ deferrals' = deferrals /\ lowered' = lowered /\ prog' = prog
  BY <1>2 DEF MatchArmEnd, tree, notes
<1>4. /\ Coding(Top) /\ Me.kind = "match" /\ Top.pc = 3 /\ ~Ending /\ Top.act = "codegen"
      /\ Top \in Frame /\ prog[Top.n] = Me /\ Len(Me.kids) \in Nat /\ Top.i \in Nat
      /\ CodegenOK(Top, lowered) /\ \A j \in 1..Len(Me.kids) : Kid(j) = Me.kids[j]
  BY <1>1, CodingFacts
<1>5. i \in 1..Len(Me.kids)
  BY <1>2, <1>4 DEF CodegenOK
<1>6. /\ Top.y = Top.x + 1 /\ y = layout[Len(layout)] /\ EndsFilled(prog)[Me.kids[i]]
      /\ y \in Jumpable
      /\ Pending(prog, Top) = IF Top.i < Len(Me.kids) THEN {Top.x, Top.y} ELSE {Top.y}
  BY <1>1, <1>2, <1>5, ArmFacts
<1>7. Filled(blocks, ip.at)
  <2>1. Finds(Top)  BY <1>4, BlockFacts
  <2>2. Busy(prog, Top) /\ Callee(prog, Top) = Me.kids[i]  BY <1>2, <1>4 DEF Busy, Callee
  <2> QED  BY <1>6, <2>1, <2>2 DEF Finds, LeftBy
<1>8. /\ EndsOnce(blocks', ip.at) /\ Linked(blocks') /\ Len(blocks') = Len(blocks)
      /\ \A b \in Made : b # ip.at => Alike(blocks, blocks', b)
  BY <1>3, <1>6, <1>7, FallsThrough
<1>9. /\ f \in Frame /\ f.act = Top.act /\ f.n = Top.n /\ f.pc = 1 /\ f.i = i
      /\ f.x = Top.x /\ f.y = Top.y /\ Coding(f)
  BY <1>2, <1>4 DEF Frame, Coding
<1>10. Doing(prog, f, {"match"}) /\ Doing(prog, f, {"for", "match"}) /\ ~Busy(prog, f) /\ ~Awaits(f)
       /\ ~Doing(prog, f, {"while"})
  BY <1>4, <1>9 DEF Doing, Busy, Awaits
<1>11. Pending(prog, f) = Pending(prog, Top)
  <2>1. Pending(prog, f) = IF f.i < Len(Me.kids) THEN {f.x, f.y} ELSE {f.y}
    BY <1>4, <1>9, <1>10, PendingIs
  <2> QED  BY <1>2, <1>6, <1>9, <2>1
<1>12. \A b \in Pending(prog, f) : Open(blocks', b) /\ b # ip'.at
  BY <1>3, <1>8, <1>11, BlockFacts DEF Alike
<1>13. Finds(f)'
  <2>1. ~Busy(prog, f)' /\ prog'[f.n].kind = "match" /\ f.pc = 1
    BY <1>3, <1>4, <1>9, <1>10 DEF Busy
  <2>2. Complete(ip.at)'  BY <1>3, <1>8 DEF Complete
  <2> QED  BY <2>1, <2>2 DEF Finds
<1>14. /\ Beneath(stack, stack', f) /\ Staying(stack, stack') /\ Top' = f
       /\ Len(stack) \in 1..Len(stack') /\ stack'[Len(stack)] = f
  BY <1>3, BecomeBeneath
<1>15. Jumped'
  <2>1. Doing(prog, Top, {"match"})' /\ Top'.pc = 1
    BY <1>3, <1>9, <1>10, <1>14 DEF Doing
  <2> QED  BY <2>1 DEF Jumped
<1>16. InOrder(prog, stack', layout', ip'.at)
  BY <1>10, <1>14 DEF InOrder
<1>17. PICK N : N = {}
  OBVIOUS
<1>18. Made' = Made \cup N /\ N \cap Made = {}
  BY <1>8, <1>17 DEF Made
<1>19. lowered' = lowered \cup N
  BY <1>3, <1>17
<1>20. \A j \in 1..Len(Me.kids) : Later(prog, f, j) => Later(prog, Top, j)
  BY <1>2, <1>4, <1>9 DEF Later
<1>21. \A n \in Node : /\ deferrals'[n] # <<>> => deferrals[n] # <<>>
                       /\ AllAt(n, ip.at) => \A j \in 1..Len(deferrals'[n]) : deferrals'[n][j].at = ip.at
                       /\ \A j \in 1..Len(deferrals'[n]) :
                            /\ deferrals'[n][j].stmt \in ToSet(prog[n].kids)
                            /\ Fine(prog, deferrals'[n][j].stmt)
  BY <1>3 DEF AllAt, Good, Whole, Remembered
<1>22. /\ Me.kind \notin {"nop", "defer"} /\ Me.kind \in Branches \cup Loops
       /\ f.y = f.x + 1 /\ f.y = layout'[Len(layout')] /\ ip'.at = ip.at
       /\ ip'.at \in {ip.at} \cup Pending(prog, Top) \cup N
       /\ Pending(prog, f) \subseteq Pending(prog, Top) \cup N
       /\ \A b \in {ip.at} \cup Pending(prog, Top) \cup N :
            b = ip'.at \/ b \in Pending(prog, f) \/ EndsOnce(blocks', b)
       /\ EndsOnce(blocks', ip'.at)
  BY <1>2, <1>3, <1>4, <1>6, <1>8, <1>9, <1>11, <1>17 DEF Branches
<1>23. Coding(Top) /\ ~Ending /\ Become(f) /\ prog' = prog /\ held' = held
  BY <1>3, <1>4
<1> QED
  BY <1>8, <1>9, <1>10, <1>12, <1>13, <1>15, <1>16, <1>17, <1>18, <1>19, <1>20, <1>21, <1>22, <1>23, WholeGoes

(* The defers of a statement are forgotten.                                *)
LEMMA AnewForgets ==
  ASSUME Good, NEW n \in Node, deferrals' = Anew(n)
  PROVE  \A m \in Node : /\ deferrals'[m] # <<>> => deferrals[m] # <<>>
                         /\ AllAt(m, ip.at) => \A j \in 1..Len(deferrals'[m]) : deferrals'[m][j].at = ip.at
                         /\ \A j \in 1..Len(deferrals'[m]) :
                              /\ deferrals'[m][j].stmt \in ToSet(prog[m].kids)
                              /\ Fine(prog, deferrals'[m][j].stmt)
<1> TAKE m \in Node
<1>1. deferrals'[m] = deferrals[m] \/ deferrals'[m] = <<>>
  <2>1. PICK W : W = Within(prog)[n]  OBVIOUS
  <2>2. deferrals' = [k \in Node |-> IF k \in W THEN <<>> ELSE deferrals[k]]
    BY <2>1 DEF Anew
  <2> QED  BY <2>2
<1>2. \A j \in 1..Len(<<>>) : FALSE
  OBVIOUS
<1>3. CASE deferrals'[m] = deferrals[m]
  BY <1>3 DEF AllAt, Good, Whole, Remembered
<1>4. CASE deferrals'[m] = <<>>
  BY <1>2, <1>4
<1> QED  BY <1>1, <1>3, <1>4

(* A match ends the builder's block, which nothing is added to from here   *)
(* on.                                                                     *)
LEMMA MatchEnterWhole ==
  ASSUME Good, IInv', Placement', MatchEnter
  PROVE  Whole'
<1>1. InCall("codegen", "match", 0)
  BY DEF MatchEnter
<1>2. PICK n, l : n = Top.n /\ l = Len(blocks)
  OBVIOUS
<1>3. PICK new, f, inst : /\ new = <<Fresh("default"), Fresh("block")>>
                          /\ f = [Top EXCEPT !.pc = 1, !.x = l + 1, !.y = l + 2, !.todo = <<ip.at>>]
                          /\ inst = Switch(n, l + 1)
  OBVIOUS
<1>4. /\ Coding(Top) /\ Me.kind = "match" /\ Top.pc = 0 /\ ~Ending /\ Top.act = "codegen"
      /\ Top \in Frame /\ n \in Node /\ n \in Nat /\ prog[n] = Me /\ Len(Me.kids) \in Nat /\ Top.i \in Nat
      /\ \A j \in 1..Len(Me.kids) : Kid(j) = Me.kids[j]
  BY <1>1, <1>2, CodingFacts
<1>5. /\ l + 1 = Next1 /\ l + 2 = Next1 + 1 /\ l \in Nat \ {0}
  BY <1>2, BlockFacts DEF Next1
<1>6. /\ blocks' = Emit(blocks \o new, ip, inst) /\ layout' = layout \o <<l + 1, l + 2>>
      /\ Become(f) /\ deferrals' = Anew(n)
      /\ prog' = prog /\ ip' = ip /\ held' = held /\ lowered' = lowered
  BY <1>2, <1>3, <1>5, Zenon DEF MatchEnter, tree
<1>7. new \in Seq({Fresh(x) : x \in Names}) /\ Len(new) = 2
  BY <1>3, FreshNames DEF Names
<1>8. PICK t : t = l + Len(new)
  OBVIOUS
<1>9. t = l + 2 /\ inst \in InstIn(t) /\ IsTerminator(inst)
  <2>1. t = l + 2 /\ l + 1 \in 2..t  BY <1>5, <1>7, <1>8
  <2> QED  BY <1>3, <1>4, <2>1, InstFacts DEF Switch, IsTerminator, Terminators, Ops
<1>10. Me.kind \in Branches \cup Loops /\ Me.kind \notin {"nop", "defer"}
  BY <1>4 DEF Branches
<1>11. Open(blocks, ip.at) /\ ~ip.back /\ Pending(prog, Top) = {}
  BY <1>4, <1>10, EntersOpen
<1>12. /\ Linked(blocks') /\ Len(blocks') = t /\ EndsOnce(blocks', ip.at)
       /\ \A b \in Made : b # ip.at => Alike(blocks, blocks', b)
       /\ \A b \in Made' : b \notin Made => Open(blocks', b)
  BY <1>2, <1>6, <1>7, <1>8, <1>9, <1>11, NewBlocksOpen
<1>13. PICK N, K : N = {l + 1, l + 2} /\ K = {}
  OBVIOUS
<1>14. Made' = Made \cup N /\ N \cap Made = {}
  <2>1. Made = 1..l /\ Made' = 1..t  BY <1>2, <1>12 DEF Made
  <2>2. 1..t = 1..l \cup N /\ N \cap 1..l = {}  BY ONLY <1>5, <1>9, <1>13
  <2> QED  BY <2>1, <2>2
<1>15. f \in Frame /\ f.act = Top.act /\ f.n = n /\ f.pc = 1 /\ f.i = Top.i /\ f.x = l + 1 /\ f.y = l + 2 /\ Coding(f)
  <2>1. PICK e : e = <<ip.at>>  OBVIOUS
  <2>2. e \in Seq(Nat)
    <3>1. ip.at \in Nat  BY BlockFacts
    <3> QED  BY <2>1, <3>1
  <2>3. f = [Top EXCEPT !.pc = 1, !.x = l + 1, !.y = l + 2, !.todo = e]  BY <1>3, <2>1
  <2>4. 1 \in Nat /\ l + 1 \in Nat /\ l + 2 \in Nat  BY <1>5
  <2> QED  BY <1>2, <1>4, <2>2, <2>3, <2>4 DEF Frame, Coding
<1>16. Doing(prog, f, {"match"}) /\ Doing(prog, f, {"for", "match"}) /\ ~Busy(prog, f) /\ ~Awaits(f)
       /\ ~Doing(prog, f, {"while"})
  BY <1>4, <1>15 DEF Doing, Busy, Awaits
<1>17. Pending(prog, f) \subseteq N /\ N \subseteq Pending(prog, f)
  <2>1. Top.i = 0
    <3>1. Finds(Top)  BY <1>4, BlockFacts
    <3> QED  BY <1>2, <1>4, <3>1 DEF Finds
  <2>2. Me.kids # <<>>
    <3>1. SupportedStmt(prog, Top.n)  BY <1>1, CodingFacts
    <3> QED  BY <1>2, <1>4, <3>1 DEF SupportedStmt
  <2>3. Top.i < Len(Me.kids)
    <3>1. Len(Me.kids) # 0
      <4>1. PICK s : s = Me.kids  OBVIOUS
      <4>2. Me.kids \in Seq(Node)  BY Running, RunningCall DEF Good
      <4>3. s \in Seq(Node) /\ s # <<>>  BY <1>4, <2>2, <4>1, <4>2
      <4> QED  BY <4>1, <4>3
    <3> QED  BY <1>4, <2>1, <3>1
  <2>4. Pending(prog, f) = {f.x, f.y}  BY <1>4, <1>15, <1>16, <2>3, PendingIs
  <2> QED  BY <1>13, <1>15, <2>4
<1>18. \A b \in N : Open(blocks', b) /\ b # ip.at
  <2>1. ip.at \in Made  BY BlockFacts
  <2> QED  BY <1>12, <1>14, <2>1
<1>19. Finds(f)'
  <2>1. ~Busy(prog, f)' /\ prog'[f.n].kind = "match" /\ f.pc = 1
    BY <1>4, <1>6, <1>15, <1>16 DEF Busy
  <2>2. Complete(ip.at)'  BY <1>6, <1>12 DEF Complete
  <2> QED  BY <2>1, <2>2 DEF Finds
<1>20. /\ Top' = f /\ Len(stack) \in 1..Len(stack') /\ stack'[Len(stack)] = f
  BY <1>6, BecomeBeneath
<1>21. Jumped'
  <2>1. Doing(prog, Top, {"match"})' /\ Top'.pc = 1
    BY <1>6, <1>15, <1>16, <1>20 DEF Doing
  <2> QED  BY <2>1 DEF Jumped
<1>22. InOrder(prog, stack', layout', ip'.at)
  BY <1>16, <1>20 DEF InOrder
<1>23. lowered' = lowered \cup K
  BY <1>6, <1>13
<1>24. \A j \in 1..Len(Me.kids) : Later(prog, f, j) => Later(prog, Top, j)
  BY <1>2, <1>4, <1>15 DEF Later
<1>25. \A m \in Node : /\ deferrals'[m] # <<>> => deferrals[m] # <<>>
                       /\ AllAt(m, ip.at) => \A j \in 1..Len(deferrals'[m]) : deferrals'[m][j].at = ip.at
                       /\ \A j \in 1..Len(deferrals'[m]) :
                            /\ deferrals'[m][j].stmt \in ToSet(prog[m].kids)
                            /\ Fine(prog, deferrals'[m][j].stmt)
  BY <1>4, <1>6, AnewForgets
<1>26. f.y = f.x + 1 /\ f.y = layout'[Len(layout')]
  <2>1. layout \in Seq(Made) /\ Len(layout) \in Nat  BY BlockFacts
  <2>2. layout'[Len(layout')] = l + 2  BY <1>6, <2>1
  <2> QED  BY <1>5, <1>15, <2>2
<1>27. /\ Pending(prog, f) \subseteq Pending(prog, Top) \cup N
       /\ ip'.at = ip.at /\ ip'.at \in {ip.at} \cup Pending(prog, Top) \cup N
       /\ \A b \in {ip.at} \cup Pending(prog, Top) \cup N :
            b = ip'.at \/ b \in Pending(prog, f) \/ EndsOnce(blocks', b)
       /\ EndsOnce(blocks', ip'.at)
       /\ \A b \in Pending(prog, f) : Open(blocks', b) /\ b # ip'.at
  BY <1>6, <1>11, <1>12, <1>17, <1>18
<1>28. /\ Coding(Top) /\ ~Ending /\ Become(f) /\ prog' = prog /\ held' = held
       /\ f.act = Top.act /\ f.n = Top.n
  BY <1>2, <1>4, <1>6, <1>15
<1>29. \A b \in Made : b # ip.at /\ b \notin Pending(prog, Top) => Alike(blocks, blocks', b)
  BY <1>12
<1>30. K = {}
  BY <1>13
<1> QED
  BY <1>10, <1>14, <1>16, <1>19, <1>21, <1>22, <1>23, <1>24, <1>25, <1>26, <1>27, <1>28, <1>29, <1>30, WholeGoes

(* One entry more, in front.                                               *)
LEMMA RememberFacts ==
  ASSUME NEW T, NEW list \in Seq(T), NEW e \in T, NEW s, s = Remember(e, list)
  PROVE  \A j \in 1..Len(s) : s[j] = e \/ \E i \in 1..Len(list) : s[j] = list[i]
<1>1. PICK n : n = Len(list)
  OBVIOUS
<1>2. n \in Nat /\ s = <<e>> \o list /\ <<e>> \in Seq(T) /\ Len(<<e>>) = 1 /\ <<e>>[1] = e
  BY <1>1 DEF Remember
<1>3. Len(s) = n + 1
  BY <1>1, <1>2
<1>4. \A j \in 1..n + 1 : s[j] = IF j = 1 THEN e ELSE list[j - 1]
  BY <1>1, <1>2
<1>5. \A j \in 1..n + 1 : j # 1 => j - 1 \in 1..n
  BY ONLY <1>2
<1> QED  BY <1>1, <1>3, <1>4, <1>5

(* A defer is remembered at the place in the blocks where it is reached.   *)
LEMMA BodyDeferWhole ==
  ASSUME Good, IInv', Placement', BodyStmt, prog[Kid(Top.i + 1)].kind = "defer"
  PROVE  Whole'
<1>1. InCall("codegen", "body", 0) /\ Top.i < Len(Me.kids)
  BY DEF BodyStmt
<1>2. PICK i, f, e, old, n : /\ i = Top.i + 1 /\ f = [Top EXCEPT !.i = i] /\ n = Top.n
                             /\ e = [at |-> ip.at, stmt |-> Kid(Top.i + 1)] /\ old = deferrals[Top.n]
  OBVIOUS
<1>3. PICK s, K, N : s = Remember(e, old) /\ K = {Kid(i)} /\ N = {}
  OBVIOUS
<1>4. /\ Become(f) /\ deferrals' = [deferrals EXCEPT ![n] = s] /\ lowered' = lowered \cup K
      /\ prog' = prog /\ blocks' = blocks /\ layout' = layout /\ ip' = ip /\ held' = held
  <2>1. /\ Become([Top EXCEPT !.i = @ + 1])
        /\ deferrals' = [deferrals EXCEPT ![Top.n] =
                           Remember([at |-> ip.at, stmt |-> Kid(Top.i + 1)], @)]
        /\ lowered' = lowered \cup {Kid(Top.i + 1)} /\ UNCHANGED <<tree, code, held>>
    BY DEF BodyStmt
  <2>2. f = [Top EXCEPT !.i = @ + 1]  BY <1>2
  <2>3. deferrals' = [deferrals EXCEPT ![n] = s]  BY <1>2, <1>3, <2>1
  <2> QED  BY <1>2, <1>3, <2>1, <2>2, <2>3 DEF tree, code
<1>5. /\ Coding(Top) /\ Me.kind = "body" /\ Top.pc = 0 /\ ~Ending /\ Top.act = "codegen"
      /\ Top \in Frame /\ Top.i \in Nat /\ Len(Me.kids) \in Nat /\ prog[n] = Me /\ n \in Node
      /\ SupportedStmt(prog, Top.n) /\ Rooted(prog) /\ \A j \in 1..Len(Me.kids) : Kid(j) = Me.kids[j]
  BY <1>1, <1>2, CodingFacts
<1>6. PICK a, m : a = Top.i /\ m = Len(Me.kids)
  OBVIOUS
<1>7. i \in 1..m /\ i = a + 1 /\ a \in Nat /\ m \in Nat /\ i # 0 /\ i > a /\ (a # 0 => a \in 1..m - 1)
      /\ \A j \in 1..m : j > i => j > a
  <2>1. a \in Nat /\ m \in Nat /\ a < m /\ i = a + 1  BY <1>1, <1>2, <1>5, <1>6
  <2> QED  BY ONLY <2>1
<1>8. f \in Frame /\ f.act = Top.act /\ f.n = Top.n /\ f.i = i /\ f.pc = 0 /\ Coding(f)
  BY <1>2, <1>5, <1>7 DEF Frame, Coding
<1>9. Open(blocks, ip.at) /\ ~ip.back /\ Finds(Top)
  <2>1. Finds(Top)  BY <1>5, BlockFacts
  <2>2. CASE a = 0
    <3>1. ~Busy(prog, Top)  BY <1>2, <1>5, <1>6, <2>2 DEF Busy
    <3> QED  BY <1>2, <1>5, <2>1, <3>1, BlockFacts DEF Finds
  <2>3. CASE a # 0
    <3>1. Busy(prog, Top) /\ Callee(prog, Top) = Me.kids[a]
      BY <1>2, <1>5, <1>6, <2>3 DEF Busy, Callee
    <3>2. ~Leaves(prog)[Me.kids[a]]
      BY <1>2, <1>5, <1>6, <1>7, <2>3 DEF SupportedStmt
    <3> QED  BY <2>1, <3>1, <3>2, BlockFacts DEF Finds, LeftBy
  <2> QED  BY <2>2, <2>3
<1>10. /\ Busy(prog, f) /\ Callee(prog, f) = Kid(i)
       /\ Later(prog, Top, i) /\ ~Later(prog, f, i)
       /\ \A j \in 1..Len(Me.kids) : Later(prog, f, j) => Later(prog, Top, j)
  <2>1. Busy(prog, f) /\ Callee(prog, f) = Kid(i)
    BY <1>2, <1>5, <1>6, <1>7, <1>8 DEF Busy, Callee
  <2>2. \A j \in 1..m : (Later(prog, f, j) <=> j > i) /\ (Later(prog, Top, j) <=> j > a)
    BY <1>2, <1>5, <1>6, <1>8 DEF Later
  <2>3. ~(i > i)  BY <1>7
  <2> QED  BY <1>6, <1>7, <2>1, <2>2, <2>3
<1>11. /\ ~Doing(prog, f, {"if", "while", "for", "match"}) /\ ~Doing(prog, f, {"while", "for", "match"})
       /\ ~Doing(prog, Top, {"if", "while", "for", "match"}) /\ ~Doing(prog, Top, {"while", "for", "match"})
       /\ ~Doing(prog, f, {"while"}) /\ ~Doing(prog, f, {"match"}) /\ ~Doing(prog, f, {"for", "match"})
       /\ ~Doing(prog, f, {"match", "typeswitch"}) /\ ~Awaits(f)
  BY <1>2, <1>5, <1>8 DEF Doing, Awaits
<1>12. Pending(prog, f) = {} /\ Pending(prog, Top) = {}
  BY <1>11, PendingIs
<1>13. \A b \in Made : Alike(blocks, blocks', b)
  BY <1>4, SameAlike
<1>14. /\ Beneath(stack, stack', f) /\ Staying(stack, stack') /\ Top' = f
       /\ Len(stack) \in 1..Len(stack') /\ stack'[Len(stack)] = f
  BY <1>4, BecomeBeneath
<1>15. InOrder(prog, stack', layout', ip'.at)
  <2>1. ~Final  BY <1>5, Alone
  <2> QED  BY <1>4, <1>11, <1>14, <2>1, OrderQuiet
<1>16. Jumped'
  BY <1>4, <1>9, OpenJumped DEF Open
<1>17. /\ Kid(i) \in ToSet(Me.kids) /\ Fine(prog, Kid(i)) /\ Kid(i) \in Node
       /\ ~EndsFilled(prog)[Kid(i)] /\ Kid(i) = Me.kids[i]
  <2>1. Kid(i) \in ToSet(Me.kids) /\ Fine(prog, Kid(i)) /\ Kid(i) \in Node  BY <1>6, <1>7, KidFine
  <2>2. prog[Kid(i)].kind = "defer"  BY <1>2
  <2> QED  BY <1>5, <1>6, <1>7, <2>1, <2>2, FilledFacts
<1>18. Finds(f)'
  <2>1. SUFFICES ASSUME FillsBy(prog, Me.kids, i)  PROVE Filled(blocks, ip.at)
    <3>1. FilledUpto(f)'  BY <1>2, <1>4, <1>5, <1>8, <2>1 DEF FilledUpto
    <3>2. PICK d : d = Kid(i)  OBVIOUS
    <3>3. Busy(prog, f)' /\ Callee(prog, f)' = d  BY <1>4, <1>10, <3>2 DEF Busy, Callee
    <3>4. Open(blocks', ip'.at) /\ ~EndsFilled(prog')[d]  BY <1>4, <1>9, <1>17, <3>2
    <3>5. LeftBy(d)'  BY <3>4 DEF LeftBy
    <3>6. prog'[f.n].kind # "match"  BY <1>2, <1>4, <1>5, <1>8
    <3> QED  BY <3>1, <3>3, <3>5, <3>6 DEF Finds
  <2>2. PICK j \in 1..i : /\ EndsFilled(prog)[Me.kids[j]]
                          /\ \A k \in j+1..i : prog[Me.kids[k]].kind \in {"nop", "defer"}
    BY <2>1 DEF FillsBy
  <2>3. j # i  BY <1>17, <2>2
  <2>4. j \in 1..a /\ \A k \in j+1..a : k \in j+1..i  BY ONLY <1>7, <2>3
  <2>5. FillsBy(prog, Me.kids, a)  BY <2>2, <2>4 DEF FillsBy
  <2>6. FilledUpto(Top)  BY <1>2, <1>5, <1>9 DEF Finds
  <2> QED  BY <1>2, <1>5, <1>6, <2>5, <2>6 DEF FilledUpto
<1>19. Made' = Made \cup N /\ N \cap Made = {}
  BY <1>3, <1>4 DEF Made
<1>20. \A k \in Node : deferrals'[k] = IF k = n THEN s ELSE deferrals[k]
  <2>1. deferrals \in [Node -> Seq(Deferral)]  BY DEF Good, IInv, DeferralsOK
  <2> QED  BY <1>4, <2>1
<1>21. \A j \in 1..Len(s) : s[j] = e \/ \E k \in 1..Len(old) : s[j] = old[k]
  <2>1. deferrals \in [Node -> Seq(Deferral)]  BY DEF Good, IInv, DeferralsOK
  <2>2. old \in Seq(Deferral)  BY <1>2, <1>5, <2>1
  <2>3. PICK T : T = Deferral \cup {e}  OBVIOUS
  <2>4. old \in Seq(T) /\ e \in T  BY <2>2, <2>3
  <2> QED  BY <1>3, <2>4, RememberFacts
<1>22. e.at = ip.at /\ e.stmt = Kid(i)
  BY <1>2
<1>23. \A k \in Node : \A j \in 1..Len(deferrals[k]) :
         /\ deferrals[k][j].stmt \in ToSet(prog[k].kids)
         /\ Fine(prog, deferrals[k][j].stmt)
  BY DEF Good, Whole, Remembered
<1>24. \A k \in Node : \A j \in 1..Len(deferrals'[k]) :
         /\ deferrals'[k][j].stmt \in ToSet(prog[k].kids)
         /\ Fine(prog, deferrals'[k][j].stmt)
  BY <1>2, <1>5, <1>17, <1>20, <1>21, <1>22, <1>23
<1>25. \A k \in Node : AllAt(k, ip.at) =>
         \A j \in 1..Len(deferrals'[k]) : deferrals'[k][j].at = ip.at
  BY <1>2, <1>20, <1>21, <1>22 DEF AllAt
<1>26. \A k \in Node : deferrals'[k] # <<>> => deferrals[k] # <<>> \/ k = Top.n
  BY <1>2, <1>20
<1>27. K = {} \/ \E j \in 1..Len(Me.kids) : K = {Kid(j)} /\ Later(prog, Top, j) /\ ~Later(prog, f, j)
  BY <1>3, <1>6, <1>7, <1>10
<1>28. /\ Coding(Top) /\ ~Ending /\ prog' = prog /\ Become(f) /\ f.act = Top.act /\ f.n = Top.n
       /\ Me.kind \notin {"nop", "defer"} /\ held' = held /\ lowered' = lowered \cup K
       /\ ip'.at = ip.at /\ layout'[Len(layout')] = layout[Len(layout)]
       /\ ip'.at \in {ip.at} \cup Pending(prog, Top) \cup N
       /\ Pending(prog, f) \subseteq Pending(prog, Top) \cup N
       /\ \A b \in {ip.at} \cup Pending(prog, Top) \cup N :
            b = ip'.at \/ b \in Pending(prog, f) \/ EndsOnce(blocks', b)
       /\ Open(blocks', ip'.at) /\ ~ip'.back
  BY <1>3, <1>4, <1>5, <1>8, <1>9, <1>12
<1> QED
  BY <1>10, <1>11, <1>12, <1>13, <1>15, <1>16, <1>18, <1>19, <1>24, <1>25, <1>26, <1>27, <1>28, WholeGoes

------------------------------------------------------------------------------
(* The steps that end scopes *)

(* They leave the calls that lower statements alone.  A match or a         *)
(* typeswitch waits for the scope of its arm to be ended.                  *)
LEMMA UnwindFacts ==
  ASSUME Good, Unwinding(Top), Unwound
  PROVE  /\ Len(stack) > 1 /\ stack'[1] = stack[1] /\ stack[1].pc # 0 /\ stack' # <<>>
         /\ Closing(stack') <=> Final
         /\ \A k \in 1..Len(stack') : Coding(stack'[k]) => k \in 1..Len(stack) /\ stack'[k] = stack[k]
         /\ \A k \in 1..Len(stack) : Coding(stack[k]) => k \in 1..Len(stack') /\ stack'[k] = stack[k]
         /\ \A k \in 1..Len(stack') : k \in 1..Len(stack) - 1 \/ Unwinding(stack'[k])
         /\ \A k \in 1..Len(stack) - 1 : k \in 1..Len(stack')
<1>1. PICK n, m : n = Len(stack) /\ m = Len(stack')
  OBVIOUS
<1>2. n \in Nat \ {0} /\ Chain(prog, stack) /\ stack # <<>> /\ stack[1].act = "build" /\ Top = stack[n]
  BY <1>1, Running DEF Chain, Top
<1>3. m \in Nat \ {0} /\ n - 1 <= m
  BY <1>1 DEF Unwound
<1>4. n # 1
  BY <1>2 DEF Unwinding
<1>5. n > 1 /\ 1 \in 1..n - 1 /\ 2 \in 2..n /\ (\A k \in 1..m : k \in 1..n - 1 \/ k \in n..m)
      /\ \A k \in 1..n : k = n \/ (k \in 1..n - 1 /\ k \in 1..m)
  BY ONLY <1>2, <1>3, <1>4
<1>6. /\ \A k \in 1..n - 1 : stack'[k] = stack[k]
      /\ \A k \in n..m : Unwinding(stack'[k])
  BY <1>1 DEF Unwound
<1>7. stack'[1] = stack[1]
  BY <1>5, <1>6
<1>8. stack[1].pc # 0
  <2>1. Calls(prog, stack[1], stack[2])
    <3>1. \A k \in 2..n : Calls(prog, stack[k-1], stack[k])  BY <1>1, <1>2 DEF Chain
    <3>2. 2 - 1 = 1  OBVIOUS
    <3> QED  BY <1>5, <3>1, <3>2
  <2> QED  BY <1>2, <2>1 DEF Calls, Coding, Unwinding
<1>9. \A k \in 1..m : Coding(stack'[k]) => k \in 1..n - 1 /\ stack'[k] = stack[k]
  <2>1. \A f : Coding(f) => ~Unwinding(f)  BY DEF Coding, Unwinding
  <2> QED  BY <1>5, <1>6, <2>1
<1>10. \A k \in 1..n : Coding(stack[k]) => k \in 1..m /\ stack'[k] = stack[k]
  <2>1. ~Coding(stack[n])  BY <1>2 DEF Coding, Unwinding
  <2> QED  BY <1>5, <1>6, <2>1
<1>11. \A k \in 1..n - 1 : k \in 1..n
  BY ONLY <1>2
<1>12. stack' # <<>>
  BY <1>1, <1>3
<1>13. \A k \in 1..m : k \in 1..n - 1 \/ Unwinding(stack'[k])
  BY <1>5, <1>6
<1>14. \A k \in 1..n - 1 : k \in 1..m
  BY ONLY <1>2, <1>3
<1> QED
  BY <1>1, <1>5, <1>7, <1>8, <1>9, <1>10, <1>11, <1>12, <1>13, <1>14 DEF Final, Closing

(* The call a scope exit returns to is one that waits for it.              *)
LEMMA UnwindReturns ==
  ASSUME Good, Unwinding(Top), Unwound, Coding(Top')
  PROVE  /\ Top' = Caller /\ Awaits(Caller) /\ ~Final /\ ~Ending'
         /\ Busy(prog, Caller) /\ prog[Caller.n].kind \in {"match", "typeswitch"} /\ Caller.pc # 0
         /\ Len(stack) - 1 \in 1..Len(stack)
<1>1. PICK n, m, c : n = Len(stack) /\ m = Len(stack') /\ c = Top'
  OBVIOUS
<1>2. n \in Nat /\ m \in Nat \ {0} /\ n > 1 /\ n - 1 <= m /\ Chain(prog, stack)
  BY <1>1, UnwindFacts, Running DEF Unwound
<1>3. c = stack'[m] /\ Coding(c) /\ m \in 1..m
  BY <1>1, <1>2 DEF Top
<1>4. m \in 1..n - 1 /\ m = n - 1
  <2>1. \A f : Coding(f) => ~Unwinding(f)  BY DEF Coding, Unwinding
  <2>2. m \in 1..n - 1  BY <1>1, <1>3, <2>1, UnwindFacts
  <2> QED  BY <1>2, <2>2
<1>5. c = stack[m] /\ c = Caller /\ m + 1 = n
  <2>1. c = stack[m]  BY <1>1, <1>3, UnwindFacts
  <2> QED  BY <1>1, <1>2, <1>4, <2>1 DEF Caller
<1>6. m \in 1..n /\ n \in 2..n /\ n - 1 = m
  BY ONLY <1>2, <1>4
<1>7. Calls(prog, c, Top)
  <2>1. Calls(prog, stack[n-1], stack[n])  BY <1>1, <1>2, <1>6 DEF Chain
  <2> QED  BY <1>1, <1>5, <1>6, <2>1 DEF Top
<1>8. /\ prog[c.n].kind \in {"match", "typeswitch"} /\ c.pc # 0
      /\ Awaits(c) /\ Busy(prog, c)
  <2>1. Coding(c) /\ Unwinding(Top)  BY <1>3
  <2>2. \/ prog[c.n].kind = "match" /\ c.pc = 3
        \/ prog[c.n].kind = "typeswitch" /\ c.pc = 2
    BY <1>7, <2>1 DEF Calls, Coding, Unwinding
  <2> QED  BY <2>1, <2>2 DEF Awaits, Doing, Busy
<1>9. ~Final /\ \A k \in 1..m - 1 : ~Unwinding(stack[k])
  <2>1. Coding(stack[m]) /\ (Closing(stack) \/ \E k \in 1..m-1 : Unwinding(stack[k]))
          => prog[stack[m].n].kind = "expr"
    BY <1>1, <1>2, <1>6 DEF Chain
  <2> QED  BY <1>3, <1>5, <1>8, <2>1 DEF Final
<1>10. ~Ending'
  <2>1. ~Unwinding(Top')  BY <1>1, <1>3 DEF Coding, Unwinding
  <2>2. Len(stack') > 1 => ~Unwinding(Caller')
    <3>1. SUFFICES ASSUME m > 1  PROVE ~Unwinding(stack'[m-1])
      BY <1>1 DEF Caller
    <3>2. m - 1 \in 1..m - 1 /\ m - 1 \in 1..n - 1  BY <1>2, <1>4, <3>1
    <3>3. stack'[m-1] = stack[m-1]  BY <1>1, <3>2 DEF Unwound
    <3> QED  BY <1>9, <3>2, <3>3
  <2> QED  BY <2>1, <2>2 DEF Ending
<1> QED  BY <1>1, <1>5, <1>6, <1>8, <1>9, <1>10

(* Calls that have started lowering stay, and no block comes to end or     *)
(* ceases to.                                                              *)
Kept(s, t) ==
  /\ \A k \in 1..Len(t) : Coding(t[k]) /\ t[k].pc # 0 => k \in 1..Len(s) /\ t[k] = s[k]
  /\ \A k \in 1..Len(s) : Coding(s[k]) /\ s[k].pc # 0 => k \in 1..Len(t) /\ t[k] = s[k]
Akin(bs, new, b) ==
  /\ Open(new, b) <=> Open(bs, b)
  /\ EndsOnce(new, b) <=> EndsOnce(bs, b)
  /\ ReturnsIn(bs, b) => ReturnsIn(new, b)
  /\ Filled(bs, b) => Filled(new, b)

LEMMA KeptBlocks ==
  ASSUME Good, Kept(stack, stack'), Closing(stack') <=> Final, prog' = prog,
         Made' = Made, layout' = layout, \A b \in Made : Akin(blocks, blocks', b),
         ip'.back => EndsOnce(blocks', ip'.at), ~Final => ip'.at = ip.at
  PROVE  Blocks'
<1>1. Blocks
  BY DEF Good, Whole
<1>2. Final' <=> Final
  BY DEF Final
<1>3. LastBlock' = LastBlock /\ LastBlock \in Made
  <2>1. layout \in Seq(Made) /\ layout # <<>>  BY BlockFacts
  <2>2. PICK l, S : l = layout /\ S = Made  OBVIOUS
  <2>3. l \in Seq(S) /\ l # <<>>  BY <2>1, <2>2
  <2>4. l[Len(l)] \in S  BY <2>3
  <2> QED  BY <2>2, <2>4 DEF LastBlock
<1>4. \A b \in Made : /\ Complete(b)' <=> Complete(b)
                      /\ Open(blocks', b) <=> Open(blocks, b)
                      /\ ReturnsIn(blocks, b) => ReturnsIn(blocks', b)
  BY DEF Complete, Akin
<1>5. \A k \in 1..Len(stack') : PendingAt(k)' = {} \/ (k \in 1..Len(stack) /\ PendingAt(k)' = PendingAt(k))
  <2> TAKE k \in 1..Len(stack')
  <2>1. PICK f : f = stack'[k]  OBVIOUS
  <2>2. PendingAt(k)' = Pending(prog, f)  BY <2>1 DEF PendingAt
  <2>3. CASE Coding(f) /\ f.pc # 0
    BY <2>1, <2>2, <2>3 DEF PendingAt, Kept
  <2>4. CASE ~(Coding(f) /\ f.pc # 0)
    BY <2>2, <2>4, NothingPending
  <2> QED  BY <2>3, <2>4
<1>6. \A k \in 1..Len(stack) : PendingAt(k) = {} \/ (k \in 1..Len(stack') /\ PendingAt(k)' = PendingAt(k))
  <2> TAKE k \in 1..Len(stack)
  <2>1. PICK f : f = stack[k]  OBVIOUS
  <2>2. PendingAt(k) = Pending(prog, f)  BY <2>1 DEF PendingAt
  <2>3. CASE Coding(f) /\ f.pc # 0
    <3>1. k \in 1..Len(stack') /\ stack'[k] = f  BY <2>1, <2>3 DEF Kept
    <3>2. PendingAt(k)' = Pending(prog, f)  BY <3>1 DEF PendingAt
    <3> QED  BY <2>2, <3>1, <3>2
  <2>4. CASE ~(Coding(f) /\ f.pc # 0)
    BY <2>2, <2>4, NothingPending
  <2> QED  BY <2>3, <2>4
<1>7. Final => \A k \in 1..Len(stack) : PendingAt(k) = {}
  <2> SUFFICES ASSUME Final, NEW k \in 1..Len(stack)  PROVE Pending(prog, stack[k]) = {}
    BY DEF PendingAt
  <2>1. Coding(stack[k]) => prog[stack[k].n].kind = "expr"
    BY Running DEF Chain, Final
  <2>2. ~Doing(prog, stack[k], {"if", "while", "for", "match"})
    BY <2>1 DEF Doing
  <2> QED  BY <2>2, PendingIs
<1>8. (\A b \in Made : Open(blocks, b) \/ Complete(b))'
  BY <1>1, <1>3, <1>4 DEF Blocks
<1>9. (\A k \in 1..Len(stack) : \A b \in PendingAt(k) : Open(blocks, b) /\ b # ip.at)'
  <2> SUFFICES ASSUME NEW k \in 1..Len(stack'), NEW b \in PendingAt(k)'
               PROVE  Open(blocks', b) /\ b # ip'.at
    OBVIOUS
  <2>1. k \in 1..Len(stack) /\ b \in PendingAt(k)  BY <1>5
  <2>2. ~Final /\ b \in Made  BY <1>7, <2>1, PendingMade
  <2> QED  BY <1>1, <1>4, <2>1, <2>2 DEF Blocks
<1>10. (\A k, l \in 1..Len(stack) : k # l => PendingAt(k) \cap PendingAt(l) = {})'
  <2> SUFFICES ASSUME NEW k \in 1..Len(stack'), NEW l \in 1..Len(stack'), k # l
               PROVE  PendingAt(k)' \cap PendingAt(l)' = {}
    OBVIOUS
  <2>1. PendingAt(k)' = {} \/ (k \in 1..Len(stack) /\ PendingAt(k)' = PendingAt(k))  BY <1>5
  <2>2. PendingAt(l)' = {} \/ (l \in 1..Len(stack) /\ PendingAt(l)' = PendingAt(l))  BY <1>5
  <2> QED  BY <1>1, <2>1, <2>2 DEF Blocks
<1>11. (ip.back => Complete(ip.at))'
  BY DEF Complete
<1>12. (~Final => \A b \in Made :
          b = ip.at \/ Complete(b) \/ \E k \in 1..Len(stack) : b \in PendingAt(k))'
  <2> SUFFICES ASSUME ~Final, NEW b \in Made, b # ip.at, ~Complete(b)
               PROVE  \E k \in 1..Len(stack') : b \in PendingAt(k)'
    BY <1>2, <1>4
  <2>1. PICK k \in 1..Len(stack) : b \in PendingAt(k)  BY <1>1 DEF Blocks
  <2> QED  BY <1>6, <2>1
<1>13. (Final => /\ \A b \in Made : b = LastBlock \/ Complete(b)
                 /\ Open(blocks, LastBlock) \/ ReturnsIn(blocks, LastBlock))'
  BY <1>1, <1>2, <1>3, <1>4 DEF Blocks
<1> QED  BY <1>8, <1>9, <1>10, <1>11, <1>12, <1>13 DEF Blocks

LEMMA KeptFound ==
  ASSUME Good, Kept(stack, stack'), Closing(stack') <=> Final, prog' = prog,
         \A b \in Made : Akin(blocks, blocks', b), ~Final => ip'.at = ip.at,
         ~Doing(prog, Top, {"match"})
  PROVE  Awaited' /\ (~Final' => Jumped')
<1>1. Found
  BY DEF Good, Whole
<1>2. (Final' <=> Final) /\ ip.at \in Made
  BY BlockFacts DEF Final
<1>3. (\A k \in 1..Len(stack) : Awaits(stack[k]) => LeftBy(Callee(prog, stack[k])))'
  <2> SUFFICES ASSUME NEW k \in 1..Len(stack'), Awaits(stack[k])'
               PROVE  LeftBy(Callee(prog, stack[k]))'
    OBVIOUS
  <2>1. PICK f : f = stack'[k]  OBVIOUS
  <2>2. Awaits(f)  BY <2>1 DEF Awaits, Doing
  <2>3. Coding(f) /\ f.pc # 0  BY <2>2 DEF Awaits, Doing
  <2>4. k \in 1..Len(stack) /\ f = stack[k]  BY <2>1, <2>3 DEF Kept
  <2>5. LeftBy(Callee(prog, f))  BY <1>1, <2>2, <2>4 DEF Found
  <2>6. ~Final
    <3>1. Coding(stack[k]) /\ Final => prog[stack[k].n].kind = "expr"
      BY <2>4, Running DEF Chain, Final
    <3> QED  BY <2>2, <2>3, <2>4, <3>1 DEF Awaits, Doing
  <2>7. Akin(blocks, blocks', ip.at) /\ ip'.at = ip.at  BY <1>2, <2>6
  <2>8. LeftBy(Callee(prog, f))'  BY <2>5, <2>7 DEF LeftBy, Callee, Akin
  <2> QED  BY <2>1, <2>8
<1>4. (Complete(ip.at) /\ (\A k \in 1..Len(stack) : ~Iterates(prog, stack[k])) =>
         ReturnsIn(blocks, ip.at) \/ (Doing(prog, Top, {"match"}) /\ Top.pc = 1))'
      \/ Final
  <2> SUFFICES ASSUME ~Final, Complete(ip.at)', (\A k \in 1..Len(stack) : ~Iterates(prog, stack[k]))'
               PROVE  ReturnsIn(blocks, ip.at)'
    OBVIOUS
  <2>1. ip'.at = ip.at /\ Akin(blocks, blocks', ip.at)  BY <1>2
  <2>2. Complete(ip.at)  BY <2>1 DEF Complete, Akin
  <2>3. \A k \in 1..Len(stack) : ~Iterates(prog, stack[k])
    <3> SUFFICES ASSUME NEW k \in 1..Len(stack), Iterates(prog, stack[k])  PROVE FALSE
      OBVIOUS
    <3>1. PICK f : f = stack[k]  OBVIOUS
    <3>2. Coding(f) /\ f.pc # 0  BY <3>1 DEF Iterates, Doing
    <3>3. k \in 1..Len(stack') /\ stack'[k] = f  BY <3>1, <3>2 DEF Kept
    <3>4. Iterates(prog, f)'  BY <3>1 DEF Iterates, Doing
    <3> QED  BY <3>3, <3>4
  <2>4. ReturnsIn(blocks, ip.at)  BY <1>1, <2>2, <2>3 DEF Found
  <2> QED  BY <2>1, <2>4 DEF Akin
<1> QED  BY <1>2, <1>3, <1>4 DEF Awaited, Jumped

LEMMA UnwindFound ==
  ASSUME Good, Unwinding(Top), Unwound, prog' = prog, blocks' = blocks, ~Final => ip'.at = ip.at
  PROVE  Found'
<1>1. Found
  BY DEF Good, Whole
<1>2. Final' <=> Final
  BY UnwindFacts DEF Final
<1>3. Coding(Top') => /\ Finds(Top)' /\ ~Ending'
                      /\ prog[Top'.n].kind \in {"match", "typeswitch"}
  <2> SUFFICES ASSUME Coding(Top')
               PROVE  Finds(Top)' /\ ~Ending' /\ prog[Top'.n].kind \in {"match", "typeswitch"}
    OBVIOUS
  <2>1. PICK c, k : c = Caller /\ k = Len(stack) - 1
    OBVIOUS
  <2>2. /\ Top' = c /\ Awaits(c) /\ ~Final /\ ~Ending' /\ Busy(prog, c)
        /\ prog[c.n].kind \in {"match", "typeswitch"} /\ c.pc # 0
        /\ k \in 1..Len(stack) /\ stack[k] = c
    BY <2>1, UnwindReturns DEF Caller
  <2>3. LeftBy(Callee(prog, c))
    BY <1>1, <2>2 DEF Found
  <2>4. LeftBy(Callee(prog, c))'
    BY <2>2, <2>3 DEF LeftBy, Callee
  <2>5. Finds(c)'
    BY <2>2, <2>4 DEF Finds, Busy
  <2>6. Finds(Top)'
    BY <2>2, <2>5
  <2> QED  BY <2>2, <2>6
<1>4. (Coding(Top) /\ ~Ending => Finds(Top))'
  BY <1>3
<1>5. (/\ Coding(Top) /\ Me.kind \in {"nop", "defer"}
       /\ Len(stack) > 1 /\ Coding(Caller) /\ prog[Caller.n].kind = "body"
       => FilledUpto(Caller))'
  BY <1>3 DEF Me
<1>6. Kept(stack, stack') /\ (Closing(stack') <=> Final) /\ ~Doing(prog, Top, {"match"})
      /\ \A b : Akin(blocks, blocks', b)
  BY UnwindFacts DEF Kept, Doing, Coding, Unwinding, Akin
<1>7. (Coding(Top) /\ Ending => Me.kind = "expr" /\ (Complete(ip.at) => ip.back))'
  BY <1>3
<1>8. (stack[1].pc = 0 => Open(blocks, ip.at))'
  BY UnwindFacts
<1>9. Awaited' /\ (~Final' => Jumped')
  BY <1>6, KeptFound
<1> QED  BY <1>4, <1>5, <1>7, <1>8, <1>9 DEF Found, Awaited, Jumped

LEMMA KeptOrder ==
  ASSUME Good, Kept(stack, stack'), Closing(stack') <=> Final, Len(stack') \in Nat,
         prog' = prog, layout' = layout, held' = held, ~Final => ip'.at = ip.at
  PROVE  Order'
<1>1. Order
  BY DEF Good, Whole
<1>2. (Final' <=> Final) /\ LastBlock' = LastBlock
  BY DEF Final, LastBlock
<1>3. \A k \in 1..Len(stack') : \A kinds : Doing(prog, stack'[k], kinds) =>
        k \in 1..Len(stack) /\ stack'[k] = stack[k]
  <2> SUFFICES ASSUME NEW k \in 1..Len(stack'), NEW kinds, Doing(prog, stack'[k], kinds)
               PROVE  k \in 1..Len(stack) /\ stack'[k] = stack[k]
    OBVIOUS
  <2> QED  BY DEF Doing, Kept
<1>4. \A k \in 1..Len(stack) : \A kinds : Doing(prog, stack[k], kinds) =>
        k \in 1..Len(stack') /\ stack'[k] = stack[k]
  <2> SUFFICES ASSUME NEW k \in 1..Len(stack), NEW kinds, Doing(prog, stack[k], kinds)
               PROVE  k \in 1..Len(stack') /\ stack'[k] = stack[k]
    OBVIOUS
  <2> QED  BY DEF Doing, Kept
<1>5. (\A k \in 1..Len(stack) : Doing(prog, stack[k], {"while"}) =>
         stack[k].y = stack[k].x + 2 /\ held[stack[k].n].a = stack[k].x + 1)'
  BY <1>1, <1>3 DEF Order
<1>6. (\A k \in 1..Len(stack) : Doing(prog, stack[k], {"match"}) => stack[k].y = stack[k].x + 1)'
  BY <1>1, <1>3 DEF Order
<1>7. (\A k \in 1..Len(stack) : Doing(prog, stack[k], {"for", "match"}) => stack[k].y = LastBlock)'
  BY <1>1, <1>2, <1>3 DEF Order
<1>8. ASSUME ~Final', (\A k \in 1..Len(stack) : ~Doing(prog, stack[k], {"for", "match"}))'
      PROVE  (/\ ip.at \in ToSet(layout)
              /\ \A b \in Behind(layout, ip.at) :
                   \E k \in 1..Len(stack) : Newest(prog, stack, k) /\ b \in PendingAt(k))'
  <2>1. ~Final /\ ip'.at = ip.at  BY <1>2, <1>8
  <2>2. \A k \in 1..Len(stack) : ~Doing(prog, stack[k], {"for", "match"})
    BY <1>4, <1>8
  <2>3. /\ ip.at \in ToSet(layout)
        /\ \A b \in Behind(layout, ip.at) :
             \E k \in 1..Len(stack) : Newest(prog, stack, k) /\ b \in PendingAt(k)
    BY <1>1, <2>1, <2>2 DEF Order
  <2> SUFFICES ASSUME NEW b \in Behind(layout, ip.at)
               PROVE  \E k \in 1..Len(stack') : Newest(prog, stack', k) /\ b \in PendingAt(k)'
    BY <2>1, <2>3 DEF Newest, Doing, Behind
  <2>4. PICK k \in 1..Len(stack) : Newest(prog, stack, k) /\ b \in PendingAt(k)
    BY <2>3
  <2>5. k \in 1..Len(stack') /\ stack'[k] = stack[k] /\ Doing(prog, stack[k], {"while"})
    BY <1>4, <2>4 DEF Newest
  <2>6. PendingAt(k)' = PendingAt(k)
    <3>1. PICK f : f = stack[k]  OBVIOUS
    <3>2. stack'[k] = f  BY <2>5, <3>1
    <3> QED  BY <3>1, <3>2 DEF PendingAt
  <2>7. \A l \in k+1..Len(stack') : ~Doing(prog, stack'[l], {"while"})
    <3> SUFFICES ASSUME NEW l \in k+1..Len(stack'), Doing(prog, stack'[l], {"while"})  PROVE FALSE
      OBVIOUS
    <3>1. l \in 1..Len(stack')
      <4>1. PICK m : m = Len(stack')  OBVIOUS
      <4>2. m \in Nat /\ k \in Nat  BY <4>1, Running
      <4>3. l \in k+1..m  BY <4>1
      <4>4. l \in 1..m  BY ONLY <4>2, <4>3
      <4> QED  BY <4>1, <4>4
    <3>2. l \in 1..Len(stack) /\ stack'[l] = stack[l]  BY <1>3, <3>1
    <3>3. l \in k+1..Len(stack)
      <4>1. PICK m, e : m = Len(stack) /\ e = Len(stack')  OBVIOUS
      <4>2. m \in Nat /\ e \in Nat /\ k \in Nat  BY <4>1, Running
      <4>3. l \in k+1..e /\ l \in 1..m  BY <3>2, <4>1
      <4>4. l \in k+1..m  BY ONLY <4>2, <4>3
      <4> QED  BY <4>1, <4>4
    <3> QED  BY <2>4, <3>2, <3>3 DEF Newest
  <2>8. Newest(prog, stack', k)
    BY <2>5, <2>7 DEF Newest
  <2> QED  BY <2>4, <2>5, <2>6, <2>8
<1> QED  BY <1>5, <1>6, <1>7, <1>8 DEF Order

LEMMA UnwindStarts ==
  ASSUME Good, Unwinding(Top), Unwound, prog' = prog, deferrals' = deferrals, lowered' = lowered
  PROVE  Starts'
<1>1. Starts
  BY DEF Good, Whole
<1>2. PICK s, t : s = stack /\ t = stack'
  OBVIOUS
<1>3. /\ \A k \in 1..Len(t) : Coding(t[k]) => k \in 1..Len(s) /\ t[k] = s[k]
      /\ \A k \in 1..Len(s) : Coding(s[k]) => k \in 1..Len(t) /\ t[k] = s[k]
  BY <1>2, UnwindFacts
<1>4. CodingIn(t) = CodingIn(s)
  <2>1. \A n : n \in CodingIn(t) <=> \E k \in 1..Len(t) : Coding(t[k]) /\ n = t[k].n
    BY DEF CodingIn
  <2>2. \A n : n \in CodingIn(s) <=> \E k \in 1..Len(s) : Coding(s[k]) /\ n = s[k].n
    BY DEF CodingIn
  <2> QED  BY <1>3, <2>1, <2>2
<1>5. Begun' = Begun
  BY <1>2, <1>4, BegunIs
<1>6. (\A k \in 1..Len(stack) : Coding(stack[k]) =>
         \A j \in 1..Len(prog[stack[k].n].kids) :
           Later(prog, stack[k], j) => prog[stack[k].n].kids[j] \notin Begun)'
  <2> SUFFICES ASSUME NEW k \in 1..Len(stack'), Coding(stack'[k]),
                      NEW j \in 1..Len(prog[stack'[k].n].kids), Later(prog', stack'[k], j)
               PROVE  prog[stack'[k].n].kids[j] \notin Begun
    BY <1>5
  <2>1. k \in 1..Len(stack) /\ stack'[k] = stack[k]  BY <1>2, <1>3
  <2> QED  BY <1>1, <2>1 DEF Starts
<1>7. stack'[1] = stack[1] /\ stack[1].pc # 0
  BY UnwindFacts
<1>8. (\A n \in Node : deferrals[n] # <<>> => n \in Begun)'
  BY <1>1, <1>5 DEF Starts
<1>9. (\A n \in Node : \A j \in 1..Len(prog[n].kids) : prog[n].kids[j] \in Begun \ {Root} => n \in Begun)'
  BY <1>1, <1>5 DEF Starts
<1> QED  BY <1>6, <1>7, <1>8, <1>9 DEF Starts

(* A body in a body has no defers, where there are any.                    *)
LEMMA NoDefersWithin ==
  ASSUME Good, Me.kind = "body", NEW i \in 1..Len(Me.kids), prog[Kid(i)].kind = "body"
  PROVE  \A j \in 1..Len(deferrals[Kid(i)]) : FALSE
<1>1. PICK n, k : n = Top.n /\ k = Kid(i)
  OBVIOUS
<1>2. n \in Node /\ k \in Node /\ k \in ToSet(prog[n].kids) /\ Rooted(prog) /\ Fine(prog, n) /\ prog[n].kind = "body"
  BY <1>1, KidFine, Running DEF Good, Me
<1> SUFFICES ASSUME NEW j \in 1..Len(deferrals[k])  PROVE FALSE
  BY <1>1
<1>3. PICK d : d = deferrals[k][j].stmt
  OBVIOUS
<1>4. d \in ToSet(prog[k].kids) /\ prog[d].kind = "defer"
  BY <1>2, <1>3 DEF Good, IInv, DeferralsOK, Whole, Remembered
<1>5. Has(prog, k, {"defer"})
  BY <1>2, <1>4, PartsInherit
<1>6. Has(prog, n, {"defer"})
  BY <1>2, <1>5, PartsInherit
<1>7. NoBareBody(prog, n)
  BY <1>2, <1>6 DEF Fine
<1>8. prog[k].kind # "body"
  BY <1>2, <1>7, SelfHolds
<1> QED  BY <1>1, <1>8

(* What a scope exit or the run of a defer is about.                       *)
LEMMA UnwindCallFacts ==
  ASSUME Good, NEW act \in {"exit", "apply"}, NEW kind, NEW pc, InCall(act, kind, pc)
  PROVE  /\ Unwinding(Top) /\ Me.kind = kind /\ Top.act = act /\ Top.pc = pc
         /\ Here(Top) \/ Final
         /\ Top \in Frame /\ WellFormedNode(Me) /\ Len(Me.kids) \in Nat /\ Top.i \in Nat
         /\ Top.n \in Node /\ prog[Top.n] = Me
         /\ ~Final => StraightLine(prog, Top.n) /\ kind \notin Branches \cup Loops
<1>1. /\ Unwinding(Top) /\ Me.kind = kind /\ Top.act = act /\ Top.pc = pc
  BY DEF InCall, Unwinding
<1>2. /\ Top \in Frame /\ WellFormedNode(Me) /\ Len(Me.kids) \in Nat /\ Top.i \in Nat
      /\ Top.n \in Node /\ prog[Top.n] = Me
  BY Running, RunningCall DEF Good, Me
<1>3. Here(Top) \/ Final
  BY Running DEF Good, Whole, Remembered, Top
<1>4. ~Final => StraightLine(prog, Top.n)
  BY <1>1, Running DEF Chain, Final, Top
<1>5. ~Final => kind \notin Branches \cup Loops
  <2>1. Rooted(prog)  BY DEF Good
  <2> QED  BY <1>1, <1>2, <1>4, <2>1, SelfHolds
<1> QED  BY <1>1, <1>2, <1>3, <1>4, <1>5

(* The frames of such a step have reached their defers where the builder   *)
(* is.                                                                     *)
LEMMA HereOn ==
  ASSUME Good, ~Final, prog' = prog, deferrals' = deferrals, ip'.at = ip.at,
         Return \/ \E f : Here(f) /\ (Become(f) \/ \E g : Here(g) /\ Invoke(f, g))
  PROVE  Attentive'
<1>1. \A f : Here(f) => Here(f)'
  <2> SUFFICES ASSUME NEW f, Here(f)  PROVE Here(f)'
    OBVIOUS
  <2> QED  BY DEF Here, AllAt, Doing, Busy, Callee
<1>2. \A k \in 1..Len(stack') : Here(stack'[k])
  <2>1. IInv /\ stack # <<>> /\ StackOK  BY Running DEF Good, IInv
  <2>2. PICK n : n = Len(stack)  OBVIOUS
  <2>3. n \in Nat \ {0} /\ \A k \in 1..n : Here(stack[k])
    BY <2>2, Running DEF Good, Whole, Remembered
  <2>4. \A k \in 1..n - 1 : k \in 1..n  BY ONLY <2>3
  <2>5. CASE Return
    <3>1. Len(stack') = n - 1 /\ \A k \in 1..n - 1 : stack'[k] = stack[k]
      BY <2>1, <2>2, <2>5, BelowProperties DEF Return
    <3> QED  BY <2>3, <2>4, <3>1
  <2>6. CASE \E f : Here(f) /\ Become(f)
    <3>1. PICK f : Here(f) /\ Become(f)  BY <2>6
    <3>2. Len(stack') = n /\ stack'[n] = f /\ \A k \in 1..n - 1 : stack'[k] = stack[k]
      BY <2>1, <2>2, <3>1, AfterBecome
    <3>3. \A k \in 1..n : k \in 1..n - 1 \/ k = n  BY ONLY <2>3
    <3> QED  BY <2>3, <2>4, <3>1, <3>2, <3>3
  <2>7. CASE \E f : Here(f) /\ \E g : Here(g) /\ Invoke(f, g)
    <3>1. PICK f, g : Here(f) /\ Here(g) /\ Invoke(f, g)  BY <2>7
    <3>2. /\ Len(stack') = n + 1 /\ stack'[n] = f /\ stack'[n + 1] = g
          /\ \A k \in 1..n - 1 : stack'[k] = stack[k]
      BY <2>1, <2>2, <3>1, AfterInvoke
    <3>3. \A k \in 1..n + 1 : k \in 1..n - 1 \/ k = n \/ k = n + 1  BY ONLY <2>3
    <3> QED  BY <2>3, <2>4, <3>1, <3>2, <3>3
  <2> QED  BY <2>5, <2>6, <2>7
<1>3. \A k \in 1..Len(stack') : Here(stack[k])'
  <2> SUFFICES ASSUME NEW k \in 1..Len(stack')  PROVE Here(stack[k])'
    OBVIOUS
  <2>1. PICK f : f = stack'[k]  OBVIOUS
  <2>2. Here(f)'  BY <1>1, <1>2, <2>1
  <2> QED  BY <2>1, <2>2
<1> QED  BY <1>3 DEF Attentive

(* Scopes end in the block the builder is in, but for that of the function.*)
LEMMA UnwindAttends ==
  ASSUME Good, ~Final, ScopeExit, ~RunDefer, status' = "run", prog' = prog, deferrals' = deferrals
  PROVE  Attentive' /\ ip'.at = ip.at
<1>1. \A m : prog[m].kind # "body" => Here(Enter("exit", m))
  BY DEF Here, Enter, Doing, Coding
<1>2. CASE ExitNothing \/ ExitBodyEnd \/ ApplyEnd
  BY <1>2, HereOn DEF ExitNothing, ExitBodyEnd, ApplyEnd, EndWith, StackOnly, code
<1>3. CASE ExitIfThen \/ ExitIfElse \/ ExitWhile \/ ExitFor
  BY <1>3, UnwindCallFacts DEF ExitIfThen, ExitIfElse, ExitWhile, ExitFor, Branches, Loops
<1>4. CASE RunDeferExit
  <2>1. /\ Me.kind = "defer" /\ WellFormedNode(Me) /\ Len(Me.kids) \in Nat
    BY <1>4, UnwindCallFacts DEF RunDeferExit
  <2>2. prog[Kid(1)].kind = "expr"
    BY <2>1, Running DEF SupportedStmt, Me, Kid
  <2>3. Here(Enter("exit", Kid(1)))
    BY <1>1, <2>2
  <2>4. Become(Enter("exit", Kid(1))) /\ ip' = ip
    BY <1>4 DEF RunDeferExit, StackOnly, code
  <2> QED  BY <2>3, <2>4, HereOn
<1>5. CASE ApplyHere
  <2>1. Here(Top) /\ Top.act = "apply" /\ Me.kind = "defer" /\ Me = prog[Top.n]
    BY <1>5, UnwindCallFacts DEF ApplyHere
  <2>2. Top.y = ip.at  BY <2>1 DEF Here
  <2>3. ip'.at = ip.at  BY <1>5, <2>2 DEF ApplyHere, AtEnd
  <2>4. Here(Enter("exit", Top.n))  BY <1>1, <2>1
  <2>5. Become(Enter("exit", Top.n))  BY <1>5 DEF ApplyHere
  <2> QED  BY <2>3, <2>4, <2>5, HereOn
<1>6. CASE ApplyBranch \/ ApplyNext
  <2>1. Here(Top) /\ Top.act = "apply"
    BY <1>6, UnwindCallFacts DEF ApplyBranch, ApplyNext
  <2>2. Top.y # Top.x \/ Top.pc = 1
    BY <1>6 DEF ApplyBranch, ApplyNext, InCall
  <2> QED  BY <2>1, <2>2 DEF Here
<1>7. CASE ExitBody \/ ExitBodyStmt \/ ExitBodyDefers \/ ExitBodyDefer
  <2>1. /\ Here(Top) /\ Top.act = "exit" /\ Me.kind = "body" /\ Top \in Frame /\ prog[Top.n] = Me
        /\ Len(Me.kids) \in Nat /\ Top.i \in Nat /\ Top.n \in Node
    BY <1>7, UnwindCallFacts DEF ExitBody, ExitBodyStmt, ExitBodyDefers, ExitBodyDefer
  <2>2. AllAt(Top.n, ip.at) /\ (Top.pc # 0 => Top.x = ip.at)
    BY <2>1 DEF Here
  <2>3. \A f : f.act = "exit" /\ f.n = Top.n /\ f.x = ip.at => Here(f)
    BY <2>2 DEF Here, Doing, Coding
  <2>4. ip' = ip
    BY <1>7 DEF ExitBody, ExitBodyStmt, ExitBodyDefers, ExitBodyDefer, StackOnly, code
  <2>5. CASE ExitBody
    <3>1. PICK f : f = [Top EXCEPT !.pc = 1, !.x = ip.at]  OBVIOUS
    <3>2. f.act = "exit" /\ f.n = Top.n /\ f.x = ip.at  BY <2>1, <3>1 DEF Frame
    <3>3. Become(f)  BY <2>5, <3>1 DEF ExitBody
    <3> QED  BY <2>3, <2>4, <3>2, <3>3, HereOn
  <2>6. CASE ExitBodyDefers
    <3>1. PICK f : f = [Top EXCEPT !.pc = 2, !.i = 0]  OBVIOUS
    <3>2. Top.pc = 1  BY <2>6 DEF ExitBodyDefers, InCall
    <3>3. f.act = "exit" /\ f.n = Top.n /\ f.x = ip.at  BY <2>1, <2>2, <3>1, <3>2 DEF Frame
    <3>4. Become(f)  BY <2>6, <3>1 DEF ExitBodyDefers
    <3> QED  BY <2>3, <2>4, <3>3, <3>4, HereOn
  <2>7. CASE ExitBodyStmt
    <3>1. PICK f, g, i : f = [Top EXCEPT !.i = @ + 1] /\ i = Top.i + 1 /\ g = Enter("exit", Kid(Top.i + 1))
      OBVIOUS
    <3>2. Top.pc = 1 /\ Top.i < Len(Me.kids)  BY <2>7 DEF ExitBodyStmt, InCall
    <3>3. f.act = "exit" /\ f.n = Top.n /\ f.x = ip.at  BY <2>1, <2>2, <3>1, <3>2 DEF Frame
    <3>4. Become(f) \/ Invoke(f, g)  BY <2>7, <3>1 DEF ExitBodyStmt
    <3>5. i \in 1..Len(Me.kids)
      <4>1. PICK a, b : a = Top.i /\ b = Len(Me.kids)  OBVIOUS
      <4>2. a \in Nat /\ b \in Nat /\ a < b /\ i = a + 1  BY <2>1, <3>1, <3>2, <4>1
      <4>3. i \in 1..b  BY ONLY <4>2
      <4> QED  BY <4>1, <4>3
    <3>6. Here(g)
      <4>1. CASE prog[Kid(i)].kind # "body"
        BY <1>1, <3>1, <4>1
      <4>2. CASE prog[Kid(i)].kind = "body"
        <5>1. \A j \in 1..Len(deferrals[Kid(i)]) : FALSE
          BY <2>1, <3>5, <4>2, NoDefersWithin
        <5>2. g.act = "exit" /\ g.n = Kid(i) /\ g.pc = 0
          BY <3>1 DEF Enter
        <5> QED  BY <5>1, <5>2 DEF Here, AllAt, Doing, Coding
      <4> QED  BY <4>1, <4>2
    <3>7. Here(f)  BY <2>3, <3>3
    <3> QED  BY <2>4, <3>4, <3>6, <3>7, HereOn
  <2>8. CASE ExitBodyDefer
    <3>1. PICK d : d = deferrals[Top.n][Top.i + 1]  OBVIOUS
    <3>2. PICK f, g : f = [Top EXCEPT !.i = @ + 1] /\ g = ApplyDefer(d.stmt, Top.x, d.at)
      OBVIOUS
    <3>3. Top.pc = 2 /\ Top.i < Len(deferrals[Top.n])  BY <2>8 DEF ExitBodyDefer, InCall
    <3>4. f.act = "exit" /\ f.n = Top.n /\ f.x = ip.at  BY <2>1, <2>2, <3>2, <3>3 DEF Frame
    <3>5. Invoke(f, g)  BY <2>8, <3>1, <3>2 DEF ExitBodyDefer
    <3>6. d.at = ip.at
      <4>1. deferrals[Top.n] \in Seq(Deferral)  BY <2>1 DEF Good, IInv, DeferralsOK
      <4>2. PICK a, b : a = Top.i /\ b = Len(deferrals[Top.n])  OBVIOUS
      <4>3. a \in Nat /\ b \in Nat /\ a < b  BY <2>1, <3>3, <4>1, <4>2
      <4>4. a + 1 \in 1..b  BY ONLY <4>3
      <4> QED  BY <2>2, <3>1, <4>2, <4>4 DEF AllAt
    <3>7. Here(g)
      BY <2>2, <3>2, <3>3, <3>6 DEF Here, ApplyDefer, Enter, Doing, Coding
    <3>8. Here(f)  BY <2>3, <3>4
    <3> QED  BY <2>4, <3>5, <3>7, <3>8, HereOn
  <2> QED  BY <1>7, <2>5, <2>6, <2>7, <2>8
<1> QED  BY <1>2, <1>3, <1>4, <1>5, <1>6, <1>7 DEF ScopeExit

(* They change nothing but the calls and the insertion point.              *)
LEMMA UnwindSame ==
  ASSUME ScopeExit, ~RunDefer
  PROVE  /\ prog' = prog /\ blocks' = blocks /\ layout' = layout /\ held' = held
         /\ deferrals' = deferrals /\ lowered' = lowered
         /\ ip'.back => ip.back /\ ip'.at = ip.at
<1>1. UNCHANGED <<tree, blocks, layout, notes>>
  BY DEF ScopeExit, ExitNothing, ExitIfThen, ExitIfElse, ExitWhile, ExitFor, ExitBody, ExitBodyStmt,
         ExitBodyDefers, ExitBodyDefer, ExitBodyEnd, ApplyHere, ApplyBranch, ApplyNext, ApplyEnd,
         RunDeferExit, StackOnly, AndIp, code
<1>2. ip' = ip \/ \E b : ip' = AtEnd(b)
  <2>1. CASE ExitIfThen \/ ExitIfElse \/ ExitWhile \/ ApplyHere \/ ApplyNext
    BY <2>1 DEF ExitIfThen, ExitIfElse, ExitWhile, ApplyHere, ApplyNext
  <2>2. CASE ~(ExitIfThen \/ ExitIfElse \/ ExitWhile \/ ApplyHere \/ ApplyNext)
    BY <2>2 DEF ScopeExit, ExitNothing, ExitFor, ExitBody, ExitBodyStmt,
         ExitBodyDefers, ExitBodyDefer, ExitBodyEnd, ApplyBranch, ApplyEnd,
         RunDeferExit, StackOnly, code
  <2> QED  BY <2>1, <2>2
<1>3. \A b : AtEnd(b).back = FALSE
  BY DEF AtEnd
<1> QED  BY <1>1, <1>2, <1>3 DEF tree, notes

LEMMA UnwindWhole ==
  ASSUME Good, ScopeExit, ~RunDefer, status' = "run"
  PROVE  Whole'
<1>1. Unwinding(Top) /\ Chain(prog, stack') /\ Unwound
  BY ScopeExitUnwinds
<1>2. /\ prog' = prog /\ blocks' = blocks /\ layout' = layout /\ held' = held
      /\ deferrals' = deferrals /\ lowered' = lowered
      /\ ip'.back => ip.back /\ ip'.at = ip.at
  BY UnwindSame
<1>3. ~Final => Attentive' /\ ip'.at = ip.at
  BY <1>2, UnwindAttends
<1>4. Blocks'
  <2>1. Kept(stack, stack') /\ (Closing(stack') <=> Final)  BY <1>1, UnwindFacts DEF Kept
  <2>2. Made' = Made /\ \A b \in Made : Akin(blocks, blocks', b)  BY <1>2 DEF Made, Akin
  <2>3. ip'.back => EndsOnce(blocks', ip'.at)  BY <1>2, BlockFacts DEF Complete
  <2> QED  BY <1>2, <1>3, <2>1, <2>2, <2>3, KeptBlocks
<1>5. Found'
  BY <1>1, <1>2, <1>3, UnwindFound
<1>6. Order'
  <2>1. Kept(stack, stack') /\ (Closing(stack') <=> Final)  BY <1>1, UnwindFacts DEF Kept
  <2>2. Len(stack') \in Nat  BY <1>1 DEF Unwound
  <2> QED  BY <1>2, <1>3, <2>1, <2>2, KeptOrder
<1>7. Starts'
  BY <1>1, <1>2, UnwindStarts
<1>8. Remembered'
  <2>1. Final' <=> Final
    BY <1>1, UnwindFacts DEF Final
  <2>2. (\A n \in Node : \A i \in 1..Len(deferrals[n]) :
          /\ deferrals[n][i].stmt \in ToSet(prog[n].kids)
          /\ Fine(prog, deferrals[n][i].stmt))'
    BY <1>2 DEF Good, Whole, Remembered
  <2>3. (~Final => \A k \in 1..Len(stack) : Here(stack[k]))'
    BY <1>3, <2>1 DEF Attentive
  <2> QED  BY <2>2, <2>3 DEF Remembered
<1>9. Chain(prog, stack)'
  BY <1>1, <1>2
<1> QED  BY <1>4, <1>5, <1>6, <1>7, <1>8, <1>9 DEF Whole

(* A defer lowers its expression again, in front of what ends the block.   *)
LEMMA RunDeferWhole ==
  ASSUME Good, RunDefer, status' = "run"
  PROVE  Whole'
<1>1. /\ Unwinding(Top) /\ Top.act = "exit" /\ Me.kind = "defer"
      /\ prog[Kid(1)].kind = "expr" /\ Kid(1) \in Node /\ 1 \in 1..Len(Me.kids)
      /\ Chain(prog, stack')
  BY RunDeferCalls
<1>2. PICK f, g : f.act = "exit" /\ f.n = Top.n /\ g = Enter("codegen", Kid(1)) /\ Called(stack, stack', f, g)
  <2>1. PICK f : f.act = "exit" /\ f.n = Top.n /\ Called(stack, stack', f, Enter("codegen", Kid(1)))
    BY RunDeferCalls
  <2> QED  BY <2>1
<1>3. g.act = "codegen" /\ g.n = Kid(1) /\ g.pc = 0 /\ Coding(g) /\ ~Coding(f) /\ Unwinding(f)
  BY <1>2 DEF Enter, Coding, Unwinding
<1>4. /\ prog' = prog /\ blocks' = blocks /\ layout' = layout /\ held' = held
      /\ deferrals' = deferrals /\ lowered' = lowered
  BY DEF RunDefer, tree, notes
<1>5. ip'.at = ip.at /\ (ip'.back => Complete(ip.at)) /\ (Complete(ip.at) => ip'.back)
  <2>1. PICK terminated \in BackIsTerminator(blocks, ip.at) :
          IF terminated /\ blocks[ip.at].insts = <<>>
          THEN EndWith("crash") /\ UNCHANGED ip
          ELSE ip' = IF terminated THEN BeforeLast(ip.at) ELSE ip
    BY DEF RunDefer
  <2>2. ip' = IF terminated THEN BeforeLast(ip.at) ELSE ip
    BY <2>1 DEF EndWith
  <2>3. terminated => HasTerminator(blocks, ip.at)
    BY <2>1 DEF EndWith, BackIsTerminator, HasTerminator
  <2>4. Complete(ip.at) => terminated
    BY <2>1 DEF BackIsTerminator, HasTerminator, Complete, EndsOnce
  <2>5. terminated => Complete(ip.at)
    BY <2>3, BlockFacts
  <2>6. BeforeLast(ip.at).at = ip.at /\ BeforeLast(ip.at).back
    BY DEF BeforeLast
  <2>7. ip.back => Complete(ip.at)
    BY BlockFacts
  <2> QED  BY <2>2, <2>4, <2>5, <2>6, <2>7
<1>6. PICK n, m : n = Len(stack) /\ m = Len(stack')
  OBVIOUS
<1>7. /\ n \in Nat \ {0} /\ m = n + 1 /\ stack'[n] = f /\ stack'[n + 1] = g
      /\ \A k \in 1..n - 1 : stack'[k] = stack[k]
  BY <1>2, <1>6 DEF Called
<1>8. stack # <<>> /\ stack[1].act = "build" /\ Chain(prog, stack) /\ Top = stack[n]
  BY <1>6, Running DEF Chain, Top
<1>9. n # 1
  BY <1>1, <1>8
<1>10. /\ \A k \in 1..m : k \in 1..n - 1 \/ k = n \/ k = n + 1
       /\ \A k \in 1..n : k \in 1..n - 1 \/ k = n
       /\ \A k \in 1..n - 1 : k \in 1..n /\ k \in 1..m /\ k + 1 \in 2..n /\ k + 1 - 1 = k
       /\ 1 \in 1..n - 1 /\ 2 \in 2..n /\ m - 1 = n /\ m > 1
  BY ONLY <1>7, <1>9
<1>11. stack'[1] = stack[1] /\ stack[1].pc # 0
  <2>1. Calls(prog, stack[1], stack[2])
    <3>1. \A k \in 2..n : Calls(prog, stack[k-1], stack[k])  BY <1>6, <1>8 DEF Chain
    <3>2. 2 - 1 = 1  OBVIOUS
    <3> QED  BY <1>10, <3>1, <3>2
  <2>2. stack'[1] = stack[1]  BY <1>7, <1>10
  <2> QED  BY <1>8, <2>1, <2>2 DEF Calls, Coding, Unwinding
<1>12. Kept(stack, stack') /\ (Closing(stack') <=> Final) /\ Len(stack') \in Nat
  <2>1. ~Coding(stack[n])  BY <1>1, <1>8 DEF Coding
  <2>2. Kept(stack, stack')
    <3>1. \A k \in 1..m : Coding(stack'[k]) /\ stack'[k].pc # 0 => k \in 1..n /\ stack'[k] = stack[k]
      BY <1>3, <1>7, <1>10
    <3>2. \A k \in 1..n : Coding(stack[k]) /\ stack[k].pc # 0 => k \in 1..m /\ stack'[k] = stack[k]
      BY <1>7, <1>10, <2>1
    <3> QED  BY <1>6, <3>1, <3>2 DEF Kept
  <2>3. Len(stack') \in Nat  BY <1>6, <1>7
  <2> QED  BY <1>11, <2>2, <2>3 DEF Closing, Final
<1>13. Top' = g /\ Caller' = f /\ Len(stack') > 1
  BY <1>6, <1>7, <1>10 DEF Top, Caller
<1>14. Blocks'
  <2>1. Made' = Made /\ \A b \in Made : Akin(blocks, blocks', b)  BY <1>4 DEF Made, Akin
  <2>2. ip'.back => EndsOnce(blocks', ip'.at)  BY <1>4, <1>5 DEF Complete
  <2> QED  BY <1>4, <1>5, <1>12, <2>1, <2>2, KeptBlocks
<1>15. Order'
  BY <1>4, <1>5, <1>12, KeptOrder
<1>16. Found'
  <2>1. Awaited' /\ (~Final' => Jumped')
    <3>1. \A b \in Made : Akin(blocks, blocks', b)  BY <1>4 DEF Akin
    <3>2. ~Doing(prog, Top, {"match"})  BY <1>1 DEF Doing, Coding
    <3> QED  BY <1>4, <1>5, <1>12, <3>1, <3>2, KeptFound
  <2>2. Ending'  BY <1>3, <1>13 DEF Ending
  <2>3. Me'.kind = "expr"  BY <1>1, <1>3, <1>4, <1>13 DEF Me
  <2>4. Complete(ip.at)' => ip'.back  BY <1>4, <1>5 DEF Complete
  <2>5. (stack[1].pc = 0 => Open(blocks, ip.at))'  BY <1>11
  <2> QED  BY <2>1, <2>2, <2>3, <2>4, <2>5 DEF Found, Awaited, Jumped
<1>17. Starts'
  <2>1. Starts  BY DEF Good, Whole
  <2>2. PICK d, k1 : d = Top.n /\ k1 = Kid(1)  OBVIOUS
  <2>3. d \in Node /\ d \in Begun /\ prog[d] = Me /\ k1 = Me.kids[1] /\ k1 = prog[d].kids[1]
    <3>1. d \in lowered  BY <1>1, <2>2, Running, RunningCall DEF Good, FrameOK
    <3>2. d \in Node  BY <2>2, Running
    <3> QED  BY <2>2, <3>1, <3>2 DEF Begun, Me, Kid
  <2>4. Begun' = Begun \cup {k1}
    <3>1. PICK s, t : s = stack /\ t = stack'  OBVIOUS
    <3>2. CodingIn(t) = CodingIn(s) \cup {g.n}
      <4>1. Called(s, t, f, g) /\ ~Coding(s[Len(s)]) /\ ~Coding(f)
        BY <1>1, <1>2, <1>3, <1>6, <1>8, <3>1 DEF Coding
      <4> QED  BY <1>3, <4>1, CodingCalled
    <3> QED  BY <1>3, <1>4, <2>2, <3>1, <3>2, BegunIs
  <2>5. Rooted(prog) /\ prog[k1].kind = "expr" /\ k1 \in Node  BY <1>1, <2>2 DEF Good
  <2>6. \A k \in Node : \A j \in 1..Len(prog[k].kids) : prog[k].kids[j] = k1 => k = d
    BY <1>1, <2>2, KidFine
  <2>7. (\A k \in Node : deferrals[k] # <<>> => k \in Begun)'
    BY <1>4, <2>1, <2>4 DEF Starts
  <2>8. (\A k \in Node : \A j \in 1..Len(prog[k].kids) : prog[k].kids[j] \in Begun \ {Root} => k \in Begun)'
    BY <1>4, <2>1, <2>3, <2>4, <2>6 DEF Starts
  <2>9. (\A k \in 1..Len(stack) : Coding(stack[k]) =>
           \A j \in 1..Len(prog[stack[k].n].kids) :
             Later(prog, stack[k], j) => prog[stack[k].n].kids[j] \notin Begun)'
    <3> SUFFICES ASSUME NEW k \in 1..m, Coding(stack'[k]),
                        NEW j \in 1..Len(prog[stack'[k].n].kids), Later(prog, stack'[k], j)
                 PROVE  prog[stack'[k].n].kids[j] \notin Begun \cup {k1}
      BY <1>4, <1>6, <2>4
    <3>1. CASE k \in 1..n - 1
      <4>1. PICK c : c = stack[k]  OBVIOUS
      <4>2. stack'[k] = c /\ Coding(c) /\ k \in 1..n  BY <1>7, <1>10, <3>1, <4>1
      <4>3. prog[c.n].kids[j] \notin Begun /\ c.n \in Node
        BY <1>6, <2>1, <4>1, <4>2, Running DEF Starts
      <4>4. prog[c.n].kind # "defer"
        <5>1. Calls(prog, stack[k], stack[k + 1])
          <6>1. \A l \in 2..n : Calls(prog, stack[l-1], stack[l])  BY <1>6, <1>8 DEF Chain
          <6> QED  BY <1>10, <3>1, <6>1
        <5> QED  BY <4>1, <4>2, <5>1 DEF Calls, Coding, Unwinding, Busy
      <4>5. c.n # d  BY <1>1, <2>3, <4>4
      <4> QED  BY <2>6, <4>2, <4>3, <4>5
    <3>2. CASE k = n
      BY <1>3, <1>7, <3>2
    <3>3. CASE k = n + 1
      <4>1. stack'[k] = g  BY <1>7, <3>3
      <4>2. prog[k1].kids = <<>>  BY <2>5 DEF Rooted, WellFormedNode
      <4>3. j \in 1..Len(<<>>)  BY <1>3, <2>2, <4>1, <4>2
      <4> QED  BY <4>3
    <3> QED  BY <1>10, <3>1, <3>2, <3>3
  <2>10. (stack[1].pc = 0 => Root \notin Begun)'  BY <1>11
  <2> QED  BY <2>7, <2>8, <2>9, <2>10 DEF Starts
<1>18. Remembered'
  <2>1. (\A k \in Node : \A i \in 1..Len(deferrals[k]) :
          /\ deferrals[k][i].stmt \in ToSet(prog[k].kids)
          /\ Fine(prog, deferrals[k][i].stmt))'
    BY <1>4 DEF Good, Whole, Remembered
  <2>2. ~Final => Attentive'
    <3> SUFFICES ASSUME ~Final  PROVE Attentive'
      OBVIOUS
    <3>1. Here(f) /\ Here(g)
      <4>1. prog[f.n].kind = "defer"  BY <1>1, <1>2 DEF Me
      <4> QED  BY <1>2, <1>3, <4>1 DEF Here, Doing, Coding
    <3>2. Invoke([Top EXCEPT !.pc = 1], g)
      BY <1>2 DEF RunDefer, EndWith
    <3>3. PICK h : h = [Top EXCEPT !.pc = 1]  OBVIOUS
    <3>4. h.act = "exit" /\ h.n = Top.n
      <4>1. Top \in Frame  BY Running
      <4> QED  BY <1>1, <3>3, <4>1 DEF Frame
    <3>5. Here(h)
      <4>1. prog[h.n].kind = "defer"  BY <1>1, <3>4 DEF Me
      <4> QED  BY <3>4, <4>1 DEF Here, Doing, Coding
    <3> QED  BY <1>4, <1>5, <3>1, <3>2, <3>3, <3>5, HereOn
  <2>3. (~Final => \A k \in 1..Len(stack) : Here(stack[k]))'
    BY <1>12, <2>2 DEF Attentive, Final
  <2> QED  BY <2>1, <2>3 DEF Remembered
<1>19. Chain(prog, stack)'
  BY <1>1, <1>4
<1> QED  BY <1>14, <1>15, <1>16, <1>17, <1>18, <1>19 DEF Whole

(* The expression of a defer is added to a block, or to what is in front   *)
(* of its end.                                                             *)
LEMMA EmitDeferred ==
  ASSUME Good, Open(blocks, ip.at) \/ ip.back, NEW n \in Nat, blocks' = Emit(blocks, ip, Call(n))
  PROVE  /\ Len(blocks') = Len(blocks) /\ Linked(blocks') /\ Made' = Made
         /\ \A b \in Made : Akin(blocks, blocks', b)
<1>1. PICK inst : inst = Call(n)
  OBVIOUS
<1>2. inst \in InstIn(Len(blocks)) /\ ~IsTerminator(inst) /\ blocks' = Emit(blocks, ip, inst)
  BY <1>1, InstFacts DEF Call, IsTerminator, Terminators
<1>3. Linked(blocks') /\ Len(blocks') = Len(blocks)
  BY <1>2, EmitHere DEF Good
<1>4. \A b \in Made : b # ip.at => Alike(blocks, blocks', b)
  BY <1>2, BlockFacts, EmitElsewhere
<1>5. PICK at : at = ip.at
  OBVIOUS
<1>6. at \in 1..Len(blocks) /\ at \in 1..Len(blocks')
  BY <1>3, <1>5, BlockFacts
<1>7. /\ EndsOnce(blocks', at) => ~Open(blocks', at)
      /\ EndsOnce(blocks, at) => ~Open(blocks, at)
      /\ ReturnsIn(blocks, at) => ~Open(blocks, at)
  BY <1>3, <1>5, <1>6, BlockFacts, LinkedEnds
<1>8. Akin(blocks, blocks', at)
  <2>1. CASE Open(blocks, at)
    <3>1. ~ip.back  BY <1>5, <2>1, BlockFacts
    <3>2. Open(blocks', at) /\ Filled(blocks', at)
      BY <1>2, <1>5, <2>1, <3>1, BlockFacts, EmitAtEnd
    <3> QED  BY <1>7, <2>1, <3>2 DEF Akin
  <2>2. CASE ip.back
    <3>1. EndsOnce(blocks, at)  BY <1>5, <2>2, BlockFacts DEF Complete
    <3>2. /\ EndsOnce(blocks', at) /\ Filled(blocks', at)
          /\ ReturnsIn(blocks, at) => ReturnsIn(blocks', at)
      BY <1>2, <1>5, <2>2, <3>1, BlockFacts, EmitBeforeLast
    <3> QED  BY <1>7, <3>1, <3>2 DEF Akin
  <2> QED  BY <1>5, <2>1, <2>2
<1>9. \A b \in Made : Akin(blocks, blocks', b)
  BY <1>4, <1>5, <1>8 DEF Akin, Alike
<1>10. Made' = Made
  BY <1>3 DEF Made
<1> QED  BY <1>3, <1>9, <1>10

LEMMA DeferredWhole ==
  ASSUME Good, Straight, Ending
  PROVE  Whole'
<1>1. PICK kind \in {"expr", "return"} : InCall("codegen", kind, 0)
  BY DEF Straight
<1>2. /\ Coding(Top) /\ Me.kind = kind /\ Top.pc = 0 /\ Top.n \in Nat /\ Top.n \in Node
      /\ ~Unwinding(Top)
  BY <1>1, CodingFacts DEF Coding, Unwinding
<1>3. Len(stack) > 1 /\ Unwinding(Caller)
  BY <1>2 DEF Ending
<1>4. Me.kind = "expr" /\ (Complete(ip.at) => ip.back)
  BY <1>2 DEF Good, Whole, Found
<1>5. Open(blocks, ip.at) \/ ip.back
  BY <1>4, BlockFacts
<1>6. /\ Return /\ prog' = prog /\ deferrals' = deferrals /\ lowered' = lowered \cup {Top.n}
      /\ layout' = layout /\ ip' = ip /\ held' = held /\ blocks' = Emit(blocks, ip, Call(Top.n))
  BY <1>4 DEF Straight, Lowered, Emitted, tree
<1>7. Made' = Made /\ \A b \in Made : Akin(blocks, blocks', b)
  BY <1>2, <1>5, <1>6, EmitDeferred
<1>8. /\ Chain(prog, stack') /\ Popped(stack, stack') /\ Len(stack') \in Nat \ {0} /\ Top' = Caller
  BY <1>2, <1>6, ChainGone DEF Coding
<1>9. PICK n, m : n = Len(stack) /\ m = Len(stack')
  OBVIOUS
<1>10. n \in Nat \ {0} /\ m = n - 1 /\ n > 1 /\ \A k \in 1..n - 1 : stack'[k] = stack[k]
  BY <1>3, <1>8, <1>9 DEF Popped
<1>11. /\ \A k \in 1..n : (k \in 1..n - 1 /\ k \in 1..m) \/ k = n
       /\ \A k \in 1..m : k \in 1..n - 1 /\ k \in 1..n
       /\ 1 \in 1..n - 1 /\ 2 \in 2..n
  BY ONLY <1>10
<1>12. stack'[1] = stack[1] /\ stack[1].pc # 0
  <2>1. Chain(prog, stack) /\ stack[1].act = "build"  BY Running DEF Chain
  <2>2. Calls(prog, stack[1], stack[2])
    <3>1. \A k \in 2..n : Calls(prog, stack[k-1], stack[k])  BY <1>9, <2>1 DEF Chain
    <3>2. 2 - 1 = 1  OBVIOUS
    <3> QED  BY <1>11, <3>1, <3>2
  <2>3. stack'[1] = stack[1]  BY <1>10, <1>11
  <2> QED  BY <2>1, <2>2, <2>3 DEF Calls, Coding, Unwinding
<1>13. Kept(stack, stack') /\ (Closing(stack') <=> Final) /\ Len(stack') \in Nat
  <2>1. stack[n].pc = 0  BY <1>2, <1>9 DEF Top
  <2>2. \A k \in 1..m : Coding(stack'[k]) /\ stack'[k].pc # 0 => k \in 1..n /\ stack'[k] = stack[k]
    BY <1>10, <1>11
  <2>3. \A k \in 1..n : Coding(stack[k]) /\ stack[k].pc # 0 => k \in 1..m /\ stack'[k] = stack[k]
    BY <1>10, <1>11, <2>1
  <2> QED  BY <1>8, <1>9, <1>12, <2>2, <2>3 DEF Kept, Closing, Final
<1>14. Blocks'
  <2>1. ip'.back => EndsOnce(blocks', ip'.at)
    BY <1>6, <1>7, BlockFacts DEF Akin, Complete
  <2> QED  BY <1>6, <1>7, <1>13, <2>1, KeptBlocks
<1>15. Order'
  BY <1>6, <1>13, KeptOrder
<1>16. ~Coding(Top)'
  BY <1>3, <1>8 DEF Coding, Unwinding
<1>17. Found'
  <2>1. Awaited' /\ (~Final' => Jumped')
    <3>1. ~Doing(prog, Top, {"match"})  BY <1>2 DEF Doing
    <3> QED  BY <1>6, <1>7, <1>13, <3>1, KeptFound
  <2>2. (stack[1].pc = 0 => Open(blocks, ip.at))'  BY <1>12
  <2> QED  BY <1>16, <2>1, <2>2 DEF Found, Awaited, Jumped
<1>18. Starts'
  <2>1. Starts  BY DEF Good, Whole
  <2>2. Begun' = Begun
    <3>1. PICK s, t, e : s = stack /\ t = stack' /\ e = Top.n  OBVIOUS
    <3>2. CodingIn(t) \subseteq CodingIn(s) /\ CodingIn(s) \subseteq CodingIn(t) \cup {e}
      <4>1. Popped(s, t) /\ s[Len(s)].n = e  BY <1>8, <3>1 DEF Top
      <4> QED  BY <4>1, CodingPopped
    <3>3. e \in Begun /\ lowered' = lowered \cup {e}  BY <1>2, <1>6, <3>1, BegunIs
    <3> QED  BY <3>1, <3>2, <3>3, BegunIs
  <2>3. (\A k \in Node : deferrals[k] # <<>> => k \in Begun)'
    BY <1>6, <2>1, <2>2 DEF Starts
  <2>4. (\A k \in Node : \A j \in 1..Len(prog[k].kids) : prog[k].kids[j] \in Begun \ {Root} => k \in Begun)'
    BY <1>6, <2>1, <2>2 DEF Starts
  <2>5. (\A k \in 1..Len(stack) : Coding(stack[k]) =>
           \A j \in 1..Len(prog[stack[k].n].kids) :
             Later(prog, stack[k], j) => prog[stack[k].n].kids[j] \notin Begun)'
    BY <1>6, <1>9, <1>10, <1>11, <2>1, <2>2 DEF Starts
  <2>6. (stack[1].pc = 0 => Root \notin Begun)'  BY <1>12
  <2> QED  BY <2>3, <2>4, <2>5, <2>6 DEF Starts
<1>19. Remembered'
  <2>1. (\A k \in Node : \A i \in 1..Len(deferrals[k]) :
          /\ deferrals[k][i].stmt \in ToSet(prog[k].kids)
          /\ Fine(prog, deferrals[k][i].stmt))'
    BY <1>6 DEF Good, Whole, Remembered
  <2>2. ~Final => Attentive'
    BY <1>6, HereOn
  <2>3. (~Final => \A k \in 1..Len(stack) : Here(stack[k]))'
    BY <1>13, <2>2 DEF Attentive, Final
  <2> QED  BY <2>1, <2>3 DEF Remembered
<1>20. Chain(prog, stack)'
  BY <1>6, <1>8
<1> QED  BY <1>14, <1>15, <1>17, <1>18, <1>19, <1>20 DEF Whole

------------------------------------------------------------------------------
(* buildFunction *)

(* It is the only call, while it runs.                                     *)
LEMMA BuildAlone ==
  ASSUME Good, Top.act = "build"
  PROVE  /\ Len(stack) = 1 /\ stack[1] = Top /\ Top.n = Root /\ Fine(prog, Root) /\ NoJump(prog, Root)
         /\ \A k \in 1..Len(stack) : k = 1 /\ ~Coding(stack[k])
         /\ \A k \in 1..Len(stack) : PendingAt(k) = {}
<1>1. PICK n : n = Len(stack)
  OBVIOUS
<1>2. n \in Nat \ {0} /\ Chain(prog, stack) /\ Top = stack[n]
  BY <1>1, Running DEF Top
<1>3. n = 1
  <2>1. SUFFICES ASSUME n # 1  PROVE FALSE
    OBVIOUS
  <2>2. n \in 2..n  BY ONLY <1>2, <2>1
  <2> QED  BY <1>1, <1>2, <2>2, OneBuild
<1>4. \A k \in 1..n : k = 1
  BY ONLY <1>3
<1>5. stack[1] = Top /\ Top.n = Root
  BY <1>2, <1>3 DEF Chain
<1>6. \A k \in 1..n : ~Coding(stack[k])
  BY <1>4, <1>5 DEF Coding
<1>7. \A k \in 1..n : PendingAt(k) = {}
  BY <1>6, NothingPending DEF PendingAt
<1>8. Fine(prog, Root) /\ NoJump(prog, Root)
  BY SupportedIsFine DEF Good
<1> QED  BY <1>1, <1>3, <1>4, <1>5, <1>6, <1>7, <1>8

(* What it does next, and the call that does it.                           *)
LEMMA BuildCalls ==
  ASSUME Good, NEW pc \in {0, 1}, InCall("build", "body", pc), NEW act \in {"codegen", "exit"},
         act = IF pc = 0 THEN "codegen" ELSE "exit",
         NEW f, f = [Top EXCEPT !.pc = pc + 1], Invoke(f, Enter(act, Top.n))
  PROVE  /\ Len(stack') = 2 /\ stack'[1] = f /\ f.act = "build" /\ f.pc = pc + 1 /\ f.n = Root /\ Top.pc = pc
         /\ Top' = Enter(act, Root) /\ Caller' = f
         /\ stack'[2] = Enter(act, Root) /\ \A k \in 1..Len(stack') : k = 1 \/ k = 2
         /\ Chain(prog, stack')
         /\ Len(stack) = 1 /\ stack[1] = Top /\ Top.act = "build"
<1>1. Top.act = "build" /\ Top.pc = pc /\ Me.kind = "body" /\ Top \in Frame
  BY Running DEF InCall
<1>2. /\ Len(stack) = 1 /\ stack[1] = Top /\ Top.n = Root /\ Fine(prog, Root) /\ NoJump(prog, Root)
  BY <1>1, BuildAlone
<1>3. PICK g : g = Enter(act, Root)
  OBVIOUS
<1>4. g.act = act /\ g.n = Root /\ g.pc = 0 /\ g.i = 0
  BY <1>3 DEF Enter
<1>5. f.act = "build" /\ f.pc = pc + 1 /\ f.n = Root
  BY <1>1, <1>2 DEF Frame
<1>6. Len(stack') = 2 /\ stack'[1] = f /\ stack'[2] = g
  <2>1. IInv /\ stack # <<>>  BY Running DEF Good
  <2>2. Invoke(f, g)  BY <1>2, <1>3
  <2>3. Len(stack') = Len(stack) + 1 /\ stack'[Len(stack)] = f /\ stack'[Len(stack) + 1] = g
    BY <2>1, <2>2, AfterInvoke
  <2> QED  BY <1>2, <2>3
<1>7. (\A k \in 1..2 : k = 1 \/ k = 2) /\ (\A k \in 2..2 : k = 2) /\ 2 - 1 = 1 /\ 1 \in 1..2
  OBVIOUS
<1>8. Chain(prog, stack')
  <2>1. PICK s : s = stack'  OBVIOUS
  <2>2. Len(s) = 2 /\ s[1] = f /\ s[2] = g /\ s # <<>>  BY <1>6, <2>1
  <2>3. Calls(prog, f, g)
    <3>1. CASE pc = 0
      <4>1. f.pc = 1 /\ Coding(g)  BY <1>4, <1>5, <3>1 DEF Coding
      <4> QED  BY <1>4, <1>5, <4>1 DEF Calls
    <3>2. CASE pc = 1
      <4>1. f.pc = 2 /\ g.act = "exit"  BY <1>4, <1>5, <3>2
      <4> QED  BY <1>5, <4>1 DEF Calls
    <3> QED  BY <3>1, <3>2
  <2>4. ~Coding(f) /\ ~Unwinding(f) /\ ~InArm(prog, f) /\ ~Iterates(prog, f)
    BY <1>5 DEF Coding, Unwinding, InArm, Iterates, Doing
  <2>5. Root \in Nat /\ Root <= Root
    <3>1. Root \in Nat  BY NodeAssumption
    <3> QED  BY <3>1, AtMost
  <2>6. Coding(g) <=> pc = 0
    BY <1>4 DEF Coding
  <2>7. Unwinding(g) <=> pc = 1
    BY <1>4 DEF Unwinding
  <2>8. Closing(s) <=> pc = 1
    BY <1>5, <2>2 DEF Closing
  <2>18. PICK r : r = Root
    OBVIOUS
  <2>17. \A k \in 1..Len(s) : s[k].n = r
    BY <1>4, <1>5, <1>7, <2>2, <2>18
  <2>19. Fine(prog, r) /\ NoJump(prog, r)
    BY <1>2, <2>18
  <2>9. \A k \in 1..Len(s) : Fine(prog, s[k].n)
    BY <2>17, <2>19
  <2>10. \A k \in 2..Len(s) : Calls(prog, s[k-1], s[k])
    BY <1>7, <2>2, <2>3
  <2>11. \A k, l \in 1..Len(s) : k < l =>
           /\ s[k].n <= s[l].n
           /\ Coding(s[k]) /\ Coding(s[l]) => s[k].n < s[l].n
           /\ InArm(prog, s[k]) => StraightLine(prog, s[l].n)
    <3> SUFFICES ASSUME NEW k \in 1..2, NEW l \in 1..2, k < l
                 PROVE  /\ s[k].n <= s[l].n /\ ~Coding(s[k]) /\ ~InArm(prog, s[k])
      BY <2>2
    <3>1. k = 1  OBVIOUS
    <3>2. s[k] = f /\ s[l].n = Root  BY <1>4, <1>5, <1>7, <2>2, <3>1
    <3> QED  BY <1>5, <2>4, <2>5, <3>2
  <2>12. \A l \in 1..Len(s) : Unwinding(s[l]) /\ ~Closing(s) => StraightLine(prog, s[l].n)
    BY <1>7, <2>2, <2>4, <2>7, <2>8
  <2>13. \A l \in 1..Len(s) :
           Coding(s[l]) /\ (Closing(s) \/ \E k \in 1..l-1 : Unwinding(s[k])) => prog[s[l].n].kind = "expr"
    <3> SUFFICES ASSUME NEW l \in 1..2, Coding(s[l])
                 PROVE  ~Closing(s) /\ \A k \in 1..l-1 : ~Unwinding(s[k])
      BY <2>2
    <3>1. l = 2 /\ pc = 0  BY <1>7, <2>2, <2>4, <2>6
    <3>2. \A k \in 1..l-1 : k = 1  BY <1>7, <3>1
    <3> QED  BY <2>2, <2>4, <2>8, <3>1, <3>2
  <2>14. \A l \in 1..Len(s) :
           (\A k \in 1..l-1 : ~Iterates(prog, s[k])) => Unwinding(s[l]) \/ NoJump(prog, s[l].n)
    BY <2>17, <2>19
  <2>15. s # <<>> /\ s[1].act = "build" /\ s[1].n = Root
    BY <1>5, <2>2
  <2>16. Chain(prog, s)
    BY <2>9, <2>10, <2>11, <2>12, <2>13, <2>14, <2>15 DEF Chain
  <2> QED  BY <2>1, <2>16
<1>9. Top' = g /\ Caller' = f
  BY <1>6, <1>7 DEF Top, Caller
<1> QED  BY <1>1, <1>2, <1>3, <1>5, <1>6, <1>7, <1>8, <1>9

(* Before it all blocks but the builder's, which is the last, have ended.  *)
LEMMA BuildBlocks ==
  ASSUME Good, Top.act = "build", Top.pc \in {0, 1}
  PROVE  /\ ~Final /\ ip.at = LastBlock /\ ip.at \in ToSet(layout) /\ Behind(layout, ip.at) = {}
         /\ \A b \in Made : b = ip.at \/ Complete(b)
         /\ Open(blocks, ip.at) \/ ReturnsIn(blocks, ip.at)
         /\ Top.pc = 0 => Open(blocks, ip.at)
         /\ ip.back => Complete(ip.at)
<1>1. /\ Len(stack) = 1 /\ stack[1] = Top
      /\ \A k \in 1..Len(stack) : ~Coding(stack[k]) /\ PendingAt(k) = {}
  BY BuildAlone
<1>2. \A k \in 1..Len(stack) : ~Iterates(prog, stack[k]) /\ \A kinds : ~Doing(prog, stack[k], kinds)
  BY <1>1, NothingPending
<1>3. ~Final
  BY <1>1 DEF Final, Closing
<1>4. Blocks /\ Order /\ Found
  BY DEF Good, Whole
<1>5. \A b \in Made : b = ip.at \/ Complete(b)
  BY <1>1, <1>3, <1>4 DEF Blocks
<1>6. ip.at \in ToSet(layout) /\ Behind(layout, ip.at) = {}
  BY <1>2, <1>3, <1>4 DEF Order, Newest
<1>7. ip.at = LastBlock
  <2>1. PICK s : s = layout  OBVIOUS
  <2>2. s \in Seq(Made)  BY <2>1, BlockFacts
  <2> QED  BY <1>6, <2>1, <2>2, NothingBehind DEF LastBlock
<1>8. Open(blocks, ip.at) \/ ReturnsIn(blocks, ip.at)
  <2>1. ~Doing(prog, Top, {"match"})  BY <1>1, <1>2
  <2>2. ip.at \in Made /\ (Open(blocks, ip.at) \/ Complete(ip.at))  BY BlockFacts
  <2> QED  BY <1>2, <1>3, <1>4, <2>1, <2>2 DEF Found
<1>9. Top.pc = 0 => Open(blocks, ip.at)
  BY <1>1, <1>4 DEF Found
<1> QED  BY <1>3, <1>4, <1>5, <1>6, <1>7, <1>8, <1>9 DEF Blocks

(* The body is lowered, and then its scope is ended.                       *)
LEMMA BuildWhole ==
  ASSUME Good, BuildBody \/ BuildExit
  PROVE  Whole'
<1>1. PICK pc \in {0, 1} :
        /\ InCall("build", "body", pc) /\ StackOnly
        /\ Invoke([Top EXCEPT !.pc = pc + 1],
                  Enter(IF pc = 0 THEN "codegen" ELSE "exit", Top.n))
  <2>1. 0 + 1 = 1 /\ 1 + 1 = 2  OBVIOUS
  <2>2. CASE BuildBody
    <3>1. /\ InCall("build", "body", 0) /\ StackOnly
          /\ Invoke([Top EXCEPT !.pc = 0 + 1], Enter(IF 0 = 0 THEN "codegen" ELSE "exit", Top.n))
      BY <2>1, <2>2 DEF BuildBody
    <3> QED  BY <3>1
  <2>3. CASE BuildExit
    <3>1. /\ InCall("build", "body", 1) /\ StackOnly
          /\ Invoke([Top EXCEPT !.pc = 1 + 1], Enter(IF 1 = 0 THEN "codegen" ELSE "exit", Top.n))
      BY <2>1, <2>3 DEF BuildExit
    <3> QED  BY <3>1
  <2> QED  BY <2>2, <2>3
<1>2. PICK act \in {"codegen", "exit"} : act = IF pc = 0 THEN "codegen" ELSE "exit"
  OBVIOUS
<1>3. PICK f, g : f = [Top EXCEPT !.pc = pc + 1] /\ g = Enter(act, Root)
  OBVIOUS
<1>4. Invoke(f, Enter(act, Top.n))
  BY <1>1, <1>2, <1>3
<1>5. /\ Len(stack') = 2 /\ stack'[1] = f /\ f.act = "build" /\ f.pc = pc + 1 /\ Top.pc = pc
      /\ Top' = g /\ Caller' = f
      /\ stack'[2] = g /\ \A k \in 1..Len(stack') : k = 1 \/ k = 2
      /\ Chain(prog, stack')
      /\ Len(stack) = 1 /\ stack[1] = Top /\ Top.act = "build"
  BY <1>1, <1>2, <1>3, <1>4, BuildCalls
<1>6. /\ prog' = prog /\ blocks' = blocks /\ layout' = layout /\ held' = held /\ ip' = ip
      /\ deferrals' = deferrals /\ lowered' = lowered /\ Made' = Made
  BY <1>1 DEF StackOnly, tree, code, notes, Made
<1>7. /\ ip.at = LastBlock /\ ip.at \in ToSet(layout) /\ Behind(layout, ip.at) = {}
      /\ \A b \in Made : b = ip.at \/ Complete(b)
      /\ Open(blocks, ip.at) \/ ReturnsIn(blocks, ip.at)
      /\ pc = 0 => Open(blocks, ip.at)
      /\ ip.back => Complete(ip.at)
  BY <1>5, BuildBlocks
<1>8. /\ g.act = act /\ g.n = Root /\ g.pc = 0 /\ g.i = 0
      /\ (Coding(g) <=> pc = 0) /\ ~Coding(f) /\ ~Unwinding(f)
  BY <1>2, <1>3, <1>5 DEF Enter, Coding, Unwinding
<1>9. /\ \A k \in 1..Len(stack') : /\ Pending(prog, stack'[k]) = {} /\ ~Awaits(stack'[k])
                                   /\ \A kinds : ~Doing(prog, stack'[k], kinds)
      /\ Final' <=> pc = 1
  <2>1. \A k \in 1..Len(stack') : ~Coding(stack'[k]) \/ stack'[k].pc = 0
    BY <1>5, <1>8
  <2>2. f.pc = 2 <=> pc = 1
    <3>1. 0 + 1 = 1 /\ 1 + 1 = 2  OBVIOUS
    <3> QED  BY <1>5, <3>1
  <2>3. Final' <=> pc = 1
    BY <1>5, <2>2 DEF Final, Closing
  <2>4. \A k \in 1..Len(stack') :
          /\ Pending(prog, stack'[k]) = {} /\ ~Awaits(stack'[k])
          /\ \A kinds : ~Doing(prog, stack'[k], kinds)
    <3> TAKE k \in 1..Len(stack')
    <3>1. PICK h : h = stack'[k]  OBVIOUS
    <3>2. ~Coding(h) \/ h.pc = 0  BY <2>1, <3>1
    <3>3. Pending(prog, h) = {} /\ ~Awaits(h) /\ \A kinds : ~Doing(prog, h, kinds)
      BY <3>2, NothingPending
    <3> QED  BY <3>1, <3>3
  <2> QED  BY <2>3, <2>4
<1>10. prog[Root].kind = "body" /\ Root \in Node /\ Rooted(prog)
  BY NodeAssumption DEF Good, Rooted
<1>11. Blocks'
  <2>1. (\A b \in Made : Open(blocks, b) \/ Complete(b))'
    BY <1>6 DEF Good, Whole, Blocks, Complete
  <2>2. (\A k \in 1..Len(stack) : \A b \in PendingAt(k) : Open(blocks, b) /\ b # ip.at)'
    BY <1>6, <1>9 DEF PendingAt
  <2>3. (\A k, l \in 1..Len(stack) : k # l => PendingAt(k) \cap PendingAt(l) = {})'
    BY <1>6, <1>9 DEF PendingAt
  <2>4. (ip.back => Complete(ip.at))'
    BY <1>6, <1>7 DEF Complete
  <2>5. (~Final => \A b \in Made :
           b = ip.at \/ Complete(b) \/ \E k \in 1..Len(stack) : b \in PendingAt(k))'
    BY <1>6, <1>7 DEF Complete
  <2>6. (Final => /\ \A b \in Made : b = LastBlock \/ Complete(b)
                  /\ Open(blocks, LastBlock) \/ ReturnsIn(blocks, LastBlock))'
    BY <1>6, <1>7 DEF Complete, LastBlock
  <2> QED  BY <2>1, <2>2, <2>3, <2>4, <2>5, <2>6 DEF Blocks
<1>12. Found'
  <2>1. (Coding(Top) /\ ~Ending => Finds(Top))'
    <3>1. pc = 0 => Finds(g)'
      <4>1. ~Busy(prog, g)  BY <1>8, <1>10 DEF Busy
      <4>2. FilledUpto(g)'
        <5>1. ~\E j \in 1..0 : TRUE  OBVIOUS
        <5>2. \A p, kids : ~FillsBy(p, kids, 0)  BY <5>1 DEF FillsBy
        <5> QED  BY <1>6, <1>8, <5>2 DEF FilledUpto
      <4>3. pc = 0 => Open(blocks', ip'.at)  BY <1>6, <1>7
      <4> QED  BY <1>6, <1>8, <1>10, <4>1, <4>2, <4>3 DEF Finds
    <3>2. Coding(Top)' => pc = 0
      BY <1>5, <1>8 DEF Coding
    <3>3. Finds(Top)' <=> Finds(g)'
      BY <1>5, <1>6 DEF Finds, LeftBy, FilledUpto, Complete
    <3> QED  BY <3>1, <3>2, <3>3
  <2>2. (/\ Coding(Top) /\ Me.kind \in {"nop", "defer"}
         /\ Len(stack) > 1 /\ Coding(Caller) /\ prog[Caller.n].kind = "body"
         => FilledUpto(Caller))'
    BY <1>5, <1>6, <1>8 DEF Coding
  <2>3. (\A k \in 1..Len(stack) : Awaits(stack[k]) => LeftBy(Callee(prog, stack[k])))'
    <3>1. \A k \in 1..Len(stack') : ~Awaits(stack[k])'
      BY <1>6, <1>9 DEF Awaits
    <3> QED  BY <3>1
  <2>4. (Coding(Top) /\ Ending => Me.kind = "expr" /\ (Complete(ip.at) => ip.back))'
    <3>1. ~(Coding(Top) /\ Ending)'
      <4>1. ~Unwinding(Caller)'  BY <1>5, <1>8 DEF Unwinding
      <4>2. Coding(Top)' => ~Unwinding(Top)'  BY DEF Coding, Unwinding
      <4> QED  BY <4>1, <4>2 DEF Ending
    <3> QED  BY <3>1
  <2>5. (stack[1].pc = 0 => Open(blocks, ip.at))'
    <3>1. f.pc # 0  BY <1>5
    <3> QED  BY <1>5, <3>1
  <2>6. (~Final /\ Complete(ip.at) /\ (\A k \in 1..Len(stack) : ~Iterates(prog, stack[k])) =>
           ReturnsIn(blocks, ip.at) \/ (Doing(prog, Top, {"match"}) /\ Top.pc = 1))'
    <3>1. Complete(ip.at)' => ReturnsIn(blocks, ip.at)
      <4>1. Complete(ip.at)' => Complete(ip.at)  BY <1>6 DEF Complete
      <4> QED  BY <1>7, <4>1, BlockFacts
    <3> QED  BY <1>6, <3>1
  <2> QED  BY <2>1, <2>2, <2>3, <2>4, <2>5, <2>6 DEF Found
<1>13. Order'
  <2>1. \A k \in 1..Len(stack') : \A kinds : ~Doing(prog, stack[k], kinds)'
    BY <1>6, <1>9 DEF Doing, Coding
  <2>2. (ip.at \in ToSet(layout))' /\ Behind(layout, ip.at)' = {}
    BY <1>6, <1>7 DEF Behind
  <2>3. (\A k \in 1..Len(stack) : Doing(prog, stack[k], {"while"}) =>
          stack[k].y = stack[k].x + 2 /\ held[stack[k].n].a = stack[k].x + 1)'
    BY <1>6, <1>9
  <2>4. (\A k \in 1..Len(stack) : Doing(prog, stack[k], {"match"}) => stack[k].y = stack[k].x + 1)'
    BY <1>6, <1>9
  <2>5. (\A k \in 1..Len(stack) : Doing(prog, stack[k], {"for", "match"}) => stack[k].y = LastBlock)'
    BY <1>6, <1>9
  <2> QED  BY <2>2, <2>3, <2>4, <2>5 DEF Order
<1>14. Starts'
  <2>1. Starts  BY DEF Good, Whole
  <2>2. PICK K : K = IF pc = 0 THEN {Root} ELSE {}
    OBVIOUS
  <2>3. Begun' = Begun \cup K
    <3>1. PICK s, t : s = stack /\ t = stack'  OBVIOUS
    <3>2. Called(s, t, f, g)
      <4>1. Len(s) = 1 /\ Len(t) = 2 /\ t[1] = f /\ t[2] = g  BY <1>5, <3>1
      <4>2. 1 \in Nat \ {0} /\ 2 = 1 + 1 /\ \A k \in 1..1 - 1 : FALSE  OBVIOUS
      <4> QED  BY <4>1, <4>2 DEF Called
    <3>3. ~Coding(s[Len(s)])  BY <1>5, <3>1 DEF Coding
    <3>4. CodingIn(t) = CodingIn(s) \cup (IF Coding(g) THEN {g.n} ELSE {})
      BY <1>8, <3>2, <3>3, CodingCalled
    <3> QED  BY <1>6, <1>8, <2>2, <3>1, <3>4, BegunIs
  <2>4. (\A k \in Node : deferrals[k] # <<>> => k \in Begun)'
    BY <1>6, <2>1, <2>3 DEF Starts
  <2>5. (\A k \in Node : \A j \in 1..Len(prog[k].kids) : prog[k].kids[j] \in Begun \ {Root} => k \in Begun)'
    BY <1>6, <2>1, <2>2, <2>3 DEF Starts
  <2>6. (\A k \in 1..Len(stack) : Coding(stack[k]) =>
           \A j \in 1..Len(prog[stack[k].n].kids) :
             Later(prog, stack[k], j) => prog[stack[k].n].kids[j] \notin Begun)'
    <3>1. \A j \in 1..Len(prog[Root].kids) : pc = 0 => prog[Root].kids[j] \notin Begun'
      <4> SUFFICES ASSUME NEW j \in 1..Len(prog[Root].kids), pc = 0
                   PROVE  prog[Root].kids[j] \notin Begun'
        OBVIOUS
      <4>1. Root < prog[Root].kids[j] /\ prog[Root].kids[j] \in Node
        BY <1>10, KidsAreNodes DEF Rooted, IsTree
      <4>2. prog[Root].kids[j] # Root
        <5>1. PICK a, b : a = Root /\ b = prog[Root].kids[j]  OBVIOUS
        <5>2. a \in Nat /\ b \in Nat /\ a < b  BY <4>1, <5>1, NodeAssumption
        <5>3. a # b  BY ONLY <5>2
        <5> QED  BY <5>1, <5>3
      <4>3. Root \notin Begun  BY <1>5, <2>1 DEF Starts
      <4>4. prog[Root].kids[j] \notin Begun  BY <1>10, <2>1, <4>2, <4>3 DEF Starts
      <4> QED  BY <2>2, <2>3, <4>2, <4>4
    <3>2. \A k \in 1..Len(stack') : Coding(stack'[k]) => pc = 0 /\ stack'[k].n = Root
      BY <1>5, <1>8
    <3> QED  BY <1>6, <3>1, <3>2
  <2>7. (stack[1].pc = 0 => Root \notin Begun)'
    <3>1. f.pc # 0  BY <1>5
    <3> QED  BY <1>5, <3>1
  <2> QED  BY <2>4, <2>5, <2>6, <2>7 DEF Starts
<1>15. Remembered'
  <2>1. (\A k \in Node : \A i \in 1..Len(deferrals[k]) :
          /\ deferrals[k][i].stmt \in ToSet(prog[k].kids)
          /\ Fine(prog, deferrals[k][i].stmt))'
    BY <1>6 DEF Good, Whole, Remembered
  <2>2. (~Final => \A k \in 1..Len(stack) : Here(stack[k]))'
    <3> SUFFICES ASSUME ~Final', NEW k \in 1..Len(stack')  PROVE Here(stack[k])'
      OBVIOUS
    <3>1. stack'[k].act \in {"build", "codegen"}  BY <1>2, <1>5, <1>8, <1>9
    <3>2. stack'[k].act # "exit" /\ stack'[k].act # "apply"  BY <3>1
    <3>3. ~Doing(prog, stack'[k], {"match", "typeswitch"})  BY <1>9
    <3> QED  BY <1>6, <3>2, <3>3 DEF Here
  <2> QED  BY <2>1, <2>2 DEF Remembered
<1>16. Chain(prog, stack)'
  BY <1>5, <1>6
<1> QED  BY <1>11, <1>12, <1>13, <1>14, <1>15, <1>16 DEF Whole

------------------------------------------------------------------------------
(* All blocks of a supported function end *)

LEMMA CodegenWhole ==
  ASSUME Good, IInv', Placement', Codegen, status' = "run"
  PROVE  Whole'
<1>1. CASE Straight
  BY <1>1, StraightWhole, DeferredWhole
<1>2. CASE Silent \/ BodyEnd
  BY <1>2, SilentWhole, BodyEndWhole
<1>3. CASE Rejected \/ OutsideFunction \/ SearchFailed \/ BreakCrash
  BY <1>3 DEF Rejected, OutsideFunction, SearchFailed, BreakCrash, Fail, Crash, EndWith
<1>4. CASE BodyStmt
  BY <1>4, BodyStmtCalls, BodyDeferWhole
<1>5. CASE IfEnter \/ IfElse \/ IfJoin
  BY <1>5, IfEnterWhole, IfElseWhole, IfJoinWhole
<1>6. CASE WhileEnter \/ WhileEnd \/ ForEnter \/ ForEnd
  BY <1>6, WhileEnterWhole, WhileEndWhole, ForEnterWhole, ForEndWhole
<1>7. CASE MatchEnter \/ MatchCase \/ MatchDefault \/ MatchArmExit \/ MatchArmEnd \/ MatchJoin
  BY <1>7, MatchEnterWhole, MatchCaseWhole, MatchDefaultWhole, MatchArmExitWhole,
     MatchArmEndWhole, MatchJoinWhole
<1>8. CASE TypeSwitch \/ TypeSwitchExit \/ TypeSwitchEnd
  BY <1>8, TypeSwitchWhole, TypeSwitchExitWhole, TypeSwitchEndWhole
<1>9. CASE SearchStart \/ SearchOn \/ BreakFound \/ ContinueFound
  BY <1>9, SearchWhole, JumpWhole
<1> QED  BY <1>1, <1>2, <1>3, <1>4, <1>5, <1>6, <1>7, <1>8, <1>9 DEF Codegen

LEMMA NextWhole ==
  ASSUME Good, [Next]_vars, status' = "run"
  PROVE  Whole'
<1>1. IInv' /\ Placement'
  BY NextOK, PlacementNext DEF Good
<1>2. CASE Codegen
  BY <1>1, <1>2, CodegenWhole
<1>3. CASE ScopeExit
  BY <1>3, UnwindWhole, RunDeferWhole
<1>4. CASE BuildBody \/ BuildExit
  BY <1>4, BuildWhole
<1>5. CASE BuildRejected \/ BuildEnd \/ StackOverflow \/ Ended
  BY <1>5 DEF Good, BuildRejected, BuildEnd, StackOverflow, Ended, Fail, EndWith
<1>6. CASE UNCHANGED vars
  <2>1. /\ prog' = prog /\ blocks' = blocks /\ layout' = layout /\ ip' = ip /\ held' = held
        /\ deferrals' = deferrals /\ lowered' = lowered /\ stack' = stack
    BY <1>6 DEF vars
  <2>2. Chain(prog, stack)'
    BY <2>1 DEF Good, Whole
  <2>3. Blocks'
    BY <2>1 DEF Good, Whole, Blocks, Final, PendingAt, LastBlock, Complete, Made
  <2>4. Found'
    <3>1. Found  BY DEF Good, Whole
    <3>2. /\ Top' = Top /\ Me' = Me /\ Caller' = Caller /\ Final' = Final
      BY <2>1 DEF Top, Me, Caller, Final
    <3>3. Ending' = Ending
      BY <2>1, <3>2 DEF Ending
    <3>4. (Coding(Top) /\ ~Ending => Finds(Top))'
      BY <2>1, <3>1, <3>2, <3>3 DEF Found, Finds, LeftBy, FilledUpto, Complete
    <3>5. (/\ Coding(Top) /\ Me.kind \in {"nop", "defer"}
           /\ Len(stack) > 1 /\ Coding(Caller) /\ prog[Caller.n].kind = "body"
           => FilledUpto(Caller))'
      BY <2>1, <3>1, <3>2 DEF Found, FilledUpto
    <3>6. (\A k \in 1..Len(stack) : Awaits(stack[k]) => LeftBy(Callee(prog, stack[k])))'
      BY <2>1, <3>1 DEF Found, LeftBy, Awaits
    <3>7. (Coding(Top) /\ Ending => Me.kind = "expr" /\ (Complete(ip.at) => ip.back))'
      BY <2>1, <3>1, <3>2, <3>3 DEF Found, Complete
    <3>8. (stack[1].pc = 0 => Open(blocks, ip.at))'
      BY <2>1, <3>1 DEF Found
    <3>9. (~Final /\ Complete(ip.at) /\ (\A k \in 1..Len(stack) : ~Iterates(prog, stack[k])) =>
             ReturnsIn(blocks, ip.at) \/ (Doing(prog, Top, {"match"}) /\ Top.pc = 1))'
      BY <2>1, <3>1, <3>2 DEF Found, Complete
    <3> QED  BY <3>4, <3>5, <3>6, <3>7, <3>8, <3>9 DEF Found
  <2>5. Order'
    BY <2>1 DEF Good, Whole, Order, Final, LastBlock, PendingAt
  <2>6. Starts'
    BY <2>1 DEF Good, Whole, Starts, Begun
  <2>7. Remembered'
    BY <2>1 DEF Good, Whole, Remembered, Final, Here, AllAt
  <2> QED  BY <2>2, <2>3, <2>4, <2>5, <2>6, <2>7 DEF Whole
<1> QED  BY <1>2, <1>3, <1>4, <1>5, <1>6 DEF Next

(* The last step gives the last block its return.                          *)
LEMMA EndWhole ==
  ASSUME Good, BuildEnd
  PROVE  \A i \in 1..Len(layout') : EndsOnce(blocks', layout'[i])
<1>1. Top.act = "build" /\ Top.pc = 2
  BY DEF BuildEnd, InCall
<1>2. Final
  BY <1>1, BuildAlone DEF Final, Closing
<1>3. PICK last : last = layout[Len(layout)]
  OBVIOUS
<1>4. /\ \A b \in Made : b = last \/ EndsOnce(blocks, b)
      /\ Open(blocks, last) \/ ReturnsIn(blocks, last)
  BY <1>2, <1>3 DEF Good, Whole, Blocks, Complete, LastBlock
<1>5. \A i \in 1..Len(layout) : layout[i] \in Made
  BY BlockFacts
<1>6. last \in Made
  BY <1>3, BlockFacts
<1>7. layout' = layout
  BY DEF BuildEnd
<1>8. CASE ReturnsAtEnd(last)
  <2>1. blocks' = blocks  BY <1>3, <1>8, Zenon DEF BuildEnd
  <2>2. EndsOnce(blocks, last)
    <3>1. ReturnsIn(blocks, last)  BY <1>8 DEF ReturnsAtEnd, ReturnsIn, Filled
    <3>2. HasTerminator(blocks, last)  BY <1>6, <3>1, BlockFacts, LinkedEnds
    <3>3. ~Open(blocks, last)  BY <1>6, <3>2, BlockFacts
    <3> QED  BY <1>6, <3>3, BlockFacts DEF Complete
  <2> QED  BY <1>4, <1>5, <1>7, <2>1, <2>2
<1>9. CASE ~ReturnsAtEnd(last)
  <2>1. PICK inst : inst = Ret(0, FinalType)
    OBVIOUS
  <2>2. PICK at : at = AtEnd(last)
    OBVIOUS
  <2>3. blocks' = Emit(blocks, at, inst)
    BY <1>3, <1>9, <2>1, <2>2, Zenon DEF BuildEnd
  <2>4. Open(blocks, last)
    BY <1>4, <1>9 DEF ReturnsAtEnd, ReturnsIn, Filled
  <2>5. IsTerminator(inst)
    BY <2>1 DEF Ret, IsTerminator, Terminators, Ops
  <2>6. at \in InsertPoint /\ at.at = last /\ ~at.back
    BY <1>6, <2>2 DEF AtEnd, InsertPoint, Made
  <2>7. PICK S : S = InstIn(Len(blocks)) \cup {inst}
    OBVIOUS
  <2>8. inst \in S /\ blocks[last].insts \in Seq(S)
    <3>1. blocks[last].insts \in Seq(InstIn(Len(blocks)))  BY <1>6, BlockFacts
    <3>2. InstIn(Len(blocks)) \subseteq S  BY <2>7
    <3> QED  BY <2>7, <3>1, <3>2, SeqMonotonic
  <2>9. EndsOnce(Emit(blocks, at, inst), last)
    <3>1. at.at \in 1..Len(blocks) /\ Open(blocks, at.at) /\ blocks[at.at].insts \in Seq(S)
      BY <1>6, <2>4, <2>6, <2>8 DEF Made
    <3> QED  BY <2>5, <2>6, <2>8, <3>1, EmitAtEnd
  <2>10. \A b \in Made : b # last => EndsOnce(Emit(blocks, at, inst), b)
    BY <1>4, <2>6, EmitElsewhere DEF Made, Alike
  <2> QED  BY <1>5, <1>7, <2>3, <2>9, <2>10
<1> QED  BY <1>8, <1>9

(* Before the first step there is the entry block, and the builder in it.  *)
LEMMA InitWhole ==
  ASSUME Init, Rooted(prog), Supported(prog)
  PROVE  Whole
<1>1. PICK f : f = Enter("build", Root)
  OBVIOUS
<1>2. f.act = "build" /\ f.n = Root /\ f.pc = 0
  BY <1>1 DEF Enter
<1>3. stack = <<f>> /\ Len(stack) = 1 /\ stack[1] = f /\ stack # <<>> /\ Top = f
  BY <1>1 DEF Init, Top
<1>4. (\A k \in 1..Len(stack) : k = 1) /\ (\A k \in 2..Len(stack) : FALSE) /\ ~(Len(stack) > 1)
  BY <1>3
<1>5. /\ \A k \in 1..Len(stack) : stack[k] = f
      /\ ~Coding(f) /\ ~Unwinding(f) /\ ~Awaits(f) /\ ~Iterates(prog, f)
      /\ Pending(prog, f) = {} /\ \A kinds : ~Doing(prog, f, kinds)
  BY <1>2, <1>3, <1>4, NothingPending DEF Coding, Unwinding
<1>6. ~Final
  BY <1>2, <1>3 DEF Final, Closing
<1>7. /\ blocks = <<Fresh("entry")>> /\ layout = <<1>> /\ ip = AtEnd(1) /\ lowered = {}
      /\ \A n \in Node : deferrals[n] = <<>>
  BY DEF Init
<1>8. /\ Made = {1} /\ ip.at = 1 /\ ~ip.back /\ Open(blocks, 1) /\ LastBlock = 1
      /\ ToSet(layout) = {1} /\ Behind(layout, 1) = {}
  BY <1>7 DEF Made, AtEnd, Open, Fresh, LastBlock, ToSet, Behind
<1>9. ~Complete(1)
  BY <1>7 DEF Complete, EndsOnce, HasTerminator, Fresh
<1>10. Chain(prog, stack)
  <2>1. Fine(prog, Root) /\ NoJump(prog, Root)  BY SupportedIsFine
  <2>2. \A k \in 1..Len(stack) : Fine(prog, stack[k].n) /\ NoJump(prog, stack[k].n)
    BY <1>2, <1>5, <2>1
  <2>3. \A k, l \in 1..Len(stack) : ~(k < l)
    BY <1>4
  <2> QED  BY <1>2, <1>3, <1>4, <1>5, <2>2, <2>3 DEF Chain
<1>11. Blocks
  BY <1>4, <1>5, <1>6, <1>8 DEF Blocks, PendingAt
<1>12. Found
  BY <1>3, <1>5, <1>8, <1>9 DEF Found
<1>13. Order
  BY <1>5, <1>8 DEF Order
<1>14. Starts
  <2>1. Begun = {}
    BY <1>5, <1>7 DEF Begun
  <2> QED  BY <1>5, <1>7, <2>1 DEF Starts
<1>15. Remembered
  <2>1. \A n \in Node : \A i \in 1..Len(deferrals[n]) : FALSE
    BY <1>7
  <2>2. Here(f)
    BY <1>2, <1>5 DEF Here
  <2> QED  BY <1>5, <2>1, <2>2 DEF Remembered
<1> QED  BY <1>10, <1>11, <1>12, <1>13, <1>14, <1>15 DEF Whole

(* A function is not changed by lowering it, and ends once.                *)
LEMMA CodegenGoesOn ==
  ASSUME Codegen
  PROVE  prog' = prog /\ status = "run" /\ status' # "done"
<1>1. CASE Straight \/ Silent \/ Rejected \/ OutsideFunction
  BY <1>1, Zenon DEF InCall, Going, EndWith, StackOnly, AndIp, Lowered, Fail, Crash,
     tree, Straight, Silent, Rejected, OutsideFunction, NeedsFunction
<1>2. CASE BodyStmt \/ BodyEnd
  BY <1>2, Zenon DEF InCall, Going, EndWith, StackOnly, AndIp, Lowered, Fail, Crash,
     tree, BodyStmt, BodyEnd
<1>3. CASE IfEnter \/ IfElse \/ IfJoin
  BY <1>3, Zenon DEF InCall, Going, EndWith, StackOnly, AndIp, Lowered, Fail, Crash,
     tree, IfEnter, IfElse, IfJoin
<1>4. CASE WhileEnter \/ WhileEnd \/ ForEnter \/ ForEnd
  BY <1>4, Zenon DEF InCall, Going, EndWith, StackOnly, AndIp, Lowered, Fail, Crash,
     tree, WhileEnter, WhileEnd, ForEnter, ForEnd
<1>5. CASE MatchEnter \/ MatchCase \/ MatchDefault \/ MatchArmExit \/ MatchArmEnd \/ MatchJoin
  BY <1>5, Zenon DEF InCall, Going, EndWith, StackOnly, AndIp, Lowered, Fail, Crash,
     tree, MatchEnter, MatchCase, MatchDefault, MatchArmExit, MatchArmEnd, MatchJoin
<1>6. CASE TypeSwitch \/ TypeSwitchExit \/ TypeSwitchEnd
  BY <1>6, Zenon DEF InCall, Going, EndWith, StackOnly, AndIp, Lowered, Fail, Crash,
     tree, TypeSwitch, TypeSwitchExit, TypeSwitchEnd
<1>7. CASE SearchStart \/ SearchOn \/ SearchFailed \/ BreakFound \/ BreakCrash \/ ContinueFound
  BY <1>7, Zenon DEF InCall, Going, EndWith, StackOnly, AndIp, Lowered, Fail, Crash,
     tree, SearchStart, SearchOn, SearchFailed, BreakFound, BreakCrash, ContinueFound,
     Searching
<1> QED  BY <1>1, <1>2, <1>3, <1>4, <1>5, <1>6, <1>7 DEF Codegen

LEMMA ScopeExitGoesOn ==
  ASSUME ScopeExit
  PROVE  prog' = prog /\ status = "run" /\ status' # "done"
<1> USE DEF InCall, Going, EndWith, StackOnly, AndIp, tree
<1>1. CASE ExitNothing \/ ExitIfThen \/ ExitIfElse \/ ExitWhile \/ ExitFor
  BY <1>1, Zenon DEF ExitNothing, ExitIfThen, ExitIfElse, ExitWhile, ExitFor
<1>2. CASE ExitBody \/ ExitBodyStmt \/ ExitBodyDefers \/ ExitBodyDefer \/ ExitBodyEnd
  BY <1>2, Zenon DEF ExitBody, ExitBodyStmt, ExitBodyDefers, ExitBodyDefer, ExitBodyEnd
<1>3. CASE ApplyHere \/ ApplyBranch \/ ApplyNext \/ ApplyEnd
  BY <1>3, Zenon DEF ApplyHere, ApplyBranch, ApplyNext, ApplyEnd
<1>4. CASE RunDefer \/ RunDeferExit
  BY <1>4, Zenon DEF RunDefer, RunDeferExit
<1> QED  BY <1>1, <1>2, <1>3, <1>4 DEF ScopeExit

LEMMA NextEndsOnce ==
  ASSUME [Next]_vars
  PROVE  /\ prog' = prog
         /\ status # "run" => UNCHANGED vars
         /\ status = "run" /\ status' = "done" => BuildEnd
<1>1. CASE Codegen
  BY <1>1, CodegenGoesOn, Zenon
<1>5. CASE ScopeExit
  BY <1>5, ScopeExitGoesOn, Zenon
<1>2. CASE BuildBody \/ BuildExit \/ BuildRejected \/ StackOverflow
  BY <1>2, Zenon DEF BuildBody, BuildExit, BuildRejected, StackOverflow, InCall, Going, EndWith,
     StackOnly, Fail, tree
<1>3. CASE BuildEnd
  BY <1>3, Zenon DEF BuildEnd, InCall
<1>4. CASE Ended \/ UNCHANGED vars
  BY <1>4 DEF Ended, vars
<1> QED  BY <1>1, <1>2, <1>3, <1>4, <1>5 DEF Next

(* A supported function comes out with every block of it ending in its     *)
(* only terminator, as LLVM's verifier demands, whatever its statements    *)
(* are: no handler of codegen or runScopeExit adds to a block that has     *)
(* ended, nor leaves one behind that has not.                              *)
THEOREM EndsHold == Spec => []WellFormed
<1> DEFINE Ends2 == Wholeness /\ WellFormed /\ Rooted(prog)
<1>1. Init => Ends2
  <2> SUFFICES ASSUME Init  PROVE Ends2
    OBVIOUS
  <2>1. Rooted(prog)  BY ProgramAssumption DEF Init, Rooted
  <2>2. status = "run"  BY DEF Init
  <2> QED  BY <2>1, <2>2, InitWhole DEF Wholeness, WellFormed
<1>2. IInv /\ Placement /\ Ends2 /\ [Next]_vars => Ends2'
  <2> SUFFICES ASSUME IInv, Placement, Ends2, [Next]_vars  PROVE Ends2'
    OBVIOUS
  <2>1. prog' = prog
    BY NextEndsOnce
  <2>2. Rooted(prog)'
    BY <2>1
  <2>3. CASE status # "run"
    <3>1. UNCHANGED vars
      BY <2>3, NextEndsOnce
    <3> QED  BY <2>2, <2>3, <3>1 DEF Wholeness, WellFormed, vars
  <2>4. CASE status = "run"
    <3>1. Supported(prog) => Good
      BY <2>4 DEF Wholeness, Good
    <3>2. Wholeness'
      BY <2>1, <3>1, NextWhole DEF Wholeness
    <3>3. status' = "done" => BuildEnd
      BY <2>4, NextEndsOnce
    <3>4. WellFormed'
      BY <2>1, <3>1, <3>3, EndWhole DEF WellFormed
    <3> QED  BY <2>2, <3>2, <3>4
  <2> QED  BY <2>3, <2>4
<1>3. Ends2 => WellFormed
  OBVIOUS
<1> QED  BY <1>1, <1>2, <1>3, Invariance, BlocksInOnePlace, PTL DEF Spec
===============================================================================
