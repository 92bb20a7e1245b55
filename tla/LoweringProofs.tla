---------------------------- MODULE LoweringProofs ----------------------------
(***************************************************************************)
(* Theorems about the lowering of any function body.                       *)
(*                                                                         *)
(* IInv (LoweringInv) is inductive.  A step does three kinds of things:    *)
(* it adds blocks and instructions, it sets members of statements, and it  *)
(* pushes, pops or replaces a call.  Whatever a call knows stays true when *)
(* blocks are added and members are set ("Grows"), so what is left for an  *)
(* action is to show that it grows, and that the calls it starts and the   *)
(* call it returns to know what they need.                                 *)
(*                                                                         *)
(* First, what the operators of IRBuilder return and preserve: blocks keep *)
(* naming existing blocks only and never the entry as a target, and moving *)
(* blocks around a function loses none of them.                            *)
(***************************************************************************)
EXTENDS LoweringInv, SequenceTheorems, TLAPS

------------------------------------------------------------------------------
(* Sequences *)

(* The elements of a sequence are what ToSet collects.                     *)
LEMMA ToSetOf ==
  ASSUME NEW S, NEW s \in Seq(S)
  PROVE  /\ ToSet(s) = {s[i] : i \in 1..Len(s)}
         /\ ToSet(s) \subseteq S
BY LenProperties, ElementOfSeq DEF ToSet

(* t is s with e put in at i.                                              *)
Inserted(S, t, s, i, e) ==
  /\ t \in Seq(S) /\ Len(t) = Len(s) + 1
  /\ \A k \in 1..Len(s) + 1 : t[k] =
       IF k < i THEN s[k] ELSE IF k = i THEN e ELSE s[k - 1]

(* Inserting an element shifts the rest and loses nothing.                 *)
LEMMA InsertAtInserts ==
  ASSUME NEW S, NEW s \in Seq(S), NEW e \in S, NEW i \in 1..Len(s) + 1
  PROVE  Inserted(S, InsertAt(s, i, e), s, i, e)
<1> DEFINE front == SubSeq(s, 1, i - 1)
           back  == SubSeq(s, i, Len(s))
<1>0. Len(s) \in Nat /\ i \in Nat /\ \A k \in 1..Len(s) : s[k] \in S
  BY LenProperties, ElementOfSeq
<1>1. /\ front \in Seq(S) /\ Len(front) = i - 1
      /\ \A k \in 1..i - 1 : front[k] = s[k]
  <2>1. \A k \in 1..i - 1 : s[k] \in S
    BY <1>0
  <2> QED  BY <2>1, <1>0, SubSeqProperties
<1>2. /\ back \in Seq(S) /\ Len(back) = Len(s) - i + 1
      /\ \A k \in 1..Len(s) - i + 1 : back[k] = s[i + k - 1]
  <2>1. \A k \in i..Len(s) : s[k] \in S
    BY <1>0
  <2> QED  BY <2>1, <1>0, SubSeqProperties
<1>3. <<e>> \in Seq(S) /\ Len(<<e>>) = 1 /\ <<e>>[1] = e
  OBVIOUS
<1>. HIDE DEF front, back
<1>4. /\ front \o <<e>> \in Seq(S) /\ Len(front \o <<e>>) = i
      /\ \A k \in 1..i : (front \o <<e>>)[k] = IF k < i THEN s[k] ELSE e
  BY <1>0, <1>1, <1>3, ConcatProperties
<1> DEFINE head == front \o <<e>>
<1>. HIDE DEF head
<1>5. /\ head \o back \in Seq(S)
      /\ Len(head \o back) = Len(s) + 1
      /\ \A k \in 1..Len(s) + 1 : (head \o back)[k] =
           IF k <= i THEN head[k] ELSE back[k - i]
  <2>1. head \in Seq(S) /\ Len(head) = i  BY <1>4 DEF head
  <2>2. /\ head \o back \in Seq(S)
        /\ Len(head \o back) = Len(head) + Len(back)
        /\ \A k \in 1..Len(head) + Len(back) : (head \o back)[k] =
             IF k <= Len(head) THEN head[k] ELSE back[k - Len(head)]
    BY <2>1, <1>2, ConcatProperties
  <2>3. Len(head) + Len(back) = Len(s) + 1  BY <2>1, <1>2, <1>0
  <2> QED  BY <2>1, <2>2, <2>3
<1>6. InsertAt(s, i, e) = head \o back
  BY DEF InsertAt, head, front, back
<1>7. \A k \in 1..Len(s) + 1 : k > i => k - i \in 1..Len(s) - i + 1 /\ i + (k - i) - 1 = k - 1
  BY <1>0
<1>8. \A k \in 1..Len(s) + 1 : (head \o back)[k] =
         IF k < i THEN s[k] ELSE IF k = i THEN e ELSE s[k - 1]
  <2> SUFFICES ASSUME NEW k \in 1..Len(s) + 1
               PROVE  (head \o back)[k] =
                        IF k < i THEN s[k] ELSE IF k = i THEN e ELSE s[k - 1]
    OBVIOUS
  <2>1. CASE k <= i  BY <2>1, <1>0, <1>4, <1>5 DEF head
  <2>2. CASE k > i
    <3>1. back[k - i] = s[k - 1]  BY <2>2, <1>0, <1>2, <1>7
    <3> QED  BY <3>1, <2>2, <1>0, <1>5
  <2>3. k <= i \/ k > i  BY <1>0
  <2> QED  BY <2>1, <2>2, <2>3
<1>9. Inserted(S, head \o back, s, i, e)  BY <1>5, <1>8, Zenon DEF Inserted
<1> QED  BY <1>6, <1>9, Zenon

(* Removing an element shifts the rest.                                    *)
LEMMA RemoveAtProperties ==
  ASSUME NEW S, NEW s \in Seq(S), NEW i \in 1..Len(s)
  PROVE  /\ RemoveAt(s, i) \in Seq(S)
         /\ Len(RemoveAt(s, i)) = Len(s) - 1
         /\ \A k \in 1..Len(s) - 1 : RemoveAt(s, i)[k] =
              IF k < i THEN s[k] ELSE s[k + 1]
<1> DEFINE front == SubSeq(s, 1, i - 1)
           back  == SubSeq(s, i + 1, Len(s))
<1>0. Len(s) \in Nat /\ i \in Nat /\ \A k \in 1..Len(s) : s[k] \in S
  BY LenProperties, ElementOfSeq
<1>1. /\ front \in Seq(S) /\ Len(front) = i - 1
      /\ \A k \in 1..i - 1 : front[k] = s[k]
  <2>1. \A k \in 1..i - 1 : s[k] \in S
    BY <1>0
  <2> QED  BY <2>1, <1>0, SubSeqProperties
<1>2. /\ back \in Seq(S) /\ Len(back) = Len(s) - i
      /\ \A k \in 1..Len(s) - i : back[k] = s[i + k]
  <2>1. \A k \in i + 1..Len(s) : s[k] \in S
    BY <1>0
  <2> QED  BY <2>1, <1>0, SubSeqProperties
<1>. HIDE DEF front, back
<1>3. /\ front \o back \in Seq(S)
      /\ Len(front \o back) = Len(s) - 1
      /\ \A k \in 1..Len(s) - 1 : (front \o back)[k] =
           IF k <= i - 1 THEN front[k] ELSE back[k - (i - 1)]
  <2>1. /\ front \o back \in Seq(S)
        /\ Len(front \o back) = Len(front) + Len(back)
        /\ \A k \in 1..Len(front) + Len(back) : (front \o back)[k] =
             IF k <= Len(front) THEN front[k] ELSE back[k - Len(front)]
    BY <1>1, <1>2, ConcatProperties
  <2>2. Len(front) + Len(back) = Len(s) - 1  BY <1>1, <1>2, <1>0
  <2> QED  BY <1>1, <2>1, <2>2
<1>4. RemoveAt(s, i) = front \o back
  BY DEF RemoveAt, front, back
<1>5. \A k \in 1..Len(s) - 1 : (front \o back)[k] = IF k < i THEN s[k] ELSE s[k + 1]
  <2> SUFFICES ASSUME NEW k \in 1..Len(s) - 1
               PROVE  (front \o back)[k] = IF k < i THEN s[k] ELSE s[k + 1]
    OBVIOUS
  <2>1. CASE k < i  BY <2>1, <1>0, <1>1, <1>3
  <2>2. CASE k >= i
    <3>1. k - (i - 1) \in 1..Len(s) - i /\ i + (k - (i - 1)) = k + 1
      BY <2>2, <1>0
    <3>2. back[k - (i - 1)] = s[k + 1]  BY <3>1, <1>2
    <3>3. ~(k <= i - 1) /\ ~(k < i)  BY <2>2, <1>0
    <3>4. (front \o back)[k] = back[k - (i - 1)]  BY <3>3, <1>3, Zenon
    <3> QED  BY <3>2, <3>3, <3>4, Zenon
  <2>3. k < i \/ k >= i  BY <1>0
  <2> QED  BY <2>1, <2>2, <2>3
<1> QED  BY <1>3, <1>4, <1>5

------------------------------------------------------------------------------
(* Moving blocks around *)

(* IndexOf finds an element that is there.                                 *)
LEMMA IndexOfProperties ==
  ASSUME NEW S, NEW s \in Seq(S), NEW b \in ToSet(s)
  PROVE  IndexOf(s, b) \in 1..Len(s) /\ s[IndexOf(s, b)] = b
BY ToSetOf DEF IndexOf

(* Inserting a block before another adds that block and no other, and      *)
(* leaves the first block alone if it is not the one moved.                *)
LEMMA InsertBeforeProperties ==
  ASSUME NEW S, NEW s \in Seq(S), NEW b \in S, NEW c \in ToSet(s), c # s[1]
  PROVE  /\ InsertBefore(s, b, c) \in Seq(S)
         /\ InsertBefore(s, b, c) # <<>>
         /\ InsertBefore(s, b, c)[1] = s[1]
         /\ ToSet(s) \subseteq ToSet(InsertBefore(s, b, c))
<1> DEFINE i == IndexOf(s, c)
           t == InsertAt(s, i, b)
<1>1. i \in 1..Len(s) /\ s[i] = c /\ Len(s) \in Nat
  BY IndexOfProperties, LenProperties
<1>. HIDE DEF i
<1>2. i # 1
  BY <1>1
<1>3. /\ t \in Seq(S) /\ Len(t) = Len(s) + 1
      /\ \A k \in 1..Len(s) + 1 : t[k] =
           IF k < i THEN s[k] ELSE IF k = i THEN b ELSE s[k - 1]
  <2>1. i \in 1..Len(s) + 1 /\ b \in S  BY <1>1
  <2>2. Inserted(S, InsertAt(s, i, b), s, i, b)  BY <2>1, InsertAtInserts, Zenon
  <2> HIDE DEF t
  <2>3. Inserted(S, t, s, i, b)  BY <2>2 DEF t
  <2> QED  BY <2>3, Zenon DEF Inserted
<1>. HIDE DEF t
<1>4. t[1] = s[1]
  BY <1>1, <1>2, <1>3
<1>5. \A k \in 1..Len(s) : \E m \in 1..Len(t) : t[m] = s[k]
  <2> TAKE k \in 1..Len(s)
  <2>1. CASE k < i
    <3>1. k \in 1..Len(t) /\ t[k] = s[k]  BY <2>1, <1>1, <1>3
    <3> QED  BY <3>1
  <2>2. CASE k >= i
    <3>1. k + 1 \in 1..Len(t) /\ k + 1 > i /\ (k + 1) - 1 = k  BY <2>2, <1>1, <1>3
    <3>2. t[k + 1] = s[k]  BY <3>1, <1>1, <1>3
    <3> QED  BY <3>1, <3>2
  <2>3. k < i \/ k >= i  BY <1>1
  <2> QED  BY <2>1, <2>2, <2>3
<1>6. ToSet(s) \subseteq ToSet(t)
  BY <1>3, <1>5, ToSetOf
<1>7. t # <<>>
  BY <1>1, <1>3
<1> QED  BY <1>3, <1>4, <1>6, <1>7 DEF t, i, InsertBefore

(* Moving a block behind another loses no block, and leaves the first one  *)
(* alone if it is not the one moved.                                       *)
LEMMA MoveAfterProperties ==
  ASSUME NEW S, NEW s \in Seq(S), NEW b \in ToSet(s), NEW c \in ToSet(s),
         b # s[1]
  PROVE  /\ MoveAfter(s, b, c) \in Seq(S)
         /\ MoveAfter(s, b, c) # <<>>
         /\ MoveAfter(s, b, c)[1] = s[1]
         /\ ToSet(s) \subseteq ToSet(MoveAfter(s, b, c))
<1>0. s # <<>> /\ Len(s) \in Nat /\ b \in S
  BY ToSetOf, LenProperties, EmptySeq
<1>1. CASE b = c
  BY <1>0, <1>1 DEF MoveAfter
<1>2. CASE b # c
  <2> DEFINE i == IndexOf(s, b)
             r == RemoveAt(s, i)
             j == IndexOf(r, c)
             t == InsertAt(r, j + 1, b)
  <2>1. i \in 2..Len(s) /\ s[i] = b
    <3>1. i \in 1..Len(s) /\ s[i] = b  BY IndexOfProperties
    <3> HIDE DEF i
    <3> QED  BY <3>1, <1>0
  <2>. HIDE DEF i
  <2>2. /\ r \in Seq(S) /\ Len(r) = Len(s) - 1
        /\ \A k \in 1..Len(s) - 1 : r[k] = IF k < i THEN s[k] ELSE s[k + 1]
    <3>1. i \in 1..Len(s)  BY <2>1, <1>0
    <3> QED  BY <3>1, RemoveAtProperties
  <2>. HIDE DEF r
  <2>3. r[1] = s[1] /\ Len(r) \in Nat
    BY <1>0, <2>1, <2>2
  <2>4. \A k \in 1..Len(s) : k # i => \E m \in 1..Len(r) : r[m] = s[k]
    <3> TAKE k \in 1..Len(s)
    <3> HAVE k # i
    <3>1. CASE k < i
      <4>1. k \in 1..Len(r) /\ r[k] = s[k]  BY <3>1, <2>1, <2>2, <1>0
      <4> QED  BY <4>1
    <3>2. CASE k > i
      <4>1. k - 1 \in 1..Len(r) /\ ~(k - 1 < i) /\ (k - 1) + 1 = k
        BY <3>2, <2>1, <2>2, <1>0
      <4>2. r[k - 1] = s[k]  BY <4>1, <2>1, <2>2
      <4> QED  BY <4>1, <4>2
    <3>3. k < i \/ k > i  BY <2>1, <1>0
    <3> QED  BY <3>1, <3>2, <3>3
  <2>5. c \in ToSet(r)
    <3>1. PICK k \in 1..Len(s) : s[k] = c  BY ToSetOf
    <3>2. k # i  BY <3>1, <2>1, <1>2
    <3> QED  BY <3>1, <3>2, <2>2, <2>4, ToSetOf
  <2>6. j \in 1..Len(r)
    BY <2>2, <2>5, IndexOfProperties
  <2>. HIDE DEF j
  <2>7. /\ t \in Seq(S) /\ Len(t) = Len(r) + 1
        /\ \A k \in 1..Len(r) + 1 : t[k] =
             IF k < j + 1 THEN r[k] ELSE IF k = j + 1 THEN b ELSE r[k - 1]
    <3>1. j + 1 \in 1..Len(r) + 1 /\ b \in S /\ r \in Seq(S)
      BY <1>0, <2>2, <2>3, <2>6
    <3>2. PICK p : p = j + 1  OBVIOUS
    <3>3. Inserted(S, InsertAt(r, p, b), r, p, b)
      BY <3>1, <3>2, InsertAtInserts, Zenon
    <3>. HIDE DEF t
    <3>4. Inserted(S, t, r, j + 1, b)  BY <3>2, <3>3, Zenon DEF t
    <3> QED  BY <3>4, Zenon DEF Inserted
  <2>. HIDE DEF t
  <2>8. t[1] = s[1] /\ t # <<>>
    BY <2>3, <2>6, <2>7
  <2>9. \A k \in 1..Len(r) : \E m \in 1..Len(t) : t[m] = r[k]
    <3> TAKE k \in 1..Len(r)
    <3>1. CASE k < j + 1
      <4>1. k \in 1..Len(t) /\ t[k] = r[k]  BY <3>1, <2>3, <2>6, <2>7
      <4> QED  BY <4>1
    <3>2. CASE k >= j + 1
      <4>0. k \in Int /\ j \in Int /\ Len(r) \in Int /\ Len(t) = Len(r) + 1
        BY <2>3, <2>6, <2>7
      <4>1. k + 1 \in 1..Len(t) /\ k + 1 > j + 1 /\ (k + 1) - 1 = k
        BY <3>2, <4>0
      <4>2. t[k + 1] = r[k]
        <5>1. k + 1 \in 1..Len(r) + 1 /\ ~(k + 1 < j + 1) /\ k + 1 # j + 1
          BY <4>0, <4>1
        <5>2. t[k + 1] = r[(k + 1) - 1]  BY <5>1, <2>7
        <5> QED  BY <5>2, <4>1
      <4> QED  BY <4>1, <4>2
    <3>3. k < j + 1 \/ k >= j + 1  BY <2>3, <2>6
    <3> QED  BY <3>1, <3>2, <3>3
  <2>10. \E m \in 1..Len(t) : t[m] = b
    <3>1. j + 1 \in 1..Len(t) /\ t[j + 1] = b  BY <2>3, <2>6, <2>7
    <3> QED  BY <3>1
  <2>11. \A k \in 1..Len(s) : \E m \in 1..Len(t) : t[m] = s[k]
    <3> TAKE k \in 1..Len(s)
    <3>1. CASE k = i  BY <3>1, <2>1, <2>10
    <3>2. CASE k # i
      <4>1. PICK m \in 1..Len(r) : r[m] = s[k]  BY <3>2, <2>4
      <4> QED  BY <4>1, <2>9
    <3> QED  BY <3>1, <3>2
  <2>12. ToSet(s) \subseteq ToSet(t)
    BY <2>7, <2>11, ToSetOf
  <2>13. MoveAfter(s, b, c) = t
    BY <1>2 DEF MoveAfter, Without, t, j, r, i
  <2> QED  BY <2>7, <2>8, <2>12, <2>13
<1> QED  BY <1>1, <1>2

------------------------------------------------------------------------------
(* Blocks *)

(* Instructions are only ever added, and nothing refers back to the entry. *)
Grown(bs, cs) ==
  /\ Len(bs) <= Len(cs)
  /\ \A b \in 1..Len(bs) : bs[b].insts # <<>> => cs[b].insts # <<>>
  /\ bs # <<>> => cs[1].name = bs[1].name /\ cs[1].preds = bs[1].preds

(* A larger function has more blocks to name.                              *)
LEMMA BlockWiden ==
  ASSUME NEW m \in Nat, NEW n \in Nat, m <= n
  PROVE  InstIn(m) \subseteq InstIn(n) /\ BlockIn(m) \subseteq BlockIn(n)
<1>1. InstIn(m) \subseteq InstIn(n)
  <2> SUFFICES ASSUME NEW i \in InstIn(m)  PROVE i \in InstIn(n)
    OBVIOUS
  <2>1. i.to \in Seq(2..n)
    <3>1. i.to \in Seq(2..m) /\ 2..m \subseteq 2..n  BY DEF InstIn
    <3> QED  BY <3>1, SeqMonotonic
  <2> QED  BY <2>1 DEF InstIn
<1>2. BlockIn(m) \subseteq BlockIn(n)
  <2> SUFFICES ASSUME NEW b \in BlockIn(m)  PROVE b \in BlockIn(n)
    OBVIOUS
  <2>1. b.insts \in Seq(InstIn(n))
    <3>1. b.insts \in Seq(InstIn(m))  BY DEF BlockIn
    <3> QED  BY <3>1, <1>1, SeqMonotonic
  <2>2. b.preds \in Seq(1..n)
    <3>1. b.preds \in Seq(1..m) /\ 1..m \subseteq 1..n  BY DEF BlockIn
    <3> QED  BY <3>1, SeqMonotonic
  <2> QED  BY <2>1, <2>2 DEF BlockIn
<1> QED  BY <1>1, <1>2

(* Linked blocks are blocks.                                               *)
LEMMA LinkedBlocks ==
  ASSUME NEW bs, Linked(bs)
  PROVE  bs \in Seq(Block)
<1>1. \A n \in Nat : InstIn(n) \subseteq Inst
  <2> SUFFICES ASSUME NEW n \in Nat, NEW i \in InstIn(n)  PROVE i \in Inst
    OBVIOUS
  <2>1. i.to \in Seq(Nat)
    <3>1. i.to \in Seq(2..n) /\ 2..n \subseteq Nat  BY DEF InstIn
    <3> QED  BY <3>1, SeqMonotonic
  <2> QED  BY <2>1 DEF InstIn, Inst
<1>2. \A n \in Nat : BlockIn(n) \subseteq Block
  <2> SUFFICES ASSUME NEW n \in Nat, NEW b \in BlockIn(n)  PROVE b \in Block
    OBVIOUS
  <2>1. b.insts \in Seq(Inst)
    <3>1. b.insts \in Seq(InstIn(n))  BY DEF BlockIn
    <3> QED  BY <3>1, <1>1, SeqMonotonic
  <2>2. b.preds \in Seq(Nat)
    <3>1. b.preds \in Seq(1..n) /\ 1..n \subseteq Nat  BY DEF BlockIn
    <3> QED  BY <3>1, SeqMonotonic
  <2> QED  BY <2>1, <2>2 DEF BlockIn, Block
<1>3. bs \in Seq(BlockIn(Len(bs))) /\ Len(bs) \in Nat
  BY LenProperties DEF Linked
<1> QED  BY <1>2, <1>3, SeqMonotonic

(* Every block reached from a linked block is one of them.                 *)
LEMMA LinkedProperties ==
  ASSUME NEW bs, Linked(bs), NEW b \in 1..Len(bs)
  PROVE  /\ Len(bs) \in Nat
         /\ bs[b] \in BlockIn(Len(bs))
         /\ bs[b].insts \in Seq(InstIn(Len(bs)))
         /\ bs[b].preds \in Seq(1..Len(bs))
         /\ Succs(bs, b) \in Seq(2..Len(bs))
         /\ ToSet(SinglePred(bs, b)) \subseteq 1..Len(bs)
<1>1. bs \in Seq(BlockIn(Len(bs))) /\ Len(bs) \in Nat
  BY LenProperties DEF Linked
<1>2. bs[b] \in BlockIn(Len(bs))
  BY <1>1, ElementOfSeq
<1>3. bs[b].insts \in Seq(InstIn(Len(bs))) /\ bs[b].preds \in Seq(1..Len(bs))
  BY <1>2 DEF BlockIn
<1>4. Succs(bs, b) \in Seq(2..Len(bs))
  <2> DEFINE insts == bs[b].insts
  <2>1. CASE HasTerminator(bs, b)
    <3>1. Len(insts) \in 1..Len(insts)
      BY <1>3, <2>1, EmptySeq DEF HasTerminator
    <3>2. insts[Len(insts)] \in InstIn(Len(bs))
      BY <1>3, <3>1, ElementOfSeq
    <3>3. insts[Len(insts)].to \in Seq(2..Len(bs))
      BY <3>2 DEF InstIn
    <3> QED  BY <2>1, <3>3 DEF Succs
  <2>2. CASE ~HasTerminator(bs, b)
    BY <2>2 DEF Succs
  <2> QED  BY <2>1, <2>2
<1>5. ToSet(SinglePred(bs, b)) \subseteq 1..Len(bs)
  <2>1. SinglePred(bs, b) \in Seq(1..Len(bs))
    <3>1. CASE Len(bs[b].preds) = 1  BY <1>3, <3>1 DEF SinglePred
    <3>2. CASE Len(bs[b].preds) # 1  BY <3>2, EmptySeq DEF SinglePred
    <3> QED  BY <3>1, <3>2
  <2> QED  BY <2>1, ToSetOf
<1> QED  BY <1>1, <1>2, <1>3, <1>4, <1>5

(* A function defined on 1..n is a sequence of length n.                   *)
LEMMA FunctionIsSeq ==
  ASSUME NEW S, NEW n \in Nat, NEW f \in [1..n -> S]
  PROVE  f \in Seq(S) /\ Len(f) = n
BY SeqDef

(* An instruction placed in a block makes it one longer.                   *)
LEMMA PlacedProperties ==
  ASSUME NEW S, NEW insts \in Seq(S), NEW inst \in S, NEW back \in BOOLEAN,
         back => insts # <<>>
  PROVE  Placed(insts, back, inst) \in Seq(S) /\ Placed(insts, back, inst) # <<>>
<1>1. CASE back
  <2>1. Len(insts) \in 1..Len(insts) + 1  BY <1>1, EmptySeq
  <2>2. /\ InsertAt(insts, Len(insts), inst) \in Seq(S)
        /\ Len(InsertAt(insts, Len(insts), inst)) = Len(insts) + 1
    BY <2>1, InsertAtInserts DEF Inserted
  <2>3. Placed(insts, back, inst) = InsertAt(insts, Len(insts), inst)
    BY <1>1 DEF Placed
  <2>4. Len(insts) + 1 # 0  BY <2>1
  <2> QED  BY <2>2, <2>3, <2>4
<1>2. CASE ~back
  BY <1>2, AppendProperties DEF Placed
<1> QED  BY <1>1, <1>2

(* Emitting an instruction that jumps to existing blocks.                  *)
LEMMA EmitProperties ==
  ASSUME NEW bs, Linked(bs), NEW p \in InsertPoint, p.at \in 1..Len(bs),
         p.back => bs[p.at].insts # <<>>, NEW inst \in InstIn(Len(bs))
  PROVE  /\ Linked(Emit(bs, p, inst))
         /\ Len(Emit(bs, p, inst)) = Len(bs)
         /\ Grown(bs, Emit(bs, p, inst))
         /\ Emit(bs, p, inst)[p.at].insts # <<>>
<1> DEFINE n == Len(bs)
           cs == Emit(bs, p, inst)
<1>0. n \in Nat /\ p.back \in BOOLEAN
  BY LinkedProperties DEF InsertPoint
<1>1. ToSet(inst.to) \subseteq 2..n
  <2>1. inst.to \in Seq(2..n)  BY DEF InstIn
  <2> QED  BY <2>1, ToSetOf
<1>2. /\ cs = [b \in 1..n |-> cs[b]]
      /\ \A b \in 1..n : cs[b] =
           [name  |-> bs[b].name,
            insts |-> IF b = p.at THEN Placed(bs[b].insts, p.back, inst)
                                  ELSE bs[b].insts,
            preds |-> IF b \in ToSet(inst.to) THEN <<p.at>> \o bs[b].preds
                                              ELSE bs[b].preds]
  BY DEF Emit
<1>. HIDE DEF cs
<1>3. ASSUME NEW b \in 1..n
      PROVE  /\ cs[b] \in BlockIn(n)
             /\ bs[b].insts # <<>> \/ b = p.at => cs[b].insts # <<>>
             /\ cs[b].name = bs[b].name
             /\ b \notin ToSet(inst.to) => cs[b].preds = bs[b].preds
  <2>1. /\ bs[b] \in BlockIn(n) /\ bs[b].insts \in Seq(InstIn(n))
        /\ bs[b].preds \in Seq(1..n)
    BY LinkedProperties
  <2>2. cs[b].insts \in Seq(InstIn(n)) /\ (b = p.at => cs[b].insts # <<>>)
    <3>1. CASE b = p.at
      <4>1. cs[b].insts = Placed(bs[b].insts, p.back, inst)  BY <1>2, <3>1
      <4> QED  BY <2>1, <1>0, <3>1, <4>1, PlacedProperties
    <3>2. CASE b # p.at
      <4>1. cs[b].insts = bs[b].insts  BY <1>2, <3>2
      <4> QED  BY <2>1, <3>2, <4>1
    <3> QED  BY <3>1, <3>2
  <2>3. cs[b].preds \in Seq(1..n)
    <3>1. <<p.at>> \in Seq(1..n)  OBVIOUS
    <3>2. <<p.at>> \o bs[b].preds \in Seq(1..n)  BY <3>1, <2>1, ConcatProperties
    <3>3. cs[b].preds \in {<<p.at>> \o bs[b].preds, bs[b].preds}  BY <1>2
    <3> QED  BY <3>2, <3>3, <2>1
  <2>4. cs[b].name = bs[b].name /\ cs[b].name \in Names  BY <1>2, <2>1 DEF BlockIn
  <2>5. cs[b] = [name |-> cs[b].name, insts |-> cs[b].insts, preds |-> cs[b].preds]
    BY <1>2
  <2>6. cs[b] \in BlockIn(n)  BY <2>2, <2>3, <2>4, <2>5 DEF BlockIn
  <2>7. b # p.at => cs[b].insts = bs[b].insts  BY <1>2
  <2>8. b \notin ToSet(inst.to) => cs[b].preds = bs[b].preds  BY <1>2
  <2> QED  BY <2>2, <2>4, <2>6, <2>7, <2>8
<1>4. cs \in [1..n -> BlockIn(n)]
  BY <1>2, <1>3
<1>5. cs \in Seq(BlockIn(n)) /\ Len(cs) = n
  BY <1>0, <1>4, FunctionIsSeq
<1>6. Linked(cs)
  BY <1>5 DEF Linked
<1>7. Grown(bs, cs)
  <2>1. bs # <<>> => 1 \in 1..n /\ 1 \notin ToSet(inst.to)
    BY <1>0, <1>1, EmptySeq DEF Linked
  <2> QED  BY <1>0, <1>3, <1>5, <2>1 DEF Grown
<1> QED  BY <1>3, <1>5, <1>6, <1>7 DEF cs

(* Adding a case adds a target to one switch, and a predecessor.           *)
LEMMA AddCaseProperties ==
  ASSUME NEW bs, Linked(bs), bs # <<>>, NEW a \in 1..Len(bs), NEW d,
         NEW case \in 2..Len(bs)
  PROVE  /\ Linked(AddCase(bs, a, d, case))
         /\ Len(AddCase(bs, a, d, case)) = Len(bs)
         /\ Grown(bs, AddCase(bs, a, d, case))
<1> DEFINE n == Len(bs)
           cs == AddCase(bs, a, d, case)
<1>0. n \in Nat
  BY LinkedProperties
<1>1. ASSUME NEW insts \in Seq(InstIn(n))
      PROVE  /\ WithCase(insts, d, case) \in Seq(InstIn(n))
             /\ Len(WithCase(insts, d, case)) = Len(insts)
  <2> DEFINE m == Len(insts)
             f == WithCase(insts, d, case)
  <2>1. m \in Nat
    BY LenProperties
  <2>2. ASSUME NEW i \in 1..m
        PROVE  /\ insts[i] \in InstIn(n)
               /\ [insts[i] EXCEPT !.to = Append(@, case)] \in InstIn(n)
    <3>1. insts[i] \in InstIn(n)  BY <2>2, ElementOfSeq
    <3>2. insts[i].to \in Seq(2..n)  BY <3>1 DEF InstIn
    <3>3. Append(insts[i].to, case) \in Seq(2..n)  BY <3>2, AppendProperties
    <3> QED  BY <3>1, <3>3 DEF InstIn
  <2>3. f \in [1..m -> InstIn(n)]  BY <2>2 DEF WithCase
  <2> HIDE DEF f
  <2>4. f \in Seq(InstIn(n)) /\ Len(f) = m  BY <2>1, <2>3, FunctionIsSeq
  <2> QED  BY <2>4 DEF f
<1>2. /\ cs = [b \in 1..n |-> cs[b]]
      /\ \A b \in 1..n : cs[b] =
           [name  |-> bs[b].name,
            insts |-> WithCase(bs[b].insts, d, case),
            preds |-> IF b = case THEN <<a>> \o bs[b].preds ELSE bs[b].preds]
  BY DEF AddCase
<1>. HIDE DEF cs
<1>3. ASSUME NEW b \in 1..n
      PROVE  /\ cs[b] \in BlockIn(n)
             /\ bs[b].insts # <<>> => cs[b].insts # <<>>
             /\ cs[b].name = bs[b].name
             /\ b # case => cs[b].preds = bs[b].preds
  <2>1. /\ bs[b] \in BlockIn(n) /\ bs[b].insts \in Seq(InstIn(n))
        /\ bs[b].preds \in Seq(1..n)
    BY LinkedProperties
  <2>2. /\ cs[b].insts \in Seq(InstIn(n))
        /\ Len(cs[b].insts) = Len(bs[b].insts)
    <3>1. cs[b].insts = WithCase(bs[b].insts, d, case)  BY <1>2
    <3> QED  BY <2>1, <3>1, <1>1
  <2>3. cs[b].preds \in Seq(1..n)
    <3>1. <<a>> \in Seq(1..n)  OBVIOUS
    <3>2. <<a>> \o bs[b].preds \in Seq(1..n)  BY <3>1, <2>1, ConcatProperties
    <3>3. cs[b].preds \in {<<a>> \o bs[b].preds, bs[b].preds}  BY <1>2
    <3> QED  BY <3>2, <3>3, <2>1
  <2>4. cs[b].name = bs[b].name /\ cs[b].name \in Names  BY <1>2, <2>1 DEF BlockIn
  <2>5. cs[b] = [name |-> cs[b].name, insts |-> cs[b].insts, preds |-> cs[b].preds]
    BY <1>2
  <2>6. cs[b] \in BlockIn(n)  BY <2>2, <2>3, <2>4, <2>5 DEF BlockIn
  <2>7. bs[b].insts # <<>> => cs[b].insts # <<>>
    BY <2>1, <2>2, EmptySeq
  <2>8. b # case => cs[b].preds = bs[b].preds  BY <1>2
  <2> QED  BY <2>4, <2>6, <2>7, <2>8
<1>4. cs \in [1..n -> BlockIn(n)]
  BY <1>2, <1>3
<1>5. cs \in Seq(BlockIn(n)) /\ Len(cs) = n
  BY <1>0, <1>4, FunctionIsSeq
<1>6. Linked(cs)
  BY <1>5 DEF Linked
<1>7. Grown(bs, cs)
  <2>1. 1 \in 1..n /\ 1 # case
    BY <1>0
  <2> QED  BY <1>0, <1>3, <1>5, <2>1 DEF Grown
<1> QED  BY <1>5, <1>6, <1>7 DEF cs

(* New blocks are empty and nothing names them yet.                        *)
LEMMA FreshProperties ==
  ASSUME NEW bs, Linked(bs), NEW new \in Seq({Fresh(x) : x \in Names})
  PROVE  /\ Linked(bs \o new)
         /\ Len(bs \o new) = Len(bs) + Len(new)
         /\ Grown(bs, bs \o new)
         /\ \A b \in 1..Len(bs) : (bs \o new)[b] = bs[b]
<1> DEFINE m == Len(bs)
           n == Len(bs) + Len(new)
           cs == bs \o new
<1>1. m \in Nat /\ Len(new) \in Nat
  BY LenProperties DEF Linked
<1>2. {Fresh(x) : x \in Names} \subseteq BlockIn(n)
  <2> SUFFICES ASSUME NEW x \in Names  PROVE Fresh(x) \in BlockIn(n)
    OBVIOUS
  <2>1. <<>> \in Seq(InstIn(n)) /\ <<>> \in Seq(1..n)  BY EmptySeq
  <2> QED  BY <2>1 DEF Fresh, BlockIn
<1>3. new \in Seq(BlockIn(n))
  BY <1>2, SeqMonotonic
<1>4. bs \in Seq(BlockIn(n))
  <2>1. BlockIn(m) \subseteq BlockIn(n)
    <3>1. n \in Nat /\ m <= n  BY <1>1
    <3> HIDE DEF m, n
    <3> QED  BY <1>1, <3>1, BlockWiden
  <2>2. bs \in Seq(BlockIn(m))  BY DEF Linked
  <2> QED  BY <2>1, <2>2, SeqMonotonic
<1>5. /\ cs \in Seq(BlockIn(n)) /\ Len(cs) = n
      /\ \A i \in 1..n : cs[i] = IF i <= m THEN bs[i] ELSE new[i - m]
  BY <1>3, <1>4, ConcatProperties
<1>. HIDE DEF cs
<1>6. \A b \in 1..m : cs[b] = bs[b]
  BY <1>1, <1>5
<1>7. Grown(bs, cs)
  <2>1. bs # <<>> => 1 \in 1..m  BY <1>4, EmptySeq
  <2> QED  BY <1>1, <1>5, <1>6, <2>1 DEF Grown
<1> QED  BY <1>5, <1>6, <1>7 DEF cs, Linked

(* Growing again is growing.                                               *)
LEMMA GrownTransitive ==
  ASSUME NEW bs, NEW cs, NEW ds, Grown(bs, cs), Grown(cs, ds),
         Len(bs) \in Nat, Len(cs) \in Nat, Len(ds) \in Nat,
         bs # <<>> => cs # <<>>
  PROVE  Grown(bs, ds)
BY DEF Grown

------------------------------------------------------------------------------
(* Steps and what they keep *)

Grows ==
  /\ prog' = prog
  /\ Linked(blocks') /\ Grown(blocks, blocks')
  /\ ToSet(layout) \subseteq ToSet(layout')
  /\ lowered \subseteq lowered'
  /\ \A n \in Node : /\ held[n].a # 0 => held'[n].a # 0
                     /\ held[n].b # 0 => held'[n].b # 0

------------------------------------------------------------------------------
(* What stays true when blocks are added and members are set. *)

(* More blocks can be named, and more stand in the function.               *)
LEMMA MadeGrows ==
  ASSUME IInv, Grows
  PROVE  /\ Len(blocks) \in Nat /\ Len(blocks') \in Nat
         /\ Len(blocks) <= Len(blocks')
         /\ Made \subseteq Made' /\ Jumpable \subseteq Jumpable'
         /\ Standing \subseteq Standing'
<1>1. Len(blocks) \in Nat /\ Len(blocks') \in Nat
  BY LenProperties DEF IInv, BlocksOK, Linked, Grows
<1> QED  BY <1>1 DEF Grows, Grown, Made, Jumpable, Standing

(* Steps that only add blocks and instructions keep the blocks linked and  *)
(* the entry without predecessors.                                         *)
LEMMA BlocksGrow ==
  ASSUME IInv, Grows
  PROVE  BlocksOK'
<1>1. blocks' # <<>>
  <2>1. Len(blocks) # 0  BY EmptySeq DEF IInv, BlocksOK, Linked
  <2>2. Len(blocks') # 0  BY <2>1, MadeGrows
  <2> QED  BY <2>2
<1> QED  BY <1>1 DEF Grows, Grown, IInv, BlocksOK

(* A layout the step leaves alone still names blocks that exist.           *)
LEMMA LayoutGrows ==
  ASSUME IInv, Grows, layout' = layout
  PROVE  LayoutOK'
<1>1. layout \in Seq(Made')
  BY MadeGrows, SeqMonotonic DEF IInv, LayoutOK
<1> QED  BY <1>1 DEF IInv, LayoutOK

(* An insertion point the step leaves alone stays inside an existing       *)
(* block, and before an instruction if it was.                             *)
LEMMA IpGrows ==
  ASSUME IInv, Grows, ip' = ip
  PROVE  IpOK'
BY MadeGrows DEF Grows, Grown, IInv, IpOK, Made

(* The blocks an If or a While keeps for its scope exit stay valid while   *)
(* nothing assigns them.                                                   *)
LEMMA HeldGrows ==
  ASSUME IInv, Grows, held' = held
  PROVE  HeldOK'
BY MadeGrows DEF Grows, IInv, HeldOK, TreeOK

(* The blocks Body::codegen noted for its defers still exist.              *)
LEMMA DeferralsGrow ==
  ASSUME IInv, Grows, deferrals' = deferrals
  PROVE  DeferralsOK'
BY MadeGrows DEF Grows, IInv, DeferralsOK

(* A statement whose scope can be ended stays one.                         *)
LEMMA ReadyGrows ==
  ASSUME IInv, Grows, NEW n \in Node, NEW S, NEW T, S \subseteq T, Ready(n, S)
  PROVE  /\ prog'[n].kind = "body" =>
              \A j \in 1..Len(prog'[n].kids) : prog'[n].kids[j] \in T
         /\ prog'[n].kind \in {"if", "while", "for"} => prog'[n].kids[1] \in T
         /\ prog'[n].kind \in {"if", "while"} => held'[n].a # 0
         /\ prog'[n].kind = "if" /\ Len(prog'[n].kids) = 2 =>
              held'[n].b # 0 /\ prog'[n].kids[2] \in T
BY DEF Grows, Ready

(* What has been lowered stays ready for runScopeExit.                     *)
LEMMA LoweredGrows ==
  ASSUME IInv, Grows, lowered' = lowered
  PROVE  LoweredOK'
<1>1. \A n \in lowered : n \in Node /\ Ready(n, lowered)
  BY DEF IInv, LoweredOK
<1>2. \A n \in lowered : Ready(n, lowered)'
  BY <1>1, ReadyGrows DEF Ready
<1> QED  BY <1>2 DEF IInv, LoweredOK

(* One more statement has been lowered.                                    *)
LEMMA LoweredMore ==
  ASSUME IInv, Grows, NEW m \in Node, lowered' = lowered \cup {m},
         Ready(m, lowered)'
  PROVE  LoweredOK'
<1>1. \A n \in lowered : n \in Node /\ Ready(n, lowered)
  BY DEF IInv, LoweredOK
<1>2. \A n \in lowered : Ready(n, lowered)'
  BY <1>1, ReadyGrows DEF Grows, Ready
<1> QED  BY <1>2 DEF IInv, LoweredOK

(* What a call knows it still knows.                                       *)
LEMMA FrameGrows ==
  ASSUME IInv, Grows, NEW f \in Frame, NEW S, NEW T, S \subseteq T,
         FrameOK(f, S)
  PROVE  FrameOK(f, T)'
<1>1. f.todo \in Seq(Made')
  BY MadeGrows, SeqMonotonic DEF FrameOK
<1>2. f.n \in Node
  BY DEF Frame
<1>3. CodegenOK(f, S) => CodegenOK(f, T)'
  BY MadeGrows, <1>2 DEF CodegenOK, Grows
<1>4. ExitOK(f, S) => ExitOK(f, T)'
  BY MadeGrows DEF ExitOK, Grows
<1> QED  BY <1>1, <1>3, <1>4, MadeGrows DEF FrameOK, Grows

------------------------------------------------------------------------------
(* The stack *)

LEMMA BelowProperties ==
  ASSUME StackOK, stack # <<>>
  PROVE  /\ Len(stack) \in Nat \ {0}
         /\ Below \in Seq(Frame) /\ Len(Below) = Len(stack) - 1
         /\ \A k \in 1..Len(stack) - 1 : Below[k] = stack[k]
         /\ \A k \in 1..Len(stack) : stack[k] \in Frame /\ FrameOK(stack[k], Promised(k))
         /\ Top \in Frame /\ FrameOK(Top, lowered)
<1>1. stack \in Seq(Frame) /\ Len(stack) \in Nat \ {0}
  BY EmptySeq DEF StackOK
<1>2. \A k \in 1..Len(stack) : stack[k] \in Frame /\ FrameOK(stack[k], Promised(k))
  BY <1>1, ElementOfSeq DEF StackOK
<1>3. /\ Below \in Seq(Frame) /\ Len(Below) = Len(stack) - 1
      /\ \A k \in 1..Len(stack) - 1 : Below[k] = stack[k]
  <2> DEFINE n == Len(stack) - 1
  <2>1. n \in Nat /\ \A k \in 1..n : stack[k] \in Frame  BY <1>1, <1>2
  <2> HIDE DEF n
  <2>2. /\ SubSeq(stack, 1, n) \in Seq(Frame)
        /\ Len(SubSeq(stack, 1, n)) = IF 1 <= n THEN n - 1 + 1 ELSE 0
        /\ \A k \in 1..n - 1 + 1 : SubSeq(stack, 1, n)[k] = stack[1 + k - 1]
    BY <2>1, SubSeqProperties
  <2>3. \A k \in 1..n : SubSeq(stack, 1, n)[k] = stack[k]
    <3> TAKE k \in 1..n
    <3>1. k \in 1..n - 1 + 1 /\ 1 + k - 1 = k  BY <2>1
    <3> QED  BY <3>1, <2>2
  <2>4. Len(SubSeq(stack, 1, n)) = n
    <3>1. n - 1 + 1 = n /\ (n < 1 => n = 0)  BY <2>1
    <3> QED  BY <2>1, <2>2, <3>1
  <2> QED  BY <2>2, <2>3, <2>4 DEF Below, n
<1>4. Top \in Frame /\ FrameOK(Top, lowered)
  <2>1. Len(stack) \in 1..Len(stack) /\ ~(Len(stack) < Len(stack))  BY <1>1
  <2>2. Promised(Len(stack)) = lowered  BY <2>1 DEF Promised
  <2> QED  BY <1>2, <2>1, <2>2 DEF Top
<1> QED  BY <1>1, <1>2, <1>3, <1>4

(* The calls under the running one are not disturbed: the one right below  *)
(* counts on Top.n, any other on the call above it.                        *)
LEMMA BelowGrows ==
  ASSUME IInv, Grows, stack # <<>>, NEW k \in 1..Len(stack) - 1, NEW T,
         NEW f, f = stack[k], lowered' \subseteq T,
         k < Len(stack) - 1 => stack[k + 1].n \in T,
         k = Len(stack) - 1 => Top.n \in T
  PROVE  FrameOK(f, T)'
<1>1. /\ k \in 1..Len(stack) /\ Len(stack) \in Nat \ {0}
      /\ stack[k] \in Frame /\ FrameOK(stack[k], Promised(k))
  BY BelowProperties DEF IInv
<1>2. Promised(k) = lowered \cup {stack[k + 1].n}
  BY <1>1 DEF Promised
<1>3. stack[k + 1].n \in T
  <2>1. k < Len(stack) - 1 \/ k = Len(stack) - 1  BY <1>1
  <2>2. k = Len(stack) - 1 => k + 1 = Len(stack)  BY <1>1
  <2> QED  BY <2>1, <2>2 DEF Top
<1>4. Promised(k) \subseteq T
  BY <1>2, <1>3 DEF Grows
<1>6. PICK S : S = Promised(k)
  OBVIOUS
<1>7. f \in Frame /\ FrameOK(f, S)
  BY <1>1, <1>6
<1> QED  BY <1>4, <1>6, <1>7, FrameGrows

(* A call returns, having lowered its statement or not needing to.         *)
LEMMA ReturnOK ==
  ASSUME IInv, Grows, stack # <<>>, Return, Top.n \in lowered'
  PROVE  StackOK'
<1>1. /\ Len(stack) \in Nat \ {0} /\ stack' \in Seq(Frame)
      /\ Len(stack') = Len(stack) - 1
      /\ \A k \in 1..Len(stack') : stack'[k] = stack[k]
  BY BelowProperties DEF IInv, Return
<1>2. ASSUME NEW k \in 1..Len(stack')
      PROVE  FrameOK(stack[k], Promised(k))'
  <2>1. k \in 1..Len(stack) - 1 /\ stack'[k] = stack[k]
    BY <1>1, <1>2
  <2>2. PICK T : T = Promised(k)'
    OBVIOUS
  <2>3. PICK f : f = stack[k]
    OBVIOUS
  <2>4. lowered' \subseteq T
    BY <2>2 DEF Promised
  <2>5. k < Len(stack) - 1 => stack[k + 1].n \in T
    <3> HAVE k < Len(stack) - 1
    <3>1. k < Len(stack') /\ k + 1 \in 1..Len(stack')  BY <1>1, <2>1
    <3> QED  BY <1>1, <2>2, <3>1 DEF Promised
  <2>6. Top.n \in T
    BY <2>4
  <2>7. FrameOK(f, T)'
    BY <2>1, <2>3, <2>4, <2>5, <2>6, BelowGrows
  <2> QED  BY <2>1, <2>2, <2>3, <2>7
<1> QED  BY <1>1, <1>2 DEF StackOK

(* The running call is replaced: by itself, further on, or by the last     *)
(* call it makes, when it does not owe anything any more.                  *)
LEMMA BecomeOK ==
  ASSUME IInv, Grows, stack # <<>>, NEW f \in Frame, Become(f),
         f.n = Top.n \/ Top.n \in lowered', FrameOK(f, lowered)'
  PROVE  StackOK'
<1>1. /\ Len(stack) \in Nat \ {0} /\ stack' \in Seq(Frame)
      /\ Len(stack') = Len(stack) /\ stack'[Len(stack)] = f
      /\ \A k \in 1..Len(stack) - 1 : stack'[k] = stack[k]
  <2>1. /\ Len(stack) \in Nat \ {0} /\ Below \in Seq(Frame)
        /\ Len(Below) = Len(stack) - 1
        /\ \A k \in 1..Len(stack) - 1 : Below[k] = stack[k]
    BY BelowProperties DEF IInv
  <2>2. /\ stack' \in Seq(Frame) /\ Len(stack') = Len(Below) + 1
        /\ \A k \in 1..Len(Below) : stack'[k] = Below[k]
        /\ stack'[Len(Below) + 1] = f
    BY <2>1, AppendProperties DEF Become
  <2>3. Len(Below) + 1 = Len(stack)  BY <2>1
  <2> QED  BY <2>1, <2>2, <2>3
<1>2. ASSUME NEW k \in 1..Len(stack')
      PROVE  FrameOK(stack[k], Promised(k))'
  <2>1. PICK T : T = Promised(k)'
    OBVIOUS
  <2>2. PICK g : g = stack'[k]
    OBVIOUS
  <2>3. lowered' \subseteq T
    BY <2>1 DEF Promised
  <2>4. CASE k = Len(stack)
    <3>1. ~(k < Len(stack'))  BY <1>1, <2>4
    <3>2. g = f /\ T = lowered'  BY <1>1, <2>1, <2>2, <2>4, <3>1 DEF Promised
    <3> QED  BY <2>1, <2>2, <3>2
  <2>5. CASE k # Len(stack)
    <3>1. k \in 1..Len(stack) - 1 /\ stack'[k] = stack[k]  BY <1>1, <2>5
    <3>2. stack'[k + 1].n \in T
      <4>1. k < Len(stack')  BY <1>1, <3>1
      <4> QED  BY <2>1, <4>1 DEF Promised
    <3>3. k < Len(stack) - 1 => stack[k + 1].n \in T
      <4> HAVE k < Len(stack) - 1
      <4>1. k + 1 \in 1..Len(stack) - 1  BY <1>1, <3>1
      <4> QED  BY <1>1, <3>2, <4>1
    <3>4. k = Len(stack) - 1 => Top.n \in T
      <4> HAVE k = Len(stack) - 1
      <4>1. k + 1 = Len(stack)  BY <1>1
      <4> QED  BY <1>1, <2>3, <3>2, <4>1
    <3>5. FrameOK(g, T)'
      BY <2>2, <2>3, <3>1, <3>3, <3>4, BelowGrows
    <3> QED  BY <2>1, <2>2, <3>5
  <2> QED  BY <2>4, <2>5
<1> QED  BY <1>1, <1>2 DEF StackOK

(* The running call goes on as f when the call g it makes returns.         *)
LEMMA InvokeOK ==
  ASSUME IInv, Grows, stack # <<>>, NEW f \in Frame, NEW g \in Frame,
         Invoke(f, g), f.n = Top.n,
         FrameOK(f, lowered \cup {g.n})', FrameOK(g, lowered)'
  PROVE  StackOK'
<1>1. /\ Len(stack) \in Nat \ {0} /\ stack' \in Seq(Frame)
      /\ Len(stack') = Len(stack) + 1
      /\ stack'[Len(stack)] = f /\ stack'[Len(stack) + 1] = g
      /\ \A k \in 1..Len(stack) - 1 : stack'[k] = stack[k]
  <2>1. /\ Len(stack) \in Nat \ {0} /\ Below \in Seq(Frame)
        /\ Len(Below) = Len(stack) - 1
        /\ \A k \in 1..Len(stack) - 1 : Below[k] = stack[k]
    BY BelowProperties DEF IInv
  <2>2. <<f, g>> \in Seq(Frame) /\ Len(<<f, g>>) = 2
    OBVIOUS
  <2>3. /\ stack' \in Seq(Frame) /\ Len(stack') = Len(Below) + 2
        /\ \A k \in 1..Len(Below) + 2 :
             stack'[k] = IF k <= Len(Below) THEN Below[k] ELSE <<f, g>>[k - Len(Below)]
    BY <2>1, <2>2, ConcatProperties DEF Invoke
  <2>4. Len(Below) + 2 = Len(stack) + 1  BY <2>1
  <2>5. \A k \in 1..Len(stack) - 1 : stack'[k] = stack[k]
    BY <2>1, <2>3
  <2>6. stack'[Len(stack)] = f
    <3>1. /\ Len(stack) \in 1..Len(Below) + 2 /\ ~(Len(stack) <= Len(Below))
          /\ Len(stack) - Len(Below) = 1
      BY <2>1
    <3> QED  BY <2>3, <3>1
  <2>7. stack'[Len(stack) + 1] = g
    <3>1. /\ Len(stack) + 1 \in 1..Len(Below) + 2
          /\ ~(Len(stack) + 1 <= Len(Below)) /\ Len(stack) + 1 - Len(Below) = 2
      BY <2>1
    <3> QED  BY <2>3, <3>1
  <2> QED  BY <2>1, <2>3, <2>4, <2>5, <2>6, <2>7
<1>2. ASSUME NEW k \in 1..Len(stack')
      PROVE  FrameOK(stack[k], Promised(k))'
  <2>1. PICK T : T = Promised(k)'
    OBVIOUS
  <2>2. PICK h : h = stack'[k]
    OBVIOUS
  <2>3. lowered' \subseteq T
    BY <2>1 DEF Promised
  <2>4. CASE k = Len(stack) + 1
    <3>1. ~(k < Len(stack'))  BY <1>1, <2>4
    <3>2. h = g /\ T = lowered'  BY <1>1, <2>1, <2>2, <2>4, <3>1 DEF Promised
    <3> QED  BY <2>1, <2>2, <3>2
  <2>5. CASE k = Len(stack)
    <3>1. k < Len(stack')  BY <1>1, <2>5
    <3>2. h = f /\ T = lowered' \cup {g.n}
      BY <1>1, <2>1, <2>2, <2>5, <3>1 DEF Promised
    <3> QED  BY <2>1, <2>2, <3>2
  <2>6. CASE k \in 1..Len(stack) - 1
    <3>1. stack'[k] = stack[k]  BY <1>1, <2>6
    <3>2. stack'[k + 1].n \in T
      <4>1. k < Len(stack')  BY <1>1, <2>6
      <4> QED  BY <2>1, <4>1 DEF Promised
    <3>3. k < Len(stack) - 1 => stack[k + 1].n \in T
      <4> HAVE k < Len(stack) - 1
      <4>1. k + 1 \in 1..Len(stack) - 1  BY <1>1, <2>6
      <4> QED  BY <1>1, <3>2, <4>1
    <3>4. k = Len(stack) - 1 => Top.n \in T
      <4> HAVE k = Len(stack) - 1
      <4>1. k + 1 = Len(stack)  BY <1>1
      <4> QED  BY <1>1, <3>2, <4>1
    <3>5. FrameOK(h, T)'
      BY <2>2, <2>3, <2>6, <3>1, <3>3, <3>4, BelowGrows
    <3> QED  BY <2>1, <2>2, <3>5
  <2>7. k = Len(stack) + 1 \/ k = Len(stack) \/ k \in 1..Len(stack) - 1
    BY <1>1
  <2> QED  BY <2>4, <2>5, <2>6, <2>7
<1> QED  BY <1>1, <1>2 DEF StackOK

------------------------------------------------------------------------------
(* Steps that leave the code alone *)

DataOK ==
  /\ TreeOK /\ BlocksOK /\ LayoutOK /\ IpOK
  /\ HeldOK /\ DeferralsOK /\ LoweredOK

(* What is known of the running call.                                      *)
LEMMA RunningCall ==
  ASSUME IInv, stack # <<>>
  PROVE  /\ Top \in Frame /\ Top.n \in Node /\ FrameOK(Top, lowered)
         /\ Top.pc \in Nat /\ Top.i \in Nat
         /\ Me \in Tree /\ Me.arg \in Nat /\ Me.kids \in Seq(Node)
         /\ WellFormedNode(Me)
         /\ Len(Me.kids) \in Nat /\ \A k \in 1..Len(Me.kids) : Me.kids[k] \in Node
         /\ lowered \subseteq Node
<1>1. Top \in Frame /\ FrameOK(Top, lowered)
  BY BelowProperties DEF IInv
<1>2. Top.n \in Node /\ Top.pc \in Nat /\ Top.i \in Nat
  BY <1>1 DEF Frame
<1>3. Me \in Tree /\ WellFormedNode(Me)
  BY <1>2 DEF IInv, TreeOK, Me
<1>4. Me.kids \in Seq(Node) /\ Me.arg \in Nat
  BY <1>3 DEF Tree
<1>5. Len(Me.kids) \in Nat /\ \A k \in 1..Len(Me.kids) : Me.kids[k] \in Node
  BY <1>4, ElementOfSeq
<1> QED  BY <1>1, <1>2, <1>3, <1>4, <1>5 DEF IInv, LoweredOK

(* A step of a call finds that call on the stack.                          *)
LEMMA NotEmpty ==
  ASSUME IInv, Len(stack) \in 1..MaxStack - 1
  PROVE  stack # <<>>
BY StackAssumption, EmptySeq DEF IInv, StackOK

(* A step that only moves the call stack keeps every invariant about the   *)
(* data.                                                                   *)
LEMMA QuietStep ==
  ASSUME IInv, UNCHANGED <<tree, code, notes>>
  PROVE  Grows /\ DataOK'
<1>1. /\ prog' = prog /\ decl' = decl /\ blocks' = blocks /\ layout' = layout
      /\ ip' = ip /\ held' = held /\ deferrals' = deferrals /\ lowered' = lowered
  BY DEF tree, code, notes
<1>2. Grows
  BY <1>1 DEF IInv, BlocksOK, Grows, Grown, Linked
<1> QED  BY <1>1, <1>2, BlocksGrow, LayoutGrows, IpGrows, HeldGrows,
           DeferralsGrow, LoweredGrows DEF DataOK, IInv, TreeOK

(* So does one that only moves the insertion point (SetInsertPoint) to the *)
(* end, or before the last instruction, of an existing block.              *)
LEMMA IpStep ==
  ASSUME IInv, AndIp, ip' \in InsertPoint, ip'.at \in Made,
         ip'.back => blocks[ip'.at].insts # <<>>
  PROVE  Grows /\ DataOK' /\ status' = status
<1>1. /\ prog' = prog /\ decl' = decl /\ blocks' = blocks /\ layout' = layout
      /\ held' = held /\ deferrals' = deferrals /\ lowered' = lowered
      /\ status' = status
  BY DEF tree, notes, AndIp, Going
<1>2. Grows
  BY <1>1 DEF IInv, BlocksOK, Grows, Grown, Linked
<1>3. IpOK'
  BY <1>1 DEF IpOK, Made
<1> QED  BY <1>1, <1>2, <1>3, BlocksGrow, LayoutGrows, HeldGrows,
           DeferralsGrow, LoweredGrows DEF DataOK, IInv, TreeOK

(* A call that starts codegen knows nothing; a scope exit is only started  *)
(* for a statement that has been lowered.                                  *)
LEMMA EnterCodegen ==
  ASSUME NEW n \in Node, NEW S
  PROVE  Enter("codegen", n) \in Frame /\ FrameOK(Enter("codegen", n), S)
<1>1. <<>> \in Seq(Nat) /\ <<>> \in Seq(Made)
  BY EmptySeq
<1> QED  BY <1>1 DEF Enter, Frame, Acts, FrameOK, CodegenOK

(* A call of runScopeExit on a statement that has been lowered starts with *)
(* what it relies on.                                                      *)
LEMMA EnterExit ==
  ASSUME NEW n \in Node, NEW S, n \in lowered
  PROVE  Enter("exit", n) \in Frame /\ FrameOK(Enter("exit", n), S)
<1>1. <<>> \in Seq(Nat) /\ <<>> \in Seq(Made)
  BY EmptySeq
<1> QED  BY <1>1 DEF Enter, Frame, Acts, FrameOK, ExitOK

(* The three things a step does to the stack, when the code stays as it is *)
(* and nothing but the insertion point moves.                              *)
LEMMA CallStep ==
  ASSUME IInv, stack # <<>>, Grows, DataOK', status' = status,
         NEW f \in Frame, NEW g \in Frame, Invoke(f, g), f.n = Top.n,
         FrameOK(f, lowered \cup {g.n}), FrameOK(g, lowered)
  PROVE  IInv'
<1>1. lowered \cup {g.n} \subseteq lowered' \cup {g.n} /\ lowered \subseteq lowered'
  BY DEF Grows
<1>2. FrameOK(f, lowered \cup {g.n})'
  <2>1. PICK T : T = lowered' \cup {g.n}  OBVIOUS
  <2>2. PICK S : S = lowered \cup {g.n}  OBVIOUS
  <2>3. FrameOK(f, T)'  BY <1>1, <2>1, <2>2, FrameGrows
  <2> QED  BY <2>1, <2>3
<1>3. FrameOK(g, lowered)'
  <2>1. PICK T : T = lowered'  OBVIOUS
  <2>2. FrameOK(g, T)'  BY <1>1, <2>1, FrameGrows
  <2> QED  BY <2>1, <2>2
<1>4. StackOK'
  BY <1>2, <1>3, InvokeOK
<1> QED  BY <1>4 DEF IInv, DataOK

(* A call that goes on, or ends in a call to the scope exit of something   *)
(* lowered, leaves the stack consistent: its caller still gets what it was *)
(* promised.                                                               *)
LEMMA GoOnStep ==
  ASSUME IInv, stack # <<>>, Grows, DataOK', status' = status,
         NEW f \in Frame, Become(f), f.n = Top.n \/ Top.n \in lowered,
         FrameOK(f, lowered)
  PROVE  IInv'
<1>1. lowered \subseteq lowered'
  BY DEF Grows
<1>2. FrameOK(f, lowered)'
  <2>1. PICK T : T = lowered'  OBVIOUS
  <2>2. FrameOK(f, T)'  BY <1>1, <2>1, FrameGrows
  <2> QED  BY <2>1, <2>2
<1>3. StackOK'
  BY <1>1, <1>2, BecomeOK
<1> QED  BY <1>3 DEF IInv, DataOK

(* A call that returns hands its caller what it was promised: the          *)
(* statement has been lowered.                                             *)
LEMMA BackStep ==
  ASSUME IInv, stack # <<>>, Grows, DataOK', status' = status,
         Return, Top.n \in lowered'
  PROVE  IInv'
BY ReturnOK DEF IInv, DataOK

(* The calls that stay where they are know what they knew.                 *)
LEMMA StackGrows ==
  ASSUME IInv, Grows, stack' = stack, lowered' = lowered
  PROVE  StackOK'
<1>1. /\ Len(stack') = Len(stack) /\ \A k \in 1..Len(stack) : stack'[k] = stack[k]
  OBVIOUS
<1>2. ASSUME NEW k \in 1..Len(stack)  PROVE FrameOK(stack[k], Promised(k))'
  <2>1. PICK f : f = stack[k]  OBVIOUS
  <2>2. PICK S : S = Promised(k)  OBVIOUS
  <2>3. S = Promised(k)'  BY <2>2 DEF Promised
  <2>4. f \in Frame /\ FrameOK(f, S)
    BY <1>2, <2>1, <2>2, ElementOfSeq DEF IInv, StackOK
  <2>5. FrameOK(f, S)'  BY <2>4, FrameGrows
  <2> QED  BY <2>1, <2>3, <2>5
<1> QED  BY <1>1, <1>2 DEF IInv, StackOK

(* Ending (an error, a crash, an overflow) changes nothing but the status. *)
LEMMA StayStep ==
  ASSUME IInv, UNCHANGED <<tree, code, notes>>, stack' = stack,
         status' \in Statuses
  PROVE  IInv'
<1>1. Grows /\ DataOK' /\ lowered' = lowered
  BY QuietStep DEF notes
<1> QED  BY <1>1, StackGrows DEF IInv, DataOK

(* The statements the grammar promises are there.                          *)
LEMMA KidsThere ==
  ASSUME IInv, stack # <<>>
  PROVE  /\ Me.kind \in {"defer", "while", "for", "if"} => Kid(1) \in Node
         /\ Me.kind = "if" /\ HasElse => Kid(2) \in Node
         /\ Me.kind = "if" => Len(Me.kids) \in {1, 2}
         /\ Me.kind = "typeswitch" /\ Me.arg # 0 => Kid(Me.arg) \in Node
BY RunningCall DEF WellFormedNode, Kid, HasElse

------------------------------------------------------------------------------
(* runScopeExit *)

LEMMA ExitNothingStep ==
  ASSUME IInv, ExitNothing
  PROVE  IInv'
<1>1. stack # <<>>  BY NotEmpty DEF ExitNothing, InCall
<1>2. Grows /\ DataOK' /\ status' = status /\ Return /\ Top.act = "exit"
  BY QuietStep DEF ExitNothing, StackOnly, Going, InCall
<1>3. Top.n \in lowered'
  BY <1>1, <1>2, RunningCall DEF FrameOK, Grows
<1> QED  BY <1>1, <1>2, <1>3, BackStep

(* If::runScopeExit enters the then branch: thenBlock_ is set and the      *)
(* branch has been lowered.                                                *)
LEMMA ExitIfThenStep ==
  ASSUME IInv, ExitIfThen
  PROVE  IInv'
<1>1. stack # <<>> /\ status = "run"  BY NotEmpty DEF ExitIfThen, InCall
<1>2. Top.act = "exit" /\ Me.kind = "if" /\ Top.pc = 0 /\ AndIp
  BY DEF ExitIfThen, InCall
<1>3. Top.n \in lowered /\ Ready(Top.n, lowered)
  BY <1>1, <1>2, RunningCall DEF FrameOK, IInv, LoweredOK
<1>4. held[Top.n].a \in Made /\ Kid(1) \in lowered /\ Kid(1) \in Node
  BY <1>1, <1>2, <1>3, RunningCall, KidsThere DEF Ready, Me, Kid, IInv, HeldOK, Made
<1>5. Grows /\ DataOK' /\ status' = status
  <2>1. ip' = AtEnd(held[Top.n].a)  BY DEF ExitIfThen
  <2> QED  BY <1>2, <1>4, <2>1, IpStep DEF AtEnd, InsertPoint, Made
<1>6. /\ Enter("exit", Kid(1)) \in Frame
      /\ FrameOK(Enter("exit", Kid(1)), lowered)
  BY <1>4, EnterExit
<1>7. CASE HasElse
  <2> DEFINE f == [Top EXCEPT !.pc = 1]
             g == Enter("exit", Kid(1))
  <2>1. f \in Frame /\ f.n = Top.n  BY <1>1, RunningCall DEF Frame
  <2>2. FrameOK(f, lowered \cup {g.n})
    BY <1>1, <1>2, <1>3, <1>7, RunningCall DEF FrameOK, ExitOK, HasElse, Me
  <2>3. Invoke(f, g)  BY <1>7 DEF ExitIfThen
  <2> HIDE DEF f, g
  <2>4. g \in Frame /\ FrameOK(g, lowered)  BY <1>6 DEF g
  <2> QED  BY <1>1, <1>5, <2>1, <2>2, <2>3, <2>4, CallStep
<1>8. CASE ~HasElse
  <2>1. Become(Enter("exit", Kid(1)))  BY <1>8 DEF ExitIfThen
  <2> QED  BY <1>1, <1>3, <1>5, <1>6, <2>1, GoOnStep
<1> QED  BY <1>7, <1>8

(* What a running scope exit knows.                                        *)
LEMMA ExitCall ==
  ASSUME IInv, NEW kind, NEW pc, InCall("exit", kind, pc)
  PROVE  /\ stack # <<>> /\ status = "run"
         /\ Top \in Frame /\ Top.n \in Node /\ Top.n \in lowered
         /\ Top.act = "exit" /\ Me.kind = kind /\ Top.pc = pc
         /\ Ready(Top.n, lowered) /\ ExitOK(Top, lowered)
         /\ Top.todo \in Seq(Made)
<1>1. stack # <<>> /\ status = "run" /\ Top.act = "exit" /\ Me.kind = kind /\ Top.pc = pc
  BY NotEmpty DEF InCall
<1>2. Top \in Frame /\ Top.n \in Node /\ FrameOK(Top, lowered)
  BY <1>1, RunningCall
<1>3. Top.n \in lowered /\ ExitOK(Top, lowered) /\ Top.todo \in Seq(Made)
  BY <1>1, <1>2 DEF FrameOK
<1> QED  BY <1>1, <1>2, <1>3 DEF IInv, LoweredOK

(* A scope exit that goes on in the same statement.                        *)
LEMMA ExitFrame ==
  ASSUME NEW f \in Frame, NEW S, f.act = "exit", f.n \in lowered,
         f.todo \in Seq(Made), ExitOK(f, S)
  PROVE  FrameOK(f, S)
BY DEF FrameOK

(* If::runScopeExit goes on with the else branch: elseBlock_ is set.       *)
LEMMA ExitIfElseStep ==
  ASSUME IInv, ExitIfElse
  PROVE  IInv'
<1>1. /\ stack # <<>> /\ Top.n \in lowered /\ Top.n \in Node /\ Me.kind = "if"
      /\ Len(Me.kids) = 2 /\ Ready(Top.n, lowered)
  BY ExitCall DEF ExitIfElse, ExitOK, Me
<1>2. held[Top.n].b \in Made /\ Kid(2) \in lowered /\ Kid(2) \in Node
  BY <1>1, KidsThere DEF Ready, Me, Kid, HasElse, IInv, HeldOK, Made
<1>3. Grows /\ DataOK' /\ status' = status
  <2>1. ip' = AtEnd(held[Top.n].b) /\ AndIp  BY DEF ExitIfElse
  <2> QED  BY <1>2, <2>1, IpStep DEF AtEnd, InsertPoint, Made
<1>4. Become(Enter("exit", Kid(2)))
  BY DEF ExitIfElse
<1> QED  BY <1>1, <1>2, <1>3, <1>4, EnterExit, GoOnStep

(* While::runScopeExit moves to deferBlock_, which is set.                 *)
LEMMA ExitWhileStep ==
  ASSUME IInv, ExitWhile
  PROVE  IInv'
<1>1. /\ stack # <<>> /\ Top.n \in lowered /\ Top.n \in Node /\ Me.kind = "while"
      /\ Ready(Top.n, lowered)
  BY ExitCall DEF ExitWhile
<1>2. held[Top.n].a \in Made /\ Kid(1) \in lowered /\ Kid(1) \in Node
  BY <1>1, KidsThere DEF Ready, Me, Kid, IInv, HeldOK, Made
<1>3. Grows /\ DataOK' /\ status' = status
  <2>1. ip' = AtEnd(held[Top.n].a) /\ AndIp  BY DEF ExitWhile
  <2> QED  BY <1>2, <2>1, IpStep DEF AtEnd, InsertPoint, Made
<1>4. Become(Enter("exit", Kid(1)))
  BY DEF ExitWhile
<1> QED  BY <1>1, <1>2, <1>3, <1>4, EnterExit, GoOnStep

(* For::runScopeExit passes on to the body of the loop.                    *)
LEMMA ExitForStep ==
  ASSUME IInv, ExitFor
  PROVE  IInv'
<1>1. /\ stack # <<>> /\ Top.n \in lowered /\ Top.n \in Node /\ Me.kind = "for"
      /\ Ready(Top.n, lowered)
  BY ExitCall DEF ExitFor
<1>2. Kid(1) \in lowered /\ Kid(1) \in Node
  BY <1>1, KidsThere DEF Ready, Me, Kid
<1>3. Grows /\ DataOK' /\ status' = status /\ Become(Enter("exit", Kid(1)))
  BY QuietStep DEF ExitFor, StackOnly, Going
<1> QED  BY <1>1, <1>2, <1>3, EnterExit, GoOnStep

(* Body::runScopeExit takes the block it starts in as current.             *)
LEMMA ExitBodyStep ==
  ASSUME IInv, ExitBody
  PROVE  IInv'
<1> DEFINE f == [Top EXCEPT !.pc = 1, !.x = ip.at]
<1>1. /\ stack # <<>> /\ Top.n \in lowered /\ Top \in Frame /\ Me.kind = "body"
      /\ Top.act = "exit" /\ Top.todo \in Seq(Made)
  BY ExitCall DEF ExitBody
<1>2. ip.at \in Made /\ ip.at \in Nat
  BY DEF IInv, IpOK, Made
<1>3. f \in Frame /\ f.n = Top.n
  BY <1>1, <1>2 DEF Frame
<1>4. FrameOK(f, lowered)
  <2>1. f.act = "exit" /\ f.todo = Top.todo /\ f.x = ip.at
    BY <1>1 DEF Frame
  <2>2. ExitOK(f, lowered)
    BY <1>1, <1>2, <1>3, <2>1 DEF ExitOK, Me
  <2> HIDE DEF f
  <2> QED  BY <1>1, <1>3, <2>1, <2>2, ExitFrame
<1>5. Grows /\ DataOK' /\ status' = status /\ Become(f)
  BY QuietStep DEF ExitBody, StackOnly, Going
<1> HIDE DEF f
<1> QED  BY <1>1, <1>3, <1>4, <1>5, GoOnStep

(* The body's exit goes on after a change of its loop index.               *)
LEMMA ExitBodyGoesOn ==
  ASSUME IInv, NEW pc \in {1, 2}, InCall("exit", "body", pc),
         NEW q \in {1, 2}, NEW i \in Nat, NEW S, lowered \subseteq S
  PROVE  /\ [Top EXCEPT !.pc = q, !.i = i] \in Frame
         /\ FrameOK([Top EXCEPT !.pc = q, !.i = i], S)
<1> DEFINE f == [Top EXCEPT !.pc = q, !.i = i]
<1>1. /\ Top.n \in lowered /\ Top \in Frame /\ Me.kind = "body"
      /\ Top.act = "exit" /\ Top.todo \in Seq(Made) /\ Top.x \in Made
  BY ExitCall DEF ExitOK, Me
<1>2. /\ f \in Frame /\ f.n = Top.n /\ f.act = "exit" /\ f.todo = Top.todo
      /\ f.x = Top.x
  <2>1. q \in Nat  OBVIOUS
  <2> QED  BY <1>1, <2>1 DEF Frame
<1> HIDE DEF f
<1>3. ExitOK(f, S)
  BY <1>1, <1>2 DEF ExitOK, Me
<1>4. FrameOK(f, S)
  BY <1>1, <1>2, <1>3, ExitFrame
<1> QED  BY <1>2, <1>4 DEF f

(* It ends the scope of each statement of the body, all of them lowered.   *)
LEMMA ExitBodyStmtStep ==
  ASSUME IInv, ExitBodyStmt
  PROVE  IInv'
<1> DEFINE i == Top.i + 1
           f == [Top EXCEPT !.i = @ + 1]
           k == Kid(i)
<1>1. /\ InCall("exit", "body", 1) /\ stack # <<>> /\ Top \in Frame
      /\ Top.n \in lowered /\ Top.pc = 1 /\ Ready(Top.n, lowered)
      /\ Me.kind = "body"
  BY ExitCall DEF ExitBodyStmt
<1>2. i \in Nat /\ i \in 1..Len(Me.kids)
  BY <1>1, RunningCall DEF ExitBodyStmt
<1>3. f = [Top EXCEPT !.pc = 1, !.i = i] /\ f.n = Top.n
  BY <1>1 DEF Frame
<1>4. k \in lowered /\ k \in Node
  BY <1>1, <1>2, RunningCall DEF Ready, Me, Kid
<1>5. Grows /\ DataOK' /\ status' = status
  BY QuietStep DEF ExitBodyStmt, StackOnly, Going
<1>6. IF prog[k].kind = "defer" THEN Become(f) ELSE Invoke(f, Enter("exit", k))
  BY DEF ExitBodyStmt
<1> HIDE DEF f, i, k
<1>7. f \in Frame /\ \A S : lowered \subseteq S => FrameOK(f, S)
  <2>1. 1 \in {1, 2}  OBVIOUS
  <2> QED  BY <1>1, <1>2, <1>3, <2>1, ExitBodyGoesOn
<1> DEFINE g == Enter("exit", k)
<1>8. g \in Frame /\ FrameOK(g, lowered) /\ g.n = k
  BY <1>4, EnterExit DEF Enter
<1> HIDE DEF g
<1>9. CASE prog[k].kind = "defer"
  BY <1>1, <1>3, <1>5, <1>6, <1>7, <1>9, GoOnStep
<1>10. CASE prog[k].kind # "defer"
  <2>1. Invoke(f, g)  BY <1>6, <1>10 DEF g
  <2>2. FrameOK(f, lowered \cup {g.n})  BY <1>7
  <2> QED  BY <1>1, <1>3, <1>5, <1>7, <1>8, <2>1, <2>2, CallStep
<1> QED  BY <1>9, <1>10

(* It goes on to the defers.                                               *)
LEMMA ExitBodyDefersStep ==
  ASSUME IInv, ExitBodyDefers
  PROVE  IInv'
<1> DEFINE f == [Top EXCEPT !.pc = 2, !.i = 0]
<1>1. InCall("exit", "body", 1) /\ stack # <<>> /\ Top \in Frame
  BY ExitCall DEF ExitBodyDefers
<1>2. f.n = Top.n  BY <1>1 DEF Frame
<1>3. Grows /\ DataOK' /\ status' = status /\ Become(f)
  BY QuietStep DEF ExitBodyDefers, StackOnly, Going
<1>4. f \in Frame /\ FrameOK(f, lowered)
  <2>1. 0 \in Nat /\ 1 \in {1, 2} /\ 2 \in {1, 2}  OBVIOUS
  <2> QED  BY <1>1, <2>1, ExitBodyGoesOn
<1> HIDE DEF f
<1> QED  BY <1>1, <1>2, <1>3, <1>4, GoOnStep

(* A defer is applied to blocks that were made.                            *)
LEMMA ApplyFrame ==
  ASSUME IInv, NEW n \in lowered, NEW x \in Made, NEW y \in Made,
         prog[n].kind = "defer", NEW S
  PROVE  /\ ApplyDefer(n, x, y) \in Frame
         /\ FrameOK(ApplyDefer(n, x, y), S)
         /\ ApplyDefer(n, x, y).n = n
<1>1. <<>> \in Seq(Nat) /\ <<>> \in Seq(Made)
  BY EmptySeq
<1>2. n \in Node /\ x \in Nat /\ y \in Nat
  BY DEF IInv, LoweredOK, Made
<1> QED  BY <1>1, <1>2 DEF ApplyDefer, Enter, Frame, Acts, FrameOK

(* It applies a remembered defer, from a block that exists.                *)
LEMMA ExitBodyDeferStep ==
  ASSUME IInv, ExitBodyDefer
  PROVE  IInv'
<1> DEFINE i == Top.i + 1
           f == [Top EXCEPT !.i = @ + 1]
           d == deferrals[Top.n][i]
           g == ApplyDefer(d.stmt, Top.x, d.at)
<1>1. /\ InCall("exit", "body", 2) /\ stack # <<>> /\ Top \in Frame
      /\ Top.n \in Node /\ Top.pc = 2 /\ Top.x \in Made
  BY ExitCall DEF ExitBodyDefer, ExitOK, Me
<1>2. i \in Nat /\ i \in 1..Len(deferrals[Top.n])
  <2>1. Top.i \in Nat  BY <1>1 DEF Frame
  <2>2. deferrals[Top.n] \in Seq(Deferral)  BY <1>1 DEF IInv, DeferralsOK
  <2>3. Len(deferrals[Top.n]) \in Nat  BY <2>2
  <2> QED  BY <2>1, <2>3 DEF ExitBodyDefer
<1>3. f = [Top EXCEPT !.pc = 2, !.i = i] /\ f.n = Top.n
  BY <1>1 DEF Frame
<1>4. d.at \in Made /\ d.stmt \in lowered /\ prog[d.stmt].kind = "defer"
  BY <1>1, <1>2 DEF IInv, DeferralsOK
<1>5. Grows /\ DataOK' /\ status' = status /\ Invoke(f, g)
  BY QuietStep DEF ExitBodyDefer, StackOnly, Going
<1> HIDE DEF f, i, d
<1>6. g \in Frame /\ FrameOK(g, lowered)
  BY <1>1, <1>4, ApplyFrame
<1> HIDE DEF g
<1>7. f \in Frame /\ FrameOK(f, lowered \cup {g.n})
  <2>1. 2 \in {1, 2} /\ lowered \subseteq lowered \cup {g.n}  OBVIOUS
  <2> QED  BY <1>1, <1>2, <1>3, <2>1, ExitBodyGoesOn
<1> QED  BY <1>1, <1>3, <1>5, <1>6, <1>7, CallStep

(* It returns, or reports the error of a tag.                              *)
LEMMA ExitBodyEndStep ==
  ASSUME IInv, ExitBodyEnd
  PROVE  IInv'
<1>1. /\ stack # <<>> /\ Top.n \in lowered /\ UNCHANGED <<tree, code, notes>>
  BY ExitCall DEF ExitBodyEnd
<1>2. CASE Return /\ Going
  <2>1. Grows /\ DataOK' /\ status' = status /\ Top.n \in lowered'
    BY <1>1, <1>2, QuietStep DEF Going, Grows
  <2> QED  BY <1>1, <1>2, <2>1, BackStep
<1>3. CASE EndWith("error")
  BY <1>1, <1>3, StayStep DEF EndWith, Statuses
<1> QED  BY <1>2, <1>3 DEF ExitBodyEnd

------------------------------------------------------------------------------
(* applyDefer and Defer::runScopeExit *)

(* What a running applyDefer knows.                                        *)
LEMMA ApplyCall ==
  ASSUME IInv, NEW pc, InCall("apply", "defer", pc)
  PROVE  /\ stack # <<>> /\ status = "run" /\ Top.pc = pc
         /\ Top \in Frame /\ Top.n \in Node /\ Top.n \in lowered
         /\ Top.act = "apply" /\ prog[Top.n].kind = "defer"
         /\ Top.x \in Made /\ Top.y \in Made /\ Top.todo \in Seq(Made)
<1>1. stack # <<>> /\ status = "run" /\ Top.act = "apply" /\ Top.pc = pc
  BY NotEmpty DEF InCall
<1>2. Top \in Frame /\ Top.n \in Node /\ FrameOK(Top, lowered)
  BY <1>1, RunningCall
<1> QED  BY <1>1, <1>2 DEF FrameOK

(* It goes on with any list of blocks that were made.                      *)
LEMMA ApplyGoesOn ==
  ASSUME IInv, NEW pc, InCall("apply", "defer", pc), NEW s \in Seq(Made), NEW S
  PROVE  /\ [Top EXCEPT !.pc = 1, !.todo = s] \in Frame
         /\ [Top EXCEPT !.pc = 1, !.todo = s].n = Top.n
         /\ FrameOK([Top EXCEPT !.pc = 1, !.todo = s], S)
<1> DEFINE f == [Top EXCEPT !.pc = 1, !.todo = s]
<1>1. s \in Seq(Nat)
  <2>1. Made \subseteq Nat  BY DEF Made
  <2> QED  BY <2>1, SeqMonotonic
<1>2. /\ f \in Frame /\ f.n = Top.n /\ f.act = "apply" /\ f.todo = s
      /\ f.x = Top.x /\ f.y = Top.y
  BY <1>1, ApplyCall DEF Frame
<1> HIDE DEF f
<1>3. FrameOK(f, S)
  BY <1>2, ApplyCall DEF FrameOK
<1> QED  BY <1>2, <1>3 DEF f

(* The blocks that can be reached from a block, or that lead to it.        *)
LEMMA Neighbours ==
  ASSUME IInv, NEW b \in Made
  PROVE  Succs(blocks, b) \in Seq(Made) /\ blocks[b].preds \in Seq(Made)
<1>1. Linked(blocks) /\ b \in 1..Len(blocks)
  BY DEF IInv, BlocksOK, Made
<1>2. 2..Len(blocks) \subseteq Made
  BY DEF Made
<1>3. Succs(blocks, b) \in Seq(2..Len(blocks)) /\ blocks[b].preds \in Seq(Made)
  BY <1>1, LinkedProperties DEF Made
<1>4. PICK J : J = 2..Len(blocks)
  OBVIOUS
<1> QED  BY <1>2, <1>3, <1>4, SeqMonotonic

(* Body::applyDefer moves to the block it was given.                       *)
LEMMA ApplyHereStep ==
  ASSUME IInv, ApplyHere
  PROVE  IInv'
<1>1. /\ stack # <<>> /\ Top.n \in lowered /\ Top.n \in Node /\ Top.y \in Made
  BY ApplyCall DEF ApplyHere
<1>2. Grows /\ DataOK' /\ status' = status
  <2>1. ip' = AtEnd(Top.y) /\ AndIp  BY DEF ApplyHere
  <2> QED  BY <1>1, <2>1, IpStep DEF AtEnd, InsertPoint, Made
<1>3. Become(Enter("exit", Top.n))
  BY DEF ApplyHere
<1> QED  BY <1>1, <1>2, <1>3, EnterExit, GoOnStep

(* It iterates over the successors of a block, all of which exist.         *)
LEMMA ApplyBranchStep ==
  ASSUME IInv, ApplyBranch
  PROVE  IInv'
<1> DEFINE s == Succs(blocks, Top.y)
           f == [Top EXCEPT !.pc = 1, !.todo = s]
<1>1. InCall("apply", "defer", 0) /\ stack # <<>>
  BY ApplyCall DEF ApplyBranch
<1>2. s \in Seq(Made)
  BY <1>1, ApplyCall, Neighbours
<1>3. Grows /\ DataOK' /\ status' = status /\ Become(f)
  BY QuietStep DEF ApplyBranch, StackOnly, Going
<1> HIDE DEF s
<1>4. f \in Frame /\ f.n = Top.n /\ FrameOK(f, lowered)
  BY <1>1, <1>2, ApplyGoesOn
<1> HIDE DEF f
<1> QED  BY <1>1, <1>3, <1>4, GoOnStep

(* It runs the defer in a successor or goes on searching from there.       *)
LEMMA ApplyNextStep ==
  ASSUME IInv, ApplyNext
  PROVE  IInv'
<1> DEFINE s == Tail(Top.todo)
           b == Head(Top.todo)
           f == [Top EXCEPT !.todo = Tail(@)]
<1>1. /\ InCall("apply", "defer", 1) /\ stack # <<>> /\ Top.todo # <<>>
      /\ Top \in Frame /\ Top.pc = 1 /\ Top.n \in lowered /\ Top.n \in Node
      /\ Top.x \in Made /\ Top.todo \in Seq(Made) /\ prog[Top.n].kind = "defer"
  BY ApplyCall DEF ApplyNext
<1>2. s \in Seq(Made) /\ b \in Made
  BY <1>1, HeadTailProperties
<1>3. f = [Top EXCEPT !.pc = 1, !.todo = s]
  BY <1>1 DEF Frame
<1>4. IF AppliesTo(b)
      THEN ip' = AtEnd(b) /\ Invoke(f, Enter("exit", Top.n))
      ELSE Invoke(f, ApplyDefer(Top.n, Top.x, b)) /\ ip' = ip
  BY DEF ApplyNext
<1>5. AndIp  BY DEF ApplyNext
<1> HIDE DEF s, b, f
<1>6. /\ f \in Frame /\ f.n = Top.n
      /\ \A S : FrameOK(f, S)
  BY <1>1, <1>2, <1>3, ApplyGoesOn
<1>7. CASE AppliesTo(b)
  <2> DEFINE g == Enter("exit", Top.n)
  <2>1. Grows /\ DataOK' /\ status' = status
    <3>1. ip' = AtEnd(b)  BY <1>4, <1>7
    <3> QED  BY <1>2, <1>5, <3>1, IpStep DEF AtEnd, InsertPoint, Made
  <2>2. Invoke(f, g)  BY <1>4, <1>7
  <2>3. g \in Frame /\ FrameOK(g, lowered)  BY <1>1, EnterExit
  <2> HIDE DEF g
  <2> QED  BY <1>1, <1>6, <2>1, <2>2, <2>3, CallStep
<1>8. CASE ~AppliesTo(b)
  <2> DEFINE g == ApplyDefer(Top.n, Top.x, b)
  <2>1. Grows /\ DataOK' /\ status' = status
    BY <1>4, <1>5, <1>8, IpStep DEF IInv, IpOK
  <2>2. Invoke(f, g)  BY <1>4, <1>8
  <2>3. g \in Frame /\ FrameOK(g, lowered)  BY <1>1, <1>2, ApplyFrame
  <2> HIDE DEF g
  <2> QED  BY <1>1, <1>6, <2>1, <2>2, <2>3, CallStep
<1> QED  BY <1>7, <1>8

(* It returns.                                                             *)
LEMMA ApplyEndStep ==
  ASSUME IInv, ApplyEnd
  PROVE  IInv'
<1>1. stack # <<>> /\ Top.n \in lowered
  BY ApplyCall DEF ApplyEnd
<1>2. Grows /\ DataOK' /\ status' = status /\ Return
  BY QuietStep DEF ApplyEnd, StackOnly, Going
<1> QED  BY <1>1, <1>2, BackStep DEF Grows

(* Defer::runScopeExit goes to the end of a block, or before its last      *)
(* instruction when there is one, and lowers the statement.                *)
LEMMA RunDeferStep ==
  ASSUME IInv, RunDefer
  PROVE  IInv'
<1>1. /\ stack # <<>> /\ status = "run" /\ Top \in Frame /\ Top.n \in lowered
      /\ Me.kind = "defer" /\ Top.act = "exit" /\ Top.todo \in Seq(Made)
  BY ExitCall DEF RunDefer
<1>2. PICK terminated \in BackIsTerminator(blocks, ip.at) :
        IF terminated /\ blocks[ip.at].insts = <<>>
        THEN EndWith("crash") /\ UNCHANGED ip
        ELSE /\ ip' = IF terminated THEN BeforeLast(ip.at) ELSE ip
             /\ Invoke([Top EXCEPT !.pc = 1], Enter("codegen", Kid(1)))
             /\ Going
  BY DEF RunDefer
<1>3. UNCHANGED <<tree, blocks, layout, notes>>
  BY DEF RunDefer
<1>4. CASE terminated /\ blocks[ip.at].insts = <<>>
  <2>1. UNCHANGED <<tree, code, notes>> /\ EndWith("crash")
    BY <1>2, <1>3, <1>4 DEF code
  <2> QED  BY <2>1, StayStep DEF EndWith, Statuses
<1>5. CASE ~(terminated /\ blocks[ip.at].insts = <<>>)
  <2> DEFINE f == [Top EXCEPT !.pc = 1]
             g == Enter("codegen", Kid(1))
  <2>1. ip' = IF terminated THEN BeforeLast(ip.at) ELSE ip
    BY <1>2, <1>5
  <2>2. Grows /\ DataOK' /\ status' = status
    <3>1. AndIp  BY <1>2, <1>3, <1>5 DEF AndIp
    <3>2. /\ ip' \in InsertPoint /\ ip'.at \in Made
          /\ ip'.back => blocks[ip'.at].insts # <<>>
      BY <1>5, <2>1 DEF BeforeLast, InsertPoint, IInv, IpOK, Made
    <3> QED  BY <3>1, <3>2, IpStep
  <2>3. Invoke(f, g)  BY <1>2, <1>5
  <2>4. Kid(1) \in Node  BY <1>1, KidsThere
  <2>5. g \in Frame /\ FrameOK(g, lowered) /\ g.n = Kid(1)
    BY <2>4, EnterCodegen DEF Enter
  <2>6. f \in Frame /\ f.n = Top.n /\ f.act = "exit" /\ f.todo = Top.todo /\ f.pc = 1
    BY <1>1 DEF Frame
  <2> HIDE DEF f, g
  <2>7. ExitOK(f, lowered \cup {g.n})
    BY <1>1, <2>5, <2>6 DEF ExitOK, Me, Kid
  <2>8. FrameOK(f, lowered \cup {g.n})
    BY <1>1, <2>6, <2>7, ExitFrame
  <2> QED  BY <1>1, <2>2, <2>3, <2>5, <2>6, <2>8, CallStep
<1> QED  BY <1>4, <1>5

(* The scope of a deferred statement is ended after it has been lowered    *)
(* again.                                                                  *)
LEMMA RunDeferExitStep ==
  ASSUME IInv, RunDeferExit
  PROVE  IInv'
<1>1. /\ stack # <<>> /\ Top.n \in lowered /\ Me.kind = "defer"
      /\ Kid(1) \in lowered
  BY ExitCall DEF RunDeferExit, ExitOK, Me, Kid
<1>2. Kid(1) \in Node  BY <1>1, KidsThere
<1>3. Grows /\ DataOK' /\ status' = status /\ Become(Enter("exit", Kid(1)))
  BY QuietStep DEF RunDeferExit, StackOnly, Going
<1> QED  BY <1>1, <1>2, <1>3, EnterExit, GoOnStep

(* Every step of runScopeExit keeps the invariant.                         *)
LEMMA ScopeExitStep ==
  ASSUME IInv, ScopeExit
  PROVE  IInv'
BY ExitNothingStep, ExitIfThenStep, ExitIfElseStep, ExitWhileStep, ExitForStep,
   ExitBodyStep, ExitBodyStmtStep, ExitBodyDefersStep, ExitBodyDeferStep,
   ExitBodyEndStep, ApplyHereStep, ApplyBranchStep, ApplyNextStep,
   ApplyEndStep, RunDeferStep, RunDeferExitStep
   DEF ScopeExit

------------------------------------------------------------------------------
(* codegen, where it leaves the blocks alone *)

(* What a running codegen knows.                                           *)
LEMMA CodegenCall ==
  ASSUME IInv, NEW kind, NEW pc, InCall("codegen", kind, pc)
  PROVE  /\ stack # <<>> /\ status = "run"
         /\ Top \in Frame /\ Top.n \in Node
         /\ Top.act = "codegen" /\ Me.kind = kind /\ Top.pc = pc
         /\ CodegenOK(Top, lowered) /\ Top.todo \in Seq(Made)
<1>1. /\ stack # <<>> /\ status = "run" /\ Top.act = "codegen"
      /\ Me.kind = kind /\ Top.pc = pc
  BY NotEmpty DEF InCall
<1>2. Top \in Frame /\ Top.n \in Node /\ FrameOK(Top, lowered)
  BY <1>1, RunningCall
<1> QED  BY <1>1, <1>2 DEF FrameOK

(* A codegen that goes on in the same statement.                           *)
LEMMA CodegenFrame ==
  ASSUME NEW f \in Frame, NEW S, f.act = "codegen",
         f.todo \in Seq(Made), CodegenOK(f, S)
  PROVE  FrameOK(f, S)
BY DEF FrameOK

(* A match goes on with one of its statements, or with none.               *)
LEMMA MatchGoesOn ==
  ASSUME IInv, NEW pc \in {1, 2, 3}, InCall("codegen", "match", pc),
         NEW q \in {1, 2, 3}, NEW i \in Nat, NEW S,
         q \in {2, 3} => i \in 1..Len(Me.kids) /\ Kid(i) \in S
  PROVE  /\ [Top EXCEPT !.pc = q, !.i = i] \in Frame
         /\ [Top EXCEPT !.pc = q, !.i = i].n = Top.n
         /\ FrameOK([Top EXCEPT !.pc = q, !.i = i], S)
<1> DEFINE f == [Top EXCEPT !.pc = q, !.i = i]
<1>1. q \in Nat /\ pc # 0  OBVIOUS
<1>2. /\ Top \in Frame /\ Top.n \in Node /\ Top.act = "codegen"
      /\ Me.kind = "match" /\ Top.pc = pc /\ Top.todo \in Seq(Made)
      /\ CodegenOK(Top, lowered)
  BY CodegenCall
<1>3. Top.x \in Jumpable /\ Top.y \in Standing /\ Len(Top.todo) = 1
  BY <1>1, <1>2 DEF CodegenOK, Me
<1>4. /\ f \in Frame /\ f.n = Top.n /\ f.act = "codegen" /\ f.todo = Top.todo
      /\ f.x = Top.x /\ f.y = Top.y /\ f.pc = q /\ f.i = i
  BY <1>1, <1>2 DEF Frame
<1> HIDE DEF f
<1>5. CodegenOK(f, S)
  BY <1>2, <1>3, <1>4 DEF CodegenOK, Me, Kid
<1>6. FrameOK(f, S)
  BY <1>2, <1>4, <1>5, CodegenFrame
<1> QED  BY <1>4, <1>6 DEF f

(* Match::exprMatch starts the arm of default in its block.                *)
LEMMA MatchDefaultStep ==
  ASSUME IInv, MatchDefault
  PROVE  IInv'
<1> DEFINE i == Top.i + 1
           k == Kid(i)
           f == [Top EXCEPT !.pc = 2, !.i = @ + 1]
           g == Enter("codegen", k)
<1>1. /\ InCall("codegen", "match", 1) /\ stack # <<>> /\ Top \in Frame
      /\ Top.n \in Node /\ Top.x \in Jumpable
  BY CodegenCall DEF MatchDefault, CodegenOK, Me
<1>2. i \in Nat /\ i \in 1..Len(Me.kids) /\ k \in Node
  BY <1>1, RunningCall DEF MatchDefault, Kid
<1>3. f = [Top EXCEPT !.pc = 2, !.i = i]
  BY <1>1 DEF Frame
<1>4. Invoke(f, g) /\ ip' = AtEnd(Top.x) /\ AndIp
  BY DEF MatchDefault
<1>5. Grows /\ DataOK' /\ status' = status
  BY <1>1, <1>4, IpStep DEF AtEnd, InsertPoint, Made, Jumpable
<1>6. g \in Frame /\ FrameOK(g, lowered) /\ g.n = k
  BY <1>2, EnterCodegen DEF Enter
<1> HIDE DEF i, f, g
<1>7. f \in Frame /\ f.n = Top.n /\ FrameOK(f, lowered \cup {g.n})
  <2>1. 1 \in {1, 2, 3} /\ 2 \in {1, 2, 3} /\ Kid(i) \in lowered \cup {g.n}
    BY <1>6
  <2> QED  BY <1>1, <1>2, <1>3, <2>1, MatchGoesOn
<1> QED  BY <1>1, <1>4, <1>5, <1>6, <1>7, CallStep

(* The scope of a match arm is ended after the arm has been lowered.       *)
LEMMA MatchArmExitStep ==
  ASSUME IInv, MatchArmExit
  PROVE  IInv'
<1> DEFINE i == Top.i
           k == Kid(i)
           f == [Top EXCEPT !.pc = 3]
           g == Enter("exit", k)
<1>1. /\ InCall("codegen", "match", 2) /\ stack # <<>> /\ Top \in Frame
      /\ Top.n \in Node /\ i \in 1..Len(Me.kids) /\ k \in lowered
  BY CodegenCall DEF MatchArmExit, CodegenOK, Me, Kid
<1>2. i \in Nat /\ k \in Node
  BY <1>1, RunningCall DEF Kid
<1>3. f = [Top EXCEPT !.pc = 3, !.i = i]
  BY <1>1 DEF Frame
<1>4. Grows /\ DataOK' /\ status' = status /\ Invoke(f, g)
  BY QuietStep DEF MatchArmExit, StackOnly, Going
<1>5. g \in Frame /\ FrameOK(g, lowered)
  BY <1>1, <1>2, EnterExit
<1> HIDE DEF i, f, g
<1>6. f \in Frame /\ f.n = Top.n /\ FrameOK(f, lowered \cup {g.n})
  <2>1. 2 \in {1, 2, 3} /\ 3 \in {1, 2, 3} /\ Kid(i) \in lowered \cup {g.n}
    BY <1>1
  <2> QED  BY <1>1, <1>2, <1>3, <2>1, MatchGoesOn
<1> QED  BY <1>1, <1>4, <1>5, <1>6, CallStep

(* A typeswitch lowers the option it selects, then ends that option's      *)
(* scope.                                                                  *)
LEMMA TypeSwitchStep ==
  ASSUME IInv, TypeSwitch \/ TypeSwitchExit
  PROVE  IInv'
<1>1. PICK pc \in {1, 2}, act \in {"codegen", "exit"} :
        /\ InCall("codegen", "typeswitch", pc - 1) /\ Me.arg # 0
        /\ pc = 2 => act = "exit" /\ Kid(Me.arg) \in lowered
        /\ pc = 1 => act = "codegen"
        /\ Invoke([Top EXCEPT !.pc = pc], Enter(act, Kid(Me.arg)))
        /\ StackOnly
  <2>1. CASE TypeSwitch
    <3>1. 1 \in {1, 2} /\ 1 - 1 = 0 /\ 1 # 2  OBVIOUS
    <3> QED  BY <2>1, <3>1 DEF TypeSwitch
  <2>2. CASE TypeSwitchExit
    <3>1. 2 \in {1, 2} /\ 2 - 1 = 1 /\ 1 # 2 /\ 1 # 0  OBVIOUS
    <3>2. InCall("codegen", "typeswitch", 1)  BY <2>2 DEF TypeSwitchExit
    <3>3. Me.arg # 0 /\ Kid(Me.arg) \in lowered
      BY <3>1, <3>2, CodegenCall DEF CodegenOK, Me, Kid
    <3> QED  BY <2>2, <3>1, <3>2, <3>3 DEF TypeSwitchExit
  <2> QED  BY <2>1, <2>2
<1> DEFINE k == Kid(Me.arg)
           f == [Top EXCEPT !.pc = pc]
           g == Enter(act, k)
<1>2. /\ stack # <<>> /\ Top \in Frame /\ Top.n \in Node /\ Me.kind = "typeswitch"
      /\ Top.act = "codegen" /\ Top.todo \in Seq(Made)
  BY <1>1, CodegenCall
<1>3. k \in Node  BY <1>1, <1>2, KidsThere
<1>4. Grows /\ DataOK' /\ status' = status /\ Invoke(f, g)
  BY <1>1, QuietStep DEF StackOnly, Going
<1>5. g \in Frame /\ FrameOK(g, lowered) /\ g.n = k
  <2>1. CASE pc = 1  BY <1>1, <1>3, <2>1, EnterCodegen DEF Enter
  <2>2. CASE pc = 2  BY <1>1, <1>3, <2>2, EnterExit DEF Enter
  <2> QED  BY <2>1, <2>2
<1>6. /\ f \in Frame /\ f.n = Top.n /\ f.act = "codegen" /\ f.todo = Top.todo
  <2>1. pc \in Nat  OBVIOUS
  <2> QED  BY <1>2, <2>1 DEF Frame
<1> HIDE DEF f, g
<1>7. CodegenOK(f, lowered \cup {g.n})
  BY <1>1, <1>2, <1>5, <1>6 DEF CodegenOK, Me, Kid
<1>8. FrameOK(f, lowered \cup {g.n})
  BY <1>2, <1>6, <1>7, CodegenFrame
<1> QED  BY <1>2, <1>4, <1>5, <1>6, <1>8, CallStep

(* The search for a loop only meets blocks that were made.                 *)
LEMMA SearchStep ==
  ASSUME IInv, SearchStart \/ SearchOn
  PROVE  IInv'
<1>1. PICK pc \in {0, 1}, kind \in {"break", "continue"}, s \in Seq(Made) :
        /\ InCall("codegen", kind, pc)
        /\ Become([Top EXCEPT !.pc = 1, !.todo = s])
        /\ StackOnly
  <2>1. CASE SearchStart
    <3>1. ip.at \in Made  BY DEF IInv, IpOK
    <3>2. blocks[ip.at].preds \in Seq(Made)  BY <3>1, Neighbours
    <3> QED  BY <2>1, <3>2 DEF SearchStart
  <2>2. CASE SearchOn
    <3>1. PICK kind \in {"break", "continue"} : Searching(kind)
      BY <2>2 DEF SearchOn
    <3>2. /\ InCall("codegen", kind, 1) /\ Top \in Frame /\ Top.pc = 1
          /\ Top.todo \in Seq(Made) /\ Top.todo # <<>>
      BY <3>1, CodegenCall DEF Searching
    <3> DEFINE h == blocks[Head(Top.todo)].preds
               s == h \o Tail(Top.todo)
    <3>3. Head(Top.todo) \in Made /\ Tail(Top.todo) \in Seq(Made)
      BY <3>2, HeadTailProperties
    <3>4. h \in Seq(Made)  BY <3>3, Neighbours
    <3>5. s \in Seq(Made)
      <4> HIDE DEF h
      <4> QED  BY <3>3, <3>4, ConcatProperties
    <3>6. [Top EXCEPT !.todo = SearchMore(@)] = [Top EXCEPT !.pc = 1, !.todo = s]
      BY <3>2 DEF Frame, SearchMore
    <3>7. Become([Top EXCEPT !.pc = 1, !.todo = s]) /\ StackOnly
      BY <2>2, <3>6 DEF SearchOn
    <3> HIDE DEF s
    <3> QED  BY <3>2, <3>5, <3>7
  <2> QED  BY <2>1, <2>2
<1> DEFINE f == [Top EXCEPT !.pc = 1, !.todo = s]
<1>2. /\ stack # <<>> /\ Top \in Frame /\ Top.n \in Node /\ Me.kind = kind
      /\ Top.act = "codegen"
  BY <1>1, CodegenCall
<1>3. s \in Seq(Nat)
  <2>1. Made \subseteq Nat  BY DEF Made
  <2> QED  BY <2>1, SeqMonotonic
<1>4. /\ f \in Frame /\ f.n = Top.n /\ f.act = "codegen" /\ f.todo = s
  BY <1>2, <1>3 DEF Frame
<1>5. Grows /\ DataOK' /\ status' = status /\ Become(f)
  BY <1>1, QuietStep DEF StackOnly, Going
<1> HIDE DEF f
<1>6. CodegenOK(f, lowered)
  BY <1>2, <1>4 DEF CodegenOK, Me
<1>7. FrameOK(f, lowered)
  BY <1>4, <1>6, CodegenFrame
<1> QED  BY <1>2, <1>4, <1>5, <1>7, GoOnStep

------------------------------------------------------------------------------
(* buildFunction, and the steps that end it *)

LEMMA BuildStep ==
  ASSUME IInv, BuildBody \/ BuildExit
  PROVE  IInv'
<1>1. PICK pc \in {1, 2}, act \in {"codegen", "exit"} :
        /\ InCall("build", "body", pc - 1)
        /\ pc = 2 => act = "exit"
        /\ pc = 1 => act = "codegen"
        /\ Invoke([Top EXCEPT !.pc = pc], Enter(act, Top.n))
        /\ StackOnly
  <2>1. CASE BuildBody
    <3>1. 1 \in {1, 2} /\ 1 - 1 = 0 /\ 1 # 2  OBVIOUS
    <3> QED  BY <2>1, <3>1 DEF BuildBody
  <2>2. CASE BuildExit
    <3>1. 2 \in {1, 2} /\ 2 - 1 = 1 /\ 1 # 2  OBVIOUS
    <3> QED  BY <2>2, <3>1 DEF BuildExit
  <2> QED  BY <2>1, <2>2
<1> DEFINE f == [Top EXCEPT !.pc = pc]
           g == Enter(act, Top.n)
<1>2. stack # <<>> /\ Top.act = "build" /\ Top.pc = pc - 1
  BY <1>1, NotEmpty DEF InCall
<1>3. /\ Top \in Frame /\ Top.n \in Node /\ FrameOK(Top, lowered)
      /\ Top.todo \in Seq(Made) /\ pc \in Nat
  BY <1>2, RunningCall DEF FrameOK
<1>4. Grows /\ DataOK' /\ status' = status /\ Invoke(f, g)
  BY <1>1, QuietStep DEF StackOnly, Going
<1>5. g \in Frame /\ FrameOK(g, lowered) /\ g.n = Top.n
  <2>1. CASE pc = 1  BY <1>1, <1>3, <2>1, EnterCodegen DEF Enter
  <2>2. CASE pc = 2
    <3>1. Top.pc # 0  BY <1>2, <2>2
    <3>2. Top.n \in lowered  BY <1>2, <1>3, <3>1 DEF FrameOK
    <3> QED  BY <1>1, <1>3, <2>2, <3>2, EnterExit DEF Enter
  <2> QED  BY <2>1, <2>2
<1>6. /\ f \in Frame /\ f.n = Top.n /\ f.act = "build" /\ f.todo = Top.todo
  BY <1>2, <1>3 DEF Frame
<1> HIDE DEF f, g
<1>7. FrameOK(f, lowered \cup {g.n})
  BY <1>3, <1>5, <1>6 DEF FrameOK
<1> QED  BY <1>2, <1>4, <1>5, <1>6, <1>7, CallStep

(* An error, a crash, an overflow, or nothing at all.                      *)
LEMMA EndingStep ==
  ASSUME IInv,
         \/ Rejected \/ OutsideFunction \/ SearchFailed \/ BreakCrash
         \/ BuildRejected \/ StackOverflow \/ UNCHANGED vars
  PROVE  IInv'
<1>1. CASE UNCHANGED vars
  <2>1. UNCHANGED <<tree, code, notes>> /\ stack' = stack /\ status' = status
    BY <1>1 DEF vars, tree, code, notes
  <2> QED  BY <2>1, StayStep DEF IInv
<1>2. CASE Fail \/ Crash \/ (EndWith("overflow") /\ UNCHANGED <<tree, code, notes>>)
  BY <1>2, StayStep DEF Fail, Crash, EndWith, Statuses
<1> QED  BY <1>1, <1>2 DEF Rejected, OutsideFunction, SearchFailed, BreakCrash,
           BuildRejected, StackOverflow

------------------------------------------------------------------------------
(* Steps that add blocks and instructions *)

(* The instructions whack emits name blocks that may be jumped to.         *)
LEMMA InstFacts ==
  ASSUME NEW m, NEW n \in Nat
  PROVE  /\ Call(n) \in InstIn(m)
         /\ \A t \in Nat : Ret(n, t) \in InstIn(m)
         /\ \A b \in 2..m : Jump(n, b) \in InstIn(m) /\ Br(b) \in InstIn(m)
         /\ \A b \in 2..m : Switch(n, b) \in InstIn(m)
         /\ \A b, c \in 2..m : CondBr(n, b, c) \in InstIn(m)
<1> DEFINE J == 2..m
<1>1. <<>> \in Seq(J) /\ \A b, c \in J : <<b>> \in Seq(J) /\ <<b, c>> \in Seq(J)
  <2> HIDE DEF J
  <2> QED  BY EmptySeq
<1> QED  BY <1>1 DEF Call, Ret, Jump, Br, Switch, CondBr, InstIn, Ops

(* An instruction added at the insertion point.                            *)
LEMMA EmitHere ==
  ASSUME IInv, NEW inst \in InstIn(Len(blocks))
  PROVE  /\ Linked(Emit(blocks, ip, inst))
         /\ Len(Emit(blocks, ip, inst)) = Len(blocks)
         /\ Grown(blocks, Emit(blocks, ip, inst))
         /\ Emit(blocks, ip, inst)[ip.at].insts # <<>>
BY EmitProperties DEF IInv, BlocksOK, IpOK, Made

(* A branch that falls through to cont, if it does.                        *)
LEMMA FallThroughOK ==
  ASSUME IInv, NEW cont \in Jumpable, FallThrough(cont)
  PROVE  Linked(blocks') /\ Len(blocks') = Len(blocks) /\ Grown(blocks, blocks')
<1>1. Br(cont) \in InstIn(Len(blocks))
  <2>1. 0 \in Nat  OBVIOUS
  <2> QED  BY <2>1, InstFacts DEF Jumpable
<1>2. CASE blocks' = blocks
  BY <1>2 DEF Grown, IInv, BlocksOK, Linked
<1>3. CASE blocks' = Emit(blocks, ip, Br(cont))
  BY <1>1, <1>3, EmitHere
<1> QED  BY <1>2, <1>3 DEF FallThrough

(* Blocks appended to the function leave the ones in it where they are.    *)
LEMMA LayoutMore ==
  ASSUME IInv, NEW n \in Nat, Len(blocks) <= n, NEW new \in Seq(1..n)
  PROVE  /\ layout \o new \in Seq(1..n) /\ layout \o new # <<>>
         /\ (layout \o new)[1] = 1
         /\ ToSet(layout) \subseteq ToSet(layout \o new)
         /\ ToSet(new) \subseteq ToSet(layout \o new)
<1> DEFINE M == 1..n
           s == layout \o new
<1>1. layout \in Seq(M) /\ layout # <<>> /\ layout[1] = 1
  <2>1. Made \subseteq M  BY DEF Made
  <2> QED  BY <2>1, SeqMonotonic DEF IInv, LayoutOK
<1> HIDE DEF M
<1>2. Len(layout) \in Nat \ {0} /\ Len(new) \in Nat
  BY <1>1, EmptySeq DEF M
<1>3. /\ s \in Seq(M) /\ Len(s) = Len(layout) + Len(new)
      /\ \A k \in 1..Len(layout) : s[k] = layout[k]
      /\ \A k \in 1..Len(new) : s[Len(layout) + k] = new[k]
  <2>1. new \in Seq(M)  BY DEF M
  <2>2. /\ s \in Seq(M) /\ Len(s) = Len(layout) + Len(new)
        /\ \A k \in 1..Len(layout) + Len(new) :
             s[k] = IF k <= Len(layout) THEN layout[k] ELSE new[k - Len(layout)]
    BY <1>1, <2>1, ConcatProperties
  <2>3. ASSUME NEW k \in 1..Len(new)  PROVE s[Len(layout) + k] = new[k]
    <3>1. /\ Len(layout) + k \in 1..Len(layout) + Len(new)
          /\ ~(Len(layout) + k <= Len(layout))
          /\ Len(layout) + k - Len(layout) = k
      BY <1>2
    <3> QED  BY <2>2, <3>1
  <2>4. ASSUME NEW k \in 1..Len(layout)  PROVE s[k] = layout[k]
    <3>1. k \in 1..Len(layout) + Len(new) /\ k <= Len(layout)
      BY <1>2
    <3> QED  BY <2>2, <3>1
  <2> QED  BY <2>2, <2>3, <2>4
<1> HIDE DEF s
<1>4. s # <<>>
  <2>1. Len(s) # 0  BY <1>2, <1>3
  <2> QED  BY <2>1
<1>5. s[1] = 1
  <2>1. 1 \in 1..Len(layout)  BY <1>2
  <2> QED  BY <1>1, <1>3, <2>1
<1>6. /\ ToSet(layout) = {layout[k] : k \in 1..Len(layout)}
      /\ ToSet(new) = {new[k] : k \in 1..Len(new)}
      /\ ToSet(s) = {s[k] : k \in 1..Len(s)}
  BY <1>1, <1>3, ToSetOf
<1>7. /\ \A k \in 1..Len(layout) : k \in 1..Len(s)
      /\ \A k \in 1..Len(new) : Len(layout) + k \in 1..Len(s)
  BY <1>2, <1>3
<1> QED  BY <1>3, <1>4, <1>5, <1>6, <1>7 DEF s, M

(* A step that does not touch what is noted of the statements.             *)
LEMMA Assemble ==
  ASSUME IInv, Grows, decl' = decl, deferrals' = deferrals, lowered' = lowered,
         LayoutOK', IpOK', HeldOK', StackOK', status' \in Statuses
  PROVE  IInv'
BY BlocksGrow, DeferralsGrow, LoweredGrows DEF IInv, TreeOK, Grows

(* A step that returns from the codegen of a statement.                    *)
LEMMA LoweredStep ==
  ASSUME IInv, stack # <<>>, Grows, Lowered, NEW m, m = Top.n,
         LayoutOK', IpOK', HeldOK', Ready(m, lowered)'
  PROVE  IInv'
<1>1. m \in Node /\ lowered' = lowered \cup {m} /\ Return
      /\ decl' = decl /\ deferrals' = deferrals /\ status' = status
  BY RunningCall DEF Lowered, Going, tree
<1>2. LoweredOK'
  BY <1>1, LoweredMore
<1>3. StackOK'
  BY <1>1, ReturnOK
<1> QED  BY <1>1, <1>2, <1>3, BlocksGrow, DeferralsGrow DEF IInv, TreeOK, Grows

(* Adding instructions to the blocks there are.                            *)
LEMMA CodeGrows ==
  ASSUME IInv, prog' = prog, lowered \subseteq lowered',
         Linked(blocks'), Grown(blocks, blocks'),
         layout' = layout \/ ToSet(layout) \subseteq ToSet(layout'),
         held' = held
  PROVE  Grows
BY DEF Grows

------------------------------------------------------------------------------
(* codegen, where it returns *)

LEMMA StraightStep ==
  ASSUME IInv, Straight
  PROVE  IInv'
<1>1. PICK m : m = Top.n
  OBVIOUS
<1>2. PICK kind \in {"expr", "return"} : InCall("codegen", kind, 0)
  BY DEF Straight
<1>3. /\ stack # <<>> /\ m \in Node /\ prog[m].kind \in {"expr", "return"}
      /\ m \in Nat /\ Me.arg \in Nat
  BY <1>1, <1>2, CodegenCall, RunningCall, NodeAssumption DEF Me
<1>4. Emitted \in InstIn(Len(blocks))
  BY <1>1, <1>3, InstFacts DEF Emitted
<1>5. /\ Linked(blocks') /\ Grown(blocks, blocks')
      /\ layout' = layout /\ ip' = ip /\ held' = held /\ Lowered
  BY <1>4, EmitHere DEF Straight
<1>6. Grows
  BY <1>5, CodeGrows DEF Lowered, tree
<1>7. LayoutOK' /\ IpOK' /\ HeldOK'
  BY <1>5, <1>6, LayoutGrows, IpGrows, HeldGrows
<1>8. Ready(m, lowered)'
  BY <1>3, <1>6 DEF Ready, Grows
<1> QED  BY <1>1, <1>3, <1>5, <1>6, <1>7, <1>8, LoweredStep

(* Statements that only note that they were reached.                       *)
LEMMA SilentStep ==
  ASSUME IInv, Silent \/ BodyEnd \/ TypeSwitchEnd
  PROVE  IInv'
<1>1. PICK m : m = Top.n
  OBVIOUS
<1>2. /\ stack # <<>> /\ m \in Node
      /\ \/ prog[m].kind \in {"nop", "defer", "typeswitch"}
         \/ /\ prog[m].kind = "body"
            /\ \A j \in 1..Len(prog[m].kids) : prog[m].kids[j] \in lowered
  <2>1. CASE Silent
    BY <1>1, <2>1, CodegenCall DEF Silent, Me
  <2>2. CASE BodyEnd
    <3>1. InCall("codegen", "body", 0) /\ Top.i = Len(Me.kids)
      BY <2>2 DEF BodyEnd
    <3> QED  BY <1>1, <3>1, CodegenCall DEF CodegenOK, Me
  <2>3. CASE TypeSwitchEnd
    BY <1>1, <2>3, CodegenCall DEF TypeSwitchEnd, Me
  <2> QED  BY <2>1, <2>2, <2>3
<1>3. Lowered /\ blocks' = blocks /\ layout' = layout /\ ip' = ip /\ held' = held
  BY DEF Silent, BodyEnd, TypeSwitchEnd, code
<1>4. Grows
  <2>1. Linked(blocks') /\ Grown(blocks, blocks')
    BY <1>3 DEF Grown, IInv, BlocksOK, Linked
  <2> QED  BY <1>3, <2>1, CodeGrows DEF Lowered, tree
<1>5. LayoutOK' /\ IpOK' /\ HeldOK'
  BY <1>3, <1>4, LayoutGrows, IpGrows, HeldGrows
<1>6. Ready(m, lowered)'
  BY <1>2, <1>4 DEF Ready, Grows
<1> QED  BY <1>1, <1>2, <1>3, <1>4, <1>5, <1>6, LoweredStep

(* The builder goes to the end of a block that was made.                   *)
LEMMA IpAtEnd ==
  ASSUME IInv, Grows, NEW b \in Jumpable, ip' = AtEnd(b)
  PROVE  IpOK'
BY MadeGrows DEF AtEnd, InsertPoint, IpOK, Made, Jumpable

(* A break or a continue jumps to a block that may be jumped to.           *)
LEMMA JumpStep ==
  ASSUME IInv, BreakFound \/ ContinueFound
  PROVE  IInv'
<1>1. PICK m : m = Top.n
  OBVIOUS
<1>2. PICK kind \in {"break", "continue"} : Searching(kind) /\ IsLoop(Head(Top.todo))
  BY DEF BreakFound, ContinueFound
<1>3. /\ stack # <<>> /\ m \in Node /\ prog[m].kind \in {"break", "continue"}
      /\ m \in Nat /\ Head(Top.todo) \in Made
  <2>1. /\ stack # <<>> /\ m \in Node /\ prog[m].kind \in {"break", "continue"}
        /\ Top.todo \in Seq(Made) /\ Top.todo # <<>>
    BY <1>1, <1>2, CodegenCall DEF Searching, Me
  <2>2. Head(Top.todo) \in Made
    BY <2>1, HeadTailProperties
  <2> QED  BY <2>1, <2>2, NodeAssumption
<1>4. PICK b \in Jumpable : blocks' = Emit(blocks, ip, Jump(m, b))
  <2>1. CASE BreakFound
    <3>1. PICK b \in BreakTargets(Head(Top.todo)) :
            blocks' = Emit(blocks, ip, Jump(m, b))
      BY <1>1, <2>1 DEF BreakFound
    <3>2. PICK p \in ToSet(SinglePred(blocks, Head(Top.todo))) :
            b = Succs(blocks, p)[2] /\ Len(Succs(blocks, p)) = 2
      BY <3>1 DEF BreakTargets
    <3>3. Linked(blocks) /\ Head(Top.todo) \in 1..Len(blocks)
      BY <1>3 DEF IInv, BlocksOK, Made
    <3>4. p \in 1..Len(blocks)
      BY <3>2, <3>3, LinkedProperties
    <3>5. Succs(blocks, p) \in Seq(2..Len(blocks))
      BY <3>3, <3>4, LinkedProperties
    <3>6. b \in Jumpable
      <4>1. 2 \in 1..Len(Succs(blocks, p))  BY <3>2
      <4> QED  BY <3>2, <3>5, <4>1, ElementOfSeq DEF Jumpable
    <3> QED  BY <3>1, <3>6
  <2>2. CASE ContinueFound
    <3>1. blocks' = Emit(blocks, ip, Jump(m, Head(Top.todo)))
      BY <1>1, <2>2 DEF ContinueFound, ContinueTarget
    <3>2. Head(Top.todo) # 1
      BY <1>2 DEF IsLoop, IInv, BlocksOK
    <3>3. Head(Top.todo) \in Jumpable
      BY <1>3, <3>2 DEF Made, Jumpable
    <3> QED  BY <3>1, <3>3
  <2> QED  BY <2>1, <2>2
<1>5. /\ layout' = layout /\ ip' = ip /\ held' = held /\ Lowered
  BY DEF BreakFound, ContinueFound
<1>6. Linked(blocks') /\ Grown(blocks, blocks')
  <2>1. Jump(m, b) \in InstIn(Len(blocks))
    BY <1>3, InstFacts DEF Jumpable
  <2> QED  BY <1>4, <2>1, EmitHere
<1>7. Grows
  BY <1>5, <1>6, CodeGrows DEF Lowered, tree
<1>8. LayoutOK' /\ IpOK' /\ HeldOK'
  BY <1>5, <1>7, LayoutGrows, IpGrows, HeldGrows
<1>9. Ready(m, lowered)'
  BY <1>3, <1>7 DEF Ready, Grows
<1> QED  BY <1>1, <1>3, <1>5, <1>7, <1>8, <1>9, LoweredStep

(* A match goes on in the block behind its arms.                           *)
LEMMA MatchJoinStep ==
  ASSUME IInv, MatchJoin
  PROVE  IInv'
<1>1. PICK m : m = Top.n
  OBVIOUS
<1>2. /\ stack # <<>> /\ m \in Node /\ prog[m].kind = "match"
      /\ Top.y \in Jumpable
  <2>1. /\ stack # <<>> /\ Top.n \in Node /\ Me.kind = "match" /\ Top.pc = 1
        /\ CodegenOK(Top, lowered)
    BY CodegenCall DEF MatchJoin
  <2>2. 1 # 0  OBVIOUS
  <2>3. Top.y \in Standing
    BY <2>1, <2>2 DEF CodegenOK, Me
  <2>4. Standing \subseteq Jumpable
    <3>1. ToSet(layout) \subseteq Made  BY ToSetOf DEF IInv, LayoutOK
    <3> QED  BY <3>1 DEF Standing, Made, Jumpable
  <2> QED  BY <1>1, <2>1, <2>3, <2>4 DEF Me
<1>3. /\ blocks' = blocks /\ layout' = layout /\ held' = held /\ Lowered
      /\ ip' = AtEnd(Top.y)
  BY DEF MatchJoin
<1>4. Grows
  <2>1. Linked(blocks') /\ Grown(blocks, blocks')
    BY <1>3 DEF Grown, IInv, BlocksOK, Linked
  <2> QED  BY <1>3, <2>1, CodeGrows DEF Lowered, tree
<1>5. LayoutOK' /\ IpOK' /\ HeldOK'
  BY <1>2, <1>3, <1>4, LayoutGrows, IpAtEnd, HeldGrows
<1>6. Ready(m, lowered)'
  BY <1>2, <1>4 DEF Ready, Grows
<1> QED  BY <1>1, <1>2, <1>3, <1>4, <1>5, <1>6, LoweredStep

(* The end of a for adds its steps and the jump back to blocks that exist. *)
LEMMA ForEndStep ==
  ASSUME IInv, ForEnd
  PROVE  IInv'
<1> DEFINE bs == Emit(blocks, ip, Call(Top.n))
           jump == CondBr(Top.n, Top.x, Top.y)
<1>1. PICK m : m = Top.n
  OBVIOUS
<1>2. /\ stack # <<>> /\ m \in Node /\ m \in Nat /\ prog[m].kind = "for"
      /\ Top.x \in Jumpable /\ Top.y \in Jumpable /\ prog[m].kids[1] \in lowered
  <2>1. /\ stack # <<>> /\ Top.n \in Node /\ Me.kind = "for" /\ Top.pc = 1
        /\ CodegenOK(Top, lowered)
    BY CodegenCall DEF ForEnd
  <2>2. 1 # 0  OBVIOUS
  <2> QED  BY <1>1, <2>1, <2>2, NodeAssumption DEF CodegenOK, Me
<1>3. Call(Top.n) \in InstIn(Len(blocks)) /\ jump \in InstIn(Len(blocks))
  BY <1>1, <1>2, InstFacts DEF Jumpable
<1>4. /\ Linked(bs) /\ Len(bs) = Len(blocks) /\ Grown(blocks, bs)
      /\ bs[ip.at].insts # <<>>
  BY <1>3, EmitHere
<1>5. /\ blocks' = Emit(bs, ip, jump) /\ layout' = layout /\ held' = held
      /\ Lowered /\ ip' = AtEnd(Top.y)
  BY DEF ForEnd
<1> HIDE DEF bs, jump
<1>6. Linked(blocks') /\ Len(blocks') = Len(bs) /\ Grown(bs, blocks')
  <2>1. ip \in InsertPoint /\ ip.at \in 1..Len(bs)
    BY <1>4 DEF IInv, IpOK, Made
  <2> QED  BY <1>3, <1>4, <1>5, <2>1, EmitProperties
<1>7. Grows
  <2>1. Len(blocks) \in Nat /\ bs # <<>>
    <3>1. blocks # <<>> /\ Len(blocks) \in Nat
      BY LenProperties DEF IInv, BlocksOK, Linked
    <3>2. Len(blocks) # 0
      BY <3>1, EmptySeq DEF IInv, BlocksOK, Linked
    <3>3. bs # <<>>
      BY <1>4, <3>2, EmptySeq
    <3> QED  BY <3>1, <3>3
  <2>2. Grown(blocks, blocks')
    BY <1>4, <1>6, <2>1, GrownTransitive
  <2> QED  BY <1>5, <1>6, <2>2, CodeGrows DEF Lowered, tree
<1>8. LayoutOK' /\ IpOK' /\ HeldOK'
  BY <1>2, <1>5, <1>7, LayoutGrows, IpAtEnd, HeldGrows
<1>9. Ready(m, lowered)'
  BY <1>2, <1>7 DEF Ready, Grows
<1> QED  BY <1>1, <1>2, <1>5, <1>7, <1>8, <1>9, LoweredStep

(* The end of an if inserts cont and notes the block its last branch ended *)
(* in.                                                                     *)
LEMMA IfJoinStep ==
  ASSUME IInv, IfJoin
  PROVE  IInv'
<1>1. PICK m, y : m = Top.n /\ y = Top.y
  OBVIOUS
<1>2. /\ stack # <<>> /\ m \in Node /\ prog[m].kind = "if"
      /\ y \in Jumpable /\ prog[m].kids[1] \in lowered
      /\ Len(prog[m].kids) = 2 => prog[m].kids[2] \in lowered /\ held[m].a # 0
  <2>1. CASE InCall("codegen", "if", 1) /\ ~HasElse
    BY <1>1, <2>1, CodegenCall DEF CodegenOK, Me, HasElse
  <2>2. CASE InCall("codegen", "if", 2)
    BY <1>1, <2>2, CodegenCall DEF CodegenOK, Me
  <2> QED  BY <2>1, <2>2 DEF IfJoin
<1>3. /\ Lowered /\ FallThrough(y) /\ layout' = Append(layout, y) /\ ip' = AtEnd(y)
      /\ held' = IF Len(prog[m].kids) = 2 THEN [held EXCEPT ![m].b = ip.at]
                                          ELSE [held EXCEPT ![m].a = ip.at]
  BY <1>1 DEF IfJoin, Place, HasElse, Me
<1>4. Linked(blocks') /\ Len(blocks') = Len(blocks) /\ Grown(blocks, blocks')
  BY <1>2, <1>3, FallThroughOK
<1>5. /\ layout' \in Seq(Made') /\ layout' # <<>> /\ layout'[1] = 1
      /\ ToSet(layout) \subseteq ToSet(layout')
  <2>1. layout' = layout \o <<y>>
    BY <1>3, AppendIsConcat DEF IInv, LayoutOK
  <2>2. Len(blocks) \in Nat /\ <<y>> \in Seq(1..Len(blocks))
    <3>1. y \in 1..Len(blocks)  BY <1>2 DEF Jumpable
    <3> QED  BY <3>1, LenProperties DEF IInv, BlocksOK, Linked
  <2>3. PICK n : n = Len(blocks)
    OBVIOUS
  <2>4. <<y>> \in Seq(1..n) /\ n \in Nat /\ Len(blocks) <= n
    BY <2>2, <2>3
  <2>5. /\ layout' \in Seq(1..n) /\ layout' # <<>> /\ layout'[1] = 1
        /\ ToSet(layout) \subseteq ToSet(layout')
    BY <2>1, <2>4, LayoutMore
  <2> QED  BY <1>4, <2>3, <2>5 DEF Made
<1>6. /\ ip.at \in Nat /\ ip.at # 0 /\ ip.at <= Len(blocks)
      /\ held \in [Node -> [a : Nat, b : Nat]]
  BY DEF IInv, IpOK, Made, HeldOK
<1>7. /\ held' \in [Node -> [a : Nat, b : Nat]]
      /\ \A n \in Node : n # m => held'[n] = held[n]
      /\ held'[m].a \in {held[m].a, ip.at} /\ held'[m].b \in {held[m].b, ip.at}
      /\ held'[m].a # 0 /\ (Len(prog[m].kids) = 2 => held'[m].b # 0)
  BY <1>2, <1>3, <1>6
<1>8. Grows
  <2>1. \A n \in Node : /\ held[n].a # 0 => held'[n].a # 0
                        /\ held[n].b # 0 => held'[n].b # 0
    BY <1>6, <1>7
  <2> QED  BY <1>3, <1>4, <1>5, <2>1 DEF Grows, Lowered, tree
<1>9. HeldOK'
  <2>1. \A n \in Node : /\ held[n].a <= Len(blocks) /\ held[n].b <= Len(blocks)
                        /\ prog[n].kind = "while" /\ held[n].a # 0 => held[n].a \in Standing
    BY DEF IInv, HeldOK
  <2>2. \A n \in Node :
          /\ held'[n].a <= Len(blocks') /\ held'[n].b <= Len(blocks')
          /\ prog[n].kind = "while" /\ held'[n].a # 0 => held'[n].a \in Standing'
    <3> TAKE n \in Node
    <3>1. CASE n = m  BY <1>2, <1>4, <1>6, <1>7, <2>1, <3>1
    <3>2. CASE n # m  BY <1>4, <1>7, <1>8, <2>1, <3>2, MadeGrows
    <3> QED  BY <3>1, <3>2
  <2> QED  BY <1>7, <1>8, <2>2 DEF HeldOK, Grows
<1>10. LayoutOK' /\ IpOK'
  BY <1>2, <1>3, <1>5, <1>8, IpAtEnd DEF LayoutOK
<1>11. Ready(m, lowered)'
  BY <1>2, <1>7, <1>8 DEF Ready, Grows
<1> QED  BY <1>1, <1>2, <1>3, <1>8, <1>9, <1>10, <1>11, LoweredStep

(* The end of a while moves its last two blocks and never the entry.       *)
LEMMA WhileEndStep ==
  ASSUME IInv, WhileEnd
  PROVE  IInv'
<1>1. PICK m, x, y, d : m = Top.n /\ x = Top.x /\ y = Top.y /\ d = held[Top.n].a
  OBVIOUS
<1>2. /\ stack # <<>> /\ m \in Node /\ m \in Nat /\ prog[m].kind = "while"
      /\ x \in Jumpable /\ y \in Standing /\ d # 0 /\ prog[m].kids[1] \in lowered
  <2>1. /\ stack # <<>> /\ Top.n \in Node /\ Me.kind = "while" /\ Top.pc = 1
        /\ CodegenOK(Top, lowered)
    BY CodegenCall DEF WhileEnd
  <2>2. 1 # 0  OBVIOUS
  <2> QED  BY <1>1, <2>1, <2>2, NodeAssumption DEF CodegenOK, Me
<1> DEFINE bs == Emit(blocks, ip, CondBr(m, x, d))
           ls == MoveAfter(layout, d, ip.at)
<1>3. /\ blocks' = Emit(bs, AtEnd(d), Br(y)) /\ held' = held /\ Lowered
      /\ layout' = MoveAfter(ls, y, d) /\ ip' = AtEnd(y) /\ ip.at \in ToSet(layout)
  BY <1>1 DEF WhileEnd, MoveBehind, Inside
<1>4. d \in Standing
  BY <1>1, <1>2 DEF IInv, HeldOK
<1>5. layout \in Seq(Made) /\ layout # <<>> /\ layout[1] = 1
  BY DEF IInv, LayoutOK
<1>6. y \in Jumpable /\ d \in Jumpable
  <2>1. ToSet(layout) \subseteq Made  BY <1>5, ToSetOf
  <2> QED  BY <1>2, <1>4, <2>1 DEF Standing, Made, Jumpable
<1>7. /\ ls \in Seq(Made) /\ ls # <<>> /\ ls[1] = 1
      /\ ToSet(layout) \subseteq ToSet(ls)
  <2>1. d \in ToSet(layout) /\ d # layout[1]  BY <1>4, <1>5 DEF Standing
  <2> QED  BY <1>3, <1>5, <2>1, MoveAfterProperties
<1> HIDE DEF ls
<1>8. /\ layout' \in Seq(Made) /\ layout' # <<>> /\ layout'[1] = 1
      /\ ToSet(layout) \subseteq ToSet(layout')
  <2>1. d \in ToSet(ls) /\ y \in ToSet(ls) /\ y # ls[1]
    BY <1>2, <1>4, <1>7 DEF Standing
  <2>2. /\ MoveAfter(ls, y, d) \in Seq(Made) /\ MoveAfter(ls, y, d) # <<>>
        /\ MoveAfter(ls, y, d)[1] = ls[1]
        /\ ToSet(ls) \subseteq ToSet(MoveAfter(ls, y, d))
    BY <1>7, <2>1, MoveAfterProperties
  <2> QED  BY <1>3, <1>7, <2>2
<1>9. /\ Linked(bs) /\ Len(bs) = Len(blocks) /\ Grown(blocks, bs)
  <2>1. CondBr(m, x, d) \in InstIn(Len(blocks))
    BY <1>2, <1>6, InstFacts DEF Jumpable
  <2> QED  BY <2>1, EmitHere
<1> HIDE DEF bs
<1>10. Linked(blocks') /\ Len(blocks') = Len(blocks) /\ Grown(bs, blocks')
  <2>1. Br(y) \in InstIn(Len(bs))
    <3>1. 0 \in Nat  OBVIOUS
    <3> QED  BY <1>6, <1>9, <3>1, InstFacts DEF Jumpable
  <2>2. /\ AtEnd(d) \in InsertPoint /\ AtEnd(d).at \in 1..Len(bs) /\ ~AtEnd(d).back
    BY <1>6, <1>9 DEF AtEnd, InsertPoint, Jumpable
  <2> QED  BY <1>3, <1>9, <2>1, <2>2, EmitProperties
<1>11. Grows
  <2>1. Len(blocks) \in Nat /\ bs # <<>>
    <3>1. blocks # <<>> /\ Len(blocks) \in Nat
      BY LenProperties DEF IInv, BlocksOK, Linked
    <3>2. Len(blocks) # 0
      BY <3>1, EmptySeq DEF IInv, BlocksOK, Linked
    <3>3. bs # <<>>
      BY <1>9, <3>2, EmptySeq
    <3> QED  BY <3>1, <3>3
  <2>2. Grown(blocks, blocks')
    BY <1>9, <1>10, <2>1, GrownTransitive
  <2> QED  BY <1>3, <1>8, <1>10, <2>2, CodeGrows DEF Lowered, tree
<1>12. LayoutOK' /\ IpOK' /\ HeldOK'
  BY <1>3, <1>6, <1>8, <1>10, <1>11, IpAtEnd, HeldGrows DEF LayoutOK, Made
<1>13. Ready(m, lowered)'
  BY <1>1, <1>2, <1>3, <1>11 DEF Ready, Grows
<1> QED  BY <1>1, <1>2, <1>3, <1>11, <1>12, <1>13, LoweredStep

------------------------------------------------------------------------------
(* codegen, where it makes blocks and starts on a statement inside *)

(* Blocks created, and an instruction that may name them.                  *)
LEMMA EmitAfterFresh ==
  ASSUME IInv, NEW new \in Seq({Fresh(x) : x \in Names}), NEW n,
         n = Len(blocks) + Len(new)
  PROVE  /\ n \in Nat /\ Len(blocks) \in Nat \ {0} /\ Len(blocks) <= n
         /\ Linked(blocks \o new) /\ Len(blocks \o new) = n
         /\ Grown(blocks, blocks \o new)
         /\ \A inst \in InstIn(n) :
              /\ Linked(Emit(blocks \o new, ip, inst))
              /\ Len(Emit(blocks \o new, ip, inst)) = n
              /\ Grown(blocks, Emit(blocks \o new, ip, inst))
<1> DEFINE bs == blocks \o new
<1>1. /\ Linked(bs) /\ Len(bs) = n /\ Grown(blocks, bs)
      /\ \A b \in 1..Len(blocks) : bs[b] = blocks[b]
  BY FreshProperties DEF IInv, BlocksOK
<1>2. Len(blocks) \in Nat \ {0} /\ Len(new) \in Nat
  <2>1. blocks # <<>> /\ Len(blocks) \in Nat
    BY LenProperties DEF IInv, BlocksOK, Linked
  <2>2. Len(blocks) # 0
    BY <2>1, EmptySeq DEF IInv, BlocksOK, Linked
  <2> QED  BY <2>1, <2>2, LenProperties
<1>3. n \in Nat /\ Len(blocks) <= n  BY <1>2
<1> HIDE DEF bs
<1>4. bs # <<>>
  <2>1. Len(bs) # 0  BY <1>1, <1>2, <1>3
  <2> QED  BY <2>1, EmptySeq
<1>5. /\ ip \in InsertPoint /\ ip.at \in 1..Len(bs)
      /\ ip.back => bs[ip.at].insts # <<>>
  BY <1>1, <1>2, <1>3 DEF IInv, IpOK, Made
<1>6. ASSUME NEW inst \in InstIn(n)
      PROVE  /\ Linked(Emit(bs, ip, inst)) /\ Len(Emit(bs, ip, inst)) = n
             /\ Grown(blocks, Emit(bs, ip, inst))
  <2>1. /\ Linked(Emit(bs, ip, inst)) /\ Len(Emit(bs, ip, inst)) = n
        /\ Grown(bs, Emit(bs, ip, inst))
    BY <1>1, <1>5, <1>6, EmitProperties
  <2> QED  BY <1>1, <1>2, <1>3, <1>4, <2>1, GrownTransitive
<1> QED  BY <1>1, <1>2, <1>3, <1>6 DEF bs

(* The names blocks are created with.                                      *)
LEMMA FreshNames ==
  LET F == {Fresh(x) : x \in Names}
  IN  /\ \A x \in Names : Fresh(x) \in F
      /\ \A a \in F : <<a>> \in Seq(F) /\ Len(<<a>>) = 1
      /\ \A a, b \in F : <<a, b>> \in Seq(F) /\ Len(<<a, b>>) = 2
      /\ \A a, b, c \in F : <<a, b, c>> \in Seq(F) /\ Len(<<a, b, c>>) = 3
<1> DEFINE F == {Fresh(x) : x \in Names}
<1>1. \A x \in Names : Fresh(x) \in F  OBVIOUS
<1> HIDE DEF F
<1>2. /\ \A a \in F : <<a>> \in Seq(F) /\ Len(<<a>>) = 1
      /\ \A a, b \in F : <<a, b>> \in Seq(F) /\ Len(<<a, b>>) = 2
      /\ \A a, b, c \in F : <<a, b, c>> \in Seq(F) /\ Len(<<a, b, c>>) = 3
  OBVIOUS
<1> QED  BY <1>1, <1>2 DEF F

(* A codegen that has its blocks starts on a statement inside.             *)
LEMMA StartStep ==
  ASSUME IInv, Grows, stack # <<>>, decl' = decl, deferrals' = deferrals,
         lowered' = lowered, status' = status, LayoutOK', IpOK', HeldOK',
         NEW k \in Node, NEW f \in Frame, f.n = Top.n, f.act = "codegen",
         f.todo \in Seq(Made), Invoke(f, Enter("codegen", k)),
         NEW T, T = lowered \cup {k}, CodegenOK(f, T)'
  PROVE  IInv'
<1>1. PICK g : g = Enter("codegen", k)
  OBVIOUS
<1>2. g \in Frame /\ FrameOK(g, lowered) /\ g.n = k
  BY <1>1, EnterCodegen DEF Enter
<1>3. FrameOK(g, lowered)'
  <2>1. PICK S : S = lowered  OBVIOUS
  <2>2. FrameOK(g, S)'  BY <1>2, <2>1, FrameGrows
  <2> QED  BY <2>1, <2>2
<1>4. FrameOK(f, lowered \cup {g.n})'
  <2>1. f.todo \in Seq(Made')  BY MadeGrows, SeqMonotonic
  <2>2. FrameOK(f, T)'  BY <2>1 DEF FrameOK
  <2>3. T = lowered' \cup {g.n}  BY <1>2
  <2> QED  BY <2>2, <2>3
<1>5. StackOK'
  BY <1>1, <1>2, <1>3, <1>4, InvokeOK
<1> QED  BY <1>5, Assemble DEF IInv

(* The start of an if creates two or three blocks and inserts then.        *)
LEMMA IfEnterStep ==
  ASSUME IInv, IfEnter
  PROVE  IInv'
<1>1. PICK m, then, k : m = Top.n /\ then = Len(blocks) + 1 /\ k = Kid(1)
  OBVIOUS
<1>2. /\ InCall("codegen", "if", 0) /\ stack # <<>> /\ m \in Node /\ m \in Nat
      /\ prog[m].kind = "if" /\ k \in Node /\ k = prog[m].kids[1]
  BY <1>1, CodegenCall, KidsThere, NodeAssumption DEF IfEnter, Me, Kid
<1>3. PICK new \in Seq({Fresh(x) : x \in Names}), n \in {then + 1, then + 2} :
        /\ n = Len(blocks) + Len(new)
        /\ blocks' = Emit(blocks \o new, ip, CondBr(m, then, then + 1))
        /\ Invoke([Top EXCEPT !.pc = 1, !.x = then + 1, !.y = n],
                  Enter("codegen", k))
  <2>1. Len(blocks) \in Nat
    BY LenProperties DEF IInv, BlocksOK, Linked
  <2>2. CASE HasElse
    <3> DEFINE new == <<Fresh("then"), Fresh("else"), Fresh("cont")>>
    <3>1. new \in Seq({Fresh(x) : x \in Names}) /\ Len(new) = 3
      BY FreshNames DEF Names
    <3>2. blocks' = Emit(blocks \o new, ip, CondBr(m, then, then + 1))
      BY <1>1, <2>2 DEF IfEnter, Next1
    <3> HIDE DEF new
    <3>3. Len(blocks) + Len(new) = then + 2  BY <1>1, <2>1, <3>1
    <3>4. Invoke([Top EXCEPT !.pc = 1, !.x = then + 1, !.y = then + 2],
                 Enter("codegen", k))
      BY <1>1, <2>2 DEF IfEnter, Next1
    <3> QED  BY <3>1, <3>2, <3>3, <3>4
  <2>3. CASE ~HasElse
    <3> DEFINE new == <<Fresh("then"), Fresh("cont")>>
    <3>1. new \in Seq({Fresh(x) : x \in Names}) /\ Len(new) = 2
      BY FreshNames DEF Names
    <3>2. blocks' = Emit(blocks \o new, ip, CondBr(m, then, then + 1))
      BY <1>1, <2>3 DEF IfEnter, Next1
    <3> HIDE DEF new
    <3>3. Len(blocks) + Len(new) = then + 1  BY <1>1, <2>1, <3>1
    <3>4. Invoke([Top EXCEPT !.pc = 1, !.x = then + 1, !.y = then + 1],
                 Enter("codegen", k))
      BY <1>1, <2>3 DEF IfEnter, Next1
    <3> QED  BY <3>1, <3>2, <3>3, <3>4
  <2> QED  BY <2>2, <2>3
<1>. n = then + 1 \/ n = then + 2
  OBVIOUS
<1>4. /\ layout' = Append(layout, then) /\ ip' = AtEnd(then)
      /\ held' = [held EXCEPT ![m].a = then]
      /\ prog' = prog /\ decl' = decl /\ deferrals' = deferrals
      /\ lowered' = lowered /\ status' = status
  BY <1>1 DEF IfEnter, Next1, tree, Going
<1>5. /\ n \in Nat /\ Len(blocks) \in Nat \ {0} /\ Len(blocks) <= n
      /\ then \in 2..n /\ then + 1 \in 2..n /\ n \in 2..n
  <2>1. n \in Nat /\ Len(blocks) \in Nat \ {0}  BY <1>3, EmitAfterFresh
  <2> QED  BY <1>1, <1>3, <2>1
<1>6. /\ Linked(blocks') /\ Len(blocks') = n /\ Grown(blocks, blocks')
  <2>1. CondBr(m, then, then + 1) \in InstIn(n)
    BY <1>2, <1>5, InstFacts
  <2> QED  BY <1>3, <2>1, EmitAfterFresh
<1>7. /\ layout' \in Seq(Made') /\ layout' # <<>> /\ layout'[1] = 1
      /\ ToSet(layout) \subseteq ToSet(layout')
  <2>1. layout' = layout \o <<then>>
    BY <1>4, AppendIsConcat DEF IInv, LayoutOK
  <2>2. <<then>> \in Seq(1..n)
    <3>1. then \in 1..n  BY <1>5
    <3> QED  BY <3>1
  <2>3. /\ layout' \in Seq(1..n) /\ layout' # <<>> /\ layout'[1] = 1
        /\ ToSet(layout) \subseteq ToSet(layout')
    BY <1>5, <2>1, <2>2, LayoutMore
  <2> QED  BY <1>6, <2>3 DEF Made
<1>8. /\ held \in [Node -> [a : Nat, b : Nat]]
      /\ held' \in [Node -> [a : Nat, b : Nat]]
      /\ \A j \in Node : j # m => held'[j] = held[j]
      /\ held'[m].a = then /\ held'[m].b = held[m].b /\ then \in Nat
  <2>1. held \in [Node -> [a : Nat, b : Nat]]  BY DEF IInv, HeldOK
  <2>2. then \in Nat  BY <1>5
  <2>3. held' = [held EXCEPT ![m].a = then]  BY <1>4
  <2> QED  BY <1>2, <2>1, <2>2, <2>3
<1>9. Grows
  <2>1. \A j \in Node : /\ held[j].a # 0 => held'[j].a # 0
                        /\ held[j].b # 0 => held'[j].b # 0
    BY <1>5, <1>8
  <2> QED  BY <1>4, <1>6, <1>7, <2>1 DEF Grows
<1>10. HeldOK'
  <2>1. \A j \in Node : /\ held[j].a <= Len(blocks) /\ held[j].b <= Len(blocks)
                        /\ prog[j].kind = "while" /\ held[j].a # 0 => held[j].a \in Standing
    BY DEF IInv, HeldOK
  <2>2. \A j \in Node :
          /\ held'[j].a <= Len(blocks') /\ held'[j].b <= Len(blocks')
          /\ prog[j].kind = "while" /\ held'[j].a # 0 => held'[j].a \in Standing'
    <3> TAKE j \in Node
    <3>0. held[j].a \in Nat /\ held[j].b \in Nat  BY <1>8
    <3>1. CASE j = m  BY <1>2, <1>5, <1>6, <1>8, <2>1, <3>0, <3>1
    <3>2. CASE j # m  BY <1>5, <1>6, <1>8, <1>9, <2>1, <3>0, <3>2, MadeGrows
    <3> QED  BY <3>1, <3>2
  <2> QED  BY <1>4, <1>8, <2>2 DEF HeldOK
<1>11. LayoutOK' /\ IpOK'
  <2>1. LayoutOK'  BY <1>7 DEF LayoutOK
  <2>2. then \in Made' /\ then \in Nat  BY <1>5, <1>6 DEF Made
  <2>3. ip' \in InsertPoint /\ ip'.at \in Made' /\ ip'.back = FALSE
    BY <1>4, <2>2 DEF AtEnd, InsertPoint
  <2> QED  BY <2>1, <2>3 DEF IpOK
<1>f. PICK f : f = [Top EXCEPT !.pc = 1, !.x = then + 1, !.y = n]
  OBVIOUS
<1>12. /\ f \in Frame /\ f.n = m /\ f.act = "codegen" /\ f.pc = 1
       /\ f.x = then + 1 /\ f.y = n /\ f.todo \in Seq(Made)
  <2>1. 1 \in Nat /\ then + 1 \in Nat  BY <1>5
  <2> QED  BY <1>1, <1>2, <1>5, <1>f, <2>1, CodegenCall DEF Frame
<1>13. Invoke(f, Enter("codegen", k))
  BY <1>3, <1>f
<1>14. PICK T : T = lowered \cup {k}
  OBVIOUS
<1>15. CodegenOK(f, T)'
  BY <1>2, <1>4, <1>5, <1>6, <1>12, <1>14 DEF CodegenOK, Jumpable
<1> QED  BY <1>1, <1>2, <1>4, <1>9, <1>10, <1>11, <1>12, <1>13, <1>14, <1>15, StartStep

(* The middle of an if inserts else and notes the block of the then        *)
(* branch.                                                                 *)
LEMMA IfElseStep ==
  ASSUME IInv, IfElse
  PROVE  IInv'
<1>1. PICK m, x, y, k : m = Top.n /\ x = Top.x /\ y = Top.y /\ k = Kid(2)
  OBVIOUS
<1>2. /\ InCall("codegen", "if", 1) /\ HasElse
      /\ held' = [held EXCEPT ![m].a = ip.at, ![m].b = x]
      /\ FallThrough(y) /\ layout' = Append(layout, x) /\ ip' = AtEnd(x)
      /\ Invoke([Top EXCEPT !.pc = 2], Enter("codegen", k))
      /\ prog' = prog /\ decl' = decl /\ deferrals' = deferrals
      /\ lowered' = lowered /\ status' = status
  BY <1>1 DEF IfElse, Place, tree, Going
<1>3. /\ stack # <<>> /\ m \in Node /\ Top \in Frame
      /\ prog[m].kind = "if" /\ k \in Node /\ k = prog[m].kids[2]
      /\ Len(prog[m].kids) = 2
      /\ x \in Jumpable /\ y \in Jumpable /\ prog[m].kids[1] \in lowered
  <2>1. /\ stack # <<>> /\ Top.n \in Node /\ Me.kind = "if" /\ Top.pc = 1
        /\ CodegenOK(Top, lowered) /\ Top \in Frame
    BY <1>2, CodegenCall
  <2>2. 1 # 0  OBVIOUS
  <2>3. k \in Node  BY <1>1, <1>2, <2>1, KidsThere
  <2> QED  BY <1>1, <1>2, <2>1, <2>2, <2>3 DEF CodegenOK, Me, Kid, HasElse
<1>4. Linked(blocks') /\ Len(blocks') = Len(blocks) /\ Grown(blocks, blocks')
  BY <1>2, <1>3, FallThroughOK
<1>5. /\ layout' \in Seq(Made') /\ layout' # <<>> /\ layout'[1] = 1
      /\ ToSet(layout) \subseteq ToSet(layout')
  <2>1. layout' = layout \o <<x>>
    BY <1>2, AppendIsConcat DEF IInv, LayoutOK
  <2>2. PICK n : n = Len(blocks)
    OBVIOUS
  <2>3. n \in Nat /\ <<x>> \in Seq(1..n) /\ Len(blocks) <= n
    <3>1. x \in 1..n  BY <1>3, <2>2 DEF Jumpable
    <3>2. n \in Nat  BY <2>2, LenProperties DEF IInv, BlocksOK, Linked
    <3> QED  BY <2>2, <3>1, <3>2
  <2>4. /\ layout' \in Seq(1..n) /\ layout' # <<>> /\ layout'[1] = 1
        /\ ToSet(layout) \subseteq ToSet(layout')
    BY <2>1, <2>3, LayoutMore
  <2> QED  BY <1>4, <2>2, <2>4 DEF Made
<1>6. /\ ip.at \in Nat /\ ip.at # 0 /\ ip.at <= Len(blocks)
      /\ x \in Nat /\ x # 0 /\ x <= Len(blocks)
      /\ held \in [Node -> [a : Nat, b : Nat]]
  BY <1>3 DEF IInv, IpOK, Made, HeldOK, Jumpable
<1>7. /\ held' \in [Node -> [a : Nat, b : Nat]]
      /\ \A j \in Node : j # m => held'[j] = held[j]
      /\ held'[m].a = ip.at /\ held'[m].b = x
  BY <1>2, <1>3, <1>6
<1>8. Grows
  <2>1. \A j \in Node : /\ held[j].a # 0 => held'[j].a # 0
                        /\ held[j].b # 0 => held'[j].b # 0
    BY <1>6, <1>7
  <2> QED  BY <1>2, <1>4, <1>5, <2>1 DEF Grows
<1>9. HeldOK'
  <2>1. \A j \in Node : /\ held[j].a <= Len(blocks) /\ held[j].b <= Len(blocks)
                        /\ prog[j].kind = "while" /\ held[j].a # 0 => held[j].a \in Standing
    BY DEF IInv, HeldOK
  <2>2. \A j \in Node :
          /\ held'[j].a <= Len(blocks') /\ held'[j].b <= Len(blocks')
          /\ prog[j].kind = "while" /\ held'[j].a # 0 => held'[j].a \in Standing'
    <3> TAKE j \in Node
    <3>1. CASE j = m  BY <1>3, <1>4, <1>6, <1>7, <3>1
    <3>2. CASE j # m  BY <1>4, <1>7, <1>8, <2>1, <3>2, MadeGrows
    <3> QED  BY <3>1, <3>2
  <2> QED  BY <1>2, <1>7, <2>2 DEF HeldOK
<1>10. LayoutOK' /\ IpOK'
  BY <1>2, <1>3, <1>5, <1>8, IpAtEnd DEF LayoutOK
<1>f. PICK f : f = [Top EXCEPT !.pc = 2]
  OBVIOUS
<1>11. /\ f \in Frame /\ f.n = m /\ f.act = "codegen" /\ f.pc = 2
       /\ f.x = x /\ f.y = y /\ f.todo \in Seq(Made)
  BY <1>1, <1>2, <1>f, CodegenCall DEF Frame
<1>12. Invoke(f, Enter("codegen", k))
  BY <1>2, <1>f
<1>13. PICK T : T = lowered \cup {k}
  OBVIOUS
<1>14. CodegenOK(f, T)'
  BY <1>2, <1>3, <1>4, <1>6, <1>7, <1>11, <1>13 DEF CodegenOK, Jumpable
<1> QED  BY <1>1, <1>2, <1>3, <1>8, <1>9, <1>10, <1>11, <1>12, <1>13, <1>14, StartStep

(* The start of a while creates three blocks behind the others.            *)
LEMMA WhileEnterStep ==
  ASSUME IInv, WhileEnter
  PROVE  IInv'
<1>1. PICK m, w, d, n, k :
        m = Top.n /\ w = Len(blocks) + 1 /\ d = w + 1 /\ n = w + 2 /\ k = Kid(1)
  OBVIOUS
<1>2. /\ InCall("codegen", "while", 0) /\ stack # <<>> /\ m \in Node /\ m \in Nat
      /\ Top \in Frame /\ Top.act = "codegen" /\ Top.todo \in Seq(Made)
      /\ prog[m].kind = "while" /\ k \in Node /\ k = prog[m].kids[1]
  BY <1>1, CodegenCall, KidsThere, NodeAssumption DEF WhileEnter, Me, Kid
<1> DEFINE new == <<Fresh("while"), Fresh("deferBlock"), Fresh("cont")>>
<1>3. /\ layout' = layout \o <<w, d, n>> /\ held' = [held EXCEPT ![m].a = d]
      /\ prog' = prog /\ decl' = decl /\ deferrals' = deferrals
      /\ lowered' = lowered
      /\ \/ /\ blocks' = Emit(blocks \o new, ip, CondBr(m, w, d))
            /\ ip' = AtEnd(w) /\ status' = status
            /\ Invoke([Top EXCEPT !.pc = 1, !.x = w, !.y = n], Enter("codegen", k))
         \/ /\ blocks' = blocks \o new /\ ip' = ip
            /\ stack' = stack /\ status' = "error"
  <2>1. Len(blocks) \in Nat  BY LenProperties DEF IInv, BlocksOK, Linked
  <2>2. Next1 = w /\ Next1 + 1 = d /\ Next1 + 2 = n
    BY <1>1, <2>1 DEF Next1
  <2> HIDE DEF new
  <2>3. new = <<Fresh("while"), Fresh("deferBlock"), Fresh("cont")>>
    BY DEF new
  <2> QED  BY <1>1, <2>2, <2>3 DEF WhileEnter, tree, Going, EndWith
<1>4. new \in Seq({Fresh(x) : x \in Names}) /\ Len(new) = 3
  BY FreshNames DEF Names
<1> HIDE DEF new
<1>5. /\ n \in Nat /\ Len(blocks) \in Nat \ {0} /\ Len(blocks) <= n
      /\ n = Len(blocks) + Len(new) /\ w \in 2..n /\ d \in 2..n /\ n \in 2..n
  <2>1. Len(blocks) \in Nat \ {0}
    <3>1. PICK l : l = Len(blocks) + Len(new)  OBVIOUS
    <3> QED  BY <1>4, <3>1, EmitAfterFresh
  <2> QED  BY <1>1, <1>4, <2>1
<1>6. /\ Linked(blocks') /\ Len(blocks') = n /\ Grown(blocks, blocks')
  <2>1. CondBr(m, w, d) \in InstIn(n)
    BY <1>2, <1>5, InstFacts
  <2> QED  BY ZenonT(40), <1>3, <1>4, <1>5, <2>1, EmitAfterFresh
<1>7. /\ layout' \in Seq(Made') /\ layout' # <<>> /\ layout'[1] = 1
      /\ ToSet(layout) \subseteq ToSet(layout')
      /\ d \in Standing' /\ n \in Standing'
  <2>1. PICK s : s = <<w, d, n>>
    OBVIOUS
  <2>2. s \in Seq(1..n)
    <3>1. w \in 1..n /\ d \in 1..n /\ n \in 1..n  BY <1>5
    <3> QED  BY <2>1, <3>1
  <2>3. /\ layout' \in Seq(1..n) /\ layout' # <<>> /\ layout'[1] = 1
        /\ ToSet(layout) \subseteq ToSet(layout')
        /\ ToSet(s) \subseteq ToSet(layout')
    BY <1>3, <1>5, <2>1, <2>2, LayoutMore
  <2>4. d \in ToSet(s) /\ n \in ToSet(s)
    <3>1. ToSet(s) = {s[i] : i \in 1..Len(s)}  BY <2>2, ToSetOf
    <3>2. 2 \in 1..Len(s) /\ 3 \in 1..Len(s) /\ s[2] = d /\ s[3] = n  BY <2>1
    <3> QED  BY <3>1, <3>2
  <2>5. d # 1 /\ n # 1  BY <1>5
  <2> QED  BY <1>6, <2>3, <2>4, <2>5 DEF Made, Standing
<1>8. /\ held \in [Node -> [a : Nat, b : Nat]]
      /\ held' \in [Node -> [a : Nat, b : Nat]]
      /\ \A j \in Node : j # m => held'[j] = held[j]
      /\ held'[m].a = d /\ held'[m].b = held[m].b /\ d \in Nat
  <2>1. held' = [held EXCEPT ![m].a = d]  BY <1>3
  <2>2. d \in Nat  BY <1>5
  <2>3. held \in [Node -> [a : Nat, b : Nat]]  BY DEF IInv, HeldOK
  <2> QED  BY <1>2, <2>1, <2>2, <2>3
<1>9. Grows
  <2>1. \A j \in Node : /\ held[j].a # 0 => held'[j].a # 0
                        /\ held[j].b # 0 => held'[j].b # 0
    <3>1. d # 0  BY <1>5
    <3>2. \A j \in Node : j # m => held'[j] = held[j]  BY <1>8
    <3>3. held'[m].a = d /\ held'[m].b = held[m].b  BY <1>8
    <3> QED  BY <3>1, <3>2, <3>3, Zenon
  <2> QED  BY <1>3, <1>6, <1>7, <2>1 DEF Grows
<1>10. HeldOK'
  <2>1. \A j \in Node : /\ held[j].a <= Len(blocks) /\ held[j].b <= Len(blocks)
                        /\ prog[j].kind = "while" /\ held[j].a # 0 => held[j].a \in Standing
    BY DEF IInv, HeldOK
  <2>2. \A j \in Node :
          /\ held'[j].a <= Len(blocks') /\ held'[j].b <= Len(blocks')
          /\ prog[j].kind = "while" /\ held'[j].a # 0 => held'[j].a \in Standing'
    <3> TAKE j \in Node
    <3>0. held[j].a \in Nat /\ held[j].b \in Nat  BY <1>8
    <3>1. CASE j = m
      <4>1. held'[j].a = d /\ held'[j].b = held[j].b  BY <1>8, <3>1
      <4>2. d \in Standing' /\ d \in Nat /\ d <= n /\ Len(blocks') = n
        BY <1>5, <1>6, <1>7
      <4>3. held[j].b <= Len(blocks) /\ Len(blocks) <= n /\ n \in Nat /\ Len(blocks) \in Nat
        BY <1>5, <2>1
      <4> QED  BY <3>0, <4>1, <4>2, <4>3
    <3>2. CASE j # m  BY <1>5, <1>6, <1>8, <1>9, <2>1, <3>0, <3>2, MadeGrows
    <3> QED  BY <3>1, <3>2
  <2> QED  BY <1>3, <1>8, <2>2 DEF HeldOK
<1>11. LayoutOK'
  BY <1>7 DEF LayoutOK
<1>12. CASE ip' = ip /\ stack' = stack /\ status' = "error"
  <2>1. IpOK' /\ StackOK'
    BY <1>3, <1>9, <1>12, IpGrows, StackGrows
  <2> QED  BY <1>3, <1>9, <1>10, <1>11, <1>12, <2>1, Assemble DEF Statuses
<1>13. CASE /\ ip' = AtEnd(w) /\ status' = status
            /\ Invoke([Top EXCEPT !.pc = 1, !.x = w, !.y = n], Enter("codegen", k))
  <2>1. IpOK'
    BY <1>5, <1>6, <1>13 DEF IpOK, AtEnd, InsertPoint, Made
  <2>2. PICK f : f = [Top EXCEPT !.pc = 1, !.x = w, !.y = n]
    OBVIOUS
  <2>3. /\ f \in Frame /\ f.n = m /\ f.act = "codegen" /\ f.pc = 1
        /\ f.x = w /\ f.y = n /\ f.todo \in Seq(Made)
    <3>1. 1 \in Nat /\ w \in Nat  BY <1>5
    <3> QED  BY <1>1, <1>2, <1>5, <2>2, <3>1 DEF Frame
  <2>4. PICK T : T = lowered \cup {k}
    OBVIOUS
  <2>5. CodegenOK(f, T)'
    <3>1. prog'[f.n].kind = "while" /\ prog'[f.n].kids[1] = k
      BY <1>2, <1>3, <2>3
    <3>2. f.x \in Jumpable'  BY <1>5, <1>6, <2>3 DEF Jumpable
    <3>3. f.y \in Standing' /\ held'[f.n].a # 0  BY <1>5, <1>7, <1>8, <2>3
    <3>4. k \in T  BY <2>4
    <3> QED  BY <2>3, <3>1, <3>2, <3>3, <3>4 DEF CodegenOK
  <2>6. Invoke(f, Enter("codegen", k))
    BY <1>13, <2>2
  <2> QED  BY <1>1, <1>2, <1>3, <1>9, <1>10, <1>11, <1>13, <2>1, <2>3, <2>4,
             <2>5, <2>6, StartStep
<1> QED  BY <1>3, <1>12, <1>13

(* The start of a for creates two blocks behind the others.                *)
LEMMA ForEnterStep ==
  ASSUME IInv, ForEnter
  PROVE  IInv'
<1>1. PICK m, w, n, k : m = Top.n /\ w = Len(blocks) + 1 /\ n = w + 1 /\ k = Kid(1)
  OBVIOUS
<1>2. /\ InCall("codegen", "for", 0) /\ stack # <<>> /\ m \in Node /\ m \in Nat
      /\ Top \in Frame /\ Top.act = "codegen" /\ Top.todo \in Seq(Made)
      /\ prog[m].kind = "for" /\ k \in Node /\ k = prog[m].kids[1]
  BY <1>1, CodegenCall, KidsThere, NodeAssumption DEF ForEnter, Me, Kid
<1> DEFINE new == <<Fresh("for"), Fresh("cont")>>
<1>3. /\ layout' = layout \o <<w, n>> /\ held' = held
      /\ prog' = prog /\ decl' = decl /\ deferrals' = deferrals
      /\ lowered' = lowered
      /\ \/ /\ blocks' = Emit(blocks \o new, ip, CondBr(m, w, n))
            /\ ip' = AtEnd(w) /\ status' = status
            /\ Invoke([Top EXCEPT !.pc = 1, !.x = w, !.y = n], Enter("codegen", k))
         \/ /\ blocks' = blocks \o new /\ ip' = ip
            /\ stack' = stack /\ status' = "error"
  <2>1. Next1 = w /\ Next1 + 1 = n
    BY <1>1 DEF Next1
  <2> HIDE DEF new
  <2>2. new = <<Fresh("for"), Fresh("cont")>>
    BY DEF new
  <2> QED  BY <1>1, <2>1, <2>2 DEF ForEnter, tree, notes, Going, EndWith
<1>4. new \in Seq({Fresh(x) : x \in Names}) /\ Len(new) = 2
  BY FreshNames DEF Names
<1> HIDE DEF new
<1>5. /\ n \in Nat /\ Len(blocks) \in Nat \ {0} /\ Len(blocks) <= n
      /\ n = Len(blocks) + Len(new) /\ w \in 2..n /\ n \in 2..n
  <2>1. Len(blocks) \in Nat \ {0}
    <3>1. PICK l : l = Len(blocks) + Len(new)  OBVIOUS
    <3> QED  BY <1>4, <3>1, EmitAfterFresh
  <2> QED  BY <1>1, <1>4, <2>1
<1>6. /\ Linked(blocks') /\ Len(blocks') = n /\ Grown(blocks, blocks')
  <2>1. CondBr(m, w, n) \in InstIn(n)
    BY <1>2, <1>5, InstFacts
  <2> QED  BY ZenonT(40), <1>3, <1>4, <1>5, <2>1, EmitAfterFresh
<1>7. /\ layout' \in Seq(Made') /\ layout' # <<>> /\ layout'[1] = 1
      /\ ToSet(layout) \subseteq ToSet(layout')
  <2>1. PICK s : s = <<w, n>>
    OBVIOUS
  <2>2. s \in Seq(1..n)
    <3>1. w \in 1..n /\ n \in 1..n  BY <1>5
    <3> QED  BY <2>1, <3>1
  <2>3. /\ layout' \in Seq(1..n) /\ layout' # <<>> /\ layout'[1] = 1
        /\ ToSet(layout) \subseteq ToSet(layout')
    BY <1>3, <1>5, <2>1, <2>2, LayoutMore
  <2> QED  BY <1>6, <2>3 DEF Made
<1>8. Grows
  BY <1>3, <1>6, <1>7, CodeGrows
<1>9. LayoutOK' /\ HeldOK'
  BY <1>3, <1>7, <1>8, HeldGrows DEF LayoutOK
<1>10. CASE ip' = ip /\ stack' = stack /\ status' = "error"
  <2>1. IpOK' /\ StackOK'
    BY <1>3, <1>8, <1>10, IpGrows, StackGrows
  <2> QED  BY <1>3, <1>8, <1>9, <1>10, <2>1, Assemble DEF Statuses
<1>11. CASE /\ ip' = AtEnd(w) /\ status' = status
            /\ Invoke([Top EXCEPT !.pc = 1, !.x = w, !.y = n], Enter("codegen", k))
  <2>1. IpOK'
    BY <1>5, <1>6, <1>11 DEF IpOK, AtEnd, InsertPoint, Made
  <2>2. PICK f : f = [Top EXCEPT !.pc = 1, !.x = w, !.y = n]
    OBVIOUS
  <2>3. /\ f \in Frame /\ f.n = m /\ f.act = "codegen" /\ f.pc = 1
        /\ f.x = w /\ f.y = n /\ f.todo \in Seq(Made)
    <3>1. 1 \in Nat /\ w \in Nat  BY <1>5
    <3> QED  BY <1>1, <1>2, <1>5, <2>2, <3>1 DEF Frame
  <2>4. PICK T : T = lowered \cup {k}
    OBVIOUS
  <2>5. CodegenOK(f, T)'
    BY <1>2, <1>3, <1>5, <1>6, <2>3, <2>4 DEF CodegenOK, Jumpable
  <2>6. Invoke(f, Enter("codegen", k))
    BY <1>11, <2>2
  <2> QED  BY <1>1, <1>2, <1>3, <1>8, <1>9, <1>11, <2>1, <2>3, <2>4, <2>5, <2>6,
             StartStep
<1> QED  BY <1>3, <1>10, <1>11

(* The blocks a loop or a match ends with are not the entry.               *)
LEMMA StandingJumpable ==
  ASSUME IInv
  PROVE  Standing \subseteq Jumpable
<1>1. ToSet(layout) \subseteq Made  BY ToSetOf DEF IInv, LayoutOK
<1> QED  BY <1>1 DEF Standing, Made, Jumpable

(* The start of a match creates default and the block behind the arms.     *)
LEMMA MatchEnterStep ==
  ASSUME IInv, MatchEnter
  PROVE  IInv'
<1>1. PICK m, d, n : m = Top.n /\ d = Len(blocks) + 1 /\ n = d + 1
  OBVIOUS
<1>2. /\ InCall("codegen", "match", 0) /\ stack # <<>> /\ m \in Node /\ m \in Nat
      /\ Top \in Frame /\ Top.act = "codegen" /\ prog[m].kind = "match"
  BY <1>1, CodegenCall, NodeAssumption DEF MatchEnter, Me
<1> DEFINE new == <<Fresh("default"), Fresh("block")>>
<1>3. /\ layout' = layout \o <<d, n>> /\ held' = held /\ ip' = ip
      /\ prog' = prog /\ decl' = decl /\ deferrals' = Anew(m)
      /\ lowered' = lowered /\ status' = status
      /\ blocks' = Emit(blocks \o new, ip, Switch(m, d))
      /\ Become([Top EXCEPT !.pc = 1, !.x = d, !.y = n, !.todo = <<ip.at>>])
  <2>1. Next1 = d /\ Next1 + 1 = n
    BY <1>1 DEF Next1
  <2> HIDE DEF new
  <2>2. new = <<Fresh("default"), Fresh("block")>>
    BY DEF new
  <2> QED  BY <1>1, <2>1, <2>2 DEF MatchEnter, tree, Going
<1>4. new \in Seq({Fresh(x) : x \in Names}) /\ Len(new) = 2
  BY FreshNames DEF Names
<1> HIDE DEF new
<1>5. /\ n \in Nat /\ Len(blocks) \in Nat \ {0} /\ Len(blocks) <= n
      /\ n = Len(blocks) + Len(new) /\ d \in 2..n /\ n \in 2..n
  <2>1. Len(blocks) \in Nat \ {0}
    <3>1. PICK l : l = Len(blocks) + Len(new)  OBVIOUS
    <3> QED  BY <1>4, <3>1, EmitAfterFresh
  <2> QED  BY <1>1, <1>4, <2>1
<1>6. /\ Linked(blocks') /\ Len(blocks') = n /\ Grown(blocks, blocks')
  <2>1. Switch(m, d) \in InstIn(n)
    BY <1>2, <1>5, InstFacts
  <2> QED  BY ZenonT(40), <1>3, <1>4, <1>5, <2>1, EmitAfterFresh
<1>7. /\ layout' \in Seq(Made') /\ layout' # <<>> /\ layout'[1] = 1
      /\ ToSet(layout) \subseteq ToSet(layout') /\ n \in Standing'
  <2>1. PICK s : s = <<d, n>>
    OBVIOUS
  <2>2. s \in Seq(1..n)
    <3>1. d \in 1..n /\ n \in 1..n  BY <1>5
    <3> QED  BY <2>1, <3>1
  <2>3. /\ layout' \in Seq(1..n) /\ layout' # <<>> /\ layout'[1] = 1
        /\ ToSet(layout) \subseteq ToSet(layout')
        /\ ToSet(s) \subseteq ToSet(layout')
    BY <1>3, <1>5, <2>1, <2>2, LayoutMore
  <2>4. n \in ToSet(s)
    <3>1. ToSet(s) = {s[i] : i \in 1..Len(s)}  BY <2>2, ToSetOf
    <3>2. 2 \in 1..Len(s) /\ s[2] = n  BY <2>1
    <3> QED  BY <3>1, <3>2
  <2>5. n # 1  BY <1>5
  <2> QED  BY <1>6, <2>3, <2>4, <2>5 DEF Made, Standing
<1>8. Grows
  BY <1>3, <1>6, <1>7, CodeGrows
<1>9. LayoutOK' /\ HeldOK' /\ IpOK'
  BY <1>3, <1>7, <1>8, HeldGrows, IpGrows DEF LayoutOK
<1>10. PICK f : f = [Top EXCEPT !.pc = 1, !.x = d, !.y = n, !.todo = <<ip.at>>]
  OBVIOUS
<1>11. /\ <<ip.at>> \in Seq(Made') /\ <<ip.at>> \in Seq(Nat) /\ Len(<<ip.at>>) = 1
  <2>1. ip.at \in Made' /\ ip.at \in Nat
    BY <1>8, MadeGrows DEF IInv, IpOK, Made
  <2>2. PICK M : M = Made'
    OBVIOUS
  <2> QED  BY <2>1, <2>2
<1>12. /\ f \in Frame /\ f.n = m /\ f.act = "codegen" /\ f.pc = 1
       /\ f.x = d /\ f.y = n /\ f.todo = <<ip.at>>
  <2>1. 1 \in Nat /\ d \in Nat /\ n \in Nat  BY <1>5
  <2> QED  BY <1>1, <1>2, <1>10, <1>11, <2>1 DEF Frame
<1>13. PICK T : T = lowered
  OBVIOUS
<1>14. CodegenOK(f, T)'
  BY <1>2, <1>3, <1>5, <1>6, <1>7, <1>11, <1>12 DEF CodegenOK, Jumpable
<1>15. FrameOK(f, lowered)'
  <2>1. FrameOK(f, T)'  BY <1>11, <1>12, <1>14 DEF FrameOK
  <2> QED  BY <1>3, <1>13, <2>1
<1>16. StackOK'
  BY <1>1, <1>2, <1>3, <1>8, <1>10, <1>12, <1>15, BecomeOK
<1>17. DeferralsOK'
  <2>1. /\ deferrals' \in [Node -> Seq(Deferral)]
        /\ \A k \in Node : deferrals'[k] = deferrals[k] \/ Len(deferrals'[k]) = 0
    <3>1. deferrals \in [Node -> Seq(Deferral)]  BY DEF IInv, DeferralsOK
    <3>2. PICK W : W = Within(prog)[m]  OBVIOUS
    <3>3. deferrals' = [k \in Node |-> IF k \in W THEN <<>> ELSE deferrals[k]]
      BY <1>3, <3>2 DEF Anew
    <3> QED  BY <3>1, <3>3
  <2> QED  BY <1>3, <1>8, <2>1, MadeGrows DEF IInv, DeferralsOK
<1> QED
  BY <1>3, <1>8, <1>9, <1>16, <1>17, BlocksGrow, LoweredGrows
  DEF IInv, TreeOK, Grows

(* A case is inserted in front of the block behind the arms, never in      *)
(* front of the entry.                                                     *)
LEMMA MatchCaseStep ==
  ASSUME IInv, MatchCase
  PROVE  IInv'
<1>1. PICK m, n, x, y, i, k, a :
        /\ m = Top.n /\ n = Len(blocks) + 1 /\ x = Top.x /\ y = Top.y
        /\ i = Top.i + 1 /\ k = Kid(i) /\ a = Top.todo[1]
  OBVIOUS
<1>2. /\ stack # <<>> /\ m \in Node /\ Top \in Frame /\ Top.act = "codegen"
      /\ Top.todo \in Seq(Made) /\ prog[m].kind = "match"
      /\ x \in Jumpable /\ y \in Standing /\ Len(Top.todo) = 1
  <2>1. /\ stack # <<>> /\ Top.n \in Node /\ Me.kind = "match" /\ Top.pc = 1
        /\ CodegenOK(Top, lowered) /\ Top \in Frame /\ Top.act = "codegen"
        /\ Top.todo \in Seq(Made)
    BY CodegenCall DEF MatchCase
  <2>2. 1 # 0  OBVIOUS
  <2> QED  BY <1>1, <2>1, <2>2 DEF CodegenOK, Me
<1>3. /\ i \in Nat /\ i \in 1..Len(prog[m].kids) /\ k \in Node /\ k = prog[m].kids[i]
      /\ a \in Made
  <2>1. 1 \in 1..Len(Top.todo)  BY <1>2
  <2>2. a \in Made  BY <1>1, <1>2, <2>1, ElementOfSeq
  <2>3. i \in Nat /\ i \in 1..Len(Me.kids)
    BY <1>1, <1>2, RunningCall DEF MatchCase
  <2>4. Me.kids[i] \in Node  BY <1>2, <2>3, RunningCall
  <2> QED  BY <1>1, <2>2, <2>3, <2>4 DEF Me, Kid
<1>4. PICK bs : bs = blocks \o <<Fresh("case")>>
  OBVIOUS
<1>5. /\ blocks' = AddCase(bs, a, x, n)
      /\ layout' = InsertBefore(layout, n, y) /\ ip' = AtEnd(n)
      /\ Invoke([Top EXCEPT !.pc = 2, !.i = @ + 1], Enter("codegen", k))
      /\ prog' = prog /\ decl' = decl /\ deferrals' = deferrals
      /\ lowered' = lowered /\ status' = status /\ held' = held
  <2>1. Append(blocks, Fresh("case")) = bs
    BY <1>4, AppendIsConcat DEF IInv, BlocksOK, Linked
  <2> QED  BY <1>1, <2>1 DEF MatchCase, Next1, tree, notes, Going
<1>6. /\ n \in Nat /\ Len(blocks) \in Nat \ {0} /\ Len(blocks) <= n /\ n \in 2..n
      /\ Linked(bs) /\ Len(bs) = n /\ Grown(blocks, bs)
  <2>1. PICK new : new = <<Fresh("case")>>
    OBVIOUS
  <2>2. new \in Seq({Fresh(z) : z \in Names}) /\ Len(new) = 1
    BY <2>1, FreshNames DEF Names
  <2>3. n = Len(blocks) + Len(new)  BY <1>1, <2>2
  <2>4. /\ n \in Nat /\ Len(blocks) \in Nat \ {0} /\ Len(blocks) <= n
        /\ Linked(bs) /\ Len(bs) = n /\ Grown(blocks, bs)
    BY <1>4, <2>1, <2>2, <2>3, EmitAfterFresh
  <2> QED  BY <1>1, <2>4
<1>7. /\ Linked(blocks') /\ Len(blocks') = n /\ Grown(blocks, blocks')
  <2>1. a \in 1..Len(bs) /\ n \in 2..Len(bs)
    BY <1>3, <1>6 DEF Made
  <2>2. bs # <<>>
    <3>1. Len(bs) # 0  BY <1>6
    <3> QED  BY <3>1, EmptySeq
  <2>3. /\ Linked(blocks') /\ Len(blocks') = n /\ Grown(bs, blocks')
    BY <1>5, <1>6, <2>1, <2>2, AddCaseProperties
  <2> QED  BY <1>6, <2>2, <2>3, GrownTransitive
<1>8. /\ layout' \in Seq(Made') /\ layout' # <<>> /\ layout'[1] = 1
      /\ ToSet(layout) \subseteq ToSet(layout')
  <2>1. PICK S : S = 1..n
    OBVIOUS
  <2>2. layout \in Seq(S) /\ layout[1] = 1
    <3>1. Made \subseteq S  BY <1>6, <2>1 DEF Made
    <3> QED  BY <3>1, SeqMonotonic DEF IInv, LayoutOK
  <2>3. n \in S /\ y \in ToSet(layout) /\ y # layout[1]
    BY <1>2, <1>6, <2>1, <2>2 DEF Standing
  <2>4. /\ layout' \in Seq(S) /\ layout' # <<>> /\ layout'[1] = 1
        /\ ToSet(layout) \subseteq ToSet(layout')
    BY <1>5, <2>2, <2>3, InsertBeforeProperties
  <2> QED  BY <1>7, <2>1, <2>4 DEF Made
<1>9. Grows
  BY <1>5, <1>7, <1>8, CodeGrows
<1>10. LayoutOK' /\ HeldOK' /\ IpOK'
  BY <1>5, <1>6, <1>7, <1>8, <1>9, HeldGrows
     DEF LayoutOK, IpOK, AtEnd, InsertPoint, Made
<1>11. PICK f : f = [Top EXCEPT !.pc = 2, !.i = i]
  OBVIOUS
<1>12. Invoke(f, Enter("codegen", k))
  BY <1>1, <1>5, <1>11
<1>13. /\ f \in Frame /\ f.n = m /\ f.act = "codegen" /\ f.pc = 2 /\ f.i = i
       /\ f.x = x /\ f.y = y /\ f.todo = Top.todo
  BY <1>1, <1>2, <1>3, <1>11 DEF Frame
<1>14. PICK T : T = lowered \cup {k}
  OBVIOUS
<1>15. CodegenOK(f, T)'
  BY <1>2, <1>3, <1>5, <1>9, <1>13, <1>14, MadeGrows DEF CodegenOK
<1> QED  BY <1>1, <1>2, <1>3, <1>5, <1>9, <1>10, <1>12, <1>13, <1>14, <1>15, StartStep

(* An arm that has not left falls through to the block behind the arms.    *)
LEMMA MatchArmEndStep ==
  ASSUME IInv, MatchArmEnd
  PROVE  IInv'
<1>1. PICK i, y : i = Top.i /\ y = Top.y
  OBVIOUS
<1>2. /\ InCall("codegen", "match", 3) /\ stack # <<>> /\ Top \in Frame
      /\ y \in Jumpable /\ i \in Nat
  <2>1. /\ InCall("codegen", "match", 3) /\ stack # <<>> /\ Top \in Frame
        /\ Top.n \in Node /\ Me.kind = "match" /\ Top.pc = 3
        /\ CodegenOK(Top, lowered)
    BY CodegenCall DEF MatchArmEnd
  <2>2. 3 # 0  OBVIOUS
  <2>3. Top.y \in Standing  BY <2>1, <2>2 DEF CodegenOK, Me
  <2> QED  BY <1>1, <2>1, <2>3, StandingJumpable DEF Frame
<1>3. /\ FallThrough(y) /\ Become([Top EXCEPT !.pc = 1]) /\ status' = status
      /\ prog' = prog /\ decl' = decl /\ deferrals' = deferrals
      /\ lowered' = lowered /\ held' = held /\ layout' = layout /\ ip' = ip
  BY <1>1 DEF MatchArmEnd, tree, notes, Going
<1>4. Linked(blocks') /\ Grown(blocks, blocks')
  BY <1>2, <1>3, FallThroughOK
<1>5. Grows
  BY <1>3, <1>4, CodeGrows
<1>6. DataOK'
  BY <1>3, <1>5, BlocksGrow, LayoutGrows, IpGrows, HeldGrows, DeferralsGrow,
     LoweredGrows DEF DataOK, IInv, TreeOK
<1>7. PICK f : f = [Top EXCEPT !.pc = 1, !.i = i]
  OBVIOUS
<1>8. Become(f)
  <2>1. f = [Top EXCEPT !.pc = 1]  BY <1>1, <1>2, <1>7 DEF Frame
  <2> QED  BY <1>3, <2>1
<1>9. f \in Frame /\ f.n = Top.n /\ FrameOK(f, lowered)
  <2>1. 3 \in {1, 2, 3} /\ 1 \in {1, 2, 3} /\ 1 \notin {2, 3}  OBVIOUS
  <2> QED  BY <1>2, <1>7, <2>1, MatchGoesOn
<1> QED  BY <1>2, <1>3, <1>5, <1>6, <1>8, <1>9, GoOnStep

------------------------------------------------------------------------------
(* The body of a block, and the end of buildFunction *)

(* A Defer is noted with the block the builder is in, and counts as        *)
(* lowered at once; any other statement is started on.                     *)
LEMMA BodyStmtStep ==
  ASSUME IInv, BodyStmt
  PROVE  IInv'
<1>1. PICK m, i, k : m = Top.n /\ i = Top.i + 1 /\ k = Kid(i)
  OBVIOUS
<1>2. /\ stack # <<>> /\ m \in Node /\ Top \in Frame /\ Top.act = "codegen"
      /\ Top.todo \in Seq(Made) /\ prog[m].kind = "body" /\ i \in Nat
      /\ i \in 1..Len(prog[m].kids) /\ k \in Node /\ k = prog[m].kids[i]
      /\ \A j \in 1..i - 1 : prog[m].kids[j] \in lowered
  <2>1. /\ stack # <<>> /\ Top.n \in Node /\ Me.kind = "body"
        /\ CodegenOK(Top, lowered) /\ Top \in Frame /\ Top.act = "codegen"
        /\ Top.todo \in Seq(Made)
    BY CodegenCall DEF BodyStmt
  <2>2. i \in Nat /\ i \in 1..Len(Me.kids) /\ i - 1 = Top.i
    BY <1>1, <2>1, RunningCall DEF BodyStmt
  <2>3. Me.kids[i] \in Node  BY <2>1, <2>2, RunningCall
  <2> QED  BY <1>1, <2>1, <2>2, <2>3 DEF CodegenOK, Me, Kid
<1>3. PICK f : f = [Top EXCEPT !.i = i]
  OBVIOUS
<1>4. /\ f \in Frame /\ f.n = m /\ f.act = "codegen" /\ f.i = i
      /\ f.todo = Top.todo
  BY <1>1, <1>2, <1>3 DEF Frame
<1>5. /\ prog' = prog /\ decl' = decl /\ blocks' = blocks /\ layout' = layout
      /\ ip' = ip /\ held' = held /\ status' = status
      /\ \/ /\ prog[k].kind = "defer" /\ lowered' = lowered \cup {k} /\ Become(f)
            /\ deferrals' = [deferrals EXCEPT ![m] =
                               Remember([at |-> ip.at, stmt |-> k], @)]
         \/ /\ deferrals' = deferrals /\ lowered' = lowered
            /\ Invoke(f, Enter("codegen", k))
  BY <1>1, <1>3 DEF BodyStmt, tree, code, Going
<1>6. Grows
  <2>1. Linked(blocks') /\ Grown(blocks, blocks')
    BY <1>5 DEF Grown, IInv, BlocksOK, Linked
  <2>2. lowered \subseteq lowered'
    BY <1>5
  <2> QED  BY <1>5, <2>1, <2>2, CodeGrows
<1>7. LayoutOK' /\ IpOK' /\ HeldOK' /\ BlocksOK' /\ TreeOK'
  BY <1>5, <1>6, LayoutGrows, IpGrows, HeldGrows, BlocksGrow DEF IInv, TreeOK
<1>8. ASSUME NEW T, k \in T, lowered \subseteq T
      PROVE  CodegenOK(f, T)'
  <2>1. \A j \in 1..i : prog[m].kids[j] \in T
    <3> TAKE j \in 1..i
    <3>1. j = i \/ j \in 1..i - 1  BY <1>2
    <3> QED  BY <1>2, <1>8, <3>1
  <2>2. prog'[m].kind = "body" /\ i <= Len(prog'[m].kids)
    BY <1>2, <1>5
  <2> QED  BY <1>4, <1>5, <2>1, <2>2 DEF CodegenOK
<1>9. CASE /\ deferrals' = deferrals /\ lowered' = lowered
           /\ Invoke(f, Enter("codegen", k))
  <2>1. PICK T : T = lowered \cup {k}
    OBVIOUS
  <2>2. CodegenOK(f, T)'
    BY <1>8, <2>1
  <2> QED  BY <1>1, <1>2, <1>4, <1>5, <1>6, <1>7, <1>9, <2>1, <2>2, StartStep
<1>10. CASE /\ prog[k].kind = "defer" /\ lowered' = lowered \cup {k} /\ Become(f)
            /\ deferrals' = [deferrals EXCEPT ![m] =
                               Remember([at |-> ip.at, stmt |-> k], @)]
  <2>1. PICK e : e = [at |-> ip.at, stmt |-> k]
    OBVIOUS
  <2>2. e \in Deferral /\ e.at \in Made' /\ e.stmt \in lowered'
        /\ prog[e.stmt].kind = "defer"
    BY <1>2, <1>6, <1>10, <2>1, MadeGrows DEF Deferral, IInv, IpOK, Made
  <2>3. /\ deferrals \in [Node -> Seq(Deferral)]
        /\ \A n \in Node : \A j \in 1..Len(deferrals[n]) :
             /\ deferrals[n][j].at \in Made'
             /\ deferrals[n][j].stmt \in lowered'
             /\ prog[deferrals[n][j].stmt].kind = "defer"
    BY <1>6, MadeGrows DEF IInv, DeferralsOK, Grows
  <2>4. PICK old : old = deferrals[m]
    OBVIOUS
  <2>5. old \in Seq(Deferral) /\ Len(old) \in Nat
    BY <1>2, <2>3, <2>4
  <2>6. /\ <<e>> \o old \in Seq(Deferral) /\ Len(<<e>> \o old) = Len(old) + 1
        /\ \A j \in 1..Len(old) + 1 :
             (<<e>> \o old)[j] = IF j = 1 THEN e ELSE old[j - 1]
    <3>1. <<e>> \in Seq(Deferral) /\ Len(<<e>>) = 1 /\ <<e>>[1] = e
      BY <2>2
    <3> QED  BY <2>5, <3>1
  <2>7. deferrals' = [deferrals EXCEPT ![m] = <<e>> \o old]
    BY <1>10, <2>1, <2>4 DEF Remember
  <2>8. /\ deferrals' \in [Node -> Seq(Deferral)] /\ deferrals'[m] = <<e>> \o old
        /\ \A n \in Node : n # m => deferrals'[n] = deferrals[n]
    BY <1>2, <2>3, <2>6, <2>7
  <2>9. ASSUME NEW n \in Node, NEW j \in 1..Len(deferrals'[n])
        PROVE  /\ deferrals'[n][j].at \in Made'
               /\ deferrals'[n][j].stmt \in lowered'
               /\ prog'[deferrals'[n][j].stmt].kind = "defer"
    <3>1. CASE n # m
      BY <1>5, <2>3, <2>8, <3>1
    <3>2. CASE n = m
      <4>1. j \in 1..Len(old) + 1  BY <2>6, <2>8, <3>2
      <4>2. CASE j = 1
        <5>1. deferrals'[n][j] = e  BY <2>6, <2>8, <3>2, <4>1, <4>2
        <5> QED  BY <1>5, <2>2, <5>1
      <4>3. CASE j # 1
        <5>1. j - 1 \in 1..Len(old)  BY <2>5, <4>1, <4>3
        <5>2. deferrals'[n][j] = old[j - 1]  BY <2>6, <2>8, <3>2, <4>1, <4>3
        <5> QED  BY <1>2, <1>5, <2>3, <2>4, <5>1, <5>2
      <4> QED  BY <4>2, <4>3
    <3> QED  BY <3>1, <3>2
  <2>10. DeferralsOK'
    BY <2>8, <2>9 DEF DeferralsOK
  <2>11. LoweredOK'
    <3>1. Ready(k, lowered)'  BY <1>5, <1>10 DEF Ready
    <3> QED  BY <1>2, <1>6, <1>10, <3>1, LoweredMore
  <2>12. StackOK'
    <3>1. PICK T : T = lowered'
      OBVIOUS
    <3>2. CodegenOK(f, T)'
      BY <1>8, <1>10, <3>1
    <3>3. f.todo \in Seq(Made')
      BY <1>2, <1>4, <1>6, MadeGrows, SeqMonotonic
    <3>4. FrameOK(f, lowered)'
      <4>1. FrameOK(f, T)'  BY <1>4, <3>2, <3>3 DEF FrameOK
      <4> QED  BY <3>1, <4>1
    <3> QED  BY <1>1, <1>2, <1>4, <1>6, <1>10, <3>4, BecomeOK
  <2> QED  BY <1>5, <1>7, <2>10, <2>11, <2>12 DEF IInv
<1> QED  BY <1>5, <1>9, <1>10

(* What a function returns are values of types, never "auto".              *)
LEMMA ReturnedTypes ==
  ASSUME IInv
  PROVE  Returned \subseteq Nat
<1>1. ASSUME NEW b \in ToSet(layout), NEW inst \in ToSet(blocks[b].insts)
      PROVE  inst.ty \in Nat
  <2>1. b \in 1..Len(blocks) /\ Linked(blocks)
    BY <1>1, ToSetOf DEF IInv, LayoutOK, BlocksOK, Made
  <2>2. blocks[b].insts \in Seq(InstIn(Len(blocks)))
    BY <2>1, LinkedProperties
  <2>3. PICK I : I = InstIn(Len(blocks))
    OBVIOUS
  <2>4. inst \in I
    BY <1>1, <2>2, <2>3, ToSetOf
  <2> QED  BY <2>3, <2>4 DEF InstIn
<1> QED  BY <1>1 DEF Returned, Insts

(* buildFunction adds a missing return to the last block of the layout.    *)
LEMMA BuildEndStep ==
  ASSUME IInv, BuildEnd
  PROVE  IInv'
<1>1. PICK last, ty : last = layout[Len(layout)] /\ ty = FinalType
  OBVIOUS
<1>2. /\ prog' = prog /\ decl' = ty /\ layout' = layout /\ held' = held
      /\ deferrals' = deferrals /\ lowered' = lowered /\ stack' = stack
      /\ status' = "done"
      /\ \/ blocks' = blocks /\ ip' = ip
         \/ blocks' = Emit(blocks, AtEnd(last), Ret(0, ty)) /\ ip' = AtEnd(last)
  BY <1>1 DEF BuildEnd, notes, EndWith
<1>3. ty \in Nat
  <2>1. CASE decl = Deduced
    <3>1. Returned # {}  BY <2>1 DEF BuildEnd, TypeError
    <3>2. ty = CHOOSE t \in Returned : TRUE  BY <1>1, <2>1 DEF FinalType
    <3>3. ty \in Returned  BY <3>1, <3>2
    <3> QED  BY <3>3, ReturnedTypes
  <2>2. CASE decl # Deduced
    BY <1>1, <2>2 DEF FinalType, IInv, TreeOK
  <2> QED  BY <2>1, <2>2
<1>4. last \in 1..Len(blocks) /\ Linked(blocks)
  <2>1. layout \in Seq(Made) /\ Len(layout) \in 1..Len(layout)
    <3>1. layout \in Seq(Made) /\ layout # <<>>  BY DEF IInv, LayoutOK
    <3>2. Len(layout) \in Nat /\ Len(layout) # 0  BY <3>1, EmptySeq
    <3> QED  BY <3>1, <3>2
  <2> QED  BY <1>1, <2>1, ElementOfSeq DEF IInv, BlocksOK, Made
<1>5. /\ Linked(blocks') /\ Len(blocks') = Len(blocks) /\ Grown(blocks, blocks')
  <2>1. CASE blocks' = blocks
    BY <2>1 DEF Grown, IInv, BlocksOK, Linked
  <2>2. CASE blocks' = Emit(blocks, AtEnd(last), Ret(0, ty))
    <3>1. Ret(0, ty) \in InstIn(Len(blocks))
      <4>1. 0 \in Nat  OBVIOUS
      <4> QED  BY <1>3, <4>1, InstFacts
    <3>2. AtEnd(last) \in InsertPoint /\ AtEnd(last).at = last /\ ~AtEnd(last).back
      BY <1>4 DEF AtEnd, InsertPoint
    <3> QED  BY <1>4, <2>2, <3>1, <3>2, EmitProperties
  <2> QED  BY <1>2, <2>1, <2>2
<1>6. Grows
  BY <1>2, <1>5, CodeGrows
<1>7. LayoutOK' /\ HeldOK' /\ BlocksOK' /\ DeferralsOK' /\ LoweredOK' /\ StackOK'
  BY <1>2, <1>6, LayoutGrows, HeldGrows, BlocksGrow, DeferralsGrow, LoweredGrows,
     StackGrows
<1>8. IpOK'
  <2>1. CASE ip' = ip  BY <1>6, <2>1, IpGrows
  <2>2. CASE ip' = AtEnd(last)
    BY <1>4, <1>5, <2>2 DEF AtEnd, InsertPoint, IpOK, Made
  <2> QED  BY <1>2, <2>1, <2>2
<1>9. TreeOK'
  BY <1>2, <1>3 DEF IInv, TreeOK
<1> QED  BY <1>2, <1>7, <1>8, <1>9 DEF IInv, Statuses

------------------------------------------------------------------------------
(* The theorems *)

LEMMA InitOK ==
  ASSUME Init
  PROVE  IInv
<1>1. TreeOK
  BY ProgramAssumption, DeclAssumption DEF Init, TreeOK
<1>2. BlocksOK /\ Len(blocks) = 1
  <2>1. Len(blocks) = 1 /\ blocks[1] = Fresh("entry") /\ blocks # <<>>
    BY DEF Init
  <2>2. Fresh("entry") \in BlockIn(1)
    <3>1. PICK I, M : I = InstIn(1) /\ M = 1..1
      OBVIOUS
    <3>2. <<>> \in Seq(I) /\ <<>> \in Seq(M)  BY EmptySeq
    <3> QED  BY <3>1, <3>2 DEF BlockIn, Fresh, Names
  <2>3. PICK B : B = BlockIn(1)
    OBVIOUS
  <2>4. blocks = <<Fresh("entry")>>  BY DEF Init
  <2>5. blocks \in Seq(B)
    <3>1. PICK e : e = Fresh("entry")  OBVIOUS
    <3> QED  BY <2>2, <2>3, <2>4, <3>1
  <2>6. Linked(blocks)  BY <2>1, <2>3, <2>5 DEF Linked
  <2> QED  BY <2>1, <2>6 DEF BlocksOK, Fresh
<1>3. LayoutOK /\ IpOK
  <2>1. layout = <<1>> /\ ip = AtEnd(1) /\ 1 \in Made
    BY <1>2 DEF Init, Made
  <2>2. PICK M : M = Made
    OBVIOUS
  <2>3. <<1>> \in Seq(M)  BY <2>1, <2>2
  <2> QED  BY <2>1, <2>2, <2>3 DEF LayoutOK, IpOK, AtEnd, InsertPoint
<1>4. HeldOK
  <2>1. held = [n \in Node |-> [a |-> 0, b |-> 0]]  BY DEF Init
  <2> QED  BY <1>2, <2>1 DEF HeldOK
<1>5. DeferralsOK /\ LoweredOK
  <2>1. deferrals = [n \in Node |-> <<>>] /\ lowered = {}  BY DEF Init
  <2>2. <<>> \in Seq(Deferral) /\ Len(<<>>) = 0  BY EmptySeq
  <2> QED  BY <2>1, <2>2 DEF DeferralsOK, LoweredOK
<1>6. StackOK
  <2>1. PICK f : f = Enter("build", Root)
    OBVIOUS
  <2>2. stack = <<f>>  BY <2>1 DEF Init
  <2>3. f \in Frame /\ \A S : FrameOK(f, S)
    <3>1. <<>> \in Seq(Nat) /\ <<>> \in Seq(Made)  BY EmptySeq
    <3> QED  BY <2>1, <3>1, NodeAssumption DEF Enter, Frame, Acts, FrameOK
  <2>4. stack \in Seq(Frame) /\ Len(stack) = 1 /\ stack[1] = f
    BY <2>2, <2>3
  <2>5. \A k \in 1..Len(stack) : stack[k] = f
    BY <2>4
  <2> QED  BY <2>3, <2>4, <2>5 DEF StackOK
<1> QED  BY <1>1, <1>2, <1>3, <1>4, <1>5, <1>6 DEF IInv, Init, Statuses

(* Every step of lowering keeps the inductive invariant: one case for each *)
(* action.                                                                 *)
LEMMA NextOK ==
  ASSUME IInv, [Next]_vars
  PROVE  IInv'
<1>1. CASE Codegen
  BY <1>1, StraightStep, SilentStep, EndingStep, BodyStmtStep, IfEnterStep,
     IfElseStep, IfJoinStep, WhileEnterStep, WhileEndStep, ForEnterStep,
     ForEndStep, MatchEnterStep, MatchCaseStep, MatchDefaultStep,
     MatchArmExitStep, MatchArmEndStep, MatchJoinStep, TypeSwitchStep,
     SearchStep, JumpStep
     DEF Codegen
<1>2. CASE ScopeExit
  BY <1>2, ScopeExitStep
<1>3. CASE BuildBody \/ BuildExit \/ BuildRejected \/ BuildEnd
  BY <1>3, BuildStep, BuildEndStep, EndingStep
<1>4. CASE StackOverflow \/ Ended \/ UNCHANGED vars
  BY <1>4, EndingStep DEF Ended
<1> QED  BY <1>1, <1>2, <1>3, <1>4 DEF Next

(* The invariant holds in every state of every function body.              *)
THEOREM Invariance == Spec => []IInv
<1>1. Init => IInv
  BY InitOK
<1>2. IInv /\ [Next]_vars => IInv'
  BY NextOK
<1> QED  BY <1>1, <1>2, PTL DEF Spec

(* The variables keep their types: in particular every block number that   *)
(* is kept anywhere is the number of a block.                              *)
THEOREM TypeCorrect == Spec => []TypeOK
<1>1. IInv => TypeOK
  <2> SUFFICES ASSUME IInv  PROVE TypeOK
    OBVIOUS
  <2>1. blocks \in Seq(Block)
    BY LinkedBlocks DEF IInv, BlocksOK
  <2>2. layout \in Seq(Nat)
    <3>1. Made \subseteq Nat  BY DEF Made
    <3> QED  BY <3>1, SeqMonotonic DEF IInv, LayoutOK
  <2> QED  BY <2>1, <2>2 DEF IInv, TypeOK, TreeOK, IpOK, HeldOK, DeferralsOK,
             LoweredOK, StackOK
<1> QED  BY <1>1, Invariance, PTL

(* runScopeExit is never called on a statement whose codegen has not       *)
(* returned, however defers, loops and errors are nested: the blocks it    *)
(* reads from If and While have been set.                                  *)
THEOREM ScopeExitSafe == Spec => []ScopeExitAfterCodegen
<1>1. IInv => ScopeExitAfterCodegen
  <2> SUFFICES ASSUME IInv, NEW k \in 1..Len(stack), stack[k].act = "exit"
               PROVE  stack[k].n \in lowered
    BY DEF ScopeExitAfterCodegen
  <2>1. FrameOK(stack[k], Promised(k))
    BY DEF IInv, StackOK
  <2> QED  BY <2>1 DEF FrameOK
<1> QED  BY <1>1, Invariance, PTL

(* The entry block is never moved from the front and nothing branches to   *)
(* it, whatever loops move around and whatever defers are applied.         *)
THEOREM EntryFirst == Spec => []EntryStaysFirst
<1>1. IInv => EntryStaysFirst
  BY DEF IInv, LayoutOK, BlocksOK, EntryStaysFirst
<1> QED  BY <1>1, Invariance, PTL

------------------------------------------------------------------------------
(* Where the blocks of a function end up.                                  *)
(*                                                                         *)
(* A block is created by one statement and inserted in the function, at    *)
(* once or later, by the same call.  Placement (LoweringInv) counts the    *)
(* blocks: every one is either in the function, once, or waiting with      *)
(* exactly one active call.  A step replaces the running call, so it is    *)
(* enough that the blocks that call had waiting and the new ones are, once *)
(* each, inserted or waiting again.                                        *)

(* Sequences without repetitions *)

(* A sequence over S that lists the elements of T, each once.              *)
Lists(S, s, T) == s \in Seq(S) /\ Distinct(s) /\ ToSet(s) = T

(* Putting in a new element, wherever it goes, adds it and no other.       *)
LEMMA InsertedOnce ==
  ASSUME NEW S, NEW s \in Seq(S), NEW t, NEW T, NEW e \in S,
         NEW i \in 1..Len(s) + 1,
         Lists(S, s, T), e \notin T, Inserted(S, t, s, i, e)
  PROVE  Lists(S, t, T \cup {e})
<1>1. /\ Len(s) \in Nat /\ i \in Nat /\ Distinct(s) /\ ToSet(s) = T
      /\ t \in Seq(S) /\ Len(t) = Len(s) + 1
      /\ \A k \in 1..Len(s) + 1 : t[k] =
           IF k < i THEN s[k] ELSE IF k = i THEN e ELSE s[k - 1]
  BY LenProperties DEF Lists, Inserted
<1>2. /\ T = {s[k] : k \in 1..Len(s)}
      /\ ToSet(t) = {t[k] : k \in 1..Len(t)}
  BY <1>1, ToSetOf
<1>3. \A k \in 1..Len(t) : k = i => t[k] = e
  BY <1>1
<1>4. \A k \in 1..Len(t) : k < i => k \in 1..Len(s) /\ t[k] = s[k]
  BY <1>1
<1>5. \A k \in 1..Len(t) : k > i => k - 1 \in 1..Len(s) /\ t[k] = s[k - 1]
  BY <1>1
<1>6. Distinct(t)
  <2> SUFFICES ASSUME NEW j \in 1..Len(t), NEW k \in 1..Len(t), t[j] = t[k]
               PROVE  j = k
    BY DEF Distinct
  <2>1. \A m, n \in 1..Len(s) : s[m] = s[n] => m = n
    BY <1>1 DEF Distinct
  <2>2. \A m \in 1..Len(s) : s[m] # e
    BY <1>2
  <2>0. \A m \in 1..Len(t) : t[m] = e => m = i
    <3> SUFFICES ASSUME NEW m \in 1..Len(t), m # i  PROVE t[m] # e
      OBVIOUS
    <3>1. CASE m < i  BY <3>1, <2>2, <1>4
    <3>2. CASE m > i  BY <3>2, <2>2, <1>5
    <3> QED  BY <3>1, <3>2, <1>1
  <2>3. CASE j = i  BY <2>0, <2>3, <1>3
  <2>4. CASE k = i  BY <2>0, <2>4, <1>3
  <2>5. CASE j < i /\ k < i  BY <2>1, <2>5, <1>1, <1>4
  <2>6. CASE j > i /\ k > i
    <3>1. j - 1 = k - 1  BY <2>1, <2>6, <1>5
    <3> QED  BY <3>1
  <2>7. CASE j < i /\ k > i
    <3>1. j = k - 1  BY <2>1, <2>7, <1>4, <1>5
    <3> QED  BY <3>1, <2>7, <1>1
  <2>8. CASE j > i /\ k < i
    <3>1. j - 1 = k  BY <2>1, <2>8, <1>4, <1>5
    <3> QED  BY <3>1, <2>8, <1>1
  <2> QED  BY <2>3, <2>4, <2>5, <2>6, <2>7, <2>8, <1>1
<1>7. ToSet(t) \subseteq T \cup {e}
  <2> SUFFICES ASSUME NEW k \in 1..Len(t)  PROVE t[k] \in T \cup {e}
    BY <1>2
  <2> QED  BY <1>1, <1>2, <1>3, <1>4, <1>5
<1>8. e \in ToSet(t)
  <2>1. i \in 1..Len(t)  BY <1>1
  <2> QED  BY <2>1, <1>2, <1>3
<1>9. T \subseteq ToSet(t)
  <2> SUFFICES ASSUME NEW k \in 1..Len(s)  PROVE s[k] \in ToSet(t)
    BY <1>2
  <2>1. CASE k < i
    <3>1. k \in 1..Len(t)  BY <1>1
    <3> QED  BY <3>1, <2>1, <1>2, <1>4
  <2>2. CASE k >= i
    <3>1. k + 1 \in 1..Len(t) /\ k + 1 > i /\ (k + 1) - 1 = k  BY <2>2, <1>1
    <3>2. t[k + 1] = s[k]  BY <3>1, <1>5
    <3> QED  BY <3>1, <3>2, <1>2
  <2> QED  BY <2>1, <2>2, <1>1
<1> QED  BY <1>1, <1>6, <1>7, <1>8, <1>9 DEF Lists

(* Appending a new element.                                                *)
LEMMA AppendedOnce ==
  ASSUME NEW S, NEW s, NEW T, NEW e \in S, Lists(S, s, T), e \notin T
  PROVE  Lists(S, Append(s, e), T \cup {e})
<1>1. s \in Seq(S) /\ Len(s) \in Nat
  BY LenProperties DEF Lists
<1>2. /\ Append(s, e) \in Seq(S) /\ Len(Append(s, e)) = Len(s) + 1
      /\ \A k \in 1..Len(s) : Append(s, e)[k] = s[k]
      /\ Append(s, e)[Len(s) + 1] = e
  BY <1>1, AppendProperties
<1>3. Inserted(S, Append(s, e), s, Len(s) + 1, e)
  BY <1>1, <1>2 DEF Inserted
<1>4. Len(s) + 1 \in 1..Len(s) + 1
  BY <1>1
<1> QED  BY <1>1, <1>3, <1>4, InsertedOnce

(* Taking one out.                                                         *)
LEMMA RemovedOnce ==
  ASSUME NEW S, NEW s, NEW T, Lists(S, s, T), NEW i \in 1..Len(s)
  PROVE  Lists(S, RemoveAt(s, i), T \ {s[i]})
<1>1. /\ s \in Seq(S) /\ Len(s) \in Nat /\ i \in Nat /\ ToSet(s) = T
      /\ \A m, n \in 1..Len(s) : s[m] = s[n] => m = n
  BY LenProperties DEF Lists, Distinct
<1>2. PICK t : t = RemoveAt(s, i)
  OBVIOUS
<1>3. /\ t \in Seq(S) /\ Len(t) = Len(s) - 1
      /\ \A k \in 1..Len(s) - 1 : t[k] = IF k < i THEN s[k] ELSE s[k + 1]
  BY <1>1, <1>2, RemoveAtProperties
<1>4. /\ T = {s[k] : k \in 1..Len(s)}
      /\ ToSet(t) = {t[k] : k \in 1..Len(t)}
  BY <1>1, <1>3, ToSetOf
<1>5. \A k \in 1..Len(t) : k < i => k \in 1..Len(s) /\ t[k] = s[k]
  BY <1>1, <1>3
<1>6. \A k \in 1..Len(t) : k >= i => k + 1 \in 1..Len(s) /\ t[k] = s[k + 1]
  BY <1>1, <1>3
<1>7. Distinct(t)
  <2> SUFFICES ASSUME NEW j \in 1..Len(t), NEW k \in 1..Len(t), t[j] = t[k]
               PROVE  j = k
    BY DEF Distinct
  <2>1. CASE j < i /\ k < i  BY <2>1, <1>1, <1>5
  <2>2. CASE j >= i /\ k >= i
    <3>1. j + 1 = k + 1  BY <2>2, <1>1, <1>6
    <3> QED  BY <3>1
  <2>3. CASE j < i /\ k >= i
    <3>1. j = k + 1  BY <2>3, <1>1, <1>5, <1>6
    <3> QED  BY <3>1, <2>3, <1>1
  <2>4. CASE j >= i /\ k < i
    <3>1. j + 1 = k  BY <2>4, <1>1, <1>5, <1>6
    <3> QED  BY <3>1, <2>4, <1>1
  <2> QED  BY <2>1, <2>2, <2>3, <2>4, <1>1
<1>8. ToSet(t) \subseteq T \ {s[i]}
  <2> SUFFICES ASSUME NEW k \in 1..Len(t)  PROVE t[k] \in T \ {s[i]}
    BY <1>4
  <2>1. CASE k < i
    <3>1. k \in 1..Len(s) /\ t[k] = s[k] /\ k # i  BY <2>1, <1>1, <1>5
    <3> QED  BY <3>1, <1>1, <1>4
  <2>2. CASE k >= i
    <3>1. k + 1 \in 1..Len(s) /\ t[k] = s[k + 1] /\ k + 1 # i
      BY <2>2, <1>1, <1>6
    <3> QED  BY <3>1, <1>1, <1>4
  <2> QED  BY <2>1, <2>2, <1>1
<1>9. T \ {s[i]} \subseteq ToSet(t)
  <2> SUFFICES ASSUME NEW k \in 1..Len(s), s[k] # s[i]  PROVE s[k] \in ToSet(t)
    BY <1>4
  <2>0. k # i  OBVIOUS
  <2>1. CASE k < i
    <3>1. k \in 1..Len(t)  BY <2>1, <1>1, <1>3
    <3> QED  BY <3>1, <2>1, <1>4, <1>5
  <2>2. CASE k > i
    <3>1. k - 1 \in 1..Len(t) /\ k - 1 >= i /\ (k - 1) + 1 = k
      BY <2>2, <1>1, <1>3
    <3>2. t[k - 1] = s[k]  BY <3>1, <1>6
    <3> QED  BY <3>1, <3>2, <1>4
  <2> QED  BY <2>0, <2>1, <2>2, <1>1
<1> QED  BY <1>2, <1>3, <1>7, <1>8, <1>9 DEF Lists

(* A block inserted in front of another.                                   *)
LEMMA InsertedBeforeOnce ==
  ASSUME NEW S, NEW s, NEW T, Lists(S, s, T), NEW b \in S, b \notin T,
         NEW c \in T
  PROVE  Lists(S, InsertBefore(s, b, c), T \cup {b})
<1>1. s \in Seq(S) /\ Len(s) \in Nat /\ ToSet(s) = T
  BY LenProperties DEF Lists
<1>2. PICK i : i = IndexOf(s, c)
  OBVIOUS
<1>3. i \in 1..Len(s)
  BY <1>1, <1>2, IndexOfProperties
<1>4. i \in 1..Len(s) + 1
  BY <1>1, <1>3
<1>5. Inserted(S, InsertAt(s, i, b), s, i, b)
  BY <1>1, <1>4, InsertAtInserts
<1>6. Lists(S, InsertAt(s, i, b), T \cup {b})
  BY <1>1, <1>4, <1>5, InsertedOnce
<1> QED  BY <1>2, <1>6 DEF InsertBefore

(* A block moved behind another stays listed once.                         *)
LEMMA MovedOnce ==
  ASSUME NEW S, NEW s, NEW T, Lists(S, s, T), NEW b \in T, NEW c \in T
  PROVE  Lists(S, MoveAfter(s, b, c), T)
<1>1. s \in Seq(S) /\ Len(s) \in Nat /\ ToSet(s) = T /\ b \in S
  BY LenProperties, ToSetOf DEF Lists
<1>2. CASE b = c
  BY <1>2 DEF MoveAfter
<1>3. CASE b # c
  <2>1. PICK i, r : i = IndexOf(s, b) /\ r = RemoveAt(s, i)
    OBVIOUS
  <2>2. i \in 1..Len(s) /\ s[i] = b
    BY <1>1, <2>1, IndexOfProperties
  <2>3. Lists(S, r, T \ {b})
    BY <2>1, <2>2, RemovedOnce
  <2>4. r \in Seq(S) /\ Len(r) \in Nat /\ c \in ToSet(r)
    BY <1>3, <2>3, LenProperties DEF Lists
  <2>5. PICK j : j = IndexOf(r, c) + 1
    OBVIOUS
  <2>6. j \in 1..Len(r) + 1
    <3>1. IndexOf(r, c) \in 1..Len(r)  BY <2>4, IndexOfProperties
    <3> QED  BY <2>4, <2>5, <3>1
  <2>7. Inserted(S, InsertAt(r, j, b), r, j, b)
    BY <1>1, <2>4, <2>6, InsertAtInserts
  <2>8. Lists(S, InsertAt(r, j, b), (T \ {b}) \cup {b})
    BY <1>1, <2>3, <2>4, <2>6, <2>7, InsertedOnce
  <2>9. (T \ {b}) \cup {b} = T
    OBVIOUS
  <2>10. MoveAfter(s, b, c) = InsertAt(r, j, b)
    BY <1>3, <2>1, <2>5 DEF MoveAfter, Without
  <2> QED  BY <2>8, <2>9, <2>10
<1> QED  BY <1>2, <1>3

------------------------------------------------------------------------------
(* The running call is replaced *)

(* What the step leaves of the running call has the blocks V waiting; all  *)
(* the other calls it starts have none.                                    *)
Hands(V) ==
  /\ Len(stack') \in Nat /\ Len(stack) - 1 <= Len(stack')
  /\ \A k \in 1..Len(stack) - 1 : stack'[k] = stack[k]
  /\ Len(stack') < Len(stack) => V = {}
  /\ \A k \in Len(stack)..Len(stack') :
       /\ Waits(prog, stack'[k]) = IF k = Len(stack) THEN V ELSE {}
       /\ Orderly(prog, stack'[k], k)

(* A call with no block waiting that is not the outermost one.             *)
Calm(f) == Waits(prog, f) = {} /\ f.act # "build"

(* Returning.                                                              *)
LEMMA HandsReturn ==
  ASSUME IInv, stack # <<>>, Return
  PROVE  Hands({})
<1>1. /\ Len(stack) \in Nat \ {0} /\ Len(stack') = Len(stack) - 1
      /\ \A k \in 1..Len(stack) - 1 : stack'[k] = stack[k]
  BY BelowProperties DEF IInv, Return
<1> QED  BY <1>1 DEF Hands

(* Staying.                                                                *)
LEMMA HandsStay ==
  ASSUME IInv, Placement, stack # <<>>, stack' = stack
  PROVE  Hands(Waits(prog, Top))
<1>1. Len(stack) \in Nat \ {0} /\ Len(stack) \in 1..Len(stack)
  BY BelowProperties DEF IInv
<1>2. Orderly(prog, stack[Len(stack)], Len(stack))
  BY <1>1 DEF Placement
<1> QED  BY <1>1, <1>2 DEF Hands, Top

(* The stack after the running call has gone on as f.                      *)
LEMMA AfterBecome ==
  ASSUME IInv, stack # <<>>, NEW f, Become(f)
  PROVE  /\ Len(stack') = Len(stack) /\ stack'[Len(stack)] = f
         /\ \A k \in 1..Len(stack) - 1 : stack'[k] = stack[k]
         /\ Len(stack) \in Nat \ {0}
<1> DEFINE F == Frame \cup {f}
<1>1. /\ Len(stack) \in Nat \ {0} /\ Below \in Seq(Frame)
      /\ Len(Below) = Len(stack) - 1
      /\ \A k \in 1..Len(stack) - 1 : Below[k] = stack[k]
  BY BelowProperties DEF IInv
<1>2. Below \in Seq(F) /\ f \in F
  BY <1>1, SeqMonotonic
<1> HIDE DEF F
<1>3. /\ Len(stack') = Len(Below) + 1
      /\ \A k \in 1..Len(Below) : stack'[k] = Below[k]
      /\ stack'[Len(Below) + 1] = f
  BY <1>2, AppendProperties DEF Become
<1>4. Len(Below) + 1 = Len(stack)
  BY <1>1
<1> QED  BY <1>1, <1>3, <1>4

(* And after it has called g, to go on as f.                               *)
LEMMA AfterInvoke ==
  ASSUME IInv, stack # <<>>, NEW f, NEW g, Invoke(f, g)
  PROVE  /\ Len(stack') = Len(stack) + 1
         /\ stack'[Len(stack)] = f /\ stack'[Len(stack) + 1] = g
         /\ \A k \in 1..Len(stack) - 1 : stack'[k] = stack[k]
         /\ Len(stack) \in Nat \ {0}
<1> DEFINE F == Frame \cup {f, g}
<1>1. /\ Len(stack) \in Nat \ {0} /\ Below \in Seq(Frame)
      /\ Len(Below) = Len(stack) - 1
      /\ \A k \in 1..Len(stack) - 1 : Below[k] = stack[k]
  BY BelowProperties DEF IInv
<1>2. Below \in Seq(F) /\ <<f, g>> \in Seq(F) /\ Len(<<f, g>>) = 2
  BY <1>1, SeqMonotonic
<1> HIDE DEF F
<1>3. /\ Len(stack') = Len(Below) + 2
      /\ \A k \in 1..Len(Below) + 2 :
           stack'[k] = IF k <= Len(Below) THEN Below[k] ELSE <<f, g>>[k - Len(Below)]
  BY <1>1, <1>2, ConcatProperties DEF Invoke
<1>4. \A k \in 1..Len(stack) - 1 : stack'[k] = stack[k]
  BY <1>1, <1>3
<1>5. stack'[Len(stack)] = f
  <2>1. /\ Len(stack) \in 1..Len(Below) + 2 /\ ~(Len(stack) <= Len(Below))
        /\ Len(stack) - Len(Below) = 1
    BY <1>1
  <2> QED  BY <1>3, <2>1
<1>6. stack'[Len(stack) + 1] = g
  <2>1. /\ Len(stack) + 1 \in 1..Len(Below) + 2
        /\ ~(Len(stack) + 1 <= Len(Below)) /\ Len(stack) + 1 - Len(Below) = 2
    BY <1>1
  <2> QED  BY <1>3, <2>1
<1>7. Len(stack') = Len(stack) + 1
  BY <1>1, <1>3
<1> QED  BY <1>1, <1>4, <1>5, <1>6, <1>7

(* Going on as f, with V waiting.                                          *)
LEMMA HandsBecome ==
  ASSUME IInv, stack # <<>>, NEW f, Become(f),
         Orderly(prog, f, Len(stack))
  PROVE  Hands(Waits(prog, f))
<1>1. /\ Len(stack') = Len(stack) /\ stack'[Len(stack)] = f
      /\ \A k \in 1..Len(stack) - 1 : stack'[k] = stack[k]
      /\ Len(stack) \in Nat \ {0}
  BY AfterBecome
<1>2. \A k \in Len(stack)..Len(stack') : k = Len(stack)
  BY <1>1
<1> QED  BY <1>1, <1>2 DEF Hands

(* Calling g, to go on as f with V waiting.                                *)
LEMMA HandsInvoke ==
  ASSUME IInv, stack # <<>>, NEW f, NEW g, Invoke(f, g),
         Orderly(prog, f, Len(stack)), Calm(g)
  PROVE  Hands(Waits(prog, f))
<1>1. /\ Len(stack') = Len(stack) + 1
      /\ stack'[Len(stack)] = f /\ stack'[Len(stack) + 1] = g
      /\ \A k \in 1..Len(stack) - 1 : stack'[k] = stack[k]
      /\ Len(stack) \in Nat \ {0}
  BY AfterInvoke
<1>2. \A k \in Len(stack)..Len(stack') : k = Len(stack) \/ k = Len(stack) + 1
  BY <1>1
<1>3. /\ Waits(prog, g) = {} /\ Len(stack) + 1 # Len(stack)
      /\ Orderly(prog, g, Len(stack) + 1)
  BY <1>1 DEF Calm, Orderly
<1>4. \A k \in Len(stack)..Len(stack') :
         /\ Waits(prog, stack'[k]) = IF k = Len(stack) THEN Waits(prog, f) ELSE {}
         /\ Orderly(prog, stack'[k], k)
  BY <1>1, <1>2, <1>3
<1>5. /\ Len(stack') \in Nat /\ Len(stack) - 1 <= Len(stack')
      /\ ~(Len(stack') < Len(stack))
  BY <1>1
<1> QED  BY <1>1, <1>4, <1>5 DEF Hands

(* What a call has waiting has been made.                                  *)
LEMMA WaitingIsMade ==
  ASSUME IInv, NEW k \in 1..Len(stack)
  PROVE  Waiting(k) \subseteq Made
<1>1. FrameOK(stack[k], Promised(k))
  BY DEF IInv, StackOK
<1>2. PICK f : f = stack[k]
  OBVIOUS
<1>3. f.act = "codegen" /\ prog[f.n].kind = "if" /\ f.pc # 0 =>
        f.x \in Jumpable /\ f.y \in Jumpable
  BY <1>1, <1>2 DEF FrameOK, CodegenOK
<1> QED  BY <1>2, <1>3 DEF Waiting, Waits, Made, Jumpable

(* A step of the running call keeps every block in one place when what     *)
(* that call had waiting, and what it creates, is inserted or handed on.   *)
LEMMA PlaceStep ==
  ASSUME IInv, Placement, stack # <<>>, NEW V, Hands(V), prog' = prog,
         Made \subseteq Made', Distinct(layout'),
         V \cap ToSet(layout') = {},
         V \cup ToSet(layout') =
           ToSet(layout) \cup Waits(prog, Top) \cup (Made' \ Made),
         status' # "done"
  PROVE  Placement'
<1> DEFINE n == Len(stack)
           L == ToSet(layout)
           M == ToSet(layout')
           W(k) == Waits(prog, stack'[k])
<1>1. n \in Nat \ {0} /\ n \in 1..n
  BY BelowProperties DEF IInv
<1>2. /\ Len(stack') \in Nat /\ n - 1 <= Len(stack')
      /\ \A k \in 1..n - 1 : stack'[k] = stack[k]
      /\ Len(stack') < n => V = {}
      /\ \A k \in n..Len(stack') :
           /\ Waits(prog, stack'[k]) = IF k = n THEN V ELSE {}
           /\ Orderly(prog, stack'[k], k)
  BY DEF Hands
<1>3. /\ \A k \in 1..n : Waiting(k) \cap L = {} /\ Orderly(prog, stack[k], k)
      /\ \A k, l \in 1..n : k # l => Waiting(k) \cap Waiting(l) = {}
      /\ \A b \in Made : b \in L \/ \E k \in 1..n : b \in Waiting(k)
  BY DEF Placement
<1>4. Waiting(n) = Waits(prog, Top) /\ \A k \in 1..n : Waiting(k) \subseteq Made
  BY <1>1, WaitingIsMade DEF Waiting, Top
<1>5. V \cup M = L \cup Waiting(n) \cup (Made' \ Made) /\ V \cap M = {}
  BY <1>4
<1>6. \A k \in 1..n - 1 : W(k) = Waiting(k) /\ W(k) \cap V = {} /\ W(k) \cap M = {}
  <2> SUFFICES ASSUME NEW k \in 1..n - 1
               PROVE  W(k) = Waiting(k) /\ Waiting(k) \cap (V \cup M) = {}
    OBVIOUS
  <2>1. k \in 1..n /\ k # n  BY <1>1
  <2>2. W(k) = Waiting(k)  BY <1>2 DEF Waiting
  <2>3. /\ Waiting(k) \cap L = {} /\ Waiting(k) \cap Waiting(n) = {}
        /\ Waiting(k) \subseteq Made
    BY <1>1, <1>3, <1>4, <2>1
  <2> QED  BY <1>5, <2>2, <2>3
<1>7. \A k \in 1..Len(stack') : k \in 1..n - 1 \/ k \in n..Len(stack')
  BY <1>1, <1>2
<1>8. \A k \in n..Len(stack') : W(k) = IF k = n THEN V ELSE {}
  BY <1>2
<1>s. \A k, l \in 1..n : k # l => Waiting(k) \cap Waiting(l) = {}
  BY <1>3
<1>m. Len(stack') \in Nat
  BY <1>2
<1> HIDE DEF W, M
<1>9. \A k \in 1..Len(stack') : W(k) \cap M = {}
  <2> TAKE k \in 1..Len(stack')
  <2>1. CASE k \in 1..n - 1  BY <2>1, <1>6
  <2>2. CASE k \in n..Len(stack')
    <3>1. W(k) = V \/ W(k) = {}  BY <2>2, <1>8
    <3> QED  BY <3>1, <1>5
  <2> QED  BY <2>1, <2>2, <1>7
<1>10. \A k, l \in 1..Len(stack') : k # l => W(k) \cap W(l) = {}
  <2> SUFFICES ASSUME NEW k \in 1..Len(stack'), NEW l \in 1..Len(stack'), k # l
               PROVE  W(k) \cap W(l) = {}
    OBVIOUS
  <2>1. CASE k \in 1..n - 1 /\ l \in 1..n - 1
    <3>1. k \in 1..n /\ l \in 1..n  BY <2>1, <1>1
    <3>2. W(k) = Waiting(k) /\ W(l) = Waiting(l)  BY <2>1, <1>6
    <3> QED  BY <3>1, <3>2, <1>s
  <2>2. CASE k \in 1..n - 1 /\ ~(l \in 1..n - 1)
    <3>0. l \in n..Len(stack')  BY <2>2, <1>7
    <3>1. W(l) = V \/ W(l) = {}  BY <3>0, <1>8
    <3> QED  BY <2>2, <3>1, <1>6
  <2>3. CASE ~(k \in 1..n - 1) /\ l \in 1..n - 1
    <3>0. k \in n..Len(stack')  BY <2>3, <1>7
    <3>1. W(k) = V \/ W(k) = {}  BY <3>0, <1>8
    <3> QED  BY <2>3, <3>1, <1>6
  <2>4. CASE ~(k \in 1..n - 1) /\ ~(l \in 1..n - 1)
    <3>0. k \in n..Len(stack') /\ l \in n..Len(stack')  BY <2>4, <1>7
    <3>1. W(k) = {} \/ W(l) = {}  BY <3>0, <1>8
    <3> QED  BY <3>1
  <2> QED  BY <2>1, <2>2, <2>3, <2>4
<1>11. \A b \in Made' : b \in M \/ \E k \in 1..Len(stack') : b \in W(k)
  <2> SUFFICES ASSUME NEW b \in Made', b \notin M
               PROVE  \E k \in 1..Len(stack') : b \in W(k)
    OBVIOUS
  <2>1. CASE b \in V
    <3>1. ~(Len(stack') < n)  BY <2>1, <1>2
    <3>2. n \in 1..Len(stack') /\ n \in n..Len(stack')  BY <3>1, <1>1, <1>m
    <3> QED  BY <2>1, <3>2, <1>8
  <2>2. CASE b \notin V
    <3>1. b \in Made /\ b \notin L /\ b \notin Waiting(n)  BY <2>2, <1>5
    <3>2. PICK k \in 1..n : b \in Waiting(k)  BY <3>1, <1>3
    <3>3. k \in 1..n - 1 /\ k \in 1..Len(stack')  BY <3>1, <3>2, <1>1, <1>2
    <3> QED  BY <3>2, <3>3, <1>6
  <2> QED  BY <2>1, <2>2
<1>12. \A k \in 1..Len(stack') : Orderly(prog, stack'[k], k)
  <2> TAKE k \in 1..Len(stack')
  <2>1. CASE k \in 1..n - 1
    <3>1. k \in 1..n /\ stack'[k] = stack[k]  BY <2>1, <1>1, <1>2
    <3> QED  BY <3>1, <1>3
  <2>2. CASE k \in n..Len(stack')  BY <2>2, <1>2
  <2> QED  BY <2>1, <2>2, <1>1, <1>2
<1> QED  BY <1>9, <1>10, <1>11, <1>12 DEF Placement, Waiting, W, M

(* A call that goes on where no block was waiting: by itself, or in a last *)
(* call.                                                                   *)
Carries(f) == Waits(prog, f) = {} /\ (f.act = "build" => Top.act = "build")

Moves ==
  \/ Return \/ stack' = stack
  \/ \E f : Carries(f) /\ Become(f)
  \/ \E f, g : Carries(f) /\ Calm(g) /\ Invoke(f, g)

NotIf == ~(Top.act = "codegen" /\ Me.kind = "if")

(* A step that neither creates nor inserts a block, of a call that has     *)
(* none waiting.                                                           *)
LEMMA QuietPlace ==
  ASSUME IInv, Placement, stack # <<>>, Moves, NotIf, prog' = prog,
         layout' = layout, Len(blocks') = Len(blocks), status' # "done"
  PROVE  Placement'
<1>1. Waits(prog, Top) = {}
  BY DEF NotIf, Waits, Me
<1>2. \A f : Carries(f) => Orderly(prog, f, Len(stack))
  <2>1. Len(stack) \in 1..Len(stack)
    <3>1. Len(stack) \in Nat \ {0}  BY BelowProperties DEF IInv
    <3> QED  BY <3>1
  <2>2. Top.act = "build" => Len(stack) = 1
    BY <2>1 DEF Placement, Orderly, Top
  <2> QED  BY <2>2 DEF Carries, Orderly
<1>3. Hands({})
  <2>1. CASE Return  BY <2>1, HandsReturn
  <2>2. CASE stack' = stack  BY <2>2, <1>1, HandsStay
  <2>3. CASE \E f : Carries(f) /\ Become(f)
    <3>1. PICK f : Carries(f) /\ Become(f)  BY <2>3
    <3>2. Hands(Waits(prog, f))  BY <3>1, <1>2, HandsBecome
    <3> QED  BY <3>1, <3>2 DEF Carries
  <2>4. CASE \E f, g : Carries(f) /\ Calm(g) /\ Invoke(f, g)
    <3>1. PICK f, g : Carries(f) /\ Calm(g) /\ Invoke(f, g)  BY <2>4
    <3>2. Hands(Waits(prog, f))  BY <3>1, <1>2, HandsInvoke
    <3> QED  BY <3>1, <3>2 DEF Carries
  <2> QED  BY <2>1, <2>2, <2>3, <2>4 DEF Moves
<1>4. Made' = Made /\ Distinct(layout')
  BY DEF Made, Placement
<1> QED  BY <1>1, <1>3, <1>4, PlaceStep

(* Neither does one that stops where it is.                                *)
LEMMA StayPlace ==
  ASSUME IInv, Placement, stack' = stack, prog' = prog, layout' = layout,
         Len(blocks') = Len(blocks), status' # "done"
  PROVE  Placement'
<1>1. /\ Made' = Made /\ Len(stack') = Len(stack)
      /\ \A k \in 1..Len(stack) : Waiting(k)' = Waiting(k)
  BY DEF Made, Waiting
<1>2. \A k \in 1..Len(stack') : Orderly(prog, stack[k], k)'
  BY DEF Placement
<1> QED  BY <1>1, <1>2 DEF Placement

(* The kinds of call a step may make that have no block waiting.           *)
LEMMA CalmCalls ==
  /\ \A n : Calm(Enter("codegen", n)) /\ Calm(Enter("exit", n))
  /\ \A n, x, y : Calm(ApplyDefer(n, x, y))
  /\ \A n : Carries(Enter("exit", n))
BY DEF Calm, Carries, Waits, Enter, ApplyDefer

(* The running call, wherever it goes on.                                  *)
LEMMA CarriesItself ==
  ASSUME NotIf, NEW f, f.act = Top.act, f.n = Top.n
  PROVE  Carries(f)
BY DEF NotIf, Carries, Waits, Me

(* It goes on, or calls, or returns.                                       *)
LEMMA ScopeExitMoves ==
  ASSUME IInv, ScopeExit
  PROVE  /\ stack # <<>> /\ NotIf /\ Moves /\ prog' = prog
         /\ layout' = layout /\ blocks' = blocks /\ status' # "done"
<1>1. /\ stack # <<>> /\ status = "run" /\ NotIf /\ Top \in Frame
  <2>1. stack # <<>> /\ status = "run" /\ Top.act \in {"exit", "apply"}
    BY NotEmpty DEF ScopeExit, ExitNothing, ExitIfThen, ExitIfElse, ExitWhile,
      ExitFor, ExitBody, ExitBodyStmt, ExitBodyDefers, ExitBodyDefer,
      ExitBodyEnd, ApplyHere, ApplyBranch, ApplyNext, ApplyEnd, RunDefer,
      RunDeferExit, InCall
  <2> QED  BY <2>1, RunningCall DEF NotIf
<1>2. /\ prog' = prog /\ layout' = layout /\ blocks' = blocks
      /\ status' # "done"
  BY <1>1 DEF ScopeExit, ExitNothing, ExitIfThen, ExitIfElse, ExitWhile,
    ExitFor, ExitBody, ExitBodyStmt, ExitBodyDefers, ExitBodyDefer,
    ExitBodyEnd, ApplyHere, ApplyBranch, ApplyNext, ApplyEnd, RunDefer,
    RunDeferExit, StackOnly, AndIp, Going, EndWith, tree, code, notes
<1>3. \A f : f.act = Top.act /\ f.n = Top.n => Carries(f)
  BY <1>1, CarriesItself
<1>4. Moves
  <2>1. CASE ExitNothing \/ ApplyEnd
    BY <2>1 DEF ExitNothing, ApplyEnd, Moves
  <2>2. CASE ExitIfElse \/ ExitWhile \/ ExitFor \/ ApplyHere \/ RunDeferExit
    BY <2>2, CalmCalls DEF ExitIfElse, ExitWhile, ExitFor, ApplyHere,
      RunDeferExit, Moves
  <2>3. CASE ExitIfThen
    <3>1. PICK f : f = [Top EXCEPT !.pc = 1]  OBVIOUS
    <3>2. Carries(f)  BY <1>1, <1>3, <3>1 DEF Frame
    <3>3. Invoke(f, Enter("exit", Kid(1))) \/ Become(Enter("exit", Kid(1)))
      BY <2>3, <3>1 DEF ExitIfThen
    <3> QED  BY <3>2, <3>3, CalmCalls DEF Moves
  <2>4. CASE ExitBody
    <3>1. PICK f : f = [Top EXCEPT !.pc = 1, !.x = ip.at]  OBVIOUS
    <3>2. Carries(f)  BY <1>1, <1>3, <3>1 DEF Frame
    <3>3. Become(f)  BY <2>4, <3>1 DEF ExitBody
    <3> QED  BY <3>2, <3>3 DEF Moves
  <2>5. CASE ExitBodyStmt
    <3>1. PICK f : f = [Top EXCEPT !.i = @ + 1]  OBVIOUS
    <3>2. Carries(f)  BY <1>1, <1>3, <3>1 DEF Frame
    <3>3. Become(f) \/ Invoke(f, Enter("exit", Kid(Top.i + 1)))
      BY <2>5, <3>1 DEF ExitBodyStmt
    <3> QED  BY <3>2, <3>3, CalmCalls DEF Moves
  <2>6. CASE ExitBodyDefers
    <3>1. PICK f : f = [Top EXCEPT !.pc = 2, !.i = 0]  OBVIOUS
    <3>2. Carries(f)  BY <1>1, <1>3, <3>1 DEF Frame
    <3>3. Become(f)  BY <2>6, <3>1 DEF ExitBodyDefers
    <3> QED  BY <3>2, <3>3 DEF Moves
  <2>7. CASE ExitBodyDefer
    <3>1. PICK f : f = [Top EXCEPT !.i = @ + 1]  OBVIOUS
    <3>2. Carries(f)  BY <1>1, <1>3, <3>1 DEF Frame
    <3>3. PICK d : Invoke(f, ApplyDefer(d.stmt, Top.x, d.at))
      BY <2>7, <3>1 DEF ExitBodyDefer
    <3> QED  BY <3>2, <3>3, CalmCalls DEF Moves
  <2>8. CASE ExitBodyEnd
    BY <2>8 DEF ExitBodyEnd, EndWith, Moves
  <2>9. CASE ApplyBranch
    <3>1. PICK f : f = [Top EXCEPT !.pc = 1, !.todo = Succs(blocks, Top.y)]
      OBVIOUS
    <3>2. Carries(f)  BY <1>1, <1>3, <3>1 DEF Frame
    <3>3. Become(f)  BY <2>9, <3>1 DEF ApplyBranch
    <3> QED  BY <3>2, <3>3 DEF Moves
  <2>10. CASE ApplyNext
    <3>1. PICK f : f = [Top EXCEPT !.todo = Tail(@)]  OBVIOUS
    <3>2. Carries(f)  BY <1>1, <1>3, <3>1 DEF Frame
    <3>3. \/ Invoke(f, Enter("exit", Top.n))
          \/ Invoke(f, ApplyDefer(Top.n, Top.x, Head(Top.todo)))
      BY <2>10, <3>1 DEF ApplyNext
    <3> QED  BY <3>2, <3>3, CalmCalls DEF Moves
  <2>11. CASE RunDefer
    <3>1. PICK f : f = [Top EXCEPT !.pc = 1]  OBVIOUS
    <3>2. Carries(f)  BY <1>1, <1>3, <3>1 DEF Frame
    <3>3. stack' = stack \/ Invoke(f, Enter("codegen", Kid(1)))
      BY <2>11, <3>1 DEF RunDefer, EndWith
    <3> QED  BY <3>2, <3>3, CalmCalls DEF Moves
  <2> QED  BY <2>1, <2>2, <2>3, <2>4, <2>5, <2>6, <2>7, <2>8, <2>9, <2>10,
             <2>11 DEF ScopeExit
<1> QED  BY <1>1, <1>2, <1>4

(* Instructions are emitted into blocks that are there.                    *)
LEMMA EmitLength ==
  ASSUME NEW bs, Len(bs) \in Nat, NEW p, NEW inst
  PROVE  Len(Emit(bs, p, inst)) = Len(bs)
BY DEF Emit

(* The number of blocks is a number.                                       *)
LEMMA SomeBlocks ==
  ASSUME IInv
  PROVE  Len(blocks) \in Nat
BY LenProperties DEF IInv, BlocksOK, Linked

(* A branch that ends, with or without a jump, makes no block.             *)
LEMMA FallThroughLength ==
  ASSUME IInv, NEW cont, FallThrough(cont)
  PROVE  Len(blocks') = Len(blocks)
BY SomeBlocks, EmitLength DEF FallThrough

(* The steps of codegen and buildFunction that stop.                       *)
LEMMA StopPlace ==
  ASSUME IInv, Placement,
         \/ Rejected \/ OutsideFunction \/ SearchFailed \/ BreakCrash
         \/ BuildRejected \/ StackOverflow
  PROVE  Placement'
<1>1. /\ stack' = stack /\ prog' = prog /\ layout' = layout
      /\ blocks' = blocks /\ status' # "done"
  BY DEF Rejected, OutsideFunction, SearchFailed, BreakCrash, BuildRejected,
    StackOverflow, Fail, Crash, EndWith, tree, code
<1> QED  BY <1>1, StayPlace

(* Statements that stay in their block return, and leave the others alone. *)
LEMMA ReturningPlace ==
  ASSUME IInv, Placement,
         \/ Straight \/ Silent \/ BodyEnd \/ ForEnd \/ MatchJoin
         \/ TypeSwitchEnd \/ BreakFound \/ ContinueFound
  PROVE  Placement'
<1>1. Len(blocks) \in Nat
  BY SomeBlocks
<1>2. stack # <<>> /\ status = "run" /\ NotIf
  BY NotEmpty DEF Straight, Silent, BodyEnd, ForEnd, MatchJoin,
    TypeSwitchEnd, BreakFound, ContinueFound, Searching, InCall, NotIf
<1>3. Return /\ status' # "done" /\ prog' = prog /\ layout' = layout
  BY <1>2 DEF Straight, Silent, BodyEnd, ForEnd, MatchJoin, TypeSwitchEnd,
    BreakFound, ContinueFound, Lowered, Going, tree, code
<1>4. Len(blocks') = Len(blocks)
  <2>1. CASE Straight  BY <2>1, <1>1, EmitLength DEF Straight
  <2>2. CASE Silent \/ BodyEnd \/ MatchJoin \/ TypeSwitchEnd
    BY <2>2 DEF Silent, BodyEnd, MatchJoin, TypeSwitchEnd, code
  <2>3. CASE ForEnd
    <3>1. PICK bs : bs = Emit(blocks, ip, Call(Top.n))  OBVIOUS
    <3>2. Len(bs) = Len(blocks)  BY <3>1, <1>1, EmitLength
    <3>3. blocks' = Emit(bs, ip, CondBr(Top.n, Top.x, Top.y))
      BY <2>3, <3>1 DEF ForEnd
    <3>4. Len(bs) \in Nat  BY <3>2, <1>1
    <3>5. Len(Emit(bs, ip, CondBr(Top.n, Top.x, Top.y))) = Len(bs)
      BY <3>4, EmitLength
    <3> QED  BY <3>2, <3>3, <3>5
  <2>4. CASE BreakFound  BY <2>4, <1>1, EmitLength DEF BreakFound
  <2>5. CASE ContinueFound  BY <2>5, <1>1, EmitLength DEF ContinueFound
  <2> QED  BY <2>1, <2>2, <2>3, <2>4, <2>5
<1>5. Moves
  BY <1>3 DEF Moves
<1> QED  BY <1>2, <1>3, <1>4, <1>5, QuietPlace

(* So do the calls that go on without making a block.                      *)
LEMMA GoingOnPlace ==
  ASSUME IInv, Placement,
         \/ BodyStmt \/ MatchDefault \/ MatchArmExit \/ MatchArmEnd
         \/ TypeSwitch \/ TypeSwitchExit \/ SearchStart \/ SearchOn
         \/ BuildBody \/ BuildExit
  PROVE  Placement'
<1>1. stack # <<>> /\ status = "run" /\ NotIf
  BY NotEmpty DEF BodyStmt, MatchDefault, MatchArmExit, MatchArmEnd,
    TypeSwitch, TypeSwitchExit, SearchStart, SearchOn, BuildBody, BuildExit,
    Searching, InCall, NotIf
<1>2. status' # "done" /\ prog' = prog /\ layout' = layout
  BY <1>1 DEF BodyStmt, MatchDefault, MatchArmExit, MatchArmEnd,
    TypeSwitch, TypeSwitchExit, SearchStart, SearchOn, BuildBody, BuildExit,
    StackOnly, AndIp, Going, tree, code
<1>3. Len(blocks') = Len(blocks)
  <2>1. CASE MatchArmEnd  BY <2>1, FallThroughLength DEF MatchArmEnd
  <2> QED  BY <2>1 DEF BodyStmt, MatchDefault, MatchArmExit, TypeSwitch,
             TypeSwitchExit, SearchStart, SearchOn, BuildBody, BuildExit,
             StackOnly, AndIp, code
<1>4. \A f : f.act = Top.act /\ f.n = Top.n => Carries(f)
  BY <1>1, CarriesItself
<1>5. Top \in Frame
  BY <1>1, RunningCall
<1>6. Moves
  <2>1. CASE BodyStmt
    <3>1. PICK f : f = [Top EXCEPT !.i = @ + 1]  OBVIOUS
    <3>2. Carries(f)  BY <1>4, <1>5, <3>1 DEF Frame
    <3>3. Become(f) \/ Invoke(f, Enter("codegen", Kid(Top.i + 1)))
      BY <2>1, <3>1 DEF BodyStmt
    <3> QED  BY <3>2, <3>3, CalmCalls DEF Moves
  <2>2. CASE MatchDefault
    <3>1. PICK f : f = [Top EXCEPT !.pc = 2, !.i = @ + 1]  OBVIOUS
    <3>2. Carries(f)  BY <1>4, <1>5, <3>1 DEF Frame
    <3>3. Invoke(f, Enter("codegen", Kid(Top.i + 1)))
      BY <2>2, <3>1 DEF MatchDefault
    <3> QED  BY <3>2, <3>3, CalmCalls DEF Moves
  <2>3. CASE MatchArmExit
    <3>1. PICK f : f = [Top EXCEPT !.pc = 3]  OBVIOUS
    <3>2. Carries(f)  BY <1>4, <1>5, <3>1 DEF Frame
    <3>3. Invoke(f, Enter("exit", Kid(Top.i)))
      BY <2>3, <3>1 DEF MatchArmExit
    <3> QED  BY <3>2, <3>3, CalmCalls DEF Moves
  <2>4. CASE MatchArmEnd \/ TypeSwitch \/ BuildBody
    <3>1. PICK f : f = [Top EXCEPT !.pc = 1]  OBVIOUS
    <3>2. Carries(f)  BY <1>4, <1>5, <3>1 DEF Frame
    <3>3. Become(f) \/ \E n : Invoke(f, Enter("codegen", n))
      BY <2>4, <3>1 DEF MatchArmEnd, TypeSwitch, BuildBody
    <3> QED  BY <3>2, <3>3, CalmCalls DEF Moves
  <2>5. CASE TypeSwitchExit \/ BuildExit
    <3>1. PICK f : f = [Top EXCEPT !.pc = 2]  OBVIOUS
    <3>2. Carries(f)  BY <1>4, <1>5, <3>1 DEF Frame
    <3>3. \E n : Invoke(f, Enter("exit", n))
      BY <2>5, <3>1 DEF TypeSwitchExit, BuildExit
    <3> QED  BY <3>2, <3>3, CalmCalls DEF Moves
  <2>6. CASE SearchStart
    <3>1. PICK f : f = [Top EXCEPT !.pc = 1, !.todo = blocks[ip.at].preds]
      OBVIOUS
    <3>2. Carries(f)  BY <1>4, <1>5, <3>1 DEF Frame
    <3>3. Become(f)  BY <2>6, <3>1 DEF SearchStart
    <3> QED  BY <3>2, <3>3 DEF Moves
  <2>7. CASE SearchOn
    <3>1. PICK f : f = [Top EXCEPT !.todo = SearchMore(@)]  OBVIOUS
    <3>2. Carries(f)  BY <1>4, <1>5, <3>1 DEF Frame
    <3>3. Become(f)  BY <2>7, <3>1 DEF SearchOn
    <3> QED  BY <3>2, <3>3 DEF Moves
  <2> QED  BY <2>1, <2>2, <2>3, <2>4, <2>5, <2>6, <2>7
<1> QED  BY <1>1, <1>2, <1>3, <1>6, QuietPlace

(* buildFunction ends: it was the only call, so no block is waiting and    *)
(* every block that was made is in the function.                           *)
LEMMA BuildEndPlace ==
  ASSUME IInv, Placement, BuildEnd
  PROVE  Placement'
<1>1. /\ stack # <<>> /\ Top.act = "build" /\ stack' = stack
      /\ prog' = prog /\ layout' = layout
  BY NotEmpty DEF BuildEnd, InCall, EndWith
<1>2. Len(blocks') = Len(blocks)
  BY SomeBlocks, EmitLength DEF BuildEnd
<1>3. Len(stack) = 1
  <2>1. Len(stack) \in Nat \ {0}  BY <1>1, BelowProperties DEF IInv
  <2>2. Orderly(prog, stack[Len(stack)], Len(stack))
    BY <2>1 DEF Placement
  <2> QED  BY <1>1, <2>2 DEF Orderly, Top
<1>4. \A k \in 1..Len(stack) : Waiting(k) = {}
  BY <1>1, <1>3 DEF Waiting, Waits, Top
<1>5. Made \subseteq ToSet(layout)
  BY <1>4 DEF Placement
<1>6. /\ Made' = Made /\ Len(stack') = Len(stack)
      /\ \A k \in 1..Len(stack) : Waiting(k)' = Waiting(k)
  BY <1>1, <1>2 DEF Made, Waiting
<1>7. \A k \in 1..Len(stack') : Orderly(prog, stack[k], k)'
  BY <1>1 DEF Placement
<1> QED  BY <1>1, <1>5, <1>6, <1>7 DEF Placement

------------------------------------------------------------------------------
(* The steps that make or insert blocks *)

(* The function lists its blocks once each.                                *)
LEMMA LayoutLists ==
  ASSUME IInv, Placement, NEW n \in Nat, Len(blocks) <= n
  PROVE  /\ Lists(1..n, layout, ToSet(layout))
         /\ ToSet(layout) \subseteq 1..Len(blocks)
<1>1. Made \subseteq 1..n
  BY SomeBlocks DEF Made
<1>2. layout \in Seq(Made) /\ layout \in Seq(1..n)
  BY <1>1, SeqMonotonic DEF IInv, LayoutOK
<1> QED  BY <1>2, ToSetOf DEF Lists, Placement, Made

(* New blocks are numbered after the ones there are.                       *)
LEMMA NewBlocks ==
  ASSUME IInv, NEW S, NEW new \in Seq(S), NEW p, NEW inst
  PROVE  /\ Len(blocks \o new) = Len(blocks) + Len(new)
         /\ Len(Emit(blocks \o new, p, inst)) = Len(blocks) + Len(new)
<1> DEFINE B == BlockIn(Len(blocks))
<1>1. blocks \in Seq(B) /\ Len(blocks) \in Nat /\ Len(new) \in Nat
  BY LenProperties DEF IInv, BlocksOK, Linked
<1> HIDE DEF B
<1>2. blocks \in Seq(B \cup S) /\ new \in Seq(B \cup S)
  BY <1>1, SeqMonotonic
<1>3. Len(blocks \o new) = Len(blocks) + Len(new)
  BY <1>2, ConcatProperties
<1>4. Len(blocks \o new) \in Nat
  BY <1>1, <1>3
<1> QED  BY <1>3, <1>4, EmitLength

(* The blocks a step makes are those after the ones there are.             *)
LEMMA MadeMore ==
  ASSUME IInv, NEW k \in Nat, Len(blocks') = Len(blocks) + k
  PROVE  /\ Made \subseteq Made'
         /\ Made' \ Made = (Len(blocks) + 1)..(Len(blocks) + k)
         /\ k = 1 => Made' \ Made = {Len(blocks) + 1}
         /\ k = 2 => Made' \ Made = {Len(blocks) + 1, Len(blocks) + 2}
         /\ k = 3 => Made' \ Made =
              {Len(blocks) + 1, Len(blocks) + 2, Len(blocks) + 3}
BY SomeBlocks DEF Made

(* An If that starts keeps every new block but "then" waiting.             *)
LEMMA IfEnterPlace ==
  ASSUME IInv, Placement, IfEnter
  PROVE  Placement'
<1>1. PICK n : n = Len(blocks)
  OBVIOUS
<1>2. /\ stack # <<>> /\ status = "run" /\ Top.act = "codegen"
      /\ Me.kind = "if" /\ Top.pc = 0 /\ Top \in Frame /\ n \in Nat
  BY <1>1, NotEmpty, RunningCall, SomeBlocks DEF IfEnter, InCall
<1>3. /\ layout' = Append(layout, n + 1) /\ prog' = prog /\ status' # "done"
  BY <1>1, <1>2 DEF IfEnter, Next1, Going, tree
<1>4. PICK y \in {n + 2, n + 3} :
        /\ Len(blocks') = y /\ (HasElse <=> y # n + 2)
        /\ Invoke([Top EXCEPT !.pc = 1, !.x = n + 2, !.y = y],
                  Enter("codegen", Kid(1)))
  <2>1. CASE HasElse
    <3> DEFINE new == <<Fresh("then"), Fresh("else"), Fresh("cont")>>
    <3>1. new \in Seq({Fresh(x) : x \in Names}) /\ Len(new) = 3
      BY FreshNames DEF Names
    <3>2. /\ blocks' = Emit(blocks \o new, ip, CondBr(Top.n, n + 1, n + 1 + 1))
          /\ Invoke([Top EXCEPT !.pc = 1, !.x = n + 1 + 1, !.y = n + 1 + 2],
                    Enter("codegen", Kid(1)))
      BY <1>1, <2>1 DEF IfEnter, Next1
    <3> HIDE DEF new
    <3>3. Len(blocks') = n + 3  BY <1>1, <3>1, <3>2, NewBlocks
    <3>4. n + 1 + 1 = n + 2 /\ n + 1 + 2 = n + 3 /\ n + 3 # n + 2  BY <1>2
    <3> QED  BY <2>1, <3>2, <3>3, <3>4
  <2>2. CASE ~HasElse
    <3> DEFINE new == <<Fresh("then"), Fresh("cont")>>
    <3>1. new \in Seq({Fresh(x) : x \in Names}) /\ Len(new) = 2
      BY FreshNames DEF Names
    <3>2. /\ blocks' = Emit(blocks \o new, ip, CondBr(Top.n, n + 1, n + 1 + 1))
          /\ Invoke([Top EXCEPT !.pc = 1, !.x = n + 1 + 1, !.y = n + 1 + 1],
                    Enter("codegen", Kid(1)))
      BY <1>1, <2>2 DEF IfEnter, Next1
    <3> HIDE DEF new
    <3>3. Len(blocks') = n + 2  BY <1>1, <3>1, <3>2, NewBlocks
    <3>4. n + 1 + 1 = n + 2  BY <1>2
    <3> QED  BY <2>2, <3>2, <3>3, <3>4
  <2> QED  BY <2>1, <2>2
<1>5. PICK f : f = [Top EXCEPT !.pc = 1, !.x = n + 2, !.y = y]
  OBVIOUS
<1>6. /\ f.act = "codegen" /\ f.n = Top.n /\ f.pc = 1
      /\ f.x = n + 2 /\ f.y = y
  BY <1>2, <1>5 DEF Frame
<1>7. Waits(prog, f) = {n + 2, y} /\ Orderly(prog, f, Len(stack))
  <2>1. Waits(prog, f) = {n + 2, y}
    BY <1>2, <1>6 DEF Waits, Me
  <2> QED  BY <2>1, <1>4, <1>6 DEF Orderly, HasElse, Me
<1>8. Hands({n + 2, y})
  <2>1. Invoke(f, Enter("codegen", Kid(1)))  BY <1>4, <1>5
  <2>2. Hands(Waits(prog, f))  BY <1>2, <1>7, <2>1, CalmCalls, HandsInvoke
  <2> QED  BY <1>7, <2>2
<1>9. Waits(prog, Top) = {}
  BY <1>2 DEF Waits
<1>10. /\ Lists(1..(n + 1), layout', ToSet(layout) \cup {n + 1})
       /\ ToSet(layout) \subseteq 1..n
  <2>1. n + 1 \in Nat /\ n <= n + 1 /\ n + 1 \in 1..(n + 1) /\ n + 1 \notin 1..n
    BY <1>2
  <2>2. /\ Lists(1..(n + 1), layout, ToSet(layout))
        /\ ToSet(layout) \subseteq 1..n
    BY <1>1, <2>1, LayoutLists
  <2> QED  BY <1>3, <2>1, <2>2, AppendedOnce
<1>11. Made \subseteq Made' /\ Made' \ Made = {n + 1, n + 2, y}
  <2>1. y = n + 2 \/ y = n + 3  BY <1>4
  <2> QED  BY <1>1, <1>2, <1>4, <2>1, MadeMore
<1>12. {n + 2, y} \cap ToSet(layout') = {}
  <2>1. n + 2 \notin 1..n /\ y \notin 1..n /\ n + 2 # n + 1 /\ y # n + 1
    BY <1>2, <1>4
  <2> QED  BY <1>10, <2>1 DEF Lists
<1>13. /\ Distinct(layout')
       /\ {n + 2, y} \cup ToSet(layout') =
            ToSet(layout) \cup Waits(prog, Top) \cup (Made' \ Made)
  BY <1>9, <1>10, <1>11 DEF Lists
<1> QED  BY <1>2, <1>3, <1>8, <1>11, <1>12, <1>13, PlaceStep

(* What a running If has waiting.                                          *)
LEMMA IfWaits ==
  ASSUME IInv, Placement, NEW pc \in {1, 2}, InCall("codegen", "if", pc)
  PROVE  /\ stack # <<>> /\ Top \in Frame /\ status = "run"
         /\ Waits(prog, Top) = IF pc = 1 THEN {Top.x, Top.y} ELSE {Top.y}
         /\ pc = 1 => (HasElse <=> Top.x # Top.y)
         /\ Waits(prog, Top) \cap ToSet(layout) = {}
         /\ Waits(prog, Top) \subseteq 1..Len(blocks)
<1>1. /\ stack # <<>> /\ Top \in Frame /\ status = "run"
      /\ Top.act = "codegen" /\ Me.kind = "if" /\ Top.pc = pc
  BY NotEmpty, RunningCall DEF InCall
<1>2. Waits(prog, Top) = IF pc = 1 THEN {Top.x, Top.y} ELSE {Top.y}
  BY <1>1 DEF Waits, Me
<1>3. Len(stack) \in 1..Len(stack) /\ Waiting(Len(stack)) = Waits(prog, Top)
  <2>1. Len(stack) \in Nat \ {0}  BY <1>1, BelowProperties DEF IInv
  <2> QED  BY <2>1 DEF Waiting, Top
<1>4. /\ Waits(prog, Top) \cap ToSet(layout) = {}
      /\ Orderly(prog, Top, Len(stack))
  <2>1. /\ Waiting(Len(stack)) \cap ToSet(layout) = {}
        /\ Orderly(prog, stack[Len(stack)], Len(stack))
    BY <1>3 DEF Placement
  <2> QED  BY <1>3, <2>1 DEF Top
<1>5. pc = 1 => (HasElse <=> Top.x # Top.y)
  BY <1>1, <1>2, <1>4 DEF Orderly, HasElse, Me
<1>6. Waits(prog, Top) \subseteq 1..Len(blocks)
  BY <1>3, WaitingIsMade DEF Made
<1> QED  BY <1>1, <1>2, <1>4, <1>5, <1>6

(* The middle of an if inserts "else" and keeps "cont" waiting.            *)
LEMMA IfElsePlace ==
  ASSUME IInv, Placement, IfElse
  PROVE  Placement'
<1>1. PICK x, y, n : x = Top.x /\ y = Top.y /\ n = Len(blocks)
  OBVIOUS
<1>2. /\ InCall("codegen", "if", 1) /\ HasElse /\ prog' = prog
      /\ layout' = Append(layout, x) /\ Len(blocks') = n
      /\ Invoke([Top EXCEPT !.pc = 2], Enter("codegen", Kid(2)))
      /\ status' = status
  BY <1>1, FallThroughLength DEF IfElse, Place, Going, tree
<1>3. /\ stack # <<>> /\ Top \in Frame /\ status' # "done" /\ n \in Nat
      /\ Waits(prog, Top) = {x, y} /\ x # y
      /\ {x, y} \cap ToSet(layout) = {} /\ {x, y} \subseteq 1..n
  BY <1>1, <1>2, IfWaits, SomeBlocks
<1>4. PICK f : f = [Top EXCEPT !.pc = 2]
  OBVIOUS
<1>5. Waits(prog, f) = {y} /\ Orderly(prog, f, Len(stack))
  <2>1. f.act = "codegen" /\ f.n = Top.n /\ f.pc = 2 /\ f.y = y
    BY <1>1, <1>2, <1>3, <1>4 DEF Frame, InCall
  <2> QED  BY <1>2, <2>1 DEF Waits, Orderly, InCall, Me
<1>6. Hands({y})
  <2>1. Invoke(f, Enter("codegen", Kid(2)))  BY <1>2, <1>4
  <2>2. Hands(Waits(prog, f))  BY <1>3, <1>5, <2>1, CalmCalls, HandsInvoke
  <2> QED  BY <1>5, <2>2
<1>7. Lists(1..n, layout', ToSet(layout) \cup {x})
  <2>1. Lists(1..n, layout, ToSet(layout))  BY <1>1, <1>3, LayoutLists
  <2> QED  BY <1>2, <1>3, <2>1, AppendedOnce
<1>8. Made' = Made
  BY <1>1, <1>2 DEF Made
<1>9. /\ Distinct(layout') /\ {y} \cap ToSet(layout') = {}
      /\ {y} \cup ToSet(layout') =
           ToSet(layout) \cup Waits(prog, Top) \cup (Made' \ Made)
  BY <1>3, <1>7, <1>8 DEF Lists
<1> QED  BY <1>2, <1>3, <1>6, <1>8, <1>9, PlaceStep

(* Its end inserts "cont", the last one.                                   *)
LEMMA IfJoinPlace ==
  ASSUME IInv, Placement, IfJoin
  PROVE  Placement'
<1>1. PICK y, n : y = Top.y /\ n = Len(blocks)
  OBVIOUS
<1>2. /\ \/ InCall("codegen", "if", 1) /\ ~HasElse
         \/ InCall("codegen", "if", 2)
      /\ layout' = Append(layout, y) /\ Len(blocks') = n
      /\ Return /\ prog' = prog /\ status' = status
  BY <1>1, FallThroughLength DEF IfJoin, Place, Lowered, Going, tree
<1>3. /\ stack # <<>> /\ status' # "done" /\ n \in Nat
      /\ Waits(prog, Top) = {y}
      /\ {y} \cap ToSet(layout) = {} /\ {y} \subseteq 1..n
  <2>1. CASE InCall("codegen", "if", 1) /\ ~HasElse
    BY <1>1, <1>2, <2>1, IfWaits, SomeBlocks
  <2>2. CASE InCall("codegen", "if", 2)
    BY <1>1, <1>2, <2>2, IfWaits, SomeBlocks
  <2> QED  BY <1>2, <2>1, <2>2
<1>4. Hands({})
  BY <1>2, <1>3, HandsReturn
<1>5. Lists(1..n, layout', ToSet(layout) \cup {y})
  <2>1. Lists(1..n, layout, ToSet(layout))  BY <1>1, <1>3, LayoutLists
  <2> QED  BY <1>2, <1>3, <2>1, AppendedOnce
<1>6. Made' = Made
  BY <1>1, <1>2 DEF Made
<1>7. /\ Distinct(layout')
      /\ {} \cup ToSet(layout') =
           ToSet(layout) \cup Waits(prog, Top) \cup (Made' \ Made)
  BY <1>3, <1>5, <1>6 DEF Lists
<1> QED  BY <1>2, <1>3, <1>4, <1>6, <1>7, PlaceStep

(* Two new blocks, or three, go to the end of the function.                *)
LEMMA TwoAtEnd ==
  ASSUME IInv, Placement, NEW n, n = Len(blocks),
         layout' = layout \o <<n + 1, n + 2>>
  PROVE  Distinct(layout') /\ ToSet(layout') = ToSet(layout) \cup {n + 1, n + 2}
<1>1. /\ n \in Nat /\ n <= n + 2 /\ n + 2 \in Nat /\ n + 1 \in 1..(n + 2)
      /\ n + 2 \in 1..(n + 2) /\ n + 1 \notin 1..n /\ n + 2 \notin 1..n
      /\ n + 2 # n + 1
  BY SomeBlocks
<1>2. PICK S, T : S = 1..(n + 2) /\ T = ToSet(layout)
  OBVIOUS
<1>3. Lists(S, layout, T) /\ T \subseteq 1..n
  BY <1>1, <1>2, LayoutLists
<1>4. PICK s : s = Append(layout, n + 1)
  OBVIOUS
<1>5. Lists(S, s, T \cup {n + 1})
  BY <1>1, <1>2, <1>3, <1>4, AppendedOnce
<1>6. Lists(S, Append(s, n + 2), (T \cup {n + 1}) \cup {n + 2})
  BY <1>1, <1>2, <1>3, <1>5, AppendedOnce
<1>7. layout' = Append(s, n + 2)
  <2>1. layout \in Seq(S) /\ n + 1 \in S /\ n + 2 \in S
    BY <1>1, <1>2, <1>3 DEF Lists
  <2> QED  BY <1>4, <2>1
<1> QED  BY <1>2, <1>6, <1>7 DEF Lists

LEMMA ThreeAtEnd ==
  ASSUME IInv, Placement, NEW n, n = Len(blocks),
         layout' = layout \o <<n + 1, n + 2, n + 3>>
  PROVE  /\ Distinct(layout')
         /\ ToSet(layout') = ToSet(layout) \cup {n + 1, n + 2, n + 3}
<1>1. /\ n \in Nat /\ n <= n + 3 /\ n + 3 \in Nat /\ n + 1 \in 1..(n + 3)
      /\ n + 2 \in 1..(n + 3) /\ n + 3 \in 1..(n + 3)
      /\ n + 1 \notin 1..n /\ n + 2 \notin 1..n /\ n + 3 \notin 1..n
      /\ n + 2 # n + 1 /\ n + 3 # n + 1 /\ n + 3 # n + 2
  BY SomeBlocks
<1>2. PICK S, T : S = 1..(n + 3) /\ T = ToSet(layout)
  OBVIOUS
<1>3. Lists(S, layout, T) /\ T \subseteq 1..n
  BY <1>1, <1>2, LayoutLists
<1>4. PICK s, t : s = Append(layout, n + 1) /\ t = Append(s, n + 2)
  OBVIOUS
<1>5. Lists(S, s, T \cup {n + 1})
  BY <1>1, <1>2, <1>3, <1>4, AppendedOnce
<1>6. Lists(S, t, (T \cup {n + 1}) \cup {n + 2})
  BY <1>1, <1>2, <1>3, <1>4, <1>5, AppendedOnce
<1>7. Lists(S, Append(t, n + 3), ((T \cup {n + 1}) \cup {n + 2}) \cup {n + 3})
  BY <1>1, <1>2, <1>3, <1>6, AppendedOnce
<1>8. layout' = Append(t, n + 3)
  <2>1. layout \in Seq(S) /\ n + 1 \in S /\ n + 2 \in S /\ n + 3 \in S
    BY <1>1, <1>2, <1>3 DEF Lists
  <2> QED  BY <1>4, <2>1
<1> QED  BY <1>2, <1>7, <1>8 DEF Lists

(* The blocks of a while join the function at once, even when its          *)
(* condition does not compile.                                             *)
LEMMA WhileEnterPlace ==
  ASSUME IInv, Placement, WhileEnter
  PROVE  Placement'
<1>1. PICK n : n = Len(blocks)
  OBVIOUS
<1>2. /\ stack # <<>> /\ status = "run" /\ Top.act = "codegen"
      /\ Me.kind = "while" /\ Top \in Frame /\ n \in Nat /\ NotIf
  BY <1>1, NotEmpty, RunningCall, SomeBlocks DEF WhileEnter, InCall, NotIf
<1>3. /\ layout' = layout \o <<n + 1, n + 2, n + 3>> /\ prog' = prog
  <2>1. layout' = layout \o <<n + 1, n + 1 + 1, n + 1 + 2>> /\ prog' = prog
    BY <1>1 DEF WhileEnter, Next1, tree
  <2>2. n + 1 + 1 = n + 2 /\ n + 1 + 2 = n + 3  BY <1>2
  <2> QED  BY <2>1, <2>2
<1>4. Len(blocks') = n + 3
  <2> DEFINE new == <<Fresh("while"), Fresh("deferBlock"), Fresh("cont")>>
  <2>1. new \in Seq({Fresh(x) : x \in Names}) /\ Len(new) = 3
    BY FreshNames DEF Names
  <2>2. \/ blocks' = blocks \o new
        \/ \E inst : blocks' = Emit(blocks \o new, ip, inst)
    BY DEF WhileEnter
  <2> HIDE DEF new
  <2>3. ASSUME NEW inst
        PROVE  /\ Len(blocks \o new) = n + 3
               /\ Len(Emit(blocks \o new, ip, inst)) = n + 3
    BY <1>1, <2>1, NewBlocks
  <2> QED  BY <2>2, <2>3
<1>5. status' # "done"
  BY <1>2 DEF WhileEnter, EndWith, Going
<1>6. Waits(prog, Top) = {}
  BY <1>2 DEF Waits, NotIf, Me
<1>7. Hands({})
  <2>1. CASE Me.ok
    <3>1. PICK f : f = [Top EXCEPT !.pc = 1, !.x = Next1, !.y = Next1 + 2]
      OBVIOUS
    <3>2. f.act = "codegen" /\ f.n = Top.n  BY <1>2, <3>1 DEF Frame
    <3>3. Waits(prog, f) = {} /\ Orderly(prog, f, Len(stack))
      BY <1>2, <3>2 DEF Waits, Orderly, Me
    <3>4. Invoke(f, Enter("codegen", Kid(1)))
      BY <2>1, <3>1 DEF WhileEnter
    <3>5. Hands(Waits(prog, f))  BY <1>2, <3>3, <3>4, CalmCalls, HandsInvoke
    <3> QED  BY <3>3, <3>5
  <2>2. CASE ~Me.ok
    <3>1. stack' = stack  BY <2>2 DEF WhileEnter, EndWith
    <3> QED  BY <1>2, <1>6, <3>1, HandsStay
  <2> QED  BY <2>1, <2>2
<1>8. /\ Distinct(layout')
      /\ ToSet(layout') = ToSet(layout) \cup {n + 1, n + 2, n + 3}
  BY <1>1, <1>3, ThreeAtEnd
<1>9. Made \subseteq Made' /\ Made' \ Made = {n + 1, n + 2, n + 3}
  BY <1>1, <1>4, MadeMore
<1>10. {} \cup ToSet(layout') =
          ToSet(layout) \cup Waits(prog, Top) \cup (Made' \ Made)
  BY <1>6, <1>8, <1>9
<1> QED  BY <1>2, <1>3, <1>5, <1>7, <1>8, <1>9, <1>10, PlaceStep

(* So do those of a for.                                                   *)
LEMMA ForEnterPlace ==
  ASSUME IInv, Placement, ForEnter
  PROVE  Placement'
<1>1. PICK n : n = Len(blocks)
  OBVIOUS
<1>2. /\ stack # <<>> /\ status = "run" /\ Top.act = "codegen"
      /\ Me.kind = "for" /\ Top \in Frame /\ n \in Nat /\ NotIf
  BY <1>1, NotEmpty, RunningCall, SomeBlocks DEF ForEnter, InCall, NotIf
<1>3. /\ layout' = layout \o <<n + 1, n + 2>> /\ prog' = prog
  <2>1. layout' = layout \o <<n + 1, n + 1 + 1>> /\ prog' = prog
    BY <1>1 DEF ForEnter, Next1, tree
  <2>2. n + 1 + 1 = n + 2  BY <1>2
  <2> QED  BY <2>1, <2>2
<1>4. Len(blocks') = n + 2
  <2> DEFINE new == <<Fresh("for"), Fresh("cont")>>
  <2>1. new \in Seq({Fresh(x) : x \in Names}) /\ Len(new) = 2
    BY FreshNames DEF Names
  <2>2. \/ blocks' = blocks \o new
        \/ \E inst : blocks' = Emit(blocks \o new, ip, inst)
    BY DEF ForEnter
  <2> HIDE DEF new
  <2>3. ASSUME NEW inst
        PROVE  /\ Len(blocks \o new) = n + 2
               /\ Len(Emit(blocks \o new, ip, inst)) = n + 2
    BY <1>1, <2>1, NewBlocks
  <2> QED  BY <2>2, <2>3
<1>5. status' # "done"
  BY <1>2 DEF ForEnter, EndWith, Going
<1>6. Waits(prog, Top) = {}
  BY <1>2 DEF Waits, NotIf, Me
<1>7. Hands({})
  <2>1. CASE Me.ok
    <3>1. PICK f : f = [Top EXCEPT !.pc = 1, !.x = Next1, !.y = Next1 + 1]
      OBVIOUS
    <3>2. f.act = "codegen" /\ f.n = Top.n  BY <1>2, <3>1 DEF Frame
    <3>3. Waits(prog, f) = {} /\ Orderly(prog, f, Len(stack))
      BY <1>2, <3>2 DEF Waits, Orderly, Me
    <3>4. Invoke(f, Enter("codegen", Kid(1)))
      BY <2>1, <3>1 DEF ForEnter
    <3>5. Hands(Waits(prog, f))  BY <1>2, <3>3, <3>4, CalmCalls, HandsInvoke
    <3> QED  BY <3>3, <3>5
  <2>2. CASE ~Me.ok
    <3>1. stack' = stack  BY <2>2 DEF ForEnter, EndWith
    <3> QED  BY <1>2, <1>6, <3>1, HandsStay
  <2> QED  BY <2>1, <2>2
<1>8. Distinct(layout') /\ ToSet(layout') = ToSet(layout) \cup {n + 1, n + 2}
  BY <1>1, <1>3, TwoAtEnd
<1>9. Made \subseteq Made' /\ Made' \ Made = {n + 1, n + 2}
  BY <1>1, <1>4, MadeMore
<1>10. {} \cup ToSet(layout') =
          ToSet(layout) \cup Waits(prog, Top) \cup (Made' \ Made)
  BY <1>6, <1>8, <1>9
<1> QED  BY <1>2, <1>3, <1>5, <1>7, <1>8, <1>9, <1>10, PlaceStep

(* And the default and end of a match.                                     *)
LEMMA MatchEnterPlace ==
  ASSUME IInv, Placement, MatchEnter
  PROVE  Placement'
<1>1. PICK n : n = Len(blocks)
  OBVIOUS
<1>2. /\ stack # <<>> /\ status = "run" /\ Top.act = "codegen"
      /\ Me.kind = "match" /\ Top \in Frame /\ n \in Nat /\ NotIf
  BY <1>1, NotEmpty, RunningCall, SomeBlocks DEF MatchEnter, InCall, NotIf
<1>3. /\ layout' = layout \o <<n + 1, n + 2>> /\ prog' = prog
      /\ status' # "done"
  <2>1. /\ layout' = layout \o <<n + 1, n + 1 + 1>> /\ prog' = prog
        /\ status' = status
    BY <1>1 DEF MatchEnter, Next1, tree, Going
  <2>2. n + 1 + 1 = n + 2  BY <1>2
  <2> QED  BY <1>2, <2>1, <2>2
<1>4. Len(blocks') = n + 2
  <2> DEFINE new == <<Fresh("default"), Fresh("block")>>
  <2>1. new \in Seq({Fresh(x) : x \in Names}) /\ Len(new) = 2
    BY FreshNames DEF Names
  <2>2. \E inst : blocks' = Emit(blocks \o new, ip, inst)
    BY DEF MatchEnter
  <2> HIDE DEF new
  <2>3. ASSUME NEW inst
        PROVE  /\ Len(blocks \o new) = n + 2
               /\ Len(Emit(blocks \o new, ip, inst)) = n + 2
    BY <1>1, <2>1, NewBlocks
  <2> QED  BY <2>2, <2>3
<1>5. Waits(prog, Top) = {}
  BY <1>2 DEF Waits, NotIf, Me
<1>6. Hands({})
  <2>1. PICK f : f = [Top EXCEPT !.pc = 1, !.x = Next1, !.y = Next1 + 1,
                        !.todo = <<ip.at>>]
    OBVIOUS
  <2>2. f.act = "codegen" /\ f.n = Top.n  BY <1>2, <2>1 DEF Frame
  <2>3. Waits(prog, f) = {} /\ Orderly(prog, f, Len(stack))
    BY <1>2, <2>2 DEF Waits, Orderly, Me
  <2>4. Become(f)
    BY <2>1 DEF MatchEnter
  <2>5. Hands(Waits(prog, f))  BY <1>2, <2>3, <2>4, HandsBecome
  <2> QED  BY <2>3, <2>5
<1>7. Distinct(layout') /\ ToSet(layout') = ToSet(layout) \cup {n + 1, n + 2}
  BY <1>1, <1>3, TwoAtEnd
<1>8. Made \subseteq Made' /\ Made' \ Made = {n + 1, n + 2}
  BY <1>1, <1>4, MadeMore
<1>9. {} \cup ToSet(layout') =
         ToSet(layout) \cup Waits(prog, Top) \cup (Made' \ Made)
  BY <1>5, <1>7, <1>8
<1> QED  BY <1>2, <1>3, <1>6, <1>7, <1>8, <1>9, PlaceStep

(* Each arm of a match is inserted in front of its end.                    *)
LEMMA MatchCasePlace ==
  ASSUME IInv, Placement, MatchCase
  PROVE  Placement'
<1>1. PICK n, y : n = Len(blocks) /\ y = Top.y
  OBVIOUS
<1>2. /\ stack # <<>> /\ status = "run" /\ Top.act = "codegen"
      /\ Me.kind = "match" /\ Top \in Frame /\ n \in Nat /\ NotIf
      /\ y \in ToSet(layout)
  <2>1. InCall("codegen", "match", 1)  BY DEF MatchCase
  <2>2. /\ stack # <<>> /\ status = "run" /\ Top.act = "codegen"
        /\ Me.kind = "match" /\ Top \in Frame /\ Top.pc = 1
        /\ CodegenOK(Top, lowered)
    BY <2>1, CodegenCall
  <2>3. 1 # 0  OBVIOUS
  <2>4. Top.y \in Standing  BY <2>2, <2>3 DEF CodegenOK, Me
  <2> QED  BY <1>1, <2>2, <2>4, SomeBlocks DEF NotIf, Standing
<1>3. /\ layout' = InsertBefore(layout, n + 1, y) /\ prog' = prog
      /\ status' # "done"
  BY <1>1, <1>2 DEF MatchCase, Next1, tree, Going
<1>4. Len(blocks') = n + 1
  <2>1. PICK bs : bs = Append(blocks, Fresh("case"))  OBVIOUS
  <2>2. Len(bs) = n + 1
    <3>1. blocks \in Seq(BlockIn(Len(blocks)))
      BY DEF IInv, BlocksOK, Linked
    <3>2. blocks \in Seq(BlockIn(Len(blocks)) \cup {Fresh("case")})
      BY <3>1, SeqMonotonic
    <3> QED  BY <1>1, <2>1, <3>2, AppendProperties
  <2>3. blocks' = AddCase(bs, Top.todo[1], Top.x, Next1)
    BY <2>1 DEF MatchCase
  <2>4. Len(bs) \in Nat  BY <1>2, <2>2
  <2>5. Len(AddCase(bs, Top.todo[1], Top.x, Next1)) = Len(bs)
    BY <2>4 DEF AddCase
  <2> QED  BY <2>2, <2>3, <2>5
<1>5. Waits(prog, Top) = {}
  BY <1>2 DEF Waits, NotIf, Me
<1>6. Hands({})
  <2>1. PICK f : f = [Top EXCEPT !.pc = 2, !.i = @ + 1]
    OBVIOUS
  <2>2. f.act = "codegen" /\ f.n = Top.n  BY <1>2, <2>1 DEF Frame
  <2>3. Waits(prog, f) = {} /\ Orderly(prog, f, Len(stack))
    BY <1>2, <2>2 DEF Waits, Orderly, Me
  <2>4. Invoke(f, Enter("codegen", Kid(Top.i + 1)))
    BY <2>1 DEF MatchCase
  <2>5. Hands(Waits(prog, f))  BY <1>2, <2>3, <2>4, CalmCalls, HandsInvoke
  <2> QED  BY <2>3, <2>5
<1>7. Lists(1..(n + 1), layout', ToSet(layout) \cup {n + 1})
  <2>1. n + 1 \in Nat /\ n <= n + 1 /\ n + 1 \in 1..(n + 1) /\ n + 1 \notin 1..n
    BY <1>2
  <2>2. /\ Lists(1..(n + 1), layout, ToSet(layout))
        /\ ToSet(layout) \subseteq 1..n
    BY <1>1, <2>1, LayoutLists
  <2> QED  BY <1>2, <1>3, <2>1, <2>2, InsertedBeforeOnce
<1>8. Made \subseteq Made' /\ Made' \ Made = {n + 1}
  BY <1>1, <1>4, MadeMore
<1>9. /\ Distinct(layout')
      /\ {} \cup ToSet(layout') =
           ToSet(layout) \cup Waits(prog, Top) \cup (Made' \ Made)
  BY <1>5, <1>7, <1>8 DEF Lists
<1> QED  BY <1>2, <1>3, <1>6, <1>8, <1>9, PlaceStep

(* The end of a while only moves blocks.                                   *)
LEMMA WhileEndPlace ==
  ASSUME IInv, Placement, WhileEnd
  PROVE  Placement'
<1>1. PICK n, y, d : n = Len(blocks) /\ y = Top.y /\ d = held[Top.n].a
  OBVIOUS
<1>2. /\ stack # <<>> /\ status = "run" /\ NotIf /\ n \in Nat
      /\ y \in ToSet(layout) /\ d \in ToSet(layout)
  <2>1. InCall("codegen", "while", 1)  BY DEF WhileEnd
  <2>2. /\ stack # <<>> /\ status = "run" /\ Top.act = "codegen"
        /\ Me.kind = "while" /\ Top \in Frame /\ Top.pc = 1
        /\ Top.n \in Node /\ CodegenOK(Top, lowered)
    BY <2>1, CodegenCall
  <2>3. 1 # 0  OBVIOUS
  <2>4. Top.y \in Standing /\ held[Top.n].a # 0
    BY <2>2, <2>3 DEF CodegenOK, Me
  <2>5. held[Top.n].a \in Standing
    BY <2>2, <2>4 DEF IInv, HeldOK, Me
  <2> QED  BY <1>1, <2>2, <2>4, <2>5, SomeBlocks DEF NotIf, Standing
<1>3. /\ layout' = MoveAfter(MoveAfter(layout, d, ip.at), y, d)
      /\ ip.at \in ToSet(layout) /\ prog' = prog /\ status' # "done" /\ Return
  BY <1>1, <1>2 DEF WhileEnd, MoveBehind, Inside, Lowered, Going, tree
<1>4. Len(blocks') = n
  <2>1. PICK bs : bs = Emit(blocks, ip, CondBr(Top.n, Top.x, d))  OBVIOUS
  <2>2. Len(bs) = n  BY <1>1, <1>2, <2>1, EmitLength
  <2>3. blocks' = Emit(bs, AtEnd(d), Br(y))  BY <1>1, <2>1 DEF WhileEnd
  <2>4. Len(bs) \in Nat  BY <1>2, <2>2
  <2>5. Len(Emit(bs, AtEnd(d), Br(y))) = Len(bs)  BY <2>4, EmitLength
  <2> QED  BY <2>2, <2>3, <2>5
<1>5. Waits(prog, Top) = {}
  BY <1>2 DEF Waits, NotIf, Me
<1>6. Hands({})
  BY <1>2, <1>3, HandsReturn
<1>7. Lists(1..n, layout', ToSet(layout))
  <2>1. Lists(1..n, layout, ToSet(layout))
    BY <1>1, <1>2, LayoutLists
  <2>2. PICK s : s = MoveAfter(layout, d, ip.at)  OBVIOUS
  <2>3. Lists(1..n, s, ToSet(layout))
    BY <1>2, <1>3, <2>1, <2>2, MovedOnce
  <2>4. Lists(1..n, MoveAfter(s, y, d), ToSet(layout))
    BY <1>2, <2>3, MovedOnce
  <2> QED  BY <1>3, <2>2, <2>4
<1>8. Made' = Made
  BY <1>1, <1>4 DEF Made
<1>9. /\ Distinct(layout')
      /\ {} \cup ToSet(layout') =
           ToSet(layout) \cup Waits(prog, Top) \cup (Made' \ Made)
  BY <1>5, <1>7, <1>8 DEF Lists
<1> QED  BY <1>2, <1>3, <1>6, <1>8, <1>9, PlaceStep

------------------------------------------------------------------------------
(* At first there is only the entry, and it is in the function.            *)
LEMMA PlacementInit ==
  ASSUME Init
  PROVE  Placement
<1>1. /\ Len(blocks) = 1 /\ layout = <<1>> /\ Len(stack) = 1
      /\ stack[1] = Enter("build", Root) /\ status = "run"
  BY DEF Init
<1>2. ToSet(layout) = {1} /\ Distinct(layout) /\ Made = {1}
  <2>1. <<1>> \in Seq(Nat) /\ Len(<<1>>) = 1 /\ <<1>>[1] = 1  OBVIOUS
  <2>2. ToSet(<<1>>) = {<<1>>[i] : i \in 1..1}  BY <2>1, ToSetOf
  <2> QED  BY <1>1, <2>1, <2>2 DEF Distinct, Made
<1>3. \A k \in 1..Len(stack) : Waiting(k) = {} /\ Orderly(prog, stack[k], k)
  BY <1>1 DEF Waiting, Waits, Orderly, Enter
<1> QED  BY <1>1, <1>2, <1>3 DEF Placement

(* Every step keeps every block in one place.                              *)
LEMMA PlacementNext ==
  ASSUME IInv, Placement, [Next]_vars
  PROVE  Placement'
<1>1. CASE Codegen
  BY <1>1, StopPlace, ReturningPlace, GoingOnPlace, IfEnterPlace, IfElsePlace,
     IfJoinPlace, WhileEnterPlace, WhileEndPlace, ForEnterPlace,
     MatchEnterPlace, MatchCasePlace
     DEF Codegen
<1>2. CASE ScopeExit
  BY <1>2, ScopeExitMoves, QuietPlace
<1>3. CASE BuildBody \/ BuildExit \/ BuildRejected \/ BuildEnd \/ StackOverflow
  BY <1>3, StopPlace, GoingOnPlace, BuildEndPlace
<1>4. CASE UNCHANGED vars
  <2>1. /\ stack' = stack /\ prog' = prog /\ layout' = layout
        /\ blocks' = blocks /\ status' = status
    BY <1>4 DEF vars
  <2>2. /\ Made' = Made /\ Len(stack') = Len(stack)
        /\ \A k \in 1..Len(stack) : Waiting(k)' = Waiting(k)
    BY <2>1 DEF Made, Waiting
  <2>3. \A k \in 1..Len(stack') : Orderly(prog, stack[k], k)'
    BY <2>1 DEF Placement
  <2> QED  BY <2>1, <2>2, <2>3 DEF Placement
<1> QED  BY <1>1, <1>2, <1>3, <1>4 DEF Next, Ended

(* Every block that is made is in one place at any time: in the function,  *)
(* once, or kept by the one statement that will insert it.                 *)
THEOREM BlocksInOnePlace == Spec => []Placement
<1>1. Init => Placement
  BY PlacementInit
<1>2. IInv /\ Placement /\ [Next]_vars => Placement'
  BY PlacementNext
<1> QED  BY <1>1, <1>2, Invariance, PTL DEF Spec

(* The function never lists a block twice, whatever loops move around; and *)
(* when buildFunction succeeds it lists every block that was created, so   *)
(* no branch goes to a block that was left out.                            *)
THEOREM BlocksPlaced == Spec => []PlacedOnce
<1>1. Placement => PlacedOnce
  BY DEF Placement, PlacedOnce, Distinct, Made
<1> QED  BY <1>1, BlocksInOnePlace, PTL

------------------------------------------------------------------------------
(* What has compiled when a function is done.                              *)
(*                                                                         *)
(* codegen looks at a statement's own expressions, runScopeExit at the     *)
(* tags of the bodies in it, and each stops at the first error it finds.   *)
(* Rightness (LoweringInv) keeps the account: which statements a call has  *)
(* seen compile, and that the scope exit of a statement returns only when  *)
(* everything in it does.                                                  *)

(* What a statement is lowered with is statements.                         *)
LEMMA PartsAreNodes ==
  ASSUME NEW t \in Tree, WellFormedNode(t)
  PROVE  Parts(t) \subseteq Node
<1>1. t.kids \in Seq(Node) /\ t.arg \in Nat
  BY DEF Tree
<1>2. ToSet(t.kids) \subseteq Node /\ Len(t.kids) \in Nat
  BY <1>1, ToSetOf
<1>3. ASSUME t.kind = "typeswitch", NEW k \in {t.arg} \ {0}
      PROVE  t.kids[k] \in Node
  <2>1. k \in 1..Len(t.kids)
    BY <1>1, <1>2, <1>3 DEF WellFormedNode
  <2> QED  BY <1>1, <2>1, ElementOfSeq
<1> QED  BY <1>2, <1>3 DEF Parts

(* If a statement m leads to those in E[m], there is a set for each        *)
(* statement that holds it and is closed under that: the least one.        *)
Closed(E, S) == \A m \in S : E[m] \subseteq S
LeastFrom(E) ==
  [n \in Node |-> {m \in Node : \A S \in SUBSET Node : Closed(E, S) /\ n \in S => m \in S}]

(* It is what its equation says.                                           *)
LEMMA LeastIsClosed ==
  ASSUME NEW E, \A n \in Node : E[n] \subseteq Node, NEW n \in Node
  PROVE  LeastFrom(E)[n] = {n} \cup (UNION {LeastFrom(E)[k] : k \in E[n]})
<1> DEFINE f == LeastFrom(E)
           T == {n} \cup (UNION {f[k] : k \in E[n]})
<1>1. \A x \in Node : f[x] = {m \in Node :
        \A S \in SUBSET Node : Closed(E, S) /\ x \in S => m \in S}
  BY DEF LeastFrom
<1>2. \A x \in Node : x \in f[x] /\ f[x] \subseteq Node
  BY <1>1
<1>3. E[n] \subseteq Node /\ T \subseteq Node
  BY <1>2
<1> HIDE DEF f
<1>4. T \subseteq f[n]
  <2>1. ASSUME NEW k \in E[n], NEW m \in f[k]
        PROVE  m \in f[n]
    <3>1. k \in Node /\ m \in Node  BY <1>2, <1>3
    <3>2. ASSUME NEW S \in SUBSET Node, Closed(E, S), n \in S
          PROVE  m \in S
      <4>1. k \in S  BY <3>2 DEF Closed
      <4> QED  BY <1>1, <3>1, <3>2, <4>1
    <3> QED  BY <1>1, <3>1, <3>2
  <2> QED  BY <1>2, <2>1
<1>5. Closed(E, T)
  <2>1. ASSUME NEW m \in T, NEW y \in E[m]
        PROVE  y \in T
    <3>1. CASE m = n
      <4>1. y \in Node /\ y \in f[y]  BY <3>1, <1>2, <1>3
      <4> QED  BY <3>1, <4>1
    <3>2. CASE m # n
      <4>1. PICK k \in E[n] : m \in f[k]  BY <3>2
      <4>2. k \in Node /\ m \in Node /\ y \in Node  BY <4>1, <1>2, <1>3
      <4>3. ASSUME NEW S \in SUBSET Node, Closed(E, S), k \in S
            PROVE  y \in S
        <5>1. m \in S  BY <1>1, <4>1, <4>2, <4>3
        <5> QED  BY <4>3, <5>1 DEF Closed
      <4>4. y \in f[k]  BY <1>1, <4>2, <4>3
      <4> QED  BY <4>1, <4>4
    <3> QED  BY <3>1, <3>2
  <2> QED  BY <2>1 DEF Closed
<1>6. f[n] \subseteq T
  <2>1. n \in T  OBVIOUS
  <2> HIDE DEF T
  <2> QED  BY <1>1, <1>3, <1>5, <2>1
<1>7. f[n] = T
  BY <1>4, <1>6
<1> QED  BY <1>7 DEF f, T

(* The statements lowered with one are itself and those lowered with its   *)
(* parts.                                                                  *)
LEMMA CompiledInIs ==
  ASSUME NEW p, \A n \in Node : Parts(p[n]) \subseteq Node, NEW n \in Node
  PROVE  CompiledIn(p)[n] = {n} \cup (UNION {CompiledIn(p)[k] : k \in Parts(p[n])})
<1> DEFINE E == [m \in Node |-> Parts(p[m])]
           Is(c) == c = [m \in Node |-> {m} \cup UNION {c[k] : k \in Parts(p[m])}]
<1>1. Is(LeastFrom(E))
  <2>1. \A m \in Node : E[m] = Parts(p[m]) /\ E[m] \subseteq Node
    OBVIOUS
  <2>2. LeastFrom(E) = [m \in Node |-> LeastFrom(E)[m]]
    BY DEF LeastFrom
  <2> HIDE DEF E
  <2>3. \A m \in Node : LeastFrom(E)[m] = {m} \cup (UNION {LeastFrom(E)[k] : k \in E[m]})
    BY <2>1, LeastIsClosed
  <2>4. \A m \in Node : LeastFrom(E)[m] = {m} \cup (UNION {LeastFrom(E)[k] : k \in Parts(p[m])})
    BY <2>1, <2>3
  <2> QED  BY <2>2, <2>4, Zenon
<1>2. CompiledIn(p) = CHOOSE c : Is(c)
  BY DEF CompiledIn
<1> HIDE DEF Is, E
<1>3. Is(CompiledIn(p))
  BY <1>1, <1>2
<1>4. PICK c : c = CompiledIn(p)
  OBVIOUS
<1>5. c = [m \in Node |-> {m} \cup UNION {c[k] : k \in Parts(p[m])}]
  BY <1>3, <1>4 DEF Is
<1>6. c[n] = {n} \cup (UNION {c[k] : k \in Parts(p[n])})
  BY <1>5, Zenon
<1> QED  BY <1>4, <1>6

(* All in a statement compiles when its own expressions and its parts do.  *)
LEMMA RightWhen ==
  ASSUME TreeOK, NEW n \in Node, prog[n].ok, prog[n].kind # "forin",
         \A k \in Parts(prog[n]) : Right(prog, k)
  PROVE  Right(prog, n)
<1>1. \A m \in Node : Parts(prog[m]) \subseteq Node
  BY PartsAreNodes DEF TreeOK
<1>2. PICK c : c = CompiledIn(prog)
  OBVIOUS
<1>3. c[n] = {n} \cup (UNION {c[k] : k \in Parts(prog[n])})
  BY <1>1, <1>2, CompiledInIs
<1>4. ASSUME NEW m \in c[n]
      PROVE  prog[m].ok /\ prog[m].kind # "forin"
  <2>1. m = n \/ \E k \in Parts(prog[n]) : m \in c[k]  BY <1>3
  <2> QED  BY <1>2, <2>1 DEF Right
<1> QED  BY <1>2, <1>4 DEF Right

(* What that comes to for each kind of statement.                          *)
LEMMA RightKinds ==
  ASSUME TreeOK, NEW n \in Node
  PROVE  /\ prog[n].kind = "defer" => Right(prog, n)
         /\ /\ prog[n].ok /\ prog[n].kind \notin {"forin", "typeswitch"}
            /\ \A j \in 1..Len(prog[n].kids) : Right(prog, prog[n].kids[j])
            => Right(prog, n)
         /\ Passed(prog, n) /\ prog[n].kind \notin {"body", "if", "while", "for"} =>
              Right(prog, n)
<1> DEFINE t == prog[n]
<1>1. t \in Tree /\ WellFormedNode(t) /\ t.kids \in Seq(Node)
  BY DEF TreeOK, Tree
<1>2. ToSet(t.kids) = {t.kids[j] : j \in 1..Len(t.kids)}
  BY <1>1, ToSetOf
<1>3. ASSUME t.kind = "defer" PROVE Right(prog, n)
  <2>1. Parts(t) = {} /\ t.ok  BY <1>1, <1>3 DEF Parts, WellFormedNode
  <2> QED  BY <1>3, <2>1, RightWhen
<1>4. ASSUME t.ok, t.kind \notin {"forin", "typeswitch"},
             \A j \in 1..Len(t.kids) : Right(prog, t.kids[j])
      PROVE  Right(prog, n)
  <2>1. Parts(t) \subseteq ToSet(t.kids)  BY <1>4 DEF Parts
  <2>2. \A k \in Parts(t) : Right(prog, k)  BY <1>2, <1>4, <2>1
  <2> QED  BY <1>4, <2>2, RightWhen
<1>5. ASSUME Passed(prog, n), t.kind \notin {"body", "if", "while", "for"}
      PROVE  Right(prog, n)
  <2>1. t.kind # "forin" /\ t.ok
    BY <1>5 DEF Passed
  <2>2. CASE t.kind \in {"match", "typeswitch"}
    <3>1. \A k \in Parts(t) : Right(prog, k)  BY <1>5, <2>2 DEF Passed
    <3> QED  BY <2>1, <3>1, RightWhen
  <2>3. CASE t.kind = "defer"  BY <1>3, <2>3
  <2>4. CASE t.kind \notin {"match", "typeswitch", "defer"}
    <3>1. t.kind \in {"expr", "nop", "return", "break", "continue"}
      BY <1>1, <1>5, <2>1, <2>4 DEF Tree, Kinds
    <3>2. t.kids = <<>>  BY <1>1, <3>1 DEF WellFormedNode
    <3>3. \A j \in 1..Len(t.kids) : Right(prog, t.kids[j])  BY <3>2
    <3> QED  BY <1>4, <2>1, <2>4, <3>3
  <2> QED  BY <2>2, <2>3, <2>4
<1> QED  BY <1>3, <1>4, <1>5

------------------------------------------------------------------------------
(* What the calls have seen *)

CallsSeen == \A k \in 1..Len(stack) : Returning(prog, stack, k) => Seen(prog, stack[k])

(* The running call has made no call that could still end a scope.         *)
LEMMA TopSeen ==
  ASSUME IInv, CallsSeen, stack # <<>>
  PROVE  Seen(prog, Top)
<1>1. Len(stack) \in 1..Len(stack) /\ ~(Len(stack) < Len(stack))
  <2>1. Len(stack) \in Nat \ {0}  BY BelowProperties DEF IInv
  <2> QED  BY <2>1
<1> QED  BY <1>1 DEF CallsSeen, Returning, Top

(* What the running call hands to the one below it when it goes on as f.   *)
Owes(f) == Top.act = "exit" => f.act = "exit" /\ (Right(prog, f.n) => Right(prog, Top.n))

(* Returning: from a scope exit only if all in the statement compiles.     *)
LEMMA SeenReturn ==
  ASSUME IInv, CallsSeen, stack # <<>>, Return, prog' = prog,
         Top.act = "exit" => Right(prog, Top.n)
  PROVE  CallsSeen'
<1>1. /\ Len(stack) \in Nat \ {0} /\ Len(stack') = Len(stack) - 1
      /\ \A k \in 1..Len(stack) - 1 : stack'[k] = stack[k]
  BY BelowProperties DEF IInv, Return
<1>2. ASSUME NEW k \in 1..Len(stack'), Returning(prog, stack', k)
      PROVE  Seen(prog, stack'[k])
  <2>1. k \in 1..Len(stack) /\ stack'[k] = stack[k] /\ k + 1 \in 1..Len(stack)
    BY <1>1
  <2>2. Returning(prog, stack, k)
    <3>1. CASE k < Len(stack')
      <4>1. stack'[k + 1] = stack[k + 1]  BY <1>1, <3>1
      <4> QED  BY <1>2, <3>1, <4>1 DEF Returning
    <3>2. CASE ~(k < Len(stack'))
      <4>1. k + 1 = Len(stack)  BY <1>1, <3>2
      <4> QED  BY <4>1 DEF Returning, Top
    <3> QED  BY <3>1, <3>2
  <2> QED  BY <2>1, <2>2 DEF CallsSeen
<1> QED  BY <1>2 DEF CallsSeen

(* What the calls below the running one have seen, when it goes on as f.   *)
LEMMA SeenBelow ==
  ASSUME IInv, CallsSeen, stack # <<>>, NEW f, Owes(f),
         Len(stack') \in Nat, Len(stack) <= Len(stack'), stack'[Len(stack)] = f,
         \A k \in 1..Len(stack) - 1 : stack'[k] = stack[k],
         NEW k \in 1..Len(stack) - 1, Returning(prog, stack', k)
  PROVE  Seen(prog, stack'[k])
<1>1. Len(stack) \in Nat \ {0}
  BY BelowProperties DEF IInv
<1>2. k \in 1..Len(stack) /\ k < Len(stack')
  BY <1>1
<1>3. Returning(prog, stack, k)
  <2>1. CASE k + 1 = Len(stack)
    BY <1>2, <2>1 DEF Returning, Owes, Top
  <2>2. CASE k + 1 # Len(stack)
    <3>1. k + 1 \in 1..Len(stack) - 1  BY <1>1, <2>2
    <3>2. stack'[k + 1] = stack[k + 1]  BY <3>1
    <3> QED  BY <1>2, <3>2 DEF Returning
  <2> QED  BY <2>1, <2>2
<1> QED  BY <1>2, <1>3 DEF CallsSeen

(* Going on as f.                                                          *)
LEMMA SeenBecome ==
  ASSUME IInv, CallsSeen, stack # <<>>, NEW f, Become(f), prog' = prog,
         Owes(f), Seen(prog, f)
  PROVE  CallsSeen'
<1>1. /\ Len(stack') = Len(stack) /\ stack'[Len(stack)] = f
      /\ \A k \in 1..Len(stack) - 1 : stack'[k] = stack[k]
      /\ Len(stack) \in Nat \ {0}
  BY AfterBecome
<1>2. \A k \in 1..Len(stack) - 1 : Returning(prog, stack', k) => Seen(prog, stack'[k])
  BY <1>1, SeenBelow
<1>3. \A k \in 1..Len(stack') : k \in 1..Len(stack) - 1 \/ k = Len(stack)
  BY <1>1
<1> QED  BY <1>1, <1>2, <1>3 DEF CallsSeen

(* Calling g, to go on as f.                                               *)
LEMMA SeenInvoke ==
  ASSUME IInv, CallsSeen, stack # <<>>, NEW f, NEW g, Invoke(f, g), prog' = prog,
         Owes(f), (g.act = "exit" => Right(prog, g.n)) => Seen(prog, f), Seen(prog, g)
  PROVE  CallsSeen'
<1>1. /\ Len(stack') = Len(stack) + 1
      /\ stack'[Len(stack)] = f /\ stack'[Len(stack) + 1] = g
      /\ \A k \in 1..Len(stack) - 1 : stack'[k] = stack[k]
      /\ Len(stack) \in Nat \ {0}
  BY AfterInvoke
<1>2. \A k \in 1..Len(stack) - 1 : Returning(prog, stack', k) => Seen(prog, stack'[k])
  <2>1. Len(stack') \in Nat /\ Len(stack) <= Len(stack')  BY <1>1
  <2> QED  BY <1>1, <2>1, SeenBelow
<1>3. Returning(prog, stack', Len(stack)) => Seen(prog, stack'[Len(stack)])
  <2>1. Len(stack) < Len(stack')  BY <1>1
  <2> QED  BY <1>1, <2>1 DEF Returning
<1>4. \A k \in 1..Len(stack') :
         k \in 1..Len(stack) - 1 \/ k = Len(stack) \/ k = Len(stack) + 1
  BY <1>1
<1> QED  BY <1>1, <1>2, <1>3, <1>4 DEF CallsSeen

(* A call that starts has seen nothing and needs nothing.                  *)
LEMMA SeenAtFirst ==
  ASSUME TreeOK
  PROVE  /\ \A n : Seen(prog, Enter("codegen", n)) /\ Seen(prog, Enter("exit", n))
         /\ \A n, x, y : Seen(prog, ApplyDefer(n, x, y))
<1>1. \A n, j : j \notin 1..0
  OBVIOUS
<1>2. \A n : Seen(prog, Enter("codegen", n))
  BY <1>1 DEF Seen, Enter
<1>3. \A n : Seen(prog, Enter("exit", n))
  BY DEF Seen, Enter
<1>4. \A n, x, y : Seen(prog, ApplyDefer(n, x, y))
  BY DEF Seen, ApplyDefer, Enter
<1> QED  BY <1>2, <1>3, <1>4

(* A step short of success that lowers only what has passed.               *)
LEMMA RightStep ==
  ASSUME Rightness, prog' = prog, CallsSeen', status' # "done",
         \A n \in lowered' : n \in lowered \/ Passed(prog, n)
  PROVE  Rightness'
<1>1. \A n \in lowered' : Passed(prog, n)
  BY DEF Rightness
<1>2. OnlyRightIsLowered'
  BY DEF OnlyRightIsLowered
<1> QED  BY <1>1, <1>2 DEF Rightness, CallsSeen

------------------------------------------------------------------------------
(* Scope exits *)

(* What a running scope exit knows of its statement.                       *)
LEMMA ExitKnows ==
  ASSUME IInv, Rightness, NEW kind, NEW pc, InCall("exit", kind, pc)
  PROVE  /\ stack # <<>> /\ Top \in Frame /\ Top.n \in Node /\ Top.act = "exit"
         /\ prog[Top.n].kind = kind /\ Top.pc = pc /\ CallsSeen
         /\ Passed(prog, Top.n) /\ Seen(prog, Top) /\ TreeOK
         /\ Len(prog[Top.n].kids) \in Nat /\ Top.i \in Nat
<1>1. /\ stack # <<>> /\ Top \in Frame /\ Top.n \in Node /\ Top.n \in lowered
      /\ Top.act = "exit" /\ Me.kind = kind /\ Top.pc = pc
  BY ExitCall
<1>2. CallsSeen /\ Passed(prog, Top.n)
  BY <1>1 DEF Rightness, CallsSeen
<1>3. Seen(prog, Top)
  BY <1>1, <1>2, TopSeen
<1>4. Len(prog[Top.n].kids) \in Nat /\ Top.i \in Nat
  BY <1>1, RunningCall DEF Me
<1> QED  BY <1>1, <1>2, <1>3, <1>4 DEF Me, IInv

(* The scope of a statement without statements to end is ended at once:    *)
(* those of a match or a typeswitch were in its codegen.                   *)
LEMMA ExitNothingSeen ==
  ASSUME IInv, Rightness, ExitNothing
  PROVE  CallsSeen'
<1>1. PICK kind \in Kinds \ {"body", "defer", "if", "while", "for"} :
        InCall("exit", kind, 0)
  BY DEF ExitNothing
<1>2. Right(prog, Top.n)
  BY <1>1, ExitKnows, RightKinds
<1>3. Return /\ prog' = prog
  BY DEF ExitNothing, StackOnly, tree
<1> QED  BY <1>1, <1>2, <1>3, ExitKnows, SeenReturn

(* If::runScopeExit ends the scope of each branch.                         *)
LEMMA ExitIfSeen ==
  ASSUME IInv, Rightness, ExitIfThen \/ ExitIfElse
  PROVE  CallsSeen'
<1>1. prog' = prog
  BY DEF ExitIfThen, ExitIfElse, AndIp, tree
<1>2. CASE ExitIfThen
  <2>1. InCall("exit", "if", 0)  BY <1>2 DEF ExitIfThen
  <2>2. /\ prog[Top.n].kind = "if" /\ prog[Top.n].ok /\ Top.n \in Node
        /\ TreeOK /\ Top \in Frame /\ Len(prog[Top.n].kids) \in {1, 2}
        /\ stack # <<>> /\ CallsSeen
    BY <2>1, ExitKnows, KidsThere DEF Passed, Me
  <2>3. CASE HasElse
    <3>1. PICK f, g : f = [Top EXCEPT !.pc = 1] /\ g = Enter("exit", Kid(1))
      OBVIOUS
    <3>2. f.n = Top.n /\ f.act = Top.act /\ f.pc = 1 /\ f.i = Top.i
      BY <2>2, <3>1 DEF Frame
    <3>3. g.n = prog[Top.n].kids[1] /\ g.act = "exit"
      BY <3>1 DEF Enter, Kid, Me
    <3>4. Owes(f)  BY <3>2 DEF Owes
    <3>5. Right(prog, g.n) => Seen(prog, f)
      <4>1. Top.act = "exit"  BY <2>1, ExitKnows
      <4>2. \A j \in 1..1 : j = 1  OBVIOUS
      <4> QED  BY <2>2, <3>2, <3>3, <4>1, <4>2 DEF Seen
    <3>6. Seen(prog, g)  BY <2>2, <3>1, SeenAtFirst
    <3>7. Invoke(f, g)  BY <1>2, <2>3, <3>1 DEF ExitIfThen
    <3> QED  BY <1>1, <2>2, <3>3, <3>4, <3>5, <3>6, <3>7, SeenInvoke
  <2>4. CASE ~HasElse
    <3>1. PICK g : g = Enter("exit", Kid(1))  OBVIOUS
    <3>2. g.n = prog[Top.n].kids[1] /\ g.act = "exit"
      BY <3>1 DEF Enter, Kid, Me
    <3>3. Len(prog[Top.n].kids) = 1  BY <2>2, <2>4 DEF HasElse, Me
    <3>4. Owes(g)
      <4>1. \A j \in 1..1 : j = 1  OBVIOUS
      <4>2. Right(prog, g.n) => \A j \in 1..Len(prog[Top.n].kids) : Right(prog, prog[Top.n].kids[j])
        BY <3>2, <3>3, <4>1
      <4> QED  BY <2>2, <3>2, <4>2, RightKinds DEF Owes
    <3>5. Seen(prog, g)  BY <2>2, <3>1, SeenAtFirst
    <3>6. Become(g)  BY <1>2, <2>4, <3>1 DEF ExitIfThen
    <3> QED  BY <1>1, <2>2, <3>4, <3>5, <3>6, SeenBecome
  <2> QED  BY <2>3, <2>4
<1>3. CASE ExitIfElse
  <2>1. InCall("exit", "if", 1)  BY <1>3 DEF ExitIfElse
  <2>2. /\ prog[Top.n].kind = "if" /\ prog[Top.n].ok /\ Top.n \in Node
        /\ TreeOK /\ Len(prog[Top.n].kids) = 2
    BY <2>1, ExitKnows, ExitCall DEF Passed, ExitOK
  <2>3. PICK g : g = Enter("exit", Kid(2))  OBVIOUS
  <2>4. g.n = prog[Top.n].kids[2] /\ g.act = "exit"
    BY <2>3 DEF Enter, Kid, Me
  <2>5. Right(prog, prog[Top.n].kids[1])
    <3>1. \A j \in 1..1 : Right(prog, prog[Top.n].kids[j])
      BY <2>1, ExitKnows DEF Seen
    <3> QED  BY <3>1
  <2>6. Owes(g)
    <3>1. \A j \in 1..2 : j = 1 \/ j = 2  OBVIOUS
    <3>2. Right(prog, g.n) => \A j \in 1..Len(prog[Top.n].kids) : Right(prog, prog[Top.n].kids[j])
      BY <2>2, <2>4, <2>5, <3>1
    <3> QED  BY <2>2, <2>4, <3>2, RightKinds DEF Owes
  <2>7. Seen(prog, g)  BY <2>2, <2>3, SeenAtFirst
  <2>8. Become(g)  BY <1>3, <2>3 DEF ExitIfElse
  <2> QED  BY <1>1, <2>1, <2>6, <2>7, <2>8, ExitKnows, SeenBecome
<1> QED  BY <1>2, <1>3

(* A loop ends the scope of its body.                                      *)
LEMMA ExitLoopSeen ==
  ASSUME IInv, Rightness, ExitWhile \/ ExitFor
  PROVE  CallsSeen'
<1>1. prog' = prog /\ Become(Enter("exit", Kid(1)))
  BY DEF ExitWhile, ExitFor, AndIp, StackOnly, tree
<1>2. PICK kind \in {"while", "for"} : InCall("exit", kind, 0)
  BY DEF ExitWhile, ExitFor
<1>3. /\ prog[Top.n].kind \in {"while", "for"} /\ prog[Top.n].ok /\ Top.n \in Node
      /\ TreeOK /\ Len(prog[Top.n].kids) = 1
  BY <1>2, ExitKnows DEF Passed, TreeOK, WellFormedNode
<1>4. PICK g : g = Enter("exit", Kid(1))
  OBVIOUS
<1>5. g.n = prog[Top.n].kids[1] /\ g.act = "exit"
  BY <1>4 DEF Enter, Kid, Me
<1>6. Owes(g)
  <2>1. \A j \in 1..1 : j = 1  OBVIOUS
  <2>2. Right(prog, g.n) => \A j \in 1..Len(prog[Top.n].kids) : Right(prog, prog[Top.n].kids[j])
    BY <1>3, <1>5, <2>1
  <2> QED  BY <1>3, <1>5, <2>2, RightKinds DEF Owes
<1>7. Seen(prog, g)
  BY <1>3, <1>4, SeenAtFirst
<1> QED  BY <1>1, <1>2, <1>4, <1>6, <1>7, ExitKnows, SeenBecome

(* A body's scope exit goes on in the same statement.                      *)
LEMMA ExitBodyGoes ==
  ASSUME IInv, Rightness, NEW pc, InCall("exit", "body", pc), prog' = prog,
         NEW f, f.n = Top.n, f.act = Top.act, Seen(prog, f),
         \/ Become(f)
         \/ \E g : /\ Invoke(f, g) /\ Seen(prog, g)
  PROVE  CallsSeen'
<1>1. stack # <<>> /\ CallsSeen
  BY ExitKnows
<1>2. Owes(f)
  BY DEF Owes
<1> QED  BY <1>1, <1>2, SeenBecome, SeenInvoke

(* Body::runScopeExit ends the scope of each statement but the defers,     *)
(* runs these, and looks at the tags: what it passes over compiles.        *)
LEMMA ExitBodySeen ==
  ASSUME IInv, Rightness, ExitBody \/ ExitBodyStmt \/ ExitBodyDefers
  PROVE  CallsSeen'
<1>1. prog' = prog
  BY DEF ExitBody, ExitBodyStmt, ExitBodyDefers, StackOnly, tree
<1>2. CASE ExitBody
  <2>1. InCall("exit", "body", 0)  BY <1>2 DEF ExitBody
  <2>2. PICK f : f = [Top EXCEPT !.pc = 1, !.x = ip.at]  OBVIOUS
  <2>3. f.n = Top.n /\ f.act = Top.act /\ f.pc = 1 /\ f.i = Top.i
    BY <2>1, <2>2, ExitKnows DEF Frame
  <2>4. Seen(prog, f)
    <3>1. Top.i = 0 /\ prog[Top.n].kind = "body" /\ Top.act = "exit"
      BY <2>1, ExitKnows DEF Seen
    <3>2. \A j : j \notin 1..0  OBVIOUS
    <3> QED  BY <2>3, <3>1, <3>2 DEF Seen
  <2>5. Become(f)  BY <1>2, <2>2 DEF ExitBody
  <2> QED  BY <1>1, <2>1, <2>3, <2>4, <2>5, ExitBodyGoes
<1>3. CASE ExitBodyStmt
  <2>1. InCall("exit", "body", 1) /\ Top.i < Len(prog[Top.n].kids)
    BY <1>3 DEF ExitBodyStmt, Me
  <2>2. PICK f : f = [Top EXCEPT !.i = @ + 1]  OBVIOUS
  <2>3. f.n = Top.n /\ f.act = Top.act /\ f.pc = 1 /\ f.i = Top.i + 1
    BY <2>1, <2>2, ExitKnows DEF Frame
  <2>4. /\ Top.i \in Nat /\ prog[Top.n].kind = "body" /\ Top.act = "exit"
        /\ stack # <<>> /\ CallsSeen /\ TreeOK
        /\ \A j \in 1..Top.i : Right(prog, prog[Top.n].kids[j])
    BY <2>1, ExitKnows DEF Seen
  <2>5. Right(prog, prog[Top.n].kids[Top.i + 1]) => Seen(prog, f)
    <3>1. \A j \in 1..Top.i + 1 : j \in 1..Top.i \/ j = Top.i + 1  BY <2>4
    <3> QED  BY <2>3, <2>4, <3>1 DEF Seen
  <2>6. Kid(Top.i + 1) = prog[Top.n].kids[Top.i + 1] /\ Kid(Top.i + 1) \in Node
    <3>1. Top.i + 1 \in 1..Len(Me.kids)  BY <2>1, <2>4, RunningCall DEF Me
    <3> QED  BY <2>4, <3>1, RunningCall DEF Kid, Me
  <2>7. CASE prog[Kid(Top.i + 1)].kind = "defer"
    <3>1. Right(prog, Kid(Top.i + 1))  BY <2>4, <2>6, <2>7, RightKinds
    <3>2. Become(f)  BY <1>3, <2>2, <2>7 DEF ExitBodyStmt
    <3>3. Seen(prog, f)  BY <2>5, <2>6, <3>1
    <3> QED  BY <1>1, <2>1, <2>3, <3>2, <3>3, ExitBodyGoes
  <2>8. CASE prog[Kid(Top.i + 1)].kind # "defer"
    <3>1. PICK g : g = Enter("exit", Kid(Top.i + 1))  OBVIOUS
    <3>2. Invoke(f, g)  BY <1>3, <2>2, <2>8, <3>1 DEF ExitBodyStmt
    <3>3. g.n = Kid(Top.i + 1) /\ g.act = "exit"  BY <3>1 DEF Enter
    <3>4. Seen(prog, g)  BY <2>4, <3>1, SeenAtFirst
    <3>5. Owes(f)  BY <2>3 DEF Owes
    <3> QED  BY <1>1, <2>4, <2>5, <2>6, <3>2, <3>3, <3>4, <3>5, SeenInvoke
  <2> QED  BY <2>7, <2>8
<1>4. CASE ExitBodyDefers
  <2>1. InCall("exit", "body", 1) /\ Top.i = Len(prog[Top.n].kids)
    BY <1>4 DEF ExitBodyDefers, Me
  <2>2. PICK f : f = [Top EXCEPT !.pc = 2, !.i = 0]  OBVIOUS
  <2>3. f.n = Top.n /\ f.act = Top.act /\ f.pc = 2
    BY <2>1, <2>2, ExitKnows DEF Frame
  <2>4. /\ prog[Top.n].kind = "body" /\ Top.act = "exit"
        /\ \A j \in 1..Len(prog[Top.n].kids) : Right(prog, prog[Top.n].kids[j])
    BY <2>1, ExitKnows DEF Seen
  <2>5. Seen(prog, f)  BY <2>3, <2>4 DEF Seen
  <2>6. Become(f)  BY <1>4, <2>2 DEF ExitBodyDefers
  <2> QED  BY <1>1, <2>1, <2>3, <2>5, <2>6, ExitBodyGoes
<1> QED  BY <1>2, <1>3, <1>4

(* It returns when the tags compile, too.                                  *)
LEMMA ExitBodyEndSeen ==
  ASSUME IInv, Rightness, ExitBodyDefer \/ ExitBodyEnd
  PROVE  CallsSeen'
<1>1. /\ prog' = prog /\ InCall("exit", "body", 2)
  BY DEF ExitBodyDefer, ExitBodyEnd, StackOnly, tree
<1>2. /\ prog[Top.n].kind = "body" /\ Top.act = "exit" /\ Top.pc = 2
      /\ stack # <<>> /\ CallsSeen /\ TreeOK /\ Top.n \in Node /\ Top \in Frame
      /\ \A j \in 1..Len(prog[Top.n].kids) : Right(prog, prog[Top.n].kids[j])
  BY <1>1, ExitKnows DEF Seen
<1>3. CASE ExitBodyDefer
  <2>1. PICK f : f = [Top EXCEPT !.i = @ + 1]  OBVIOUS
  <2>2. f.n = Top.n /\ f.act = Top.act /\ f.pc = 2
    BY <1>2, <2>1 DEF Frame
  <2>3. Seen(prog, f)  BY <1>2, <2>2 DEF Seen
  <2>4. PICK d : Invoke(f, ApplyDefer(d.stmt, Top.x, d.at))
    BY <1>3, <2>1 DEF ExitBodyDefer
  <2>5. Seen(prog, ApplyDefer(d.stmt, Top.x, d.at))  BY <1>2, SeenAtFirst
  <2> QED  BY <1>1, <2>2, <2>3, <2>4, <2>5, ExitBodyGoes
<1>4. CASE ExitBodyEnd
  <2>1. CASE prog[Top.n].ok
    <3>1. Return  BY <1>4, <2>1 DEF ExitBodyEnd, Me
    <3>2. Right(prog, Top.n)  BY <1>2, <2>1, RightKinds
    <3> QED  BY <1>1, <1>2, <3>1, <3>2, SeenReturn
  <2>2. CASE ~prog[Top.n].ok
    <3>1. stack' = stack  BY <1>4, <2>2 DEF ExitBodyEnd, Me, EndWith
    <3> QED  BY <1>1, <1>2, <3>1 DEF CallsSeen
  <2> QED  BY <2>1, <2>2
<1> QED  BY <1>3, <1>4

(* applyDefer and Defer::runScopeExit only lower a deferred statement      *)
(* again, and end its scope: neither says anything of other statements.    *)
LEMMA DeferSeen ==
  ASSUME IInv, Rightness,
         \/ ApplyHere \/ ApplyBranch \/ ApplyNext \/ ApplyEnd
         \/ RunDefer \/ RunDeferExit
  PROVE  CallsSeen'
<1>1. PICK act, pc : InCall(act, "defer", pc) /\ act \in {"apply", "exit"}
  BY DEF ApplyHere, ApplyBranch, ApplyNext, ApplyEnd, RunDefer, RunDeferExit
<1>2. /\ stack # <<>> /\ CallsSeen /\ TreeOK /\ Top \in Frame
      /\ Top.n \in Node /\ prog[Top.n].kind = "defer" /\ Top.act \in {"apply", "exit"}
  <2>1. stack # <<>>  BY <1>1, NotEmpty DEF InCall
  <2> QED  BY <1>1, <2>1, RunningCall DEF InCall, Me, IInv, Rightness, CallsSeen
<1>3. prog' = prog
  BY DEF ApplyHere, ApplyBranch, ApplyNext, ApplyEnd, RunDefer, RunDeferExit,
    AndIp, StackOnly, tree
<1>4. Right(prog, Top.n)
  BY <1>2, RightKinds
<1>5. ASSUME NEW f, f.n = Top.n, f.act = Top.act
      PROVE  Seen(prog, f) /\ Owes(f)
  BY <1>2, <1>5 DEF Seen, Owes
<1>6. \A n : Owes(Enter("exit", n))
  BY <1>4 DEF Owes, Enter
<1>7. CASE ApplyHere \/ RunDeferExit
  <2>1. PICK n : Become(Enter("exit", n))  BY <1>7 DEF ApplyHere, RunDeferExit
  <2> QED  BY <1>2, <1>3, <1>6, <2>1, SeenAtFirst, SeenBecome
<1>8. CASE ApplyBranch
  <2>1. PICK f : f = [Top EXCEPT !.pc = 1, !.todo = Succs(blocks, Top.y)]
    OBVIOUS
  <2>2. f.n = Top.n /\ f.act = Top.act  BY <1>2, <2>1 DEF Frame
  <2>3. Become(f)  BY <1>8, <2>1 DEF ApplyBranch
  <2> QED  BY <1>2, <1>3, <1>5, <2>2, <2>3, SeenBecome
<1>9. CASE ApplyNext
  <2>1. PICK f : f = [Top EXCEPT !.todo = Tail(@)]  OBVIOUS
  <2>2. f.n = Top.n /\ f.act = Top.act  BY <1>2, <2>1 DEF Frame
  <2>3. PICK g : Invoke(f, g) /\ Seen(prog, g)
    <3>1. \/ Invoke(f, Enter("exit", Top.n))
          \/ Invoke(f, ApplyDefer(Top.n, Top.x, Head(Top.todo)))
      BY <1>9, <2>1 DEF ApplyNext
    <3> QED  BY <1>2, <3>1, SeenAtFirst
  <2> QED  BY <1>2, <1>3, <1>5, <2>2, <2>3, SeenInvoke
<1>10. CASE ApplyEnd
  BY <1>2, <1>3, <1>4, <1>10, SeenReturn DEF ApplyEnd
<1>11. CASE RunDefer
  <2>1. PICK f : f = [Top EXCEPT !.pc = 1]  OBVIOUS
  <2>2. f.n = Top.n /\ f.act = Top.act  BY <1>2, <2>1 DEF Frame
  <2>3. stack' = stack \/ Invoke(f, Enter("codegen", Kid(1)))
    BY <1>11, <2>1 DEF RunDefer, EndWith
  <2>4. CASE stack' = stack  BY <1>2, <1>3, <2>4 DEF CallsSeen
  <2>5. CASE Invoke(f, Enter("codegen", Kid(1)))
    BY <1>2, <1>3, <1>5, <2>2, <2>5, SeenAtFirst, SeenInvoke
  <2> QED  BY <2>3, <2>4, <2>5
<1> QED  BY <1>7, <1>8, <1>9, <1>10, <1>11

(* Every step of runScopeExit keeps the account.                           *)
LEMMA ScopeExitRight ==
  ASSUME IInv, Rightness, ScopeExit
  PROVE  Rightness'
<1>1. prog' = prog /\ status' # "done"
  BY ScopeExitMoves
<1>2. lowered' = lowered
  BY DEF ScopeExit, ExitNothing, ExitIfThen, ExitIfElse, ExitWhile,
    ExitFor, ExitBody, ExitBodyStmt, ExitBodyDefers, ExitBodyDefer,
    ExitBodyEnd, ApplyHere, ApplyBranch, ApplyNext, ApplyEnd, RunDefer,
    RunDeferExit, StackOnly, AndIp, notes
<1>3. CallsSeen'
  BY ExitNothingSeen, ExitIfSeen, ExitLoopSeen, ExitBodySeen, ExitBodyEndSeen,
    DeferSeen DEF ScopeExit
<1> QED  BY <1>1, <1>2, <1>3, RightStep

------------------------------------------------------------------------------
(* codegen *)

(* What a running codegen knows of its statement.                          *)
LEMMA CodegenKnows ==
  ASSUME IInv, Rightness, NEW kind, NEW pc, InCall("codegen", kind, pc)
  PROVE  /\ stack # <<>> /\ Top \in Frame /\ Top.n \in Node /\ Top.act = "codegen"
         /\ prog[Top.n].kind = kind /\ Top.pc = pc /\ Top.i \in Nat
         /\ prog[Top.n] \in Tree /\ WellFormedNode(prog[Top.n])
         /\ CallsSeen /\ Seen(prog, Top) /\ TreeOK /\ status = "run"
<1>1. stack # <<>> /\ CallsSeen
  BY NotEmpty DEF InCall, Rightness, CallsSeen
<1> QED  BY <1>1, RunningCall, TopSeen DEF InCall, Me, IInv

(* A step of codegen that goes on in the same statement, or starts on one  *)
(* inside it.                                                              *)
LEMMA CodegenGoes ==
  ASSUME IInv, Rightness, NEW kind, NEW pc, InCall("codegen", kind, pc), prog' = prog,
         NEW f, Seen(prog, f), Become(f) \/ \E n : Invoke(f, Enter("codegen", n))
  PROVE  CallsSeen'
<1>1. stack # <<>> /\ CallsSeen /\ TreeOK /\ Top.act # "exit"
  BY CodegenKnows
<1>2. Owes(f)
  BY <1>1 DEF Owes
<1>3. CASE Become(f)
  BY <1>1, <1>2, <1>3, SeenBecome
<1>4. CASE \E n : Invoke(f, Enter("codegen", n))
  <2>1. PICK n : Invoke(f, Enter("codegen", n))  BY <1>4
  <2>2. Seen(prog, Enter("codegen", n))  BY <1>1, SeenAtFirst
  <2> QED  BY <1>1, <1>2, <2>1, <2>2, SeenInvoke
<1> QED  BY <1>3, <1>4

(* One that ends the scope of a statement inside: it will have seen that   *)
(* one compile.                                                            *)
LEMMA CodegenEnds ==
  ASSUME IInv, Rightness, NEW kind, NEW pc, InCall("codegen", kind, pc), prog' = prog,
         NEW f, NEW n, Invoke(f, Enter("exit", n)), Right(prog, n) => Seen(prog, f)
  PROVE  CallsSeen'
<1>1. stack # <<>> /\ CallsSeen /\ TreeOK /\ Top.act # "exit"
  BY CodegenKnows
<1>2. PICK g : g = Enter("exit", n)
  OBVIOUS
<1>3. Owes(f) /\ Seen(prog, g) /\ g.n = n /\ g.act = "exit" /\ Invoke(f, g)
  BY <1>1, <1>2, SeenAtFirst DEF Owes, Enter
<1> QED  BY <1>1, <1>3, SeenInvoke

(* One that returns.                                                       *)
LEMMA CodegenReturns ==
  ASSUME IInv, Rightness, NEW kind, NEW pc, InCall("codegen", kind, pc), Lowered,
         Passed(prog, Top.n)
  PROVE  Rightness'
<1>1. stack # <<>> /\ CallsSeen /\ Top.act # "exit" /\ status = "run"
  BY CodegenKnows
<1>2. /\ prog' = prog /\ Return /\ status' = status
      /\ lowered' = lowered \cup {Top.n}
  BY DEF Lowered, tree, Going
<1>3. CallsSeen'
  BY <1>1, <1>2, SeenReturn
<1> QED  BY <1>1, <1>2, <1>3, RightStep

(* A statement whose expressions compile and which has no scopes to end    *)
(* passes.                                                                 *)
LEMMA PassedWhen ==
  ASSUME NEW n, prog[n].ok, prog[n].kind \notin {"forin", "match", "typeswitch"}
  PROVE  Passed(prog, n)
BY DEF Passed

(* The statements that stay in their block: what does not compile is       *)
(* rejected, the others cannot fail.                                       *)
LEMMA SimpleRight ==
  ASSUME IInv, Rightness, Straight \/ Silent \/ BreakFound \/ ContinueFound
  PROVE  Rightness'
<1>1. PICK kind \in {"expr", "return", "nop", "defer", "break", "continue"}, pc \in {0, 1} :
        InCall("codegen", kind, pc) /\ Lowered
        /\ (kind \in {"expr", "return"} => Me.ok)
  BY DEF Straight, Silent, BreakFound, ContinueFound, Searching
<1>2. prog[Top.n].ok /\ prog[Top.n].kind = kind
  <2>1. prog[Top.n].kind = kind /\ WellFormedNode(prog[Top.n])
    BY <1>1, CodegenKnows
  <2> QED  BY <1>1, <2>1 DEF WellFormedNode, Me
<1>3. Passed(prog, Top.n)
  BY <1>2, PassedWhen
<1> QED  BY <1>1, <1>3, CodegenReturns

(* A body: its statements have been lowered, its tags come later.          *)
LEMMA BodyRight ==
  ASSUME IInv, Rightness, BodyStmt \/ BodyEnd
  PROVE  Rightness'
<1>1. InCall("codegen", "body", 0)
  BY DEF BodyStmt, BodyEnd
<1>2. /\ prog[Top.n].kind = "body" /\ Top.act = "codegen" /\ Top \in Frame
      /\ Top.n \in Node /\ TreeOK /\ status = "run" /\ Top.i \in Nat
  BY <1>1, CodegenKnows
<1>3. CASE BodyEnd
  <2>1. Passed(prog, Top.n)  BY <1>2 DEF Passed
  <2> QED  BY <1>1, <1>3, <2>1, CodegenReturns DEF BodyEnd
<1>4. CASE BodyStmt
  <2>1. PICK f, kid : f = [Top EXCEPT !.i = @ + 1] /\ kid = Kid(Top.i + 1)
    OBVIOUS
  <2>2. f.n = Top.n /\ f.act = Top.act  BY <1>2, <2>1 DEF Frame
  <2>3. Seen(prog, f)  BY <1>2, <2>2 DEF Seen
  <2>4. /\ prog' = prog /\ status' = status
        /\ \/ /\ prog[kid].kind = "defer" /\ lowered' = lowered \cup {kid}
              /\ Become(f)
           \/ lowered' = lowered /\ Invoke(f, Enter("codegen", kid))
    BY <1>4, <2>1 DEF BodyStmt, Going, tree
  <2>5. CallsSeen'  BY <1>1, <2>3, <2>4, CodegenGoes
  <2>6. prog[kid].kind = "defer" => Passed(prog, kid)
    <3>1. kid \in Node
      <4>1. Top.i + 1 \in 1..Len(Me.kids)
        <5>1. Top.i < Len(Me.kids) /\ Len(Me.kids) \in Nat
          BY <1>1, <1>4, CodegenKnows, RunningCall DEF BodyStmt
        <5> QED  BY <1>2, <5>1
      <4> QED  BY <1>1, <2>1, <4>1, CodegenKnows, RunningCall DEF Kid
    <3>2. WellFormedNode(prog[kid])  BY <1>2, <3>1 DEF TreeOK
    <3> QED  BY <3>2, PassedWhen DEF WellFormedNode
  <2> QED  BY <1>2, <2>4, <2>5, <2>6, RightStep
<1> QED  BY <1>3, <1>4

(* What an If, a loop, a match or a typeswitch has looked at when it goes  *)
(* on in the statements inside it.                                         *)
LEMMA SeenLater ==
  ASSUME NEW f, f.act = "codegen", prog[f.n].ok,
         \/ prog[f.n].kind \in {"if", "while", "for", "break", "continue"}
         \/ (prog[f.n].kind = "typeswitch" /\ f.pc = 1)
  PROVE  Seen(prog, f)
BY DEF Seen

(* A step that moves only the stack, or the code, leaves the account alone *)
(* when the calls do.                                                      *)
LEMMA RightGoesOn ==
  ASSUME IInv, Rightness, prog' = prog, lowered' = lowered, status = "run",
         Going, CallsSeen'
  PROVE  Rightness'
BY RightStep DEF Going

(* If::codegen.                                                            *)
LEMMA IfRight ==
  ASSUME IInv, Rightness, IfEnter \/ IfElse \/ IfJoin
  PROVE  Rightness'
<1>1. PICK pc \in {0, 1, 2} : InCall("codegen", "if", pc) /\ (pc = 0 => Me.ok)
  BY DEF IfEnter, IfElse, IfJoin
<1>2. /\ prog[Top.n].kind = "if" /\ Top.act = "codegen" /\ Top \in Frame
      /\ prog[Top.n].ok /\ status = "run"
  BY <1>1, CodegenKnows DEF Seen, Me
<1>3. CASE IfJoin
  <2>1. Passed(prog, Top.n)  BY <1>2, PassedWhen
  <2> QED  BY <1>1, <1>3, <2>1, CodegenReturns DEF IfJoin
<1>4. CASE IfEnter
  <2>1. PICK f : f.n = Top.n /\ f.act = Top.act /\ Invoke(f, Enter("codegen", Kid(1)))
    <3>1. PICK f : f = [Top EXCEPT !.pc = 1, !.x = Next1 + 1,
                                   !.y = IF HasElse THEN Next1 + 2 ELSE Next1 + 1]
      OBVIOUS
    <3>2. f.n = Top.n /\ f.act = Top.act  BY <1>2, <3>1 DEF Frame
    <3>3. Invoke(f, Enter("codegen", Kid(1)))  BY <1>4, <3>1, Zenon DEF IfEnter
    <3> QED  BY <3>2, <3>3
  <2>2. Seen(prog, f)  BY <1>2, <2>1, SeenLater
  <2>3. prog' = prog /\ lowered' = lowered /\ Going  BY <1>4 DEF IfEnter, tree
  <2>4. CallsSeen'  BY <1>1, <2>1, <2>2, <2>3, CodegenGoes
  <2> QED  BY <1>2, <2>3, <2>4, RightGoesOn
<1>5. CASE IfElse
  <2>1. PICK f : f = [Top EXCEPT !.pc = 2]  OBVIOUS
  <2>2. f.n = Top.n /\ f.act = Top.act  BY <1>2, <2>1 DEF Frame
  <2>3. Seen(prog, f)  BY <1>2, <2>2, SeenLater
  <2>4. prog' = prog /\ lowered' = lowered /\ Going /\ Invoke(f, Enter("codegen", Kid(2)))
    BY <1>5, <2>1 DEF IfElse, tree
  <2>5. CallsSeen'  BY <1>1, <2>3, <2>4, CodegenGoes
  <2> QED  BY <1>2, <2>4, <2>5, RightGoesOn
<1> QED  BY <1>3, <1>4, <1>5

(* While::codegen and For::codegen: a condition that does not compile ends *)
(* them with its error.                                                    *)
LEMMA LoopRight ==
  ASSUME IInv, Rightness, WhileEnter \/ WhileEnd \/ ForEnter \/ ForEnd
  PROVE  Rightness'
<1>1. PICK kind \in {"while", "for"}, pc \in {0, 1} : InCall("codegen", kind, pc)
  BY DEF WhileEnter, WhileEnd, ForEnter, ForEnd
<1>2. /\ prog[Top.n].kind = kind /\ Top.act = "codegen" /\ Top \in Frame
      /\ Top.pc = pc /\ (Top.pc = 1 => prog[Top.n].ok) /\ status = "run" /\ CallsSeen
  BY <1>1, CodegenKnows DEF Seen
<1>3. CASE WhileEnd \/ ForEnd
  <2>1. Top.pc = 1 /\ Lowered  BY <1>3 DEF WhileEnd, ForEnd, InCall
  <2>2. Passed(prog, Top.n)  BY <1>2, <2>1, PassedWhen
  <2> QED  BY <1>1, <2>1, <2>2, CodegenReturns
<1>4. CASE WhileEnter \/ ForEnter
  <2>1. prog' = prog /\ lowered' = lowered
    BY <1>4 DEF WhileEnter, ForEnter, tree, notes
  <2>2. CASE ~Me.ok
    <3>1. stack' = stack /\ status' = "error"
      BY <1>4, <2>2 DEF WhileEnter, ForEnter, EndWith
    <3>2. CallsSeen'  BY <1>2, <2>1, <3>1 DEF CallsSeen
    <3> QED  BY <2>1, <3>1, <3>2, RightStep
  <2>3. CASE Me.ok
    <3>1. PICK f : /\ f.n = Top.n /\ f.act = Top.act /\ Going
                   /\ Invoke(f, Enter("codegen", Kid(1)))
      <4>1. CASE WhileEnter
        <5>1. PICK f : f = [Top EXCEPT !.pc = 1, !.x = Next1, !.y = Next1 + 2]
          OBVIOUS
        <5>2. f.n = Top.n /\ f.act = Top.act  BY <1>2, <5>1 DEF Frame
        <5>3. Going /\ Invoke(f, Enter("codegen", Kid(1)))
          BY <2>3, <4>1, <5>1, Zenon DEF WhileEnter
        <5> QED  BY <5>2, <5>3
      <4>2. CASE ForEnter
        <5>1. PICK f : f = [Top EXCEPT !.pc = 1, !.x = Next1, !.y = Next1 + 1]
          OBVIOUS
        <5>2. f.n = Top.n /\ f.act = Top.act  BY <1>2, <5>1 DEF Frame
        <5>3. Going /\ Invoke(f, Enter("codegen", Kid(1)))
          BY <2>3, <4>2, <5>1, Zenon DEF ForEnter
        <5> QED  BY <5>2, <5>3
      <4> QED  BY <1>4, <4>1, <4>2
    <3>2. Seen(prog, f)  BY <1>2, <2>3, <3>1, SeenLater DEF Me
    <3>3. CallsSeen'  BY <1>1, <2>1, <3>1, <3>2, CodegenGoes
    <3> QED  BY <1>2, <2>1, <3>1, <3>3, RightGoesOn
  <2> QED  BY <2>2, <2>3
<1> QED  BY <1>3, <1>4

(* Break and Continue look for a loop.                                     *)
LEMMA SearchRight ==
  ASSUME IInv, Rightness, SearchStart \/ SearchOn
  PROVE  Rightness'
<1>1. PICK kind \in {"break", "continue"}, pc \in {0, 1} : InCall("codegen", kind, pc)
  BY DEF SearchStart, SearchOn, Searching
<1>2. /\ prog[Top.n].kind = kind /\ Top.act = "codegen" /\ Top \in Frame
      /\ prog[Top.n].ok /\ status = "run"
  BY <1>1, CodegenKnows DEF WellFormedNode
<1>3. prog' = prog /\ lowered' = lowered /\ Going
  BY DEF SearchStart, SearchOn, StackOnly, tree, notes
<1>4. PICK f : f.n = Top.n /\ f.act = Top.act /\ Become(f)
  <2>1. CASE SearchStart
    <3>1. PICK f : f = [Top EXCEPT !.pc = 1, !.todo = blocks[ip.at].preds]
      OBVIOUS
    <3>2. f.n = Top.n /\ f.act = Top.act  BY <1>2, <3>1 DEF Frame
    <3> QED  BY <2>1, <3>1, <3>2 DEF SearchStart
  <2>2. CASE SearchOn
    <3>1. PICK f : f = [Top EXCEPT !.todo = SearchMore(@)]  OBVIOUS
    <3>2. f.n = Top.n /\ f.act = Top.act  BY <1>2, <3>1 DEF Frame
    <3> QED  BY <2>2, <3>1, <3>2 DEF SearchOn
  <2> QED  BY <2>1, <2>2
<1>5. Seen(prog, f)
  BY <1>2, <1>4, SeenLater
<1>6. CallsSeen'
  BY <1>1, <1>3, <1>4, <1>5, CodegenGoes
<1> QED  BY <1>2, <1>3, <1>6, RightGoesOn

(* TypeSwitch::codegen: the option that is chosen is lowered and its scope *)
(* ended before the typeswitch returns.                                    *)
LEMMA TypeSwitchRight ==
  ASSUME IInv, Rightness, TypeSwitch \/ TypeSwitchExit \/ TypeSwitchEnd
  PROVE  Rightness'
<1>1. PICK pc \in {0, 1, 2} : InCall("codegen", "typeswitch", pc) /\ (pc = 0 => Me.ok)
  BY DEF TypeSwitch, TypeSwitchExit, TypeSwitchEnd
<1>2. /\ prog[Top.n].kind = "typeswitch" /\ Top.act = "codegen" /\ Top \in Frame
      /\ Top.pc = pc /\ prog[Top.n].ok /\ status = "run" /\ Seen(prog, Top)
  BY <1>1, CodegenKnows DEF Seen, Me
<1>3. Parts(prog[Top.n]) = {prog[Top.n].kids[k] : k \in {prog[Top.n].arg} \ {0}}
  BY <1>2 DEF Parts
<1>4. CASE TypeSwitchEnd
  <2>1. Lowered  BY <1>4 DEF TypeSwitchEnd
  <2>2. Me.arg = 0 \/ Top.pc = 2  BY <1>4 DEF TypeSwitchEnd, InCall
  <2>3. \A k \in Parts(prog[Top.n]) : Right(prog, k)
    <3>1. CASE Me.arg = 0  BY <1>3, <3>1 DEF Me
    <3>2. CASE Top.pc = 2  BY <1>2, <3>2 DEF Seen
    <3> QED  BY <2>2, <3>1, <3>2
  <2>4. Passed(prog, Top.n)  BY <1>2, <2>3 DEF Passed
  <2> QED  BY <1>1, <2>1, <2>4, CodegenReturns
<1>5. CASE TypeSwitch
  <2>1. PICK f : f = [Top EXCEPT !.pc = 1]  OBVIOUS
  <2>2. f.n = Top.n /\ f.act = Top.act /\ f.pc = 1  BY <1>2, <2>1 DEF Frame
  <2>3. Seen(prog, f)  BY <1>2, <2>2, SeenLater
  <2>4. /\ prog' = prog /\ lowered' = lowered /\ Going
        /\ Invoke(f, Enter("codegen", Kid(Me.arg)))
    BY <1>5, <2>1 DEF TypeSwitch, StackOnly, tree, notes
  <2>5. CallsSeen'  BY <1>1, <2>3, <2>4, CodegenGoes
  <2> QED  BY <1>2, <2>4, <2>5, RightGoesOn
<1>6. CASE TypeSwitchExit
  <2>1. PICK f : f = [Top EXCEPT !.pc = 2]  OBVIOUS
  <2>2. f.n = Top.n /\ f.act = Top.act /\ f.pc = 2  BY <1>2, <2>1 DEF Frame
  <2>3. Right(prog, Kid(Me.arg)) => Seen(prog, f)
    <3>1. \A k \in Parts(prog[Top.n]) : k = Kid(Me.arg)  BY <1>3 DEF Kid, Me
    <3> QED  BY <1>2, <2>2, <3>1 DEF Seen
  <2>4. /\ prog' = prog /\ lowered' = lowered /\ Going
        /\ Invoke(f, Enter("exit", Kid(Me.arg)))
    BY <1>6, <2>1 DEF TypeSwitchExit, StackOnly, tree, notes
  <2>5. CallsSeen'  BY <1>1, <2>3, <2>4, CodegenEnds
  <2> QED  BY <1>2, <2>4, <2>5, RightGoesOn
<1> QED  BY <1>4, <1>5, <1>6

(* Match::exprMatch: the scope of each arm is ended before the next one is *)
(* lowered, so when the match returns everything in it has been looked at. *)
LEMMA MatchRight ==
  ASSUME IInv, Rightness,
         \/ MatchEnter \/ MatchCase \/ MatchDefault \/ MatchArmExit
         \/ MatchArmEnd \/ MatchJoin
  PROVE  Rightness'
<1>1. PICK pc \in {0, 1, 2, 3} : InCall("codegen", "match", pc) /\ (pc = 0 => Me.ok)
  BY DEF MatchEnter, MatchCase, MatchDefault, MatchArmExit, MatchArmEnd, MatchJoin
<1>2. /\ prog[Top.n].kind = "match" /\ Top.act = "codegen" /\ Top \in Frame
      /\ Top.pc = pc /\ prog[Top.n].ok /\ status = "run" /\ Top.i \in Nat
      /\ Top.n \in Node /\ prog[Top.n] \in Tree
  BY <1>1, CodegenKnows DEF Seen, Me
<1>3. /\ pc \in {0, 1, 3} => \A j \in 1..Top.i : Right(prog, prog[Top.n].kids[j])
      /\ pc = 2 => \A j \in 1..Top.i - 1 : Right(prog, prog[Top.n].kids[j])
  <2>1. Seen(prog, Top)  BY <1>1, CodegenKnows
  <2> QED  BY <1>2, <2>1 DEF Seen
<1>4. ASSUME NEW f, f.n = Top.n, f.act = Top.act,
             \/ f.pc \in {1, 3} /\ \A j \in 1..f.i : Right(prog, prog[Top.n].kids[j])
             \/ f.pc = 2 /\ \A j \in 1..f.i - 1 : Right(prog, prog[Top.n].kids[j])
      PROVE  Seen(prog, f)
  BY <1>2, <1>4 DEF Seen
<1>5. CASE MatchJoin
  <2>1. Top.i = Len(prog[Top.n].kids) /\ pc = 1 /\ Lowered
    BY <1>2, <1>5 DEF MatchJoin, Me, InCall
  <2>2. prog[Top.n].kids \in Seq(Node)  BY <1>2 DEF Tree
  <2>3. Parts(prog[Top.n]) = {prog[Top.n].kids[j] : j \in 1..Len(prog[Top.n].kids)}
    BY <1>2, <2>2, ToSetOf DEF Parts
  <2>4. \A k \in Parts(prog[Top.n]) : Right(prog, k)
    BY <1>3, <2>1, <2>3
  <2>5. Passed(prog, Top.n)  BY <1>2, <2>4 DEF Passed
  <2> QED  BY <1>1, <2>1, <2>5, CodegenReturns
<1>6. prog' = prog /\ (~MatchJoin => Going /\ lowered' = lowered)
  BY DEF MatchEnter, MatchCase, MatchDefault, MatchArmExit, MatchArmEnd,
    MatchJoin, Lowered, StackOnly, AndIp, Going, tree, notes
<1>7. CASE MatchEnter
  <2>1. PICK f : f = [Top EXCEPT !.pc = 1, !.x = Next1, !.y = Next1 + 1, !.todo = <<ip.at>>]
    OBVIOUS
  <2>2. f.n = Top.n /\ f.act = Top.act /\ f.pc = 1 /\ f.i = Top.i
    BY <1>2, <2>1 DEF Frame
  <2>3. Become(f)  BY <1>7, <2>1, Zenon DEF MatchEnter
  <2>4. pc = 0 /\ Going /\ lowered' = lowered  BY <1>2, <1>7 DEF MatchEnter, InCall
  <2>5. Seen(prog, f)  BY <1>3, <1>4, <2>2, <2>4
  <2>6. CallsSeen'  BY <1>1, <1>6, <2>3, <2>5, CodegenGoes
  <2> QED  BY <1>2, <1>6, <2>4, <2>6, RightGoesOn
<1>8. CASE MatchCase \/ MatchDefault
  <2>1. PICK f : f = [Top EXCEPT !.pc = 2, !.i = @ + 1]  OBVIOUS
  <2>2. f.n = Top.n /\ f.act = Top.act /\ f.pc = 2 /\ f.i = Top.i + 1
    BY <1>2, <2>1 DEF Frame
  <2>3. Invoke(f, Enter("codegen", Kid(Top.i + 1)))
    BY <1>8, <2>1 DEF MatchCase, MatchDefault
  <2>4. pc = 1 /\ Going /\ lowered' = lowered
    BY <1>2, <1>8 DEF MatchCase, MatchDefault, AndIp, notes, InCall
  <2>5. f.i - 1 = Top.i  BY <1>2, <2>2
  <2>6. Seen(prog, f)  BY <1>3, <1>4, <2>2, <2>4, <2>5
  <2>7. CallsSeen'  BY <1>1, <1>6, <2>3, <2>6, CodegenGoes
  <2> QED  BY <1>2, <1>6, <2>4, <2>7, RightGoesOn
<1>9. CASE MatchArmExit
  <2>1. PICK f : f = [Top EXCEPT !.pc = 3]  OBVIOUS
  <2>2. f.n = Top.n /\ f.act = Top.act /\ f.pc = 3 /\ f.i = Top.i
    BY <1>2, <2>1 DEF Frame
  <2>3. Invoke(f, Enter("exit", Kid(Top.i)))  BY <1>9, <2>1 DEF MatchArmExit
  <2>4. pc = 2 /\ Going /\ lowered' = lowered
    BY <1>2, <1>9 DEF MatchArmExit, StackOnly, notes, InCall
  <2>5. Right(prog, Kid(Top.i)) => Seen(prog, f)
    <3>1. \A j \in 1..Top.i : j \in 1..Top.i - 1 \/ j = Top.i  BY <1>2
    <3>2. Kid(Top.i) = prog[Top.n].kids[Top.i]  BY DEF Kid, Me
    <3> QED  BY <1>3, <1>4, <2>2, <2>4, <3>1, <3>2
  <2>6. CallsSeen'  BY <1>1, <1>6, <2>3, <2>5, CodegenEnds
  <2> QED  BY <1>2, <1>6, <2>4, <2>6, RightGoesOn
<1>10. CASE MatchArmEnd
  <2>1. PICK f : f = [Top EXCEPT !.pc = 1]  OBVIOUS
  <2>2. f.n = Top.n /\ f.act = Top.act /\ f.pc = 1 /\ f.i = Top.i
    BY <1>2, <2>1 DEF Frame
  <2>3. Become(f)  BY <1>10, <2>1 DEF MatchArmEnd
  <2>4. pc = 3 /\ Going /\ lowered' = lowered
    BY <1>2, <1>10 DEF MatchArmEnd, notes, InCall
  <2>5. Seen(prog, f)  BY <1>3, <1>4, <2>2, <2>4
  <2>6. CallsSeen'  BY <1>1, <1>6, <2>3, <2>5, CodegenGoes
  <2> QED  BY <1>2, <1>6, <2>4, <2>6, RightGoesOn
<1> QED  BY <1>5, <1>7, <1>8, <1>9, <1>10

------------------------------------------------------------------------------
(* buildFunction *)

(* The steps that stop.                                                    *)
LEMMA StopRight ==
  ASSUME IInv, Rightness,
         \/ Rejected \/ OutsideFunction \/ SearchFailed \/ BreakCrash
         \/ BuildRejected \/ StackOverflow
  PROVE  Rightness'
<1>1. /\ stack' = stack /\ prog' = prog /\ lowered' = lowered /\ status' # "done"
  BY DEF Rejected, OutsideFunction, SearchFailed, BreakCrash, BuildRejected,
    StackOverflow, Fail, Crash, EndWith, tree, notes
<1>2. CallsSeen'
  BY <1>1 DEF Rightness, CallsSeen
<1> QED  BY <1>1, <1>2, RightStep

(* The body is lowered, then its scope ended.                              *)
LEMMA BuildRight ==
  ASSUME IInv, Rightness, BuildBody \/ BuildExit
  PROVE  Rightness'
<1>1. /\ stack # <<>> /\ status = "run" /\ Top.act = "build"
      /\ prog' = prog /\ lowered' = lowered /\ Going
  BY NotEmpty DEF BuildBody, BuildExit, InCall, StackOnly, tree, notes
<1>2. CallsSeen /\ TreeOK /\ Top \in Frame /\ Top.n = Root
  <2>1. CallsSeen  BY DEF Rightness, CallsSeen
  <2> QED  BY <1>1, <2>1, TopSeen, RunningCall DEF Seen, IInv
<1>3. CallsSeen'
  <2>1. CASE BuildBody
    <3>1. PICK f : f = [Top EXCEPT !.pc = 1]  OBVIOUS
    <3>2. f.n = Top.n /\ f.act = Top.act /\ f.pc = 1  BY <1>2, <3>1 DEF Frame
    <3>3. Invoke(f, Enter("codegen", Top.n))  BY <2>1, <3>1 DEF BuildBody
    <3>4. Owes(f) /\ Seen(prog, f)  BY <1>1, <1>2, <3>2 DEF Owes, Seen
    <3> QED  BY <1>1, <1>2, <3>3, <3>4, SeenAtFirst, SeenInvoke
  <2>2. CASE BuildExit
    <3>1. PICK f, g : f = [Top EXCEPT !.pc = 2] /\ g = Enter("exit", Top.n)
      OBVIOUS
    <3>2. f.n = Top.n /\ f.act = Top.act /\ f.pc = 2  BY <1>2, <3>1 DEF Frame
    <3>3. Invoke(f, g)  BY <2>2, <3>1 DEF BuildExit
    <3>4. g.n = Root /\ g.act = "exit" /\ Seen(prog, g)
      BY <1>2, <3>1, SeenAtFirst DEF Enter
    <3>5. Owes(f)  BY <1>1 DEF Owes
    <3>6. Right(prog, g.n) => Seen(prog, f)  BY <1>1, <1>2, <3>2, <3>4 DEF Seen
    <3> QED  BY <1>1, <1>2, <3>3, <3>4, <3>5, <3>6, SeenInvoke
  <2> QED  BY <2>1, <2>2
<1> QED  BY <1>1, <1>3, RightGoesOn

(* The missing return it adds is of the type of the others.                *)
LEMMA ReturnedSame ==
  ASSUME IInv, NEW last, NEW ty \in Nat, Returned = {ty}, layout' = layout,
         blocks' = Emit(blocks, AtEnd(last), Ret(0, ty))
  PROVE  Returned' = {ty}
<1>1. PICK ret : ret = Ret(0, ty)
  OBVIOUS
<1>2. ret.op = "ret" /\ ret.ty = ty
  BY <1>1 DEF Ret
<1>3. ASSUME NEW b \in ToSet(layout)
      PROVE  /\ ToSet(blocks[b].insts) \subseteq ToSet(blocks'[b].insts)
             /\ ToSet(blocks'[b].insts) \subseteq ToSet(blocks[b].insts) \cup {ret}
  <2>1. b \in 1..Len(blocks) /\ Linked(blocks)
    BY <1>3, ToSetOf DEF IInv, LayoutOK, BlocksOK, Made
  <2>2. PICK I : I = InstIn(Len(blocks)) \cup {ret}
    OBVIOUS
  <2>3. blocks[b].insts \in Seq(I) /\ ret \in I
    <3>1. blocks[b].insts \in Seq(InstIn(Len(blocks)))  BY <2>1, LinkedProperties
    <3>2. PICK J : J = InstIn(Len(blocks))  OBVIOUS
    <3>3. J \subseteq I  BY <2>2, <3>2
    <3> QED  BY <2>2, <3>1, <3>2, <3>3, SeqMonotonic
  <2>4. PICK s : s = blocks[b].insts
    OBVIOUS
  <2>5. blocks'[b].insts = IF b = last THEN Append(s, ret) ELSE s
    BY <1>1, <2>1, <2>4 DEF Emit, AtEnd, Placed
  <2>6. ToSet(Append(s, ret)) = ToSet(s) \cup {ret}
    <3>1. s \in Seq(I) /\ Len(s) \in Nat  BY <2>3, <2>4
    <3>2. /\ Append(s, ret) \in Seq(I) /\ Len(Append(s, ret)) = Len(s) + 1
          /\ \A k \in 1..Len(s) : Append(s, ret)[k] = s[k]
          /\ Append(s, ret)[Len(s) + 1] = ret
      BY <2>3, <3>1, AppendProperties
    <3>3. PICK t, n : t = Append(s, ret) /\ n = Len(s)
      OBVIOUS
    <3>4. ToSet(t) = {t[k] : k \in 1..n + 1} /\ ToSet(s) = {s[k] : k \in 1..n}
      <4>1. t \in Seq(I) /\ Len(t) = n + 1
        BY <3>2, <3>3
      <4>2. ToSet(t) = {t[k] : k \in 1..Len(t)}
        BY <4>1, ToSetOf
      <4>3. ToSet(s) = {s[k] : k \in 1..Len(s)}
        BY <3>1, ToSetOf
      <4> QED  BY <3>3, <4>1, <4>2, <4>3
    <3>5. \A k \in 1..n + 1 : k \in 1..n \/ k = n + 1
      BY <3>1, <3>3
    <3>6. (\A k \in 1..n : k \in 1..n + 1) /\ n + 1 \in 1..n + 1
      BY <3>1, <3>3
    <3>7. (\A k \in 1..n : t[k] = s[k]) /\ t[n + 1] = ret
      BY <3>2, <3>3
    <3>8. ToSet(t) = ToSet(s) \cup {ret}
      BY ONLY <3>4, <3>5, <3>6, <3>7
    <3> QED  BY <3>3, <3>8
  <2> QED  BY <2>4, <2>5, <2>6
<1>4. Insts \subseteq Insts' /\ Insts' \subseteq Insts \cup {ret}
  BY <1>3 DEF Insts
<1>5. \A i \in Insts : i.op = "ret" => i.ty = ty
  BY DEF Returned
<1>6. \E i \in Insts : i.op = "ret" /\ i.ty = ty
  BY DEF Returned
<1>7. \A i \in Insts' : i.op = "ret" => i.ty = ty
  BY <1>2, <1>4, <1>5
<1>8. \E i \in Insts' : i.op = "ret" /\ i.ty = ty
  BY <1>4, <1>6
<1> QED  BY <1>7, <1>8 DEF Returned

(* buildFunction succeeds: the scope of the whole body has been ended, and *)
(* the values returned have been looked at.                                *)
LEMMA BuildEndRight ==
  ASSUME IInv, Rightness, BuildEnd
  PROVE  Rightness'
<1>1. /\ stack # <<>> /\ Top.act = "build" /\ Top.pc = 2
      /\ prog' = prog /\ lowered' = lowered /\ stack' = stack /\ layout' = layout
  BY NotEmpty DEF BuildEnd, InCall, EndWith, notes
<1>2. PICK ty : ty = FinalType
  OBVIOUS
<1>3. decl' = ty /\ ~TypeError
  BY <1>2 DEF BuildEnd
<1>4. CallsSeen /\ Right(prog, Root)
  <2>1. CallsSeen  BY DEF Rightness, CallsSeen
  <2> QED  BY <1>1, <2>1, TopSeen DEF Seen
<1>5. ty = Void \/ Returned = {ty}
  <2>1. CASE decl = Deduced
    <3>1. Returned # {} /\ \A t, u \in Returned : t = u
      BY <1>3, <2>1 DEF TypeError
    <3>2. ty = CHOOSE t \in Returned : TRUE  BY <1>2, <2>1 DEF FinalType
    <3>3. ty \in Returned  BY <3>1, <3>2
    <3> QED  BY <3>1, <3>3
  <2>2. CASE decl # Deduced
    BY <1>2, <1>3, <2>2 DEF TypeError, FinalType
  <2> QED  BY <2>1, <2>2
<1>6. decl' = Void \/ Returned' = {decl'}
  <2>1. CASE ty = Void  BY <1>3, <2>1
  <2>2. CASE Returned = {ty}
    <3>1. CASE blocks' = blocks
      <4>1. Returned' = Returned  BY <1>1, <3>1 DEF Returned, Insts
      <4> QED  BY <1>3, <2>2, <4>1
    <3>2. CASE \E last : blocks' = Emit(blocks, AtEnd(last), Ret(0, ty))
      <4>1. ty \in Nat  BY <2>2, ReturnedTypes
      <4>2. Returned' = {ty}  BY <1>1, <2>2, <3>2, <4>1, ReturnedSame
      <4> QED  BY <1>3, <4>2
    <3> QED  BY <1>2, <3>1, <3>2 DEF BuildEnd
  <2> QED  BY <1>5, <2>1, <2>2
<1>7. OnlyRightIsLowered'
  BY <1>1, <1>4, <1>6 DEF OnlyRightIsLowered, Right
<1> QED  BY <1>1, <1>4, <1>7 DEF Rightness, CallsSeen

------------------------------------------------------------------------------
(* At first nothing has been lowered.                                      *)
LEMMA RightInit ==
  ASSUME Init
  PROVE  Rightness
<1>1. /\ lowered = {} /\ Len(stack) = 1 /\ stack[1] = Enter("build", Root)
      /\ status = "run"
  BY DEF Init
<1>2. Seen(prog, stack[1])
  BY <1>1 DEF Seen, Enter
<1> QED  BY <1>1, <1>2 DEF Rightness, OnlyRightIsLowered

(* Every step keeps the account of what has compiled.                      *)
LEMMA RightNext ==
  ASSUME IInv, Rightness, [Next]_vars
  PROVE  Rightness'
<1>1. CASE Codegen
  BY <1>1, StopRight, SimpleRight, BodyRight, IfRight, LoopRight, MatchRight,
     TypeSwitchRight, SearchRight
     DEF Codegen
<1>2. CASE ScopeExit
  BY <1>2, ScopeExitRight
<1>3. CASE BuildBody \/ BuildExit \/ BuildRejected \/ BuildEnd \/ StackOverflow
  BY <1>3, StopRight, BuildRight, BuildEndRight
<1>4. CASE UNCHANGED vars
  BY <1>4 DEF vars, Rightness, OnlyRightIsLowered, Returned, Insts
<1> QED  BY <1>1, <1>2, <1>3, <1>4 DEF Next, Ended

(* buildFunction succeeds only on functions that are as they should be: in *)
(* every statement that is lowered, however deep in ifs, loops, matches    *)
(* and typeswitches, the expressions and the tags compile (an error a      *)
(* codegen or a runScopeExit returns is never dropped on its way out), and *)
(* all values the function returns have its type, unless it is void.       *)
THEOREM RightHolds == Spec => []OnlyRightIsLowered
<1>1. Init => Rightness
  BY RightInit
<1>2. IInv /\ Rightness /\ [Next]_vars => Rightness'
  BY RightNext
<1>3. Rightness => OnlyRightIsLowered
  BY DEF Rightness
<1> QED  BY <1>1, <1>2, <1>3, Invariance, PTL DEF Spec
==============================================================================
