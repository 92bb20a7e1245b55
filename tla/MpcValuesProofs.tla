--------------------------- MODULE MpcValuesProofs ---------------------------
(***************************************************************************)
(* Every value mpc's parsers make is held once, and destroyed or returned  *)
(* once, whatever the grammar, the text and the size of the pool.          *)
(***************************************************************************)
EXTENDS MpcValues, MpcMarksProofs

------------------------------------------------------------------------------
(* The store.  The blocks of T become those of X: the others stay.         *)

Becomes(s, T, t, X) ==
  /\ StoreSound(t)
  /\ X \cap (AliveIn(s) \ T) = {}
  /\ AliveIn(t) = (AliveIn(s) \ T) \cup X

StoreFields == {"cells", "next", "blocks", "misused"}
Entries == PoolIndex \cup {Heap, Freed}

LEMMA CellsTyped ==
  /\ PoolCells \in Nat \ {0} /\ PoolIndex \subseteq Nat
  /\ Heap \notin PoolIndex /\ Freed \notin PoolIndex /\ Heap # Freed
  /\ \A n \in Nat : n % PoolCells \in PoolIndex
<1>1. PoolCells \in Nat \ {0}  BY InputAssumption
<1>2. PoolIndex = 0 .. PoolCells - 1  BY DEF PoolIndex
<1>3. Heap \notin PoolIndex /\ Freed \notin PoolIndex /\ Heap # Freed
  BY <1>1, <1>2 DEF Heap, Freed
<1>4. \A n \in Nat : n % PoolCells \in 0 .. PoolCells - 1  BY <1>1
<1>5. 0 .. PoolCells - 1 \subseteq Nat  BY <1>1
<1> QED  BY <1>1, <1>2, <1>3, <1>4, <1>5

LEMMA BlocksTyped ==
  ASSUME NEW s, StoreSound(s)
  PROVE  /\ Len(s.blocks) \in Nat /\ DOMAIN s.blocks = 1 .. Len(s.blocks)
         /\ 0 \notin AliveIn(s) /\ AliveIn(s) \subseteq DOMAIN s.blocks
<1>1. s.blocks \in Seq(Entries)  BY DEF StoreSound, Entries
<1>2. Len(s.blocks) \in Nat /\ DOMAIN s.blocks = 1 .. Len(s.blocks)  BY <1>1
<1> QED  BY <1>2 DEF AliveIn

(* A new block, in a cell nothing is in, or on the heap.                   *)
LEMMA BlockAppended ==
  ASSUME NEW s, StoreSound(s), NEW cell \in PoolIndex \cup {Heap}, cell \notin s.cells,
         NEW t, DOMAIN t = StoreFields, ~t.misused, t.next \in PoolIndex,
         t.blocks = Append(s.blocks, cell),
         t.cells = s.cells \cup ({cell} \cap PoolIndex)
  PROVE  Becomes(s, {}, t, {NewBlock(t)}) /\ NewBlock(t) \in Nat \ {0}
<1> DEFINE n == Len(s.blocks)
<1>1. n \in Nat /\ DOMAIN s.blocks = 1 .. n  BY BlocksTyped
<1>2. s.blocks \in Seq(Entries) /\ cell \in Entries /\ cell # Freed
  BY CellsTyped DEF StoreSound, Entries
<1>3. /\ t.blocks \in Seq(Entries) /\ Len(t.blocks) = n + 1 /\ DOMAIN t.blocks = 1 .. n + 1
      /\ t.blocks[n + 1] = cell /\ \A b \in 1 .. n : t.blocks[b] = s.blocks[b]
  BY <1>2, AppendProperties
<1>. HIDE DEF n
<1>4. NewBlock(t) = n + 1 /\ n + 1 \in Nat \ {0} /\ n + 1 \notin 1 .. n
      /\ \A b : b \in 1 .. n + 1 <=> b \in 1 .. n \/ b = n + 1
  BY <1>1, <1>3 DEF NewBlock
<1>5. AliveIn(t) = AliveIn(s) \cup {n + 1}
  BY <1>1, <1>2, <1>3, <1>4, Zenon DEF AliveIn
<1>6. n + 1 \notin AliveIn(s)  BY <1>1, <1>4 DEF AliveIn
<1>7. s.cells = {s.blocks[b] : b \in 1 .. n} \cap PoolIndex
      /\ \A b, c \in 1 .. n : s.blocks[b] \in PoolIndex /\ s.blocks[b] = s.blocks[c] => b = c
  BY <1>1 DEF StoreSound
<1>8. t.cells = {t.blocks[b] : b \in 1 .. n + 1} \cap PoolIndex
  <2>1. \A x : x \in {t.blocks[b] : b \in 1 .. n + 1}
               <=> x = cell \/ x \in {s.blocks[b] : b \in 1 .. n}
    BY <1>3, <1>4
  <2> QED  BY <1>7, <2>1
<1>9. ASSUME NEW b \in 1 .. n + 1, NEW c \in 1 .. n + 1,
             t.blocks[b] \in PoolIndex, t.blocks[b] = t.blocks[c]
      PROVE  b = c
  <2>1. CASE b \in 1 .. n /\ c \in 1 .. n  BY <1>3, <1>7, <1>9, <2>1
  <2>2. CASE b = n + 1 /\ c \in 1 .. n
    <3>1. s.blocks[c] = cell /\ cell \in PoolIndex  BY <1>3, <1>9, <2>2
    <3> QED  BY <1>7, <2>2, <3>1
  <2>3. CASE b \in 1 .. n /\ c = n + 1
    <3>1. s.blocks[b] = cell /\ cell \in PoolIndex  BY <1>3, <1>9, <2>3
    <3> QED  BY <1>7, <2>3, <3>1
  <2> QED  BY <1>4, <2>1, <2>2, <2>3
<1>10. StoreSound(t)
  BY <1>3, <1>8, <1>9 DEF StoreSound, StoreFields, Entries
<1> QED  BY <1>4, <1>5, <1>6, <1>10 DEF Becomes

LEMMA MallocGives ==
  ASSUME NEW s, StoreSound(s), NEW n
  PROVE  LET t == Malloc(s, n)
         IN  Becomes(s, {}, t, {NewBlock(t)}) /\ NewBlock(t) \in Nat \ {0}
<1> DEFINE away == {k \in PoolIndex : (s.next + k) % PoolCells \notin s.cells}
           nearest == CHOOSE k \in away : \A j \in away : k <= j
           cell == (s.next + nearest) % PoolCells
           t == Malloc(s, n)
<1>1. DOMAIN s = StoreFields /\ s.next \in PoolIndex /\ ~s.misused
      /\ s.cells \subseteq PoolIndex
  BY DEF StoreSound, StoreFields
<1>2. CASE n > PoolFits \/ away = {}
  <2>1. t = [s EXCEPT !.blocks = Append(@, Heap)]  BY <1>2 DEF Malloc
  <2>2. /\ DOMAIN t = StoreFields /\ ~t.misused /\ t.next = s.next
        /\ t.blocks = Append(s.blocks, Heap) /\ t.cells = s.cells
    BY <1>1, <2>1 DEF StoreFields
  <2>. HIDE DEF t
  <2>3. Heap \notin s.cells /\ {Heap} \cap PoolIndex = {}  BY <1>1, CellsTyped
  <2>4. Becomes(s, {}, t, {NewBlock(t)}) /\ NewBlock(t) \in Nat \ {0}
    BY <1>1, <2>2, <2>3, BlockAppended
  <2> QED  BY <2>4 DEF t
<1>3. CASE ~(n > PoolFits \/ away = {})
  <2>1. t = [s EXCEPT !.blocks = Append(@, cell), !.cells = @ \cup {cell},
                      !.next = (cell + 1) % PoolCells]
    BY <1>3 DEF Malloc
  <2>2. nearest \in away
    <3>1. away \subseteq Nat /\ away # {}  BY <1>3, CellsTyped
    <3>. HIDE DEF away
    <3>2. PICK x \in away : \A y \in away : ~(y < x)  BY <3>1, Least
    <3>3. \A y \in away : x <= y  BY <3>1, <3>2
    <3> QED  BY <3>3
  <2>3. nearest \in PoolIndex /\ cell \notin s.cells  BY <2>2
  <2>. HIDE DEF nearest
  <2>4. s.next + nearest \in Nat
    <3>1. s.next \in Nat /\ nearest \in Nat  BY <1>1, <2>3, CellsTyped
    <3> QED  BY ONLY <3>1
  <2>5. cell \in PoolIndex  BY <2>4, CellsTyped
  <2>. HIDE DEF cell
  <2>6. cell + 1 \in Nat  BY <2>5, CellsTyped
  <2>7. (cell + 1) % PoolCells \in PoolIndex  BY <2>6, CellsTyped
  <2>8. /\ DOMAIN t = StoreFields /\ ~t.misused /\ t.next = (cell + 1) % PoolCells
        /\ t.blocks = Append(s.blocks, cell) /\ t.cells = s.cells \cup {cell}
    BY <1>1, <2>1 DEF StoreFields
  <2>. HIDE DEF t
  <2>9. {cell} \cap PoolIndex = {cell}  BY <2>5
  <2>10. Becomes(s, {}, t, {NewBlock(t)}) /\ NewBlock(t) \in Nat \ {0}
    BY <2>3, <2>5, <2>7, <2>8, <2>9, BlockAppended
  <2> QED  BY <2>10 DEF t
<1> QED  BY <1>2, <1>3

LEMMA HeapGives ==
  ASSUME NEW s, StoreSound(s)
  PROVE  LET t == HeapBlock(s)
         IN  Becomes(s, {}, t, {NewBlock(t)}) /\ NewBlock(t) \in Nat \ {0}
<1> DEFINE t == HeapBlock(s)
<1>1. DOMAIN s = StoreFields /\ s.next \in PoolIndex /\ ~s.misused
      /\ s.cells \subseteq PoolIndex
  BY DEF StoreSound, StoreFields
<1>2. /\ DOMAIN t = StoreFields /\ ~t.misused /\ t.next = s.next
      /\ t.blocks = Append(s.blocks, Heap) /\ t.cells = s.cells
  BY <1>1 DEF StoreFields, HeapBlock
<1>. HIDE DEF t
<1>3. Heap \notin s.cells /\ {Heap} \cap PoolIndex = {}  BY <1>1, CellsTyped
<1>4. Becomes(s, {}, t, {NewBlock(t)}) /\ NewBlock(t) \in Nat \ {0}
  BY <1>1, <1>2, <1>3, BlockAppended
<1> QED  BY <1>4 DEF t

(* A block leaves its cell, for the heap or for good.                      *)
LEMMA BlockLeaves ==
  ASSUME NEW s, StoreSound(s), NEW b \in DOMAIN s.blocks, NEW v \in {Heap, Freed},
         NEW t, DOMAIN t = StoreFields, ~t.misused, t.next = s.next,
         t.blocks \in Seq(Entries), DOMAIN t.blocks = DOMAIN s.blocks, t.blocks[b] = v,
         \A c \in DOMAIN s.blocks : c # b => t.blocks[c] = s.blocks[c],
         t.cells = s.cells \ {s.blocks[b]}
  PROVE  /\ StoreSound(t) /\ t.blocks[b] = v
         /\ AliveIn(t) = IF v = Freed THEN AliveIn(s) \ {b} ELSE AliveIn(s) \cup {b}
<1> DEFINE D == DOMAIN s.blocks
<1>1. v \notin PoolIndex  BY CellsTyped
<1>2. t.blocks \in Seq(Entries)  OBVIOUS
<1>3. DOMAIN t.blocks = D /\ t.blocks[b] = v
      /\ \A c \in D : c # b => t.blocks[c] = s.blocks[c]
  OBVIOUS
<1>4. s.cells = {s.blocks[c] : c \in D} \cap PoolIndex
      /\ \A a, c \in D : s.blocks[a] \in PoolIndex /\ s.blocks[a] = s.blocks[c] => a = c
  BY DEF StoreSound
<1>5. b \in D  OBVIOUS
<1>. HIDE DEF D
<1>6. t.cells = {t.blocks[c] : c \in D} \cap PoolIndex
  <2>1. ASSUME NEW x, x \in t.cells PROVE x \in {t.blocks[c] : c \in D} \cap PoolIndex
    <3>1. x \in PoolIndex /\ x # s.blocks[b] /\ \E c \in D : x = s.blocks[c]  BY <1>4, <2>1
    <3> QED  BY <1>3, <3>1
  <2>2. ASSUME NEW x, x \in {t.blocks[c] : c \in D} \cap PoolIndex PROVE x \in t.cells
    <3>1. PICK c \in D : x = t.blocks[c]  BY <2>2
    <3>2. c # b  BY <1>1, <1>3, <2>2, <3>1
    <3>3. x = s.blocks[c] /\ x \in PoolIndex  BY <1>3, <2>2, <3>1, <3>2
    <3>4. x # s.blocks[b]  BY <1>4, <1>5, <3>2, <3>3
    <3> QED  BY <1>4, <3>3, <3>4
  <2> QED  BY <2>1, <2>2
<1>7. ASSUME NEW a \in D, NEW c \in D, t.blocks[a] \in PoolIndex, t.blocks[a] = t.blocks[c]
      PROVE  a = c
  <2>1. a # b /\ c # b  BY <1>1, <1>3, <1>7
  <2> QED  BY <1>3, <1>4, <1>7, <2>1
<1>8. StoreSound(t)
  BY <1>2, <1>3, <1>6, <1>7 DEF StoreSound, StoreFields, Entries
<1>9. AliveIn(t) = IF v = Freed THEN AliveIn(s) \ {b} ELSE AliveIn(s) \cup {b}
  BY <1>3, <1>5, CellsTyped DEF AliveIn, D
<1> QED  BY <1>3, <1>8, <1>9

LEMMA EntryChanged ==
  ASSUME NEW s, StoreSound(s), NEW b \in DOMAIN s.blocks, NEW v \in {Heap, Freed},
         NEW bs, bs = [s.blocks EXCEPT ![b] = v]
  PROVE  /\ bs \in Seq(Entries) /\ DOMAIN bs = DOMAIN s.blocks /\ bs[b] = v
         /\ \A c \in DOMAIN s.blocks : c # b => bs[c] = s.blocks[c]
<1>1. s.blocks \in Seq(Entries) /\ v \in Entries  BY DEF StoreSound, Entries
<1>2. PICK old : old = s.blocks  OBVIOUS
<1>3. old \in Seq(Entries) /\ b \in DOMAIN old /\ bs = [old EXCEPT ![b] = v]  BY <1>1, <1>2
<1>4. bs \in Seq(Entries) /\ DOMAIN bs = DOMAIN old /\ bs[b] = v
      /\ \A c \in DOMAIN old : c # b => bs[c] = old[c]
  BY ONLY <1>1, <1>3
<1> QED  BY <1>2, <1>4

LEMMA FreeTakes ==
  ASSUME NEW s, StoreSound(s), NEW b, b = 0 \/ b \in AliveIn(s)
  PROVE  StoreSound(Free(s, b)) /\ AliveIn(Free(s, b)) = AliveIn(s) \ {b}
<1>1. 0 \notin AliveIn(s) /\ AliveIn(s) \subseteq DOMAIN s.blocks  BY BlocksTyped
<1>2. CASE b = 0
  <2>1. Free(s, b) = s  BY <1>2 DEF Free
  <2> QED  BY <1>1, <1>2, <2>1
<1>3. CASE b # 0
  <2> DEFINE t == Free(s, b)
  <2>1. b \in DOMAIN s.blocks /\ s.blocks[b] # Freed  BY <1>3 DEF AliveIn
  <2>2. t = [s EXCEPT !.blocks[b] = Freed, !.cells = @ \ {s.blocks[b]}]
    BY <1>3, <2>1 DEF Free
  <2>3. DOMAIN s = StoreFields /\ ~s.misused  BY DEF StoreSound, StoreFields
  <2>4. PICK bs : bs = [s.blocks EXCEPT ![b] = Freed]  OBVIOUS
  <2>5. t = [s EXCEPT !.blocks = bs, !.cells = @ \ {s.blocks[b]}]
    BY <2>2, <2>4
  <2>6. /\ DOMAIN t = StoreFields /\ ~t.misused /\ t.next = s.next /\ t.blocks = bs
        /\ t.cells = s.cells \ {s.blocks[b]}
    BY <2>3, <2>5 DEF StoreFields
  <2>. HIDE DEF t
  <2>7. /\ bs \in Seq(Entries) /\ DOMAIN bs = DOMAIN s.blocks /\ bs[b] = Freed
        /\ \A c \in DOMAIN s.blocks : c # b => bs[c] = s.blocks[c]
    BY <2>1, <2>4, EntryChanged
  <2>8. StoreSound(t) /\ AliveIn(t) = AliveIn(s) \ {b}
    <3>1. Freed \in {Heap, Freed}  OBVIOUS
    <3> QED  BY ONLY StoreSound(s), <2>1, <2>6, <2>7, <3>1, BlockLeaves
  <2> QED  BY <2>8 DEF t
<1> QED  BY <1>2, <1>3

LEMMA ToHeapKeeps ==
  ASSUME NEW s, StoreSound(s), NEW b, b = 0 \/ b \in AliveIn(s)
  PROVE  /\ StoreSound(ToHeap(s, b)) /\ AliveIn(ToHeap(s, b)) = AliveIn(s)
         /\ b # 0 => ToHeap(s, b).blocks[b] = Heap
<1>1. 0 \notin AliveIn(s) /\ AliveIn(s) \subseteq DOMAIN s.blocks  BY BlocksTyped
<1>2. CASE b = 0
  <2>1. ToHeap(s, b) = s  BY <1>2 DEF ToHeap
  <2> QED  BY <1>1, <1>2, <2>1
<1>3. CASE b # 0
  <2> DEFINE t == ToHeap(s, b)
  <2>1. b \in DOMAIN s.blocks /\ s.blocks[b] # Freed /\ b \in AliveIn(s)  BY <1>3 DEF AliveIn
  <2>2. t = [s EXCEPT !.blocks[b] = Heap, !.cells = @ \ {s.blocks[b]}]
    BY <1>3, <2>1 DEF ToHeap
  <2>3. DOMAIN s = StoreFields /\ ~s.misused  BY DEF StoreSound, StoreFields
  <2>4. PICK bs : bs = [s.blocks EXCEPT ![b] = Heap]  OBVIOUS
  <2>5. t = [s EXCEPT !.blocks = bs, !.cells = @ \ {s.blocks[b]}]
    BY <2>2, <2>4
  <2>6. /\ DOMAIN t = StoreFields /\ ~t.misused /\ t.next = s.next /\ t.blocks = bs
        /\ t.cells = s.cells \ {s.blocks[b]}
    BY <2>3, <2>5 DEF StoreFields
  <2>. HIDE DEF t
  <2>7. /\ bs \in Seq(Entries) /\ DOMAIN bs = DOMAIN s.blocks /\ bs[b] = Heap
        /\ \A c \in DOMAIN s.blocks : c # b => bs[c] = s.blocks[c]
    BY <2>1, <2>4, EntryChanged
  <2>8. StoreSound(t) /\ AliveIn(t) = AliveIn(s) \cup {b} /\ t.blocks[b] = Heap
    <3>1. Heap \in {Heap, Freed} /\ Heap # Freed  BY CellsTyped
    <3> QED  BY ONLY StoreSound(s), <2>1, <2>6, <2>7, <3>1, BlockLeaves
  <2>9. AliveIn(s) \cup {b} = AliveIn(s)  BY <2>1
  <2> QED  BY <2>8, <2>9 DEF t
<1> QED  BY <1>2, <1>3

LEMMA ReallocKeeps ==
  ASSUME NEW s, StoreSound(s), NEW b, b = 0 \/ b \in AliveIn(s), NEW n
  PROVE  StoreSound(Realloc(s, b, n)) /\ AliveIn(Realloc(s, b, n)) = AliveIn(s)
BY ToHeapKeeps DEF Realloc

------------------------------------------------------------------------------
(* Several blocks, freed or exported one by one.                           *)

Doing(what, s, b) == IF what = "free" THEN Free(s, b) ELSE Export(s, b)
Each(g, what, s, bs, k) ==
  g = [n \in 0 .. k |-> IF n = 0 THEN s ELSE Doing(what, g[n - 1], bs[n])]

LEMMA EachIs ==
  ASSUME NEW what, NEW s, NEW bs, NEW k \in Nat
  PROVE  \E g : Each(g, what, s, bs, k)
<1> DEFINE Bad == {n \in 0 .. k : ~\E g : Each(g, what, s, bs, n)}
<1>1. SUFFICES ASSUME Bad # {} PROVE FALSE
  OBVIOUS
<1>2. PICK n \in Bad : \A y \in Bad : ~(y < n)
  <2>1. Bad \subseteq Nat  OBVIOUS
  <2>. HIDE DEF Bad
  <2> QED  BY <1>1, <2>1, Least
<1>3. CASE n = 0
  <2>1. Each([x \in 0 .. 0 |-> s], what, s, bs, 0)  BY DEF Each
  <2> QED  BY <1>2, <1>3, <2>1
<1>4. CASE n # 0
  <2>1. n \in Nat /\ n - 1 \in 0 .. k /\ n - 1 < n  BY <1>4
  <2>2. PICK g : Each(g, what, s, bs, n - 1)  BY <1>2, <2>1
  <2> DEFINE next == Doing(what, g[n - 1], bs[n])
             h == [x \in 0 .. n |-> IF x = n THEN next ELSE g[x]]
  <2>3. \A x \in 0 .. n - 1 : g[x] = IF x = 0 THEN s ELSE Doing(what, g[x - 1], bs[x])
    BY <2>1, <2>2 DEF Each
  <2>4. ASSUME NEW x \in 0 .. n
        PROVE  h[x] = IF x = 0 THEN s ELSE Doing(what, h[x - 1], bs[x])
    <3>1. CASE x = n
      <4>1. h[x] = next /\ h[x - 1] = g[n - 1]
        <5>. HIDE DEF next
        <5> QED  BY <2>1, <3>1
      <4>. HIDE DEF h
      <4> QED  BY <1>4, <3>1, <4>1
    <3>2. CASE x # n
      <4>1. x \in 0 .. n - 1 /\ (x # 0 => x - 1 \in 0 .. n /\ x - 1 # n)  BY <2>1, <3>2
      <4>2. h[x] = g[x] /\ (x # 0 => h[x - 1] = g[x - 1])
        <5>. HIDE DEF next
        <5> QED  BY <3>2, <4>1
      <4>. HIDE DEF h
      <4> QED  BY <2>3, <4>1, <4>2
    <3> QED  BY <3>1, <3>2
  <2>5. h = [x \in 0 .. n |-> IF x = 0 THEN s ELSE Doing(what, h[x - 1], bs[x])]
    <3>1. h = [x \in 0 .. n |-> h[x]]  OBVIOUS
    <3>. HIDE DEF h
    <3> QED  BY <2>4, <3>1
  <2>6. Each(h, what, s, bs, n)
    <3>. HIDE DEF h
    <3> QED  BY <2>5 DEF Each
  <2>. HIDE DEF h
  <2> QED  BY <1>2, <2>6
<1> QED  BY <1>3, <1>4

(* No block is named twice, so each is there when its turn comes.          *)
Distinct(bs) == \A a, b \in DOMAIN bs : a # b /\ bs[a] = bs[b] => bs[a] = 0
Named(bs) == {bs[n] : n \in 1 .. Len(bs)} \ {0}

LEMMA EachTakes ==
  ASSUME NEW what \in {"free", "export"}, NEW s, StoreSound(s), NEW bs, NEW k \in Nat,
         NEW g, Each(g, what, s, bs, k),
         \A n \in 1 .. k : bs[n] = 0 \/ bs[n] \in AliveIn(s),
         what = "free" => \A a, b \in 1 .. k : a # b /\ bs[a] = bs[b] => bs[a] = 0
  PROVE  \A n \in 0 .. k : StoreSound(g[n])
           /\ AliveIn(g[n]) = IF what = "free" THEN AliveIn(s) \ {bs[m] : m \in 1 .. n} ELSE AliveIn(s)
<1> DEFINE Left(n) == IF what = "free" THEN AliveIn(s) \ {bs[m] : m \in 1 .. n} ELSE AliveIn(s)
           Bad == {n \in 0 .. k : ~(StoreSound(g[n]) /\ AliveIn(g[n]) = Left(n))}
<1>1. SUFFICES ASSUME Bad # {} PROVE FALSE
  OBVIOUS
<1>2. PICK n \in Bad : \A y \in Bad : ~(y < n)
  <2>1. Bad \subseteq Nat  OBVIOUS
  <2>. HIDE DEF Bad
  <2> QED  BY <1>1, <2>1, Least
<1>3. CASE n = 0
  <2>1. g[n] = s  BY <1>2, <1>3 DEF Each
  <2>2. Left(n) = AliveIn(s)  BY <1>3
  <2> QED  BY <1>2, <2>1, <2>2
<1>4. CASE n # 0
  <2>1. n - 1 \in 0 .. k /\ n - 1 < n /\ n \in 0 .. k /\ n \in 1 .. k  BY <1>2, <1>4
  <2>2. StoreSound(g[n - 1]) /\ AliveIn(g[n - 1]) = Left(n - 1)  BY <1>2, <2>1
  <2>3. g[n] = Doing(what, g[n - 1], bs[n])
    BY <1>4, <2>1 DEF Each
  <2>4. bs[n] = 0 \/ bs[n] \in Left(n - 1)
    <3>1. \A m \in 1 .. n - 1 : m \in 1 .. k /\ m # n  BY <2>1
    <3>2. what = "free" /\ bs[n] # 0 => bs[n] \notin {bs[m] : m \in 1 .. n - 1}  BY <2>1, <3>1
    <3> QED  BY <2>1, <3>2
  <2>5. PICK u : u = g[n - 1]  OBVIOUS
  <2>6. StoreSound(u) /\ (bs[n] = 0 \/ bs[n] \in AliveIn(u)) /\ g[n] = Doing(what, u, bs[n])
        /\ AliveIn(u) = Left(n - 1)
    BY <2>2, <2>3, <2>4, <2>5
  <2>7. StoreSound(g[n])
        /\ AliveIn(g[n]) = IF what = "free" THEN AliveIn(u) \ {bs[n]} ELSE AliveIn(u)
    <3>1. PICK b, t : b = bs[n] /\ t = g[n]  OBVIOUS
    <3>2. (b = 0 \/ b \in AliveIn(u)) /\ t = Doing(what, u, b) /\ StoreSound(u)
      BY <2>6, <3>1
    <3>3. StoreSound(t) /\ AliveIn(t) = IF what = "free" THEN AliveIn(u) \ {b} ELSE AliveIn(u)
      BY ONLY <3>2, FreeTakes, ToHeapKeeps DEF Doing, Export
    <3> QED  BY <3>1, <3>3
  <2>8. Left(n) = IF what = "free" THEN Left(n - 1) \ {bs[n]} ELSE Left(n - 1)
    <3>1. \A m : m \in 1 .. n <=> m \in 1 .. n - 1 \/ m = n  BY <2>1
    <3>2. {bs[m] : m \in 1 .. n} = {bs[m] : m \in 1 .. n - 1} \cup {bs[n]}  BY <3>1
    <3> QED  BY <3>2
  <2> QED  BY <1>2, <2>6, <2>7, <2>8
<1> QED  BY <1>3, <1>4

LEMMA FreeAllTakes ==
  ASSUME NEW s, StoreSound(s), NEW bs \in Seq(Nat), Named(bs) \subseteq AliveIn(s), Distinct(bs)
  PROVE  StoreSound(FreeAll(s, bs)) /\ AliveIn(FreeAll(s, bs)) = AliveIn(s) \ Named(bs)
<1> DEFINE k == Len(bs)
           Freeing(g) == g = [n \in 0 .. k |-> IF n = 0 THEN s ELSE Free(g[n - 1], bs[n])]
           g0 == CHOOSE g : Freeing(g)
<1>1. k \in Nat /\ DOMAIN bs = 1 .. k  OBVIOUS
<1>2. FreeAll(s, bs) = g0[k]  BY DEF FreeAll
<1>3. \E g : Freeing(g)
  <2>1. PICK g : Each(g, "free", s, bs, k)
    <3>. HIDE DEF k
    <3> QED  BY <1>1, EachIs
  <2>2. g = [n \in 0 .. k |-> IF n = 0 THEN s ELSE Free(g[n - 1], bs[n])]
    BY <2>1 DEF Each, Doing
  <2> QED  BY <2>2
<1>4. Freeing(g0)
  <2>. HIDE DEF Freeing
  <2> QED  BY <1>3
<1>. HIDE DEF g0
<1>5. Each(g0, "free", s, bs, k)  BY <1>4 DEF Each, Doing
<1>. HIDE DEF Freeing
<1>6. Named(bs) = {bs[m] : m \in 1 .. k} \ {0}  BY DEF Named
<1>7. /\ \A n \in 1 .. k : bs[n] = 0 \/ bs[n] \in AliveIn(s)
      /\ \A a, b \in 1 .. k : a # b /\ bs[a] = bs[b] => bs[a] = 0
  BY <1>1, <1>6 DEF Distinct
<1>. HIDE DEF k
<1>8. StoreSound(g0[k]) /\ AliveIn(g0[k]) = AliveIn(s) \ {bs[m] : m \in 1 .. k}
  <2>1. "free" \in {"free", "export"} /\ k \in 0 .. k  BY <1>1
  <2> QED  BY <1>1, <1>5, <1>7, <2>1, EachTakes
<1>9. 0 \notin AliveIn(s)  BY BlocksTyped
<1> QED  BY <1>2, <1>6, <1>8, <1>9

LEMMA ExportAllKeeps ==
  ASSUME NEW s, StoreSound(s), NEW bs \in Seq(Nat), Named(bs) \subseteq AliveIn(s)
  PROVE  StoreSound(ExportAll(s, bs)) /\ AliveIn(ExportAll(s, bs)) = AliveIn(s)
<1> DEFINE k == Len(bs)
           Exporting(g) == g = [n \in 0 .. k |-> IF n = 0 THEN s ELSE Export(g[n - 1], bs[n])]
           g0 == CHOOSE g : Exporting(g)
<1>1. k \in Nat /\ DOMAIN bs = 1 .. k  OBVIOUS
<1>2. ExportAll(s, bs) = g0[k]  BY DEF ExportAll
<1>3. \E g : Exporting(g)
  <2>1. PICK g : Each(g, "export", s, bs, k)
    <3>. HIDE DEF k
    <3> QED  BY <1>1, EachIs
  <2>2. g = [n \in 0 .. k |-> IF n = 0 THEN s ELSE Export(g[n - 1], bs[n])]
    BY <2>1 DEF Each, Doing
  <2> QED  BY <2>2
<1>4. Exporting(g0)
  <2>. HIDE DEF Exporting
  <2> QED  BY <1>3
<1>. HIDE DEF g0
<1>5. Each(g0, "export", s, bs, k)  BY <1>4 DEF Each, Doing
<1>. HIDE DEF Exporting
<1>6. Named(bs) = {bs[m] : m \in 1 .. k} \ {0}  BY DEF Named
<1>7. \A n \in 1 .. k : bs[n] = 0 \/ bs[n] \in AliveIn(s)
  BY <1>1, <1>6
<1>. HIDE DEF k
<1>8. StoreSound(g0[k]) /\ AliveIn(g0[k]) = AliveIn(s)
  <2>1. "export" \in {"free", "export"} /\ k \in 0 .. k  BY <1>1
  <2> QED  BY <1>1, <1>5, <1>7, <2>1, EachTakes
<1> QED  BY <1>2, <1>8

------------------------------------------------------------------------------
(* Folds and constructors: of the results there is one value left.         *)

LEMMA AfterTaking ==
  ASSUME NEW s, NEW u, NEW T, NEW t, NEW X,
         AliveIn(u) = AliveIn(s) \ T, Becomes(u, {}, t, X)
  PROVE  Becomes(s, T, t, X)
BY DEF Becomes

LEMMA FreeAlso ==
  ASSUME NEW s, StoreSound(s), NEW T, NEW t, NEW X, Becomes(s, T, t, X),
         NEW b, b = 0 \/ b \in AliveIn(s) \ T
  PROVE  Becomes(s, T \cup ({b} \ {0}), Free(t, b), X)
<1>1. 0 \notin AliveIn(s)  BY BlocksTyped
<1>2. StoreSound(t) /\ X \cap (AliveIn(s) \ T) = {} /\ AliveIn(t) = (AliveIn(s) \ T) \cup X
  BY DEF Becomes
<1>3. 0 \notin AliveIn(t)  BY <1>2, BlocksTyped
<1>4. StoreSound(Free(t, b)) /\ AliveIn(Free(t, b)) = AliveIn(t) \ {b}  BY <1>2, FreeTakes
<1> QED  BY <1>1, <1>2, <1>3, <1>4 DEF Becomes

LEMMA TailNamed ==
  ASSUME NEW bs \in Seq(Nat), bs # <<>>, Distinct(bs)
  PROVE  /\ Tail(bs) \in Seq(Nat) /\ Distinct(Tail(bs)) /\ bs[1] \in Nat
         /\ Named(Tail(bs)) = Named(bs) \ {bs[1]}
         /\ bs[1] # 0 => bs[1] \in Named(bs)
<1> DEFINE u == Tail(bs)
           n == Len(bs)
<1>1. n \in Nat \ {0} /\ DOMAIN bs = 1 .. n  OBVIOUS
<1>2. u \in Seq(Nat) /\ Len(u) = n - 1 /\ \A k \in 1 .. n - 1 : u[k] = bs[k + 1]
  BY HeadTailProperties
<1>3. DOMAIN u = 1 .. n - 1 /\ Len(u) = n - 1  BY <1>2
<1>4. bs[1] \in Nat /\ 1 \in 1 .. n  OBVIOUS
<1>. HIDE DEF u, n
<1>5. \A k \in 1 .. n - 1 : k + 1 \in 1 .. n /\ k + 1 # 1  BY <1>1
<1>6. \A k \in 1 .. n : k = 1 \/ (k - 1 \in 1 .. n - 1 /\ (k - 1) + 1 = k)  BY <1>1
<1>7. \A a, b \in 1 .. n - 1 : a # b => a + 1 # b + 1  BY <1>1
<1>8. \A a, b \in 1 .. n : a # b /\ bs[a] = bs[b] => bs[a] = 0  BY <1>1 DEF Distinct
<1>9. Distinct(u)  BY <1>2, <1>3, <1>5, <1>7, <1>8 DEF Distinct
<1>10. Named(bs) = {bs[k] : k \in 1 .. n} \ {0}  BY DEF Named, n
<1>11. Named(u) = {u[k] : k \in 1 .. n - 1} \ {0}  BY <1>3 DEF Named
<1>12. ASSUME NEW x \in Named(u) PROVE x \in Named(bs) \ {bs[1]}
  <2>1. PICK k \in 1 .. n - 1 : x = u[k] /\ x # 0  BY <1>11
  <2>2. k + 1 \in 1 .. n /\ k + 1 # 1 /\ x = bs[k + 1]  BY <1>2, <1>5, <2>1
  <2> QED  BY <1>4, <1>8, <1>10, <2>1, <2>2
<1>13. ASSUME NEW x \in Named(bs) \ {bs[1]} PROVE x \in Named(u)
  <2>1. PICK k \in 1 .. n : x = bs[k] /\ x # 0  BY <1>10
  <2>2. k - 1 \in 1 .. n - 1 /\ (k - 1) + 1 = k  BY <1>6, <1>13, <2>1
  <2>3. x = u[k - 1]  BY <1>2, <2>1, <2>2
  <2> QED  BY <1>11, <2>1, <2>2, <2>3
<1>14. bs[1] # 0 => bs[1] \in Named(bs)  BY <1>4, <1>10
<1> QED  BY <1>2, <1>4, <1>9, <1>12, <1>13, <1>14 DEF u

LEMMA FoldGives ==
  ASSUME NEW s, StoreSound(s), NEW outs \in Seq(Nat), Named(outs) \subseteq AliveIn(s),
         Distinct(outs), NEW fold \in {"first", "join", "tree"}, fold = "first" => outs # <<>>
  PROVE  LET made == Folded(s, fold, outs)
         IN  Becomes(s, Named(outs), made.s, {made.out} \ {0}) /\ made.out \in Nat
<1> DEFINE made == Folded(s, fold, outs)
           rest == FreeAll(s, Tail(outs))
           grown == Realloc(s, outs[1], Len(outs))
           left == FreeAll(grown, Tail(outs))
           exported == ExportAll(s, outs)
           none == FreeAll(exported, outs)
<1>1. 0 \notin AliveIn(s)  BY BlocksTyped
<1>2. outs = <<>> => Named(outs) = {}  BY DEF Named
<1>3. StoreSound(exported) /\ AliveIn(exported) = AliveIn(s)  BY ExportAllKeeps
<1>4. ASSUME outs # <<>>
      PROVE  /\ Tail(outs) \in Seq(Nat) /\ Distinct(Tail(outs)) /\ outs[1] \in Nat
             /\ Named(Tail(outs)) = Named(outs) \ {outs[1]}
             /\ outs[1] # 0 => outs[1] \in Named(outs)
  BY <1>4, TailNamed
<1>5. CASE fold = "first"
  <2>1. made.s = rest /\ made.out = outs[1]  BY <1>5 DEF Folded
  <2>2. StoreSound(rest) /\ AliveIn(rest) = AliveIn(s) \ Named(Tail(outs))
    BY <1>4, <1>5, FreeAllTakes
  <2>. HIDE DEF made, rest
  <2>3. Becomes(s, Named(outs), made.s, {made.out} \ {0}) /\ made.out \in Nat
    BY <1>1, <1>4, <1>5, <2>1, <2>2 DEF Becomes
  <2> QED  BY <2>3 DEF made
<1>6. CASE fold = "join" /\ outs = <<>>
  <2> DEFINE t == Malloc(s, 1)
  <2>1. made.s = t /\ made.out = NewBlock(t)  BY <1>6 DEF Folded
  <2>2. Becomes(s, {}, t, {NewBlock(t)}) /\ NewBlock(t) \in Nat \ {0}  BY MallocGives
  <2>. HIDE DEF made, t
  <2>3. {made.out} \ {0} = {made.out}  BY <2>1, <2>2
  <2>4. Becomes(s, Named(outs), made.s, {made.out} \ {0}) /\ made.out \in Nat
    BY <1>2, <1>6, <2>1, <2>2, <2>3
  <2> QED  BY <2>4 DEF made
<1>7. CASE fold = "join" /\ outs # <<>>
  <2>1. made.s = left /\ made.out = outs[1]  BY <1>7 DEF Folded
  <2>2. StoreSound(grown) /\ AliveIn(grown) = AliveIn(s)
    BY <1>4, <1>7, ReallocKeeps
  <2>3. StoreSound(left) /\ AliveIn(left) = AliveIn(s) \ Named(Tail(outs))
    <3>. HIDE DEF grown
    <3> QED  BY <1>4, <1>7, <2>2, FreeAllTakes
  <2>. HIDE DEF made, left
  <2>4. Becomes(s, Named(outs), made.s, {made.out} \ {0}) /\ made.out \in Nat
    BY <1>1, <1>4, <1>7, <2>1, <2>3 DEF Becomes
  <2> QED  BY <2>4 DEF made
<1>8. CASE fold = "tree" /\ Len(outs) < 2
  <2>1. made.s = exported /\ made.out = IF outs = <<>> THEN 0 ELSE outs[1]
    BY <1>8 DEF Folded
  <2>2. CASE outs = <<>>
    <3>. HIDE DEF made, exported
    <3>1. Becomes(s, Named(outs), made.s, {made.out} \ {0}) /\ made.out \in Nat
      BY <1>1, <1>2, <1>3, <2>1, <2>2 DEF Becomes
    <3> QED  BY <3>1 DEF made
  <2>3. CASE outs # <<>>
    <3>1. Len(outs) = 1
      <4>1. PICK n : n = Len(outs)  OBVIOUS
      <4>2. n \in Nat /\ n # 0 /\ n < 2  BY <1>8, <2>3, <4>1, EmptySeq
      <4>3. n = 1  BY ONLY <4>2
      <4> QED  BY <4>1, <4>3
    <3>2. Named(outs) = {outs[1]} \ {0}  BY <3>1 DEF Named
    <3>. HIDE DEF made, exported
    <3>3. Becomes(s, Named(outs), made.s, {made.out} \ {0}) /\ made.out \in Nat
      BY <1>1, <1>3, <1>4, <2>1, <2>3, <3>2 DEF Becomes
    <3> QED  BY <3>3 DEF made
  <2> QED  BY <2>2, <2>3
<1>9. CASE fold = "tree" /\ Len(outs) >= 2
  <2> DEFINE t == HeapBlock(none)
  <2>1. made.s = t /\ made.out = NewBlock(t)  BY <1>9 DEF Folded
  <2>2. StoreSound(none) /\ AliveIn(none) = AliveIn(s) \ Named(outs)
    <3>. HIDE DEF exported
    <3> QED  BY <1>3, FreeAllTakes
  <2>. HIDE DEF none
  <2>3. Becomes(none, {}, t, {NewBlock(t)}) /\ NewBlock(t) \in Nat \ {0}
    BY <2>2, HeapGives
  <2>. HIDE DEF made, t
  <2>4. Becomes(s, Named(outs), t, {NewBlock(t)})  BY <2>2, <2>3, AfterTaking
  <2>5. {made.out} \ {0} = {NewBlock(t)}  BY <2>1, <2>3
  <2>6. Becomes(s, Named(outs), made.s, {made.out} \ {0}) /\ made.out \in Nat
    BY <2>1, <2>3, <2>4, <2>5
  <2> QED  BY <2>6 DEF made
<1>10. Len(outs) \in Nat  OBVIOUS
<1> QED  BY <1>5, <1>6, <1>7, <1>8, <1>9, <1>10

LEMMA ConstructedGives ==
  ASSUME NEW s, StoreSound(s), NEW lf
  PROVE  LET made == Constructed(s, lf)
         IN  Becomes(s, {}, made.s, {made.out} \ {0}) /\ made.out \in Nat
<1> DEFINE made == Constructed(s, lf)
<1>1. CASE lf = "null"
  <2>1. made.s = s /\ made.out = 0  BY <1>1 DEF Constructed
  <2>. HIDE DEF made
  <2>2. Becomes(s, {}, made.s, {made.out} \ {0}) /\ made.out \in Nat  BY <2>1 DEF Becomes
  <2> QED  BY <2>2 DEF made
<1>2. CASE lf # "null"
  <2> DEFINE t == HeapBlock(s)
  <2>1. made.s = t /\ made.out = NewBlock(t)  BY <1>2 DEF Constructed
  <2>2. Becomes(s, {}, t, {NewBlock(t)}) /\ NewBlock(t) \in Nat \ {0}  BY HeapGives
  <2>. HIDE DEF made, t
  <2>3. {made.out} \ {0} = {NewBlock(t)}  BY <2>1, <2>2
  <2>4. Becomes(s, {}, made.s, {made.out} \ {0}) /\ made.out \in Nat
    BY <2>1, <2>2, <2>3
  <2> QED  BY <2>4 DEF made
<1> QED  BY <1>1, <1>2

------------------------------------------------------------------------------
(* Who holds what, when the last of the calls returns or makes a call.     *)

LEMMA ReturnAccounts ==
  ASSUME NEW s, NEW calls, Len(calls) \in Nat \ {0}, NEW r, Accounted(s, calls, r),
         NEW t, NEW less, Len(less) = Len(calls) - 1,
         \A k \in 1 .. Len(calls) - 1 : less[k] = calls[k],
         NEW r2, NEW T, T \subseteq Holds(calls[Len(calls)]) \cup BackOf(r),
         Becomes(s, T, t, BackOf(r2))
  PROVE  /\ Accounted(t, less, r2)
         /\ T = Holds(calls[Len(calls)]) \cup BackOf(r) /\ NoneLost(s, calls, r)
              => NoneLost(t, less, r2)
<1> DEFINE n == Len(calls)
<1>1. n \in Nat \ {0} /\ n \in 1 .. n /\ Len(less) = n - 1
      /\ \A k \in 1 .. n - 1 : less[k] = calls[k]
  OBVIOUS
<1>2. /\ \A k \in 1 .. n - 1 : k \in 1 .. n /\ k # n
      /\ \A k \in 1 .. n : k = n \/ k \in 1 .. n - 1
  BY <1>1
<1>3. /\ StoreSound(t) /\ BackOf(r2) \cap (AliveIn(s) \ T) = {}
      /\ AliveIn(t) = (AliveIn(s) \ T) \cup BackOf(r2)
  BY DEF Becomes
<1>4. \A k \in 1 .. n :
        /\ Tidy(calls[k]) /\ Holds(calls[k]) \subseteq AliveIn(s)
        /\ Holds(calls[k]) \cap BackOf(r) = {}
        /\ \A l \in 1 .. n : l # k => Holds(calls[k]) \cap Holds(calls[l]) = {}
  BY DEF Accounted
<1>5. T \subseteq Holds(calls[n]) \cup BackOf(r)  OBVIOUS
<1>. HIDE DEF n
<1>6. ASSUME NEW k \in 1 .. n - 1
      PROVE  /\ Tidy(less[k]) /\ Holds(less[k]) \subseteq AliveIn(t)
             /\ Holds(less[k]) \cap BackOf(r2) = {}
             /\ \A l \in 1 .. n - 1 : l # k => Holds(less[k]) \cap Holds(less[l]) = {}
  <2>1. k \in 1 .. n /\ n \in 1 .. n /\ k # n /\ less[k] = calls[k]  BY <1>1, <1>2
  <2>2. Holds(calls[k]) \cap T = {}  BY <1>4, <1>5, <2>1
  <2>3. Holds(calls[k]) \subseteq AliveIn(s) \ T  BY <1>4, <2>1, <2>2
  <2>4. \A l \in 1 .. n - 1 : l # k => Holds(less[k]) \cap Holds(less[l]) = {}
    BY <1>1, <1>2, <1>4, <2>1
  <2>5. Tidy(less[k])  BY <1>4, <2>1
  <2> QED  BY <1>3, <2>1, <2>3, <2>4, <2>5
<1>7. Accounted(t, less, r2)
  BY <1>1, <1>3, <1>6 DEF Accounted
<1>8. ASSUME T = Holds(calls[n]) \cup BackOf(r), NoneLost(s, calls, r)
      PROVE  NoneLost(t, less, r2)
  <2>1. SUFFICES ASSUME NEW b \in AliveIn(t), b \notin BackOf(r2)
                 PROVE  \E k \in 1 .. Len(less) : b \in Holds(less[k])
    BY DEF NoneLost
  <2>2. b \in AliveIn(s) /\ b \notin T  BY <1>3, <2>1
  <2>3. \E k \in 1 .. n : b \in Holds(calls[k])  BY <1>8, <2>2 DEF NoneLost, n
  <2> QED  BY <1>1, <1>2, <1>8, <2>2, <2>3
<1> QED  BY <1>7, <1>8 DEF n

LEMMA CallAccounts ==
  ASSUME NEW s, NEW calls, Len(calls) \in Nat \ {0}, NEW r, Accounted(s, calls, r),
         NEW t, NEW more, Len(more) = Len(calls) + 1,
         \A k \in 1 .. Len(calls) - 1 : more[k] = calls[k],
         Tidy(more[Len(calls)]), Tidy(more[Len(calls) + 1]), Holds(more[Len(calls) + 1]) = {},
         Becomes(s, Holds(calls[Len(calls)]) \cup BackOf(r), t, Holds(more[Len(calls)])),
         NEW r2, BackOf(r2) = {}
  PROVE  /\ Accounted(t, more, r2)
         /\ NoneLost(s, calls, r) => NoneLost(t, more, r2)
<1> DEFINE n == Len(calls)
           T == Holds(calls[n]) \cup BackOf(r)
<1>1. n \in Nat \ {0} /\ n \in 1 .. n /\ Len(more) = n + 1
      /\ \A k \in 1 .. n - 1 : more[k] = calls[k]
  OBVIOUS
<1>2. /\ \A k \in 1 .. n - 1 : k \in 1 .. n /\ k # n
      /\ \A k \in 1 .. n : k = n \/ k \in 1 .. n - 1
      /\ \A k \in 1 .. n + 1 : k = n + 1 \/ k = n \/ k \in 1 .. n - 1
      /\ \A k \in 1 .. n : k \in 1 .. n + 1
  BY <1>1
<1>3. /\ StoreSound(t) /\ Holds(more[n]) \cap (AliveIn(s) \ T) = {}
      /\ AliveIn(t) = (AliveIn(s) \ T) \cup Holds(more[n])
  BY DEF Becomes
<1>4. \A k \in 1 .. n :
        /\ Tidy(calls[k]) /\ Holds(calls[k]) \subseteq AliveIn(s)
        /\ Holds(calls[k]) \cap BackOf(r) = {}
        /\ \A l \in 1 .. n : l # k => Holds(calls[k]) \cap Holds(calls[l]) = {}
  BY DEF Accounted
<1>5. Tidy(more[n]) /\ Tidy(more[n + 1]) /\ Holds(more[n + 1]) = {}  OBVIOUS
<1>. HIDE DEF n
<1>6. ASSUME NEW k \in 1 .. n - 1 PROVE Holds(more[k]) \subseteq AliveIn(s) \ T
  BY <1>1, <1>2, <1>4
<1>. HIDE DEF T
<1>7. ASSUME NEW k \in 1 .. n - 1, NEW l \in 1 .. n + 1, l # k
      PROVE  Holds(more[k]) \cap Holds(more[l]) = {}
  <2>1. CASE l \in 1 .. n - 1
    <3>1. more[k] = calls[k] /\ more[l] = calls[l] /\ k \in 1 .. n /\ l \in 1 .. n
      BY <1>1, <1>2, <2>1
    <3> QED  BY <1>4, <1>7, <3>1
  <2>2. CASE l = n  BY <1>3, <1>6, <2>2
  <2>3. CASE l = n + 1  BY <1>5, <2>3
  <2> QED  BY <1>2, <2>1, <2>2, <2>3
<1>8. ASSUME NEW k \in 1 .. n + 1
      PROVE  /\ Tidy(more[k]) /\ Holds(more[k]) \subseteq AliveIn(t)
             /\ Holds(more[k]) \cap BackOf(r2) = {}
             /\ \A l \in 1 .. n + 1 : l # k => Holds(more[k]) \cap Holds(more[l]) = {}
  <2>1. CASE k \in 1 .. n - 1
    <3>1. Tidy(more[k])  BY <1>1, <1>2, <1>4, <2>1
    <3> QED  BY <1>3, <1>6, <1>7, <2>1, <3>1
  <2>2. CASE k = n
    <3>1. \A l \in 1 .. n + 1 : l # k => Holds(more[k]) \cap Holds(more[l]) = {}
      BY <1>2, <1>5, <1>7, <2>2
    <3> QED  BY <1>3, <1>5, <2>2, <3>1
  <2>3. CASE k = n + 1  BY <1>5, <2>3
  <2> QED  BY <1>2, <2>1, <2>2, <2>3
<1>9. Accounted(t, more, r2)  BY <1>1, <1>3, <1>8 DEF Accounted
<1>10. ASSUME NoneLost(s, calls, r) PROVE NoneLost(t, more, r2)
  <2>1. SUFFICES ASSUME NEW b \in AliveIn(t)
                 PROVE  \E k \in 1 .. Len(more) : b \in Holds(more[k])
    BY DEF NoneLost
  <2>2. CASE b \in Holds(more[n])
    <3>1. n \in 1 .. Len(more)  BY <1>1, <1>2
    <3> QED  BY <2>2, <3>1
  <2>3. CASE b \notin Holds(more[n])
    <3>1. b \in AliveIn(s) /\ b \notin T  BY <1>3, <2>3
    <3>2. b \notin BackOf(r) /\ b \notin Holds(calls[n])  BY <3>1 DEF T
    <3>3. \E k \in 1 .. n : b \in Holds(calls[k])  BY <1>10, <3>1, <3>2 DEF NoneLost, n
    <3> QED  BY <1>1, <1>2, <3>2, <3>3
  <2> QED  BY <2>2, <2>3
<1> QED  BY <1>9, <1>10 DEF n

(* A block more, or a result that moves, where the program stops.          *)
LEMMA StopAccounts ==
  ASSUME NEW s, NEW calls, NEW r, Accounted(s, calls, r), NEW t, StoreSound(t),
         AliveIn(s) \subseteq AliveIn(t)
  PROVE  Accounted(t, calls, r)
BY DEF Accounted

(* Nothing changes hands but what is handed on.                            *)
LEMMA Passes ==
  ASSUME NEW s, NEW t, StoreSound(t), AliveIn(t) = AliveIn(s), NEW T, T \subseteq AliveIn(s)
  PROVE  Becomes(s, T, t, T)
BY DEF Becomes

------------------------------------------------------------------------------
(* What is known of the last of the calls, and what is to be shown of a    *)
(* step.                                                                   *)

Sorted ==
  /\ Gathering /\ ~Has({"liftval"})
  /\ CallsOrderly /\ Accounted(store, stack, ret)
  /\ status = "run" /\ ~Dropping => NoneLost(store, stack, ret)
SortedOn ==
  /\ CallsOrderly' /\ Accounted(store', stack', ret')
  /\ status' = "run" /\ ~Dropping => NoneLost(store', stack', ret')

LEMMA HoldsIs ==
  ASSUME NEW f, f.outs \in Seq(Nat), Tidy(f)
  PROVE  /\ Holds(f) = Named(f.outs) \cup ({f.array} \ {0})
         /\ Distinct(f.outs)
         /\ f.array = 0 \/ f.array \notin Named(f.outs)
<1>1. DOMAIN f.outs = 1 .. Len(f.outs)  OBVIOUS
<1>2. ToSet(f.outs) = {f.outs[n] : n \in 1 .. Len(f.outs)}  BY <1>1 DEF ToSet
<1> QED  BY <1>2 DEF Holds, Tidy, Distinct, Named

LEMMA TopHolds ==
  ASSUME Sorted, Running
  PROVE  /\ CallOK(Top) /\ Orderly(prog, Top) /\ Tidy(Top) /\ StoreSound(store)
         /\ Top = stack[Len(stack)] /\ Len(stack) \in Nat \ {0} /\ prog \in Grammars
         /\ Holds(Top) = Named(Top.outs) \cup ({Top.array} \ {0})
         /\ Distinct(Top.outs) /\ Top.array \in Nat /\ Top.outs \in Seq(Nat)
         /\ Top.array = 0 \/ Top.array \notin Named(Top.outs)
         /\ Holds(Top) \cup BackOf(ret) \subseteq AliveIn(store)
         /\ Holds(Top) \cap BackOf(ret) = {} /\ 0 \notin AliveIn(store)
<1>1. StackOK(stack) /\ stack # <<>> /\ prog \in Grammars /\ CallsOrderly
      /\ Accounted(store, stack, ret)
  BY DEF Sorted, Gathering, Inv, Running
<1>2. CallOK(Top) /\ Top = stack[Len(stack)] /\ Len(stack) \in Nat \ {0}
  BY <1>1, FrontOK DEF Top
<1>3. Len(stack) \in 1 .. Len(stack)  BY <1>2
<1>4. Orderly(prog, Top)  BY <1>1, <1>2, <1>3 DEF CallsOrderly
<1>5. Tidy(Top) /\ Holds(Top) \subseteq AliveIn(store) /\ Holds(Top) \cap BackOf(ret) = {}
      /\ BackOf(ret) \subseteq AliveIn(store) /\ StoreSound(store)
  BY <1>1, <1>2, <1>3 DEF Accounted
<1>6. Top.outs \in Seq(Nat) /\ Top.array \in Nat  BY <1>4 DEF Orderly
<1>7. 0 \notin AliveIn(store)  BY <1>5, BlocksTyped
<1> QED  BY <1>1, <1>2, <1>4, <1>5, <1>6, <1>7, HoldsIs

LEMMA TopStarts ==
  ASSUME Sorted, Running, ret = NoReturn
  PROVE  /\ Top.outs = <<>> /\ Top.array = 0 /\ Top.j = 0
         /\ Holds(Top) \cup BackOf(ret) = {}
<1>1. Top.outs = <<>> /\ Top.array = 0 /\ Top.j = 0
  BY DEF Sorted, CallsOrderly, Running
<1>2. Named(Top.outs) = {}  BY <1>1 DEF Named
<1>3. Holds(Top) = {}  BY <1>1, <1>2, TopHolds
<1> QED  BY <1>1, <1>3 DEF BackOf

LEMMA TopWaits ==
  ASSUME Sorted, Running, ret # NoReturn
  PROVE  /\ ret.out \in Nat /\ BackOf(ret) = {ret.out} \ {0}
         /\ ~ret.ok => ret.out = 0 /\ BackOf(ret) = {}
         /\ Type(Top.p) = "count" /\ Arg(Top.p).n > StackMin => Top.array # 0
         /\ Type(Top.p) \notin Gatherers \cup {"or"} => Holds(Top) = {}
<1>1. CallsOrderly  BY DEF Sorted
<1>2. ret.out \in Nat /\ (~ret.ok => ret.out = 0)  BY <1>1 DEF CallsOrderly
<1>3. Type(Top.p) = "count" /\ Arg(Top.p).n > StackMin => Top.array # 0
  <2>1. Top = stack[Len(stack)] /\ Len(stack) \in 1 .. Len(stack)  BY TopHolds
  <2> QED  BY <1>1, <2>1 DEF CallsOrderly
<1>4. ASSUME Type(Top.p) \notin Gatherers \cup {"or"} PROVE Holds(Top) = {}
  <2>1. Top.array = 0 /\ Len(Top.outs) = 0  BY <1>4, TopHolds DEF Orderly, Type
  <2>2. Named(Top.outs) = {}  BY <2>1 DEF Named
  <2> QED  BY <2>1, <2>2, TopHolds
<1> QED  BY <1>2, <1>3, <1>4 DEF BackOf

(* The last call returns `out`, having used up T.                          *)
LEMMA Answers ==
  ASSUME Sorted, Running, UNCHANGED prog,
         NEW out \in Nat, Succeed(out) \/ (out = 0 /\ \E e : Fail(e)),
         NEW T, T \subseteq Holds(Top) \cup BackOf(ret),
         T = Holds(Top) \cup BackOf(ret) \/ Dropping,
         Becomes(store, T, store', {out} \ {0})
  PROVE  SortedOn
<1>1. /\ stack' = Front(stack) /\ ret' # NoReturn /\ ret'.out = out
      /\ ~ret'.ok => ret'.out = 0
  <2>1. CASE Succeed(out)
    <3>1. stack' = Front(stack) /\ ret' = [ok |-> TRUE, out |-> out, err |-> NoErr]
      BY <2>1 DEF Succeed
    <3> QED  BY <3>1, ReturnsSomething
  <2>2. CASE out = 0 /\ \E e : Fail(e)
    <3>1. PICK e : stack' = Front(stack) /\ ret' = [ok |-> FALSE, out |-> 0, err |-> e]
      BY <2>2 DEF Fail
    <3> QED  BY <2>2, <3>1, ReturnsSomething
  <2> QED  BY <2>1, <2>2
<1>2. BackOf(ret') = {out} \ {0}  BY <1>1 DEF BackOf
<1>3. StackOK(stack) /\ stack # <<>> /\ CallsOrderly /\ Accounted(store, stack, ret)
      /\ (status = "run" /\ ~Dropping => NoneLost(store, stack, ret)) /\ status = "run"
  BY DEF Sorted, Gathering, Inv, Running
<1>4. /\ Len(stack) \in Nat \ {0} /\ Len(stack') = Len(stack) - 1
      /\ \A k \in 1 .. Len(stack) - 1 : stack'[k] = stack[k]
      /\ Top = stack[Len(stack)]
  BY <1>1, <1>3, FrontOK DEF Top
<1>5. NoReturn' = NoReturn  BY ConstantsStay
<1>6. CallsOrderly'
  <2>1. \A k \in 1 .. Len(stack') : k \in 1 .. Len(stack) /\ k < Len(stack) /\ stack'[k] = stack[k]
    BY <1>4
  <2>2. \A k \in 1 .. Len(stack') : Orderly(prog', stack'[k])
    BY <1>3, <2>1 DEF CallsOrderly
  <2>3. \A k \in 1 .. Len(stack') :
          prog'[stack'[k].p].type = "count" /\ prog'[stack'[k].p].arg.n > StackMin => stack'[k].array # 0
    BY <1>3, <2>1 DEF CallsOrderly, Type, Arg
  <2> QED  BY <1>1, <1>5, <2>2, <2>3 DEF CallsOrderly, Type, Arg
<1>7. PICK t, less, r2 : t = store' /\ less = stack' /\ r2 = ret'  OBVIOUS
<1>8. /\ Len(less) = Len(stack) - 1 /\ \A k \in 1 .. Len(stack) - 1 : less[k] = stack[k]
      /\ T \subseteq Holds(stack[Len(stack)]) \cup BackOf(ret)
      /\ Becomes(store, T, t, BackOf(r2))
  BY <1>2, <1>4, <1>7
<1>9. /\ Accounted(t, less, r2)
      /\ T = Holds(stack[Len(stack)]) \cup BackOf(ret) /\ NoneLost(store, stack, ret)
           => NoneLost(t, less, r2)
  BY <1>3, <1>4, <1>8, ReturnAccounts
<1> QED  BY <1>3, <1>4, <1>6, <1>7, <1>9 DEF SortedOn

(* The program stops where it is.                                          *)
LEMMA Stops ==
  ASSUME Sorted, UNCHANGED <<prog, stack, ret>>, status' # "run",
         StoreSound(store'), AliveIn(store) \subseteq AliveIn(store')
  PROVE  SortedOn
<1>1. NoReturn' = NoReturn  BY ConstantsStay
<1>2. CallsOrderly'
  BY <1>1 DEF Sorted, CallsOrderly, Type, Arg, Top
<1>3. PICK t : t = store'  OBVIOUS
<1>4. Accounted(t, stack, ret)  BY <1>3, StopAccounts DEF Sorted
<1> QED  BY <1>2, <1>3, <1>4 DEF SortedOn

(* The last call, now f, makes a call.                                     *)
LEMMA Calls ==
  ASSUME Sorted, Running, UNCHANGED prog,
         NEW f, CallOK(f), f.p = Top.p, NEW j, j \in 1 .. Len(Kids(f.p)), Descend(f, j),
         Orderly(prog, f), Tidy(f),
         Type(f.p) = "count" /\ Arg(f.p).n > StackMin => f.array # 0,
         Holds(Top) \cup BackOf(ret) \subseteq Holds(f),
         Becomes(store, Holds(Top) \cup BackOf(ret), store', Holds(f))
  PROVE  SortedOn
<1>1. StackOK(stack) /\ stack # <<>> /\ CallsOrderly /\ Accounted(store, stack, ret)
      /\ (status = "run" /\ ~Dropping => NoneLost(store, stack, ret)) /\ status = "run"
      /\ prog \in Grammars
  BY DEF Sorted, Gathering, Inv, Running
<1>2. NoReturn' = NoReturn  BY ConstantsStay
<1>3. CASE Len(stack) < MaxDepth
  <2> DEFINE h == Fresh(Kids(f.p)[j])
  <2>1. stack' = Front(stack) \o <<f, h>> /\ ret' = NoReturn /\ UNCHANGED status
    BY <1>3 DEF Descend
  <2>2. Kids(f.p)[j] \in Node
    <3>1. Kids(f.p) \in Seq(Node)  BY <1>1, GrammarAssumption DEF CallOK, Kids
    <3> QED  BY <3>1
  <2>3. CallOK(h) /\ h.outs = <<>> /\ h.array = 0 /\ h.j = 0
    BY <2>2 DEF Fresh, CallOK, CallFields
  <2>. HIDE DEF h
  <2>4. /\ Len(stack') = Len(stack) + 1 /\ stack'[Len(stack)] = f
        /\ stack'[Len(stack) + 1] = h /\ \A k \in 1 .. Len(stack) - 1 : stack'[k] = stack[k]
        /\ StackOK(stack')
    BY <1>1, <2>1, <2>3, CalledOK
  <2>5. Len(stack) \in Nat \ {0} /\ Top = stack[Len(stack)]  BY <1>1, FrontOK DEF Top
  <2>6. Orderly(prog, h) /\ Tidy(h) /\ Holds(h) = {}
    <3>1. h.outs \in Seq(Nat) /\ Len(h.outs) = 0 /\ DOMAIN h.outs = {}  BY <2>3
    <3>2. ToSet(h.outs) = {}  BY <3>1 DEF ToSet
    <3>3. Orderly(prog, h)
      <4>1. prog[h.p].type = "count" /\ prog[h.p].arg.n >= 1 => 0 < prog[h.p].arg.n
        <5>1. prog[h.p].type = "count" => prog[h.p].arg.n \in Int
          BY <1>1, <2>3, GrammarAssumption DEF CallOK
        <5>2. PICK n : n = prog[h.p].arg.n  OBVIOUS
        <5> QED  BY <5>1, <5>2
      <4> QED  BY <2>3, <3>1, <4>1, ParseAssumption DEF Orderly
    <3>4. Tidy(h)  BY <2>3, <3>1 DEF Tidy
    <3>5. Holds(h) = {}  BY <2>3, <3>2 DEF Holds
    <3> QED  BY <3>3, <3>4, <3>5
  <2>7. CallsOrderly'
    <3>1. \A k \in 1 .. Len(stack') : \/ k = Len(stack) + 1
                                      \/ k = Len(stack) /\ k < Len(stack')
                                      \/ k \in 1 .. Len(stack) /\ k < Len(stack) /\ stack'[k] = stack[k]
      BY <2>4, <2>5
    <3>2. \A k \in 1 .. Len(stack') : Orderly(prog', stack'[k])
      BY <1>1, <2>4, <2>6, <3>1 DEF CallsOrderly
    <3>3. Top' = h
      <4>1. StackOK(stack') /\ stack' # <<>>  BY <2>4, <2>5, EmptySeq
      <4>2. Last(stack') = stack'[Len(stack')]  BY <4>1, FrontOK
      <4> QED  BY <2>4, <4>2 DEF Top
    <3>4. ASSUME NEW k \in 1 .. Len(stack'), k < Len(stack'),
                 prog'[stack'[k].p].type = "count", prog'[stack'[k].p].arg.n > StackMin
          PROVE  stack'[k].array # 0
      <4>1. Type(stack'[k].p) = "count" /\ Arg(stack'[k].p).n > StackMin
        BY <3>4 DEF Type, Arg
      <4>2. CASE k = Len(stack)  BY <2>4, <4>1, <4>2
      <4>3. CASE k \in 1 .. Len(stack) /\ k < Len(stack) /\ stack'[k] = stack[k]
        BY <1>1, <4>1, <4>3 DEF CallsOrderly
      <4>4. k # Len(stack) + 1  BY <2>4, <2>5, <3>4
      <4> QED  BY <3>1, <4>2, <4>3, <4>4
    <3> QED  BY <1>2, <2>1, <2>3, <3>2, <3>3, <3>4 DEF CallsOrderly, Type, Arg
  <2>8. PICK t, more, r2 : t = store' /\ more = stack' /\ r2 = ret'  OBVIOUS
  <2>9. /\ Len(more) = Len(stack) + 1 /\ \A k \in 1 .. Len(stack) - 1 : more[k] = stack[k]
        /\ Tidy(more[Len(stack)]) /\ Tidy(more[Len(stack) + 1])
        /\ Holds(more[Len(stack) + 1]) = {} /\ BackOf(r2) = {}
        /\ Becomes(store, Holds(stack[Len(stack)]) \cup BackOf(ret), t, Holds(more[Len(stack)]))
    BY <2>1, <2>4, <2>5, <2>6, <2>8 DEF BackOf
  <2>10. /\ Accounted(t, more, r2)
         /\ NoneLost(store, stack, ret) => NoneLost(t, more, r2)
    BY <1>1, <2>5, <2>9, CallAccounts
  <2> QED  BY <1>1, <2>7, <2>8, <2>10 DEF SortedOn
<1>4. CASE ~(Len(stack) < MaxDepth)
  <2>1. UNCHANGED <<stack, ret>> /\ status' # "run"  BY <1>4 DEF Descend
  <2>2. StoreSound(store') /\ AliveIn(store) \subseteq AliveIn(store')
    BY DEF Becomes
  <2> QED  BY <2>1, <2>2, Stops
<1> QED  BY <1>3, <1>4

------------------------------------------------------------------------------
(* The steps *)

LEMMA HandedOver ==
  ASSUME NEW s, StoreSound(s), NEW out, out = 0 \/ out \in AliveIn(s)
  PROVE  /\ Becomes(s, {}, s, {})
         /\ Becomes(s, {out} \ {0}, s, {out} \ {0})
         /\ Becomes(s, {out} \ {0}, Free(s, out), {})
         /\ Becomes(s, {out} \ {0}, Export(s, out), {out} \ {0})
<1>1. 0 \notin AliveIn(s)  BY BlocksTyped
<1>2. StoreSound(Free(s, out)) /\ AliveIn(Free(s, out)) = AliveIn(s) \ {out}  BY FreeTakes
<1>3. StoreSound(Export(s, out)) /\ AliveIn(Export(s, out)) = AliveIn(s)
  BY ToHeapKeeps DEF Export
<1>4. {out} \ {0} \subseteq AliveIn(s)  OBVIOUS
<1> QED  BY <1>1, <1>2, <1>3, <1>4 DEF Becomes

LEMMA LeafSorted ==
  ASSUME Sorted,
         Chars \/ Word \/ AnchorHere \/ Pass \/ LiftVal \/ Lift \/ StateCopy \/ Failing \/ OfNone
  PROVE  SortedOn
<1>1. /\ Running /\ ret = NoReturn /\ UNCHANGED prog
  BY DEF Chars, Word, AnchorHere, Pass, LiftVal, Lift, StateCopy, Failing, OfNone, Starts
<1>2. Holds(Top) \cup BackOf(ret) = {} /\ StoreSound(store) /\ CallOK(Top)
  BY <1>1, TopStarts, TopHolds
<1>3. ~LiftVal
  <2>1. ~Has({"liftval"}) /\ Top.p \in Node  BY <1>2 DEF Sorted, CallOK
  <2> QED  BY <2>1 DEF LiftVal, Starts, Has
<1>4. ASSUME NEW out \in Nat, Succeed(out) \/ (out = 0 /\ \E e : Fail(e)),
             Becomes(store, {}, store', {out} \ {0})
      PROVE  SortedOn
  <2>1. PICK T : T = {}  OBVIOUS
  <2>2. /\ T \subseteq Holds(Top) \cup BackOf(ret)
        /\ T = Holds(Top) \cup BackOf(ret) \/ Dropping
        /\ Becomes(store, T, store', {out} \ {0})
    BY <1>2, <1>4, <2>1
  <2> QED  BY <1>1, <1>4, <2>2, Answers
<1>5. ASSUME UNCHANGED store, Succeed(0) \/ \E e : Fail(e) PROVE SortedOn
  <2>1. Becomes(store, {}, store', {0} \ {0})
    BY <1>2, <1>5, HandedOver
  <2> QED  BY <1>4, <1>5, <2>1
<1>6. ASSUME NEW t, Becomes(store, {}, t, {NewBlock(t)}), NewBlock(t) \in Nat \ {0},
             store' = t, Succeed(NewBlock(store'))
      PROVE  SortedOn
  <2>1. PICK out : out = NewBlock(store')  OBVIOUS
  <2>2. out \in Nat /\ {out} \ {0} = {out} /\ Succeed(out) /\ Becomes(store, {}, store', {out})
    BY <1>6, <2>1
  <2>3. Becomes(store, {}, store', {out} \ {0})  BY <2>2
  <2> QED  BY <1>4, <2>2, <2>3
<1>7. CASE Chars \/ Word
  <2>1. \/ store' = Malloc(store, 1) /\ Succeed(NewBlock(store'))
        \/ UNCHANGED store /\ Fail(NoErr)
    BY <1>7 DEF Chars, Word
  <2> QED  BY <1>2, <1>5, <1>6, <2>1, MallocGives
<1>8. CASE AnchorHere \/ Pass \/ Failing \/ OfNone
  <2>1. UNCHANGED store /\ (Succeed(0) \/ \E e : Fail(e))
    BY <1>8 DEF AnchorHere, Pass, Failing, OfNone, FailWith
  <2> QED  BY <1>5, <2>1
<1>9. CASE Lift
  <2>1. store' = HeapBlock(store) /\ Succeed(NewBlock(store'))  BY <1>9 DEF Lift
  <2> QED  BY <1>2, <1>6, <2>1, HeapGives
<1>10. CASE StateCopy
  <2>1. store' = Malloc(store, 2) /\ Succeed(NewBlock(store'))  BY <1>10 DEF StateCopy
  <2> QED  BY <1>2, <1>6, <2>1, MallocGives
<1> QED  BY <1>3, <1>7, <1>8, <1>9, <1>10

(* Memory of their own for results that are to come.                       *)
LEMMA WithArrayGives ==
  ASSUME NEW s, StoreSound(s), NEW f, CallOK(f), f.outs = <<>>, f.array = 0, NEW n
  PROVE  LET with == WithArray(s, f, n)
         IN  /\ CallOK(with.f) /\ with.f.p = f.p /\ with.f.j = f.j /\ with.f.outs = <<>>
             /\ Tidy(with.f) /\ with.f.array \in Nat
             /\ n > StackMin => with.f.array # 0
             /\ Becomes(s, {}, with.s, Holds(with.f))
<1> DEFINE with == WithArray(s, f, n)
           t == Malloc(s, n)
<1>1. ASSUME NEW g, g.outs = <<>>
      PROVE  Tidy(g) /\ Holds(g) = {g.array} \ {0}
  <2>1. DOMAIN g.outs = {} /\ ToSet(g.outs) = {}  BY <1>1 DEF ToSet
  <2> QED  BY <2>1 DEF Tidy, Holds
<1>2. Becomes(s, {}, t, {NewBlock(t)}) /\ NewBlock(t) \in Nat \ {0}  BY MallocGives
<1>3. CASE n > StackMin
  <2>1. with.s = t /\ with.f = [f EXCEPT !.array = NewBlock(t)]  BY <1>3 DEF WithArray
  <2>. HIDE DEF with, t
  <2>2. /\ CallOK(with.f) /\ with.f.p = f.p /\ with.f.j = f.j /\ with.f.outs = <<>>
        /\ with.f.array = NewBlock(t)
    BY <2>1 DEF CallOK, CallFields
  <2>3. Tidy(with.f) /\ Holds(with.f) = {with.f.array} \ {0}  BY <1>1, <2>2
  <2>4. Holds(with.f) = {NewBlock(t)}  BY <1>2, <2>2, <2>3
  <2>5. Becomes(s, {}, with.s, Holds(with.f))  BY <1>2, <2>1, <2>4
  <2> QED  BY <1>2, <2>2, <2>3, <2>5 DEF with
<1>4. CASE ~(n > StackMin)
  <2>1. with.s = s /\ with.f = f  BY <1>4 DEF WithArray
  <2>. HIDE DEF with
  <2>2. Tidy(f) /\ Holds(f) = {}  BY <1>1
  <2>3. Becomes(s, {}, s, {})  BY HandedOver
  <2>4. Becomes(s, {}, with.s, Holds(with.f))  BY <2>1, <2>2, <2>3
  <2> QED  BY <1>4, <2>1, <2>2, <2>4 DEF with
<1> QED  BY <1>3, <1>4

LEMMA EnterSorted ==
  ASSUME Sorted,
         Enter \/ EnterExpect \/ EnterPredict \/ EnterNot \/ EnterCount \/ EnterSeveral
  PROVE  SortedOn
<1>1. Running /\ ret = NoReturn /\ UNCHANGED prog
  BY DEF Enter, EnterExpect, EnterPredict, EnterNot, EnterCount, EnterSeveral, Starts
<1>2. /\ Holds(Top) \cup BackOf(ret) = {} /\ StoreSound(store) /\ CallOK(Top)
      /\ Orderly(prog, Top) /\ Tidy(Top)
      /\ Top.outs = <<>> /\ Top.array = 0 /\ Top.j = 0
  BY <1>1, TopStarts, TopHolds
<1>3. Kids(Top.p) \in Seq(Node) /\ (Type(Top.p) \in Unary => 1 \in 1 .. Len(Kids(Top.p)))
  BY <1>1, TopIs DEF Sorted, Gathering
<1>4. ASSUME NEW f, CallOK(f), f.p = Top.p, 1 \in 1 .. Len(Kids(f.p)), Descend(f, 1),
             Orderly(prog, f), Tidy(f),
             Type(f.p) = "count" /\ Arg(f.p).n > StackMin => f.array # 0,
             Becomes(store, {}, store', Holds(f))
      PROVE  SortedOn
  <2>1. Becomes(store, Holds(Top) \cup BackOf(ret), store', Holds(f))  BY <1>2, <1>4
  <2>2. PICK j : j = 1  OBVIOUS
  <2>3. j \in 1 .. Len(Kids(f.p)) /\ Descend(f, j)  BY <1>4, <2>2
  <2> QED  BY <1>1, <1>2, <1>4, <2>1, <2>3, Calls
<1>5. CASE Enter \/ EnterExpect \/ EnterPredict \/ EnterNot
  <2>1. Type(Top.p) \in Unary \ {"count"} /\ Descend(Top, 1) /\ UNCHANGED store
    BY <1>5 DEF Enter, EnterExpect, EnterPredict, EnterNot, Starts, Unary
  <2>2. Holds(Top) = {}  BY <1>2
  <2>3. Becomes(store, {}, store', Holds(Top))  BY <1>2, <2>1, <2>2, HandedOver
  <2> QED  BY <1>2, <1>3, <1>4, <2>1, <2>3
<1>6. ASSUME NEW f, CallOK(f), f.p = Top.p, f.j = Top.j, f.outs = <<>>, f.array \in Nat,
             Type(Top.p) \in {"count", "or", "and"}
      PROVE  Orderly(prog, f)
  <2>1. f.outs \in Seq(Nat) /\ Len(f.outs) = 0  BY <1>6
  <2>2. prog[f.p].type = "count" /\ prog[f.p].arg.n >= 1 => f.j < prog[f.p].arg.n
    BY <1>2, <1>6 DEF Orderly
  <2>3. prog[f.p].type \in {"count", "or", "and"}  BY <1>6 DEF Type
  <2> QED  BY <1>2, <1>6, <2>1, <2>2, <2>3 DEF Orderly, Gatherers
<1>7. CASE EnterCount
  <2> DEFINE with == WithArray(store, Top, Arg(Top.p).n)
  <2>1. /\ Type(Top.p) = "count" /\ Descend(with.f, 1) /\ store' = with.s
    BY <1>7 DEF EnterCount, Starts
  <2>2. /\ CallOK(with.f) /\ with.f.p = Top.p /\ with.f.j = Top.j /\ with.f.outs = <<>>
        /\ Tidy(with.f) /\ with.f.array \in Nat
        /\ Arg(Top.p).n > StackMin => with.f.array # 0
        /\ Becomes(store, {}, with.s, Holds(with.f))
    BY <1>2, WithArrayGives
  <2>. HIDE DEF with
  <2>3. Orderly(prog, with.f)  BY <1>6, <2>1, <2>2
  <2>4. 1 \in 1 .. Len(Kids(Top.p))  BY <1>3, <2>1 DEF Unary
  <2> QED  BY <1>4, <2>1, <2>2, <2>3, <2>4
<1>8. CASE EnterSeveral
  <2> DEFINE with == WithArray(store, Top, Len(Kids(Top.p)))
  <2>1. /\ Type(Top.p) \in {"or", "and"} /\ Kids(Top.p) # <<>> /\ Descend(with.f, 1)
        /\ store' = with.s
    BY <1>8 DEF EnterSeveral, Starts
  <2>2. /\ CallOK(with.f) /\ with.f.p = Top.p /\ with.f.j = Top.j /\ with.f.outs = <<>>
        /\ Tidy(with.f) /\ with.f.array \in Nat
        /\ Becomes(store, {}, with.s, Holds(with.f))
    BY <1>2, WithArrayGives
  <2>. HIDE DEF with
  <2>3. Orderly(prog, with.f)  BY <1>6, <2>1, <2>2
  <2>4. 1 \in 1 .. Len(Kids(Top.p))  BY <1>3, <2>1, EmptySeq
  <2>5. Type(with.f.p) # "count"  BY <2>1, <2>2
  <2> QED  BY <1>4, <2>1, <2>2, <2>3, <2>4, <2>5
<1> QED  BY <1>5, <1>7, <1>8

(* Parsers of one parser hold nothing while it is called.                  *)
LEMMA UnarySorted ==
  ASSUME Sorted, Apply \/ Check \/ Expect \/ Predict \/ Not \/ Maybe
  PROVE  SortedOn
<1>1. /\ Running /\ ret # NoReturn /\ UNCHANGED prog
      /\ Type(Top.p) \in {"apply", "check", "expect", "predict", "not", "maybe"}
  BY DEF Apply, Check, Expect, Predict, Not, Maybe, Resumes
<1> DEFINE B == {ret.out} \ {0}
<1>2. /\ Holds(Top) \cup BackOf(ret) = B /\ StoreSound(store) /\ CallOK(Top)
      /\ ret.out \in Nat /\ (~ret.ok => ret.out = 0 /\ B = {})
      /\ ret.out = 0 \/ ret.out \in AliveIn(store)
  <2>1. Type(Top.p) \notin Gatherers \cup {"or"}  BY <1>1 DEF Gatherers
  <2>2. Holds(Top) = {} /\ BackOf(ret) = B  BY <1>1, <2>1, TopWaits
  <2> QED  BY <1>1, <2>2, TopHolds, TopWaits
<1>. HIDE DEF B
<1>3. ASSUME NEW out \in Nat, Succeed(out) \/ (out = 0 /\ \E e : Fail(e)),
             Becomes(store, B, store', {out} \ {0})
      PROVE  SortedOn
  <2>1. /\ B \subseteq Holds(Top) \cup BackOf(ret)
        /\ B = Holds(Top) \cup BackOf(ret) \/ Dropping
    BY <1>2
  <2> QED  BY <1>1, <1>3, <2>1, Answers
<1>4. /\ Becomes(store, {}, store, {0} \ {0})
      /\ Becomes(store, B, store, {ret.out} \ {0})
      /\ Becomes(store, B, Free(store, ret.out), {0} \ {0})
      /\ Becomes(store, B, Export(store, ret.out), {ret.out} \ {0})
  BY <1>2, HandedOver DEF B
<1>5. ASSUME ~ret.ok, UNCHANGED store, \E e : Fail(e) PROVE SortedOn
  BY <1>2, <1>3, <1>4, <1>5
<1>6. ASSUME UNCHANGED store, Succeed(ret.out) PROVE SortedOn
  BY <1>2, <1>3, <1>4, <1>6
<1>7. ASSUME store' = Free(store, ret.out), Succeed(0) \/ \E e : Fail(e) PROVE SortedOn
  BY <1>3, <1>4, <1>7
<1>8. ASSUME ~ret.ok, NEW lf, NEW made, made = Constructed(store, lf),
             store' = made.s, Succeed(made.out)
      PROVE  SortedOn
  <2>1. Becomes(store, {}, made.s, {made.out} \ {0}) /\ made.out \in Nat
    BY <1>2, <1>8, ConstructedGives
  <2>2. Becomes(store, B, store', {made.out} \ {0})  BY <1>2, <1>8, <2>1
  <2> QED  BY <1>3, <1>8, <2>1, <2>2
<1>9. CASE Apply
  <2>1. \/ store' = Free(store, ret.out) /\ Succeed(0)
        \/ store' = Export(store, ret.out) /\ Succeed(ret.out)
        \/ ~ret.ok /\ UNCHANGED store /\ Fail(ret.err)
    BY <1>9 DEF Apply
  <2>2. CASE store' = Export(store, ret.out) /\ Succeed(ret.out)
    BY <1>2, <1>3, <1>4, <2>2
  <2> QED  BY <1>5, <1>7, <2>1, <2>2
<1>10. CASE Check
  <2>1. /\ UNCHANGED store /\ Type(Top.p) = "check"
        /\ \/ Succeed(ret.out)
           \/ ~Arg(Top.p) /\ Fail(ErrFail(input, "check"))
           \/ ~ret.ok /\ Fail(ret.err)
    BY <1>10 DEF Check, Resumes, FailWith
  <2>2. CASE ~Arg(Top.p) /\ Fail(ErrFail(input, "check"))
    <3>1. Dropping  BY <1>2, <2>1, <2>2 DEF Dropping, CallOK
    <3>2. PICK T, out : T = {} /\ out = 0  OBVIOUS
    <3>3. out \in Nat /\ (Succeed(out) \/ (out = 0 /\ \E e : Fail(e)))
      BY <2>2, <3>2
    <3>4. Becomes(store, T, store', {out} \ {0})  BY <1>4, <2>1, <3>2
    <3>5. T \subseteq Holds(Top) \cup BackOf(ret)  BY <3>2
    <3> QED  BY <1>1, <3>1, <3>3, <3>4, <3>5, Answers
  <2> QED  BY <1>5, <1>6, <2>1, <2>2
<1>11. CASE Expect
  <2>1. /\ UNCHANGED store
        /\ Succeed(ret.out) \/ (~ret.ok /\ \E e : Fail(e))
    BY <1>11 DEF Expect, FailWith
  <2> QED  BY <1>5, <1>6, <2>1
<1>12. CASE Predict
  <2>1. /\ UNCHANGED store
        /\ Succeed(ret.out) \/ (~ret.ok /\ \E e : Fail(e))
    BY <1>12 DEF Predict
  <2> QED  BY <1>5, <1>6, <2>1
<1>13. CASE Not
  <2> DEFINE made == Constructed(store, Arg(Top.p))
  <2>1. \/ store' = Free(store, ret.out) /\ \E e : Fail(e)
        \/ ~ret.ok /\ store' = made.s /\ Succeed(made.out)
    BY <1>13 DEF Not, FailWith
  <2>. HIDE DEF made
  <2> QED  BY <1>7, <1>8, <2>1 DEF made
<1>14. CASE Maybe
  <2> DEFINE made == Constructed(store, Arg(Top.p))
  <2>1. \/ UNCHANGED store /\ Succeed(ret.out)
        \/ ~ret.ok /\ store' = made.s /\ Succeed(made.out)
    BY <1>14 DEF Maybe
  <2>. HIDE DEF made
  <2> QED  BY <1>6, <1>8, <2>1 DEF made
<1> QED  BY <1>9, <1>10, <1>11, <1>12, <1>13, <1>14

------------------------------------------------------------------------------
(* Results that are kept.                                                  *)

LEMMA AppendNamed ==
  ASSUME NEW outs \in Seq(Nat), Distinct(outs), NEW v \in Nat, v = 0 \/ v \notin Named(outs)
  PROVE  LET more == Append(outs, v)
         IN  /\ more \in Seq(Nat) /\ Len(more) = Len(outs) + 1 /\ Distinct(more)
             /\ Named(more) = Named(outs) \cup ({v} \ {0})
<1> DEFINE more == Append(outs, v)
           n == Len(outs)
<1>1. n \in Nat /\ DOMAIN outs = 1 .. n  OBVIOUS
<1>2. /\ more \in Seq(Nat) /\ Len(more) = n + 1 /\ DOMAIN more = 1 .. n + 1
      /\ more[n + 1] = v /\ \A k \in 1 .. n : more[k] = outs[k]
  BY AppendProperties
<1>. HIDE DEF more, n
<1>3. \A k : k \in 1 .. n + 1 <=> k \in 1 .. n \/ k = n + 1  BY <1>1
<1>4. Named(more) = {more[k] : k \in 1 .. n + 1} \ {0}  BY <1>2 DEF Named
<1>5. Named(outs) = {outs[k] : k \in 1 .. n} \ {0}  BY DEF Named, n
<1>6. Named(more) = Named(outs) \cup ({v} \ {0})
  <2>1. \A x : x \in {more[k] : k \in 1 .. n + 1} <=> x = v \/ x \in {outs[k] : k \in 1 .. n}
    BY <1>2, <1>3
  <2> QED  BY <1>4, <1>5, <2>1
<1>7. ASSUME NEW a \in 1 .. n + 1, NEW b \in 1 .. n + 1, a # b, more[a] = more[b]
      PROVE  more[a] = 0
  <2>1. CASE a \in 1 .. n /\ b \in 1 .. n
    BY <1>1, <1>2, <1>7, <2>1 DEF Distinct
  <2>2. CASE a = n + 1 /\ b \in 1 .. n
    <3>1. outs[b] = v  BY <1>2, <1>7, <2>2
    <3> QED  BY <1>2, <1>5, <2>2, <3>1
  <2>3. CASE b = n + 1 /\ a \in 1 .. n
    <3>1. outs[a] = v  BY <1>2, <1>7, <2>3
    <3> QED  BY <1>2, <1>5, <1>7, <2>3, <3>1
  <2> QED  BY <1>3, <1>7, <2>1, <2>2, <2>3
<1>8. Distinct(more)  BY <1>2, <1>7 DEF Distinct
<1> QED  BY <1>2, <1>6, <1>8 DEF more, n

(* A call keeps what was returned to it, and may get memory for it.        *)
Keep == [Top EXCEPT !.j = Top.j + 1, !.outs = Append(@, ret.out)]

LEMMA KeptHolds ==
  ASSUME Sorted, Running, ret # NoReturn
  PROVE  /\ CallOK(Keep) /\ Keep.p = Top.p /\ Keep.j = Top.j + 1 /\ Keep.array = Top.array
         /\ Keep.outs = Append(Top.outs, ret.out)
         /\ Keep.outs \in Seq(Nat) /\ Len(Keep.outs) = Len(Top.outs) + 1 /\ Distinct(Keep.outs)
         /\ Named(Keep.outs) = Named(Top.outs) \cup BackOf(ret)
         /\ Top.array = 0 \/ Top.array \notin Named(Keep.outs)
<1>1. /\ CallOK(Top) /\ Top.outs \in Seq(Nat) /\ Distinct(Top.outs)
      /\ Holds(Top) = Named(Top.outs) \cup ({Top.array} \ {0})
      /\ Top.array = 0 \/ Top.array \notin Named(Top.outs)
      /\ Holds(Top) \cap BackOf(ret) = {}
  BY TopHolds
<1>2. ret.out \in Nat /\ BackOf(ret) = {ret.out} \ {0}  BY TopWaits
<1>3. /\ CallOK(Keep) /\ Keep.p = Top.p /\ Keep.j = Top.j + 1 /\ Keep.array = Top.array
      /\ Keep.outs = Append(Top.outs, ret.out)
  BY <1>1 DEF Keep, CallOK, CallFields
<1>4. ret.out = 0 \/ ret.out \notin Named(Top.outs)  BY <1>1, <1>2
<1>5. PICK outs, v : outs = Top.outs /\ v = ret.out  OBVIOUS
<1>6. /\ Append(outs, v) \in Seq(Nat) /\ Len(Append(outs, v)) = Len(outs) + 1
      /\ Distinct(Append(outs, v)) /\ Named(Append(outs, v)) = Named(outs) \cup ({v} \ {0})
  BY <1>1, <1>2, <1>4, <1>5, AppendNamed
<1> QED  BY <1>1, <1>2, <1>3, <1>5, <1>6

LEMMA FrameHolds ==
  ASSUME NEW f, f.outs \in Seq(Nat), Distinct(f.outs), f.array = 0 \/ f.array \notin Named(f.outs)
  PROVE  Tidy(f) /\ Holds(f) = Named(f.outs) \cup ({f.array} \ {0})
<1>1. DOMAIN f.outs = 1 .. Len(f.outs)  OBVIOUS
<1>2. ToSet(f.outs) = {f.outs[n] : n \in 1 .. Len(f.outs)}  BY <1>1 DEF ToSet
<1>3. Tidy(f)  BY <1>1, <1>2 DEF Tidy, Distinct, Named
<1> QED  BY <1>2, <1>3 DEF Holds, Named

LEMMA FoldedUp ==
  ASSUME NEW s, StoreSound(s), NEW outs \in Seq(Nat), Named(outs) \subseteq AliveIn(s),
         Distinct(outs), NEW fold \in {"first", "join", "tree"}, fold = "first" => outs # <<>>,
         NEW array, array = 0 \/ array \in AliveIn(s) \ Named(outs),
         NEW made, made = Folded(s, fold, outs)
  PROVE  /\ Becomes(s, Named(outs) \cup ({array} \ {0}), Free(made.s, array), {made.out} \ {0})
         /\ made.out \in Nat
<1>1. Becomes(s, Named(outs), made.s, {made.out} \ {0}) /\ made.out \in Nat
  BY FoldGives
<1> QED  BY <1>1, FreeAlso

LEMMA AllFreed ==
  ASSUME NEW s, StoreSound(s), NEW outs \in Seq(Nat), Named(outs) \subseteq AliveIn(s),
         Distinct(outs), NEW array, array = 0 \/ array \in AliveIn(s) \ Named(outs)
  PROVE  Becomes(s, Named(outs) \cup ({array} \ {0}), Free(FreeAll(s, outs), array), {0} \ {0})
<1>1. PICK t : t = FreeAll(s, outs)  OBVIOUS
<1>2. Becomes(s, Named(outs), t, {})  BY <1>1, FreeAllTakes DEF Becomes
<1>3. PICK T, X : T = Named(outs) /\ X = {0} \ {0}  OBVIOUS
<1>4. Becomes(s, T, t, X)  BY <1>2, <1>3
<1>5. Becomes(s, T \cup ({array} \ {0}), Free(t, array), X)  BY <1>3, <1>4, FreeAlso
<1> QED  BY <1>1, <1>3, <1>5

(* A call returns what it folded, or nothing and frees all it has.         *)
LEMMA FoldAnswers ==
  ASSUME Sorted, Running, UNCHANGED prog,
         NEW outs \in Seq(Nat), Distinct(outs), Top.array = 0 \/ Top.array \notin Named(outs),
         Named(outs) \cup ({Top.array} \ {0}) = Holds(Top) \cup BackOf(ret),
         NEW fold \in {"first", "join", "tree"}, fold = "first" => outs # <<>>,
         NEW made, made = Folded(store, fold, outs),
         store' = Free(made.s, Top.array), Succeed(made.out)
  PROVE  SortedOn
<1>1. StoreSound(store) /\ Holds(Top) \cup BackOf(ret) \subseteq AliveIn(store)  BY TopHolds
<1>2. Named(outs) \subseteq AliveIn(store)
      /\ (Top.array = 0 \/ Top.array \in AliveIn(store) \ Named(outs))
  BY <1>1
<1>3. PICK T : T = Named(outs) \cup ({Top.array} \ {0})  OBVIOUS
<1>4. Becomes(store, T, store', {made.out} \ {0}) /\ made.out \in Nat
  BY <1>1, <1>2, <1>3, FoldedUp
<1>5. T \subseteq Holds(Top) \cup BackOf(ret) /\ (T = Holds(Top) \cup BackOf(ret) \/ Dropping)
  BY <1>3
<1> QED  BY <1>4, <1>5, Answers

LEMMA FailAnswers ==
  ASSUME Sorted, Running, UNCHANGED prog, ret # NoReturn, ~ret.ok,
         store' = Free(FreeAll(store, Top.outs), Top.array), NEW e, Fail(e)
  PROVE  SortedOn
<1>1. /\ StoreSound(store) /\ Holds(Top) \cup BackOf(ret) \subseteq AliveIn(store)
      /\ Holds(Top) = Named(Top.outs) \cup ({Top.array} \ {0}) /\ Top.outs \in Seq(Nat)
      /\ Distinct(Top.outs) /\ (Top.array = 0 \/ Top.array \notin Named(Top.outs))
      /\ BackOf(ret) = {}
  BY TopHolds, TopWaits
<1>2. Named(Top.outs) \subseteq AliveIn(store)
      /\ (Top.array = 0 \/ Top.array \in AliveIn(store) \ Named(Top.outs))
  BY <1>1
<1>3. PICK T, out : T = Named(Top.outs) \cup ({Top.array} \ {0}) /\ out = 0  OBVIOUS
<1>4. Becomes(store, T, store', {out} \ {0})
  BY <1>1, <1>2, <1>3, AllFreed
<1>5. T \subseteq Holds(Top) \cup BackOf(ret) /\ (T = Holds(Top) \cup BackOf(ret) \/ Dropping)
  BY <1>1, <1>3
<1>6. out \in Nat /\ (Succeed(out) \/ (out = 0 /\ \E x : Fail(x)))  BY <1>3
<1> QED  BY <1>4, <1>5, <1>6, Answers

(* A call that keeps what was returned to it makes another.                *)
LEMMA KeepCalls ==
  ASSUME Sorted, Running, UNCHANGED prog, ret # NoReturn,
         NEW j, j \in 1 .. Len(Kids(Top.p)), Descend(Keep, j), Orderly(prog, Keep),
         StoreSound(store'), AliveIn(store') = AliveIn(store)
  PROVE  SortedOn
<1>1. /\ CallOK(Keep) /\ Keep.p = Top.p /\ Keep.array = Top.array
      /\ Keep.outs \in Seq(Nat) /\ Distinct(Keep.outs)
      /\ Named(Keep.outs) = Named(Top.outs) \cup BackOf(ret)
      /\ (Top.array = 0 \/ Top.array \notin Named(Keep.outs))
  BY KeptHolds
<1>2. /\ StoreSound(store) /\ Holds(Top) \cup BackOf(ret) \subseteq AliveIn(store)
      /\ Holds(Top) = Named(Top.outs) \cup ({Top.array} \ {0})
      /\ (Type(Top.p) = "count" /\ Arg(Top.p).n > StackMin => Top.array # 0)
  BY TopHolds, TopWaits
<1>3. Tidy(Keep) /\ Holds(Keep) = Named(Keep.outs) \cup ({Keep.array} \ {0})
  BY <1>1, FrameHolds
<1>4. Holds(Keep) = Holds(Top) \cup BackOf(ret)  BY <1>1, <1>2, <1>3
<1>5. PICK t : t = store'  OBVIOUS
<1>6. Becomes(store, Holds(Top) \cup BackOf(ret), t, Holds(Top) \cup BackOf(ret))
  BY <1>2, <1>5, Passes
<1>7. PICK f : f = Keep  OBVIOUS
<1>8. /\ CallOK(f) /\ f.p = Top.p /\ j \in 1 .. Len(Kids(f.p)) /\ Descend(f, j)
      /\ Orderly(prog, f) /\ Tidy(f) /\ Holds(Top) \cup BackOf(ret) \subseteq Holds(f)
      /\ (Type(f.p) = "count" /\ Arg(f.p).n > StackMin => f.array # 0)
      /\ Becomes(store, Holds(Top) \cup BackOf(ret), store', Holds(f))
  BY <1>1, <1>2, <1>3, <1>4, <1>5, <1>6, <1>7
<1> QED  BY <1>8, Calls

LEMMA KeptOrderly ==
  ASSUME Sorted, Running, ret # NoReturn, Type(Top.p) \in Gatherers,
         Type(Top.p) = "count" => Top.j + 1 # Arg(Top.p).n
  PROVE  Orderly(prog, Keep)
<1>1. /\ Keep.p = Top.p /\ Keep.j = Top.j + 1 /\ Keep.array = Top.array
      /\ Keep.outs \in Seq(Nat) /\ Len(Keep.outs) = Len(Top.outs) + 1
  BY KeptHolds
<1>2. Orderly(prog, Top) /\ CallOK(Top) /\ prog \in Grammars  BY TopHolds
<1>3. /\ Top.array \in Nat /\ Len(Top.outs) = Top.j /\ Top.j \in Nat
      /\ prog[Top.p].type \in {"many", "many1"} /\ Top.array # 0 => Top.j >= StackMin
      /\ prog[Top.p].type = "count" /\ prog[Top.p].arg.n >= 1 => Top.j < prog[Top.p].arg.n
  BY <1>2 DEF Orderly, Type, CallOK
<1>4. prog[Top.p].type = "count" =>
        prog[Top.p].arg.n \in Int /\ Top.j + 1 # prog[Top.p].arg.n
  BY <1>2, GrammarAssumption DEF CallOK, Type, Arg
<1>5. prog[Top.p].type = "count" /\ prog[Top.p].arg.n >= 1 => Top.j + 1 < prog[Top.p].arg.n
  <2>1. PICK n, k : n = prog[Top.p].arg.n /\ k = Top.j  OBVIOUS
  <2>2. n \in Int /\ k \in Nat /\ k + 1 # n /\ k < n => k + 1 < n  OBVIOUS
  <2> QED  BY <1>3, <1>4, <2>1, <2>2
<1>6. prog[Top.p].type \in {"many", "many1"} /\ Top.array # 0 => Top.j + 1 >= StackMin
  BY <1>3, ParseAssumption
<1> QED  BY <1>1, <1>3, <1>5, <1>6 DEF Orderly, Type

LEMMA ManySorted ==
  ASSUME Sorted, ManyMore
  PROVE  SortedOn
<1>1. Running /\ ret # NoReturn /\ ret.ok /\ UNCHANGED prog /\ Type(Top.p) \in {"many", "many1"}
  BY DEF ManyMore, Resumes
<1>2. 1 \in 1 .. Len(Kids(Top.p))
  BY <1>1, TopIs DEF Sorted, Gathering, Unary
<1>3. Orderly(prog, Keep)  BY <1>1, KeptOrderly DEF Gatherers
<1>4. /\ StoreSound(store) /\ Holds(Top) \cup BackOf(ret) \subseteq AliveIn(store)
      /\ Holds(Top) = Named(Top.outs) \cup ({Top.array} \ {0}) /\ Orderly(prog, Top)
      /\ CallOK(Top) /\ (Top.array = 0 \/ Top.array \in AliveIn(store))
  BY <1>1, TopHolds
<1>5. PICK room : room = SlotsAt(Top.j + 1)  OBVIOUS
<1>6. \/ status' = "exhausted" /\ UNCHANGED <<stack, ret, store>>
      \/ /\ Top.j + 1 = StackMin /\ store' = Malloc(store, room)
         /\ Descend([Keep EXCEPT !.array = NewBlock(Malloc(store, room))], 1)
      \/ /\ store' = Realloc(store, Top.array, room) \/ UNCHANGED store
         /\ Descend(Keep, 1)
  BY <1>5, Zenon DEF ManyMore, Keep
<1>7. CASE status' = "exhausted" /\ UNCHANGED <<stack, ret, store>>
  BY <1>1, <1>4, <1>7, Stops
<1>8. CASE /\ Top.j + 1 = StackMin /\ store' = Malloc(store, room)
           /\ Descend([Keep EXCEPT !.array = NewBlock(Malloc(store, room))], 1)
  <2>1. PICK t : t = Malloc(store, room)  OBVIOUS
  <2>2. Becomes(store, {}, t, {NewBlock(t)}) /\ NewBlock(t) \in Nat \ {0}
    BY <1>4, <2>1, MallocGives
  <2>3. PICK b : b = NewBlock(t)  OBVIOUS
  <2>4. PICK f : f = [Keep EXCEPT !.array = b]  OBVIOUS
  <2>5. /\ CallOK(Keep) /\ Keep.p = Top.p /\ Keep.j = Top.j + 1
        /\ Keep.outs \in Seq(Nat) /\ Distinct(Keep.outs)
        /\ Named(Keep.outs) = Named(Top.outs) \cup BackOf(ret)
    BY <1>1, KeptHolds
  <2>6. CallOK(f) /\ f.p = Top.p /\ f.j = Keep.j /\ f.outs = Keep.outs /\ f.array = b
    BY <2>4, <2>5 DEF CallOK, CallFields
  <2>7. Top.array = 0
    <3>1. Type(Top.p) \in {"many", "many1"} /\ Top.array # 0 => Top.j >= StackMin
      BY <1>4 DEF Orderly, Type
    <3>2. Top.j \in Nat /\ StackMin \in Nat  BY <1>4, ParseAssumption DEF CallOK
    <3> QED  BY <1>1, <1>8, <3>1, <3>2
  <2>8. b \notin AliveIn(store) /\ b \in Nat \ {0}  BY <2>2, <2>3 DEF Becomes
  <2>9. Named(f.outs) = Holds(Top) \cup BackOf(ret) /\ f.array \notin Named(f.outs)
    BY <1>4, <2>5, <2>6, <2>7, <2>8
  <2>10. Tidy(f) /\ Holds(f) = Named(f.outs) \cup {b}
    <3>1. f.outs \in Seq(Nat) /\ Distinct(f.outs) /\ f.array \notin Named(f.outs)
      BY <2>5, <2>6, <2>9
    <3>2. Tidy(f) /\ Holds(f) = Named(f.outs) \cup ({f.array} \ {0})  BY <3>1, FrameHolds
    <3> QED  BY <2>6, <2>8, <3>2
  <2>11. Orderly(prog, f)
    <3>1. StackMin \in Nat /\ Top.j \in Nat  BY <1>4, ParseAssumption DEF CallOK
    <3>2. f.j >= StackMin  BY <1>8, <2>5, <2>6, <3>1
    <3>3. prog[f.p].type \in {"many", "many1"}  BY <1>1, <2>6 DEF Type
    <3> QED  BY <1>3, <2>5, <2>6, <2>8, <3>2, <3>3 DEF Orderly, Gatherers
  <2>12. Becomes(store, Holds(Top) \cup BackOf(ret), t, Holds(f))
    BY <1>4, <2>2, <2>3, <2>9, <2>10 DEF Becomes
  <2>13. PICK j : j = 1  OBVIOUS
  <2>14. /\ j \in 1 .. Len(Kids(f.p)) /\ Descend(f, j) /\ Type(f.p) # "count"
         /\ Holds(Top) \cup BackOf(ret) \subseteq Holds(f)
         /\ Becomes(store, Holds(Top) \cup BackOf(ret), store', Holds(f))
    BY <1>1, <1>2, <1>8, <2>1, <2>3, <2>4, <2>6, <2>9, <2>10, <2>12, <2>13
  <2> QED  BY <1>1, <2>6, <2>10, <2>11, <2>14, Calls
<1>9. CASE /\ store' = Realloc(store, Top.array, room) \/ UNCHANGED store
           /\ Descend(Keep, 1)
  <2>1. StoreSound(store') /\ AliveIn(store') = AliveIn(store)
    BY <1>4, <1>9, ReallocKeeps
  <2>2. PICK j : j = 1  OBVIOUS
  <2>3. j \in 1 .. Len(Kids(Top.p)) /\ Descend(Keep, j)  BY <1>2, <1>9, <2>2
  <2> QED  BY <1>1, <1>3, <2>1, <2>3, KeepCalls
<1> QED  BY <1>6, <1>7, <1>8, <1>9

LEMMA FoldTyped ==
  ASSUME Sorted, Running
  PROVE  /\ Type(Top.p) \in {"many1", "and"} => Arg(Top.p) \in {"first", "join", "tree"}
         /\ Type(Top.p) = "many" => Arg(Top.p) \in {"join", "tree"}
         /\ Type(Top.p) = "count" => Arg(Top.p).fold \in {"join", "tree"} /\ Arg(Top.p).n \in Int
<1>1. Top.p \in Node /\ prog \in Grammars  BY TopHolds DEF CallOK
<1> QED  BY <1>1, FoldAssumption, GrammarAssumption DEF Type, Arg

LEMMA ManyEndSorted ==
  ASSUME Sorted, ManyEnd
  PROVE  SortedOn
<1>1. Running /\ ret # NoReturn /\ ~ret.ok /\ UNCHANGED prog /\ Type(Top.p) \in {"many", "many1"}
  BY DEF ManyEnd, Resumes
<1>2. /\ StoreSound(store) /\ Orderly(prog, Top) /\ Top.outs \in Seq(Nat) /\ Distinct(Top.outs)
      /\ (Top.array = 0 \/ Top.array \notin Named(Top.outs))
      /\ Holds(Top) = Named(Top.outs) \cup ({Top.array} \ {0})
      /\ BackOf(ret) = {} /\ CallOK(Top) /\ ret.out = 0
  BY <1>1, TopHolds, TopWaits
<1>3. /\ Len(Top.outs) = Top.j /\ (Top.array # 0 => Top.j >= StackMin)
  BY <1>1, <1>2 DEF Orderly, Type, Gatherers
<1>4. CASE Type(Top.p) = "many1" /\ Top.j = 0 /\ Fail(Repeat(ret.err, "oneOrMore")) /\ UNCHANGED store
  <2>1. Top.array = 0  BY <1>3, <1>4, ParseAssumption
  <2>2. Named(Top.outs) = {}  BY <1>3, <1>4 DEF Named
  <2>3. PICK T, out : T = {} /\ out = 0  OBVIOUS
  <2>4. T = Holds(Top) \cup BackOf(ret)  BY <1>2, <2>1, <2>2, <2>3
  <2>5. Becomes(store, T, store', {out} \ {0})  BY <1>2, <1>4, <2>3, HandedOver
  <2>6. out \in Nat /\ (Succeed(out) \/ (out = 0 /\ \E e : Fail(e)))  BY <1>4, <2>3
  <2> QED  BY <1>1, <2>4, <2>5, <2>6, Answers
<1>5. CASE /\ Type(Top.p) = "many" \/ Top.j > 0
           /\ LET made == Folded(store, Arg(Top.p), Top.outs)
              IN  store' = Free(made.s, Top.array) /\ Succeed(made.out)
  <2>1. PICK made, outs, fold : /\ made = Folded(store, fold, outs) /\ outs = Top.outs
                                /\ fold = Arg(Top.p)
    OBVIOUS
  <2>2. store' = Free(made.s, Top.array) /\ Succeed(made.out)
    BY <1>5, <2>1
  <2>3. fold \in {"first", "join", "tree"} /\ (fold = "first" => Type(Top.p) # "many")
    BY <1>1, <2>1, FoldTyped
  <2>4. outs # <<>> \/ Type(Top.p) = "many"
    <3>1. Top.j > 0 => Top.j # 0  BY <1>2 DEF CallOK
    <3>2. Top.j # 0 => Top.outs # <<>>  BY <1>3, <1>2, EmptySeq
    <3> QED  BY <1>5, <2>1, <3>1, <3>2
  <2>5. /\ outs \in Seq(Nat) /\ Distinct(outs) /\ (Top.array = 0 \/ Top.array \notin Named(outs))
        /\ Named(outs) \cup ({Top.array} \ {0}) = Holds(Top) \cup BackOf(ret)
    BY <1>2, <2>1
  <2> QED  BY <1>1, <2>1, <2>2, <2>3, <2>4, <2>5, FoldAnswers
<1> QED  BY <1>4, <1>5 DEF ManyEnd

LEMMA CountSorted ==
  ASSUME Sorted, CountMore
  PROVE  SortedOn /\ (status' = "smashed" => CountsNone)
<1>1. Running /\ ret # NoReturn /\ ret.ok /\ UNCHANGED prog /\ Type(Top.p) = "count"
      /\ status = "run"
  BY DEF CountMore, Resumes, Running
<1>2. 1 \in 1 .. Len(Kids(Top.p))
  BY <1>1, TopIs DEF Sorted, Gathering, Unary
<1>3. /\ StoreSound(store) /\ Orderly(prog, Top) /\ CallOK(Top)
      /\ Holds(Top) = Named(Top.outs) \cup ({Top.array} \ {0})
      /\ (Arg(Top.p).n > StackMin => Top.array # 0)
  BY <1>1, TopHolds, TopWaits
<1>4. Arg(Top.p).n \in Int /\ Arg(Top.p).fold \in {"join", "tree"}  BY <1>1, FoldTyped
<1>5. \/ /\ Top.j + 1 = Arg(Top.p).n /\ UNCHANGED status
         /\ LET made == Folded(store, Arg(Top.p).fold, Keep.outs)
            IN  store' = Free(made.s, Top.array) /\ Succeed(made.out)
      \/ /\ Top.j + 1 # Arg(Top.p).n /\ UNCHANGED <<stack, ret, store>> /\ status' = "smashed"
         /\ Top.array = 0 /\ Top.j + 1 = StackMin
      \/ Top.j + 1 # Arg(Top.p).n /\ Descend(Keep, 1) /\ UNCHANGED store
  BY Zenon DEF CountMore, Keep
<1>6. CASE /\ Top.j + 1 = Arg(Top.p).n /\ UNCHANGED status
           /\ LET made == Folded(store, Arg(Top.p).fold, Keep.outs)
              IN  store' = Free(made.s, Top.array) /\ Succeed(made.out)
  <2>1. PICK made, outs, fold : /\ made = Folded(store, fold, outs) /\ outs = Keep.outs
                                /\ fold = Arg(Top.p).fold
    OBVIOUS
  <2>2. store' = Free(made.s, Top.array) /\ Succeed(made.out)  BY <1>6, <2>1
  <2>3. /\ outs \in Seq(Nat) /\ Distinct(outs) /\ (Top.array = 0 \/ Top.array \notin Named(outs))
        /\ Named(outs) = Named(Top.outs) \cup BackOf(ret)
    BY <1>1, <2>1, KeptHolds
  <2>4. Named(outs) \cup ({Top.array} \ {0}) = Holds(Top) \cup BackOf(ret)
    BY <1>3, <2>3
  <2>5. fold \in {"first", "join", "tree"} /\ fold # "first"  BY <1>4, <2>1
  <2>6. SortedOn  BY <1>1, <2>1, <2>2, <2>3, <2>4, <2>5, FoldAnswers
  <2> QED  BY <1>1, <1>6, <2>6
<1>7. CASE /\ Top.j + 1 # Arg(Top.p).n /\ UNCHANGED <<stack, ret, store>> /\ status' = "smashed"
           /\ Top.array = 0 /\ Top.j + 1 = StackMin
  <2>1. SortedOn  BY <1>1, <1>3, <1>7, Stops
  <2>2. ~(Arg(Top.p).n > StackMin)  BY <1>3, <1>7
  <2>3. Arg(Top.p).n >= 1 => Top.j < Arg(Top.p).n
    BY <1>1, <1>3 DEF Orderly, Type, Arg
  <2>4. PICK n, k : n = Arg(Top.p).n /\ k = Top.j  OBVIOUS
  <2>5. n \in Int /\ k \in Nat /\ StackMin \in Nat  BY <1>3, <1>4, <2>4, ParseAssumption DEF CallOK
  <2>6. ~(n > StackMin) /\ (n >= 1 => k < n) /\ k + 1 # n /\ k + 1 = StackMin
    BY <1>7, <2>2, <2>3, <2>4
  <2>7. n < 1  BY ONLY <2>5, <2>6
  <2>8. CountsNone  BY <1>1, <1>3, <2>4, <2>7 DEF CountsNone, CallOK
  <2> QED  BY <2>1, <2>8
<1>8. CASE Top.j + 1 # Arg(Top.p).n /\ Descend(Keep, 1) /\ UNCHANGED store
  <2>1. Orderly(prog, Keep)  BY <1>1, <1>8, KeptOrderly DEF Gatherers
  <2>2. StoreSound(store') /\ AliveIn(store') = AliveIn(store)  BY <1>3, <1>8
  <2>3. PICK j : j = 1  OBVIOUS
  <2>4. j \in 1 .. Len(Kids(Top.p)) /\ Descend(Keep, j)  BY <1>2, <1>8, <2>3
  <2>5. SortedOn  BY <1>1, <2>1, <2>2, <2>4, KeepCalls
  <2>6. status' # "smashed"  BY <1>1, <1>8 DEF Descend
  <2> QED  BY <2>5, <2>6
<1> QED  BY <1>5, <1>6, <1>7, <1>8

LEMMA CountEndSorted ==
  ASSUME Sorted, CountEnd
  PROVE  SortedOn
<1>1. Running /\ ret # NoReturn /\ ~ret.ok /\ UNCHANGED prog /\ Type(Top.p) = "count"
  BY DEF CountEnd, Resumes
<1>2. \/ /\ Top.j = Arg(Top.p).n
         /\ LET made == Folded(store, Arg(Top.p).fold, <<>>)
            IN  store' = Free(made.s, Top.array) /\ Succeed(made.out)
      \/ /\ store' = Free(FreeAll(store, Top.outs), Top.array)
         /\ Fail(Repeat(ret.err, "countOf"))
  BY DEF CountEnd
<1>3. CASE /\ Top.j = Arg(Top.p).n
           /\ LET made == Folded(store, Arg(Top.p).fold, <<>>)
              IN  store' = Free(made.s, Top.array) /\ Succeed(made.out)
  <2>1. PICK made, outs, fold : /\ made = Folded(store, fold, outs) /\ outs = <<>>
                                /\ fold = Arg(Top.p).fold
    OBVIOUS
  <2>2. store' = Free(made.s, Top.array) /\ Succeed(made.out)  BY <1>3, <2>1
  <2>3. /\ Orderly(prog, Top) /\ CallOK(Top) /\ BackOf(ret) = {}
        /\ Holds(Top) = Named(Top.outs) \cup ({Top.array} \ {0})
        /\ fold \in {"first", "join", "tree"} /\ fold # "first" /\ Arg(Top.p).n \in Int
    BY <1>1, <2>1, TopHolds, TopWaits, FoldTyped
  <2>4. Len(Top.outs) = Top.j /\ (Arg(Top.p).n >= 1 => Top.j < Arg(Top.p).n)
    BY <1>1, <2>3 DEF Orderly, Type, Arg, Gatherers
  <2>5. Top.j = 0  BY <1>3, <2>3, <2>4 DEF CallOK
  <2>6. Named(Top.outs) = {} /\ Named(outs) = {}  BY <2>1, <2>4, <2>5 DEF Named
  <2>7. outs \in Seq(Nat) /\ Distinct(outs)  BY <2>1 DEF Distinct
  <2>8. Named(outs) \cup ({Top.array} \ {0}) = Holds(Top) \cup BackOf(ret)
    BY <2>3, <2>6
  <2> QED  BY <1>1, <2>1, <2>2, <2>3, <2>6, <2>7, <2>8, FoldAnswers
<1>4. CASE /\ store' = Free(FreeAll(store, Top.outs), Top.array)
           /\ Fail(Repeat(ret.err, "countOf"))
  BY <1>1, <1>4, FailAnswers
<1> QED  BY <1>2, <1>3, <1>4

(* The array of an alternative is empty.                                   *)
LEMMA OrSorted ==
  ASSUME Sorted, OrTaken \/ OrNext
  PROVE  SortedOn
<1>1. Running /\ ret # NoReturn /\ UNCHANGED prog /\ Type(Top.p) = "or"
  BY DEF OrTaken, OrNext, Resumes
<1>2. /\ StoreSound(store) /\ Orderly(prog, Top) /\ CallOK(Top) /\ Tidy(Top)
      /\ Holds(Top) = Named(Top.outs) \cup ({Top.array} \ {0}) /\ Top.array \in Nat
      /\ Holds(Top) \cup BackOf(ret) \subseteq AliveIn(store)
      /\ Holds(Top) \cap BackOf(ret) = {}
      /\ ret.out \in Nat /\ BackOf(ret) = {ret.out} \ {0}
      /\ (~ret.ok => ret.out = 0 /\ BackOf(ret) = {})
  BY <1>1, TopHolds, TopWaits
<1>3. Len(Top.outs) = 0  BY <1>1, <1>2 DEF Orderly, Type, Gatherers
<1>4. Holds(Top) = {Top.array} \ {0}  BY <1>2, <1>3 DEF Named
<1>5. ASSUME store' = Free(store, Top.array),
             Succeed(ret.out) \/ (ret.out = 0 /\ \E e : Fail(e))
      PROVE  SortedOn
  <2>1. PICK B : B = {ret.out} \ {0}  OBVIOUS
  <2>2. Becomes(store, B, store, B)  BY <1>2, <2>1, Passes
  <2>3. Top.array = 0 \/ Top.array \in AliveIn(store) \ B  BY <1>2, <1>4, <2>1
  <2>4. PICK T : T = B \cup ({Top.array} \ {0})  OBVIOUS
  <2>5. Becomes(store, T, store', {ret.out} \ {0})
    BY <1>2, <1>5, <2>1, <2>2, <2>3, <2>4, FreeAlso
  <2>6. T \subseteq Holds(Top) \cup BackOf(ret) /\ (T = Holds(Top) \cup BackOf(ret) \/ Dropping)
    BY <1>2, <1>4, <2>1, <2>4
  <2> QED  BY <1>1, <1>2, <1>5, <2>5, <2>6, Answers
<1>6. CASE OrTaken
  BY <1>5, <1>6 DEF OrTaken
<1>7. CASE OrNext
  <2> DEFINE f == [Top EXCEPT !.j = @ + 1]
  <2>1. \/ Top.j + 1 < Len(Kids(Top.p)) /\ Descend(f, Top.j + 2) /\ UNCHANGED store
        \/ store' = Free(store, Top.array) /\ Fail(NoErr)
    BY <1>7 DEF OrNext
  <2>2. ~ret.ok  BY <1>7 DEF OrNext
  <2>3. /\ CallOK(f) /\ f.p = Top.p /\ f.j = Top.j + 1 /\ f.outs = Top.outs
        /\ f.array = Top.array
    BY <1>2 DEF CallOK, CallFields
  <2>. HIDE DEF f
  <2>4. CASE Top.j + 1 < Len(Kids(Top.p)) /\ Descend(f, Top.j + 2) /\ UNCHANGED store
    <3>1. Tidy(f) /\ Holds(f) = Holds(Top)  BY <1>2, <2>3 DEF Tidy, Holds
    <3>2. Type(f.p) = "or"  BY <1>1, <2>3
    <3>3. Orderly(prog, f)
      BY <1>2, <1>3, <2>3, <3>2 DEF Orderly, Gatherers, Type
    <3>4. PICK j : j = Top.j + 2  OBVIOUS
    <3>5. j \in 1 .. Len(Kids(f.p)) /\ Descend(f, j)
      <4>1. Kids(Top.p) \in Seq(Node)  BY <1>1, TopIs DEF Sorted, Gathering
      <4>2. Len(Kids(Top.p)) \in Nat /\ Top.j \in Nat  BY <1>2, <4>1 DEF CallOK
      <4> QED  BY <2>3, <2>4, <3>4, <4>2
    <3>6. PICK H : H = Holds(Top) \cup BackOf(ret)  OBVIOUS
    <3>7. Becomes(store, H, store, H)  BY <1>2, <3>6, Passes
    <3>8. Becomes(store, Holds(Top) \cup BackOf(ret), store', Holds(f))
          /\ Holds(Top) \cup BackOf(ret) \subseteq Holds(f)
      BY <1>2, <2>2, <2>4, <3>1, <3>6, <3>7
    <3>9. Type(f.p) # "count"  BY <3>2
    <3> QED  BY <1>1, <2>3, <3>1, <3>3, <3>5, <3>8, <3>9, Calls
  <2>5. CASE store' = Free(store, Top.array) /\ Fail(NoErr)
    BY <1>2, <1>5, <2>2, <2>5
  <2> QED  BY <2>1, <2>4, <2>5
<1> QED  BY <1>1, <1>6, <1>7

LEMMA AndSorted ==
  ASSUME Sorted, AndNext \/ AndFail
  PROVE  SortedOn
<1>1. Running /\ ret # NoReturn /\ UNCHANGED prog /\ Type(Top.p) = "and"
  BY DEF AndNext, AndFail, Resumes
<1>2. StoreSound(store) /\ CallOK(Top)
      /\ Holds(Top) = Named(Top.outs) \cup ({Top.array} \ {0})
  BY <1>1, TopHolds
<1>3. CASE AndNext
  <2>1. \/ Keep.j < Len(Kids(Top.p)) /\ Descend(Keep, Keep.j + 1) /\ UNCHANGED store
        \/ LET made == Folded(store, Arg(Top.p), Keep.outs)
           IN  store' = Free(made.s, Top.array) /\ Succeed(made.out)
    BY <1>3, Zenon DEF AndNext, Keep
  <2>2. /\ Keep.outs \in Seq(Nat) /\ Distinct(Keep.outs) /\ Keep.j = Top.j + 1
        /\ (Top.array = 0 \/ Top.array \notin Named(Keep.outs))
        /\ Named(Keep.outs) = Named(Top.outs) \cup BackOf(ret)
        /\ Len(Keep.outs) = Len(Top.outs) + 1
    BY <1>1, KeptHolds
  <2>3. CASE Keep.j < Len(Kids(Top.p)) /\ Descend(Keep, Keep.j + 1) /\ UNCHANGED store
    <3>1. Orderly(prog, Keep)  BY <1>1, KeptOrderly DEF Gatherers
    <3>2. StoreSound(store') /\ AliveIn(store') = AliveIn(store)  BY <1>2, <2>3
    <3>3. PICK j : j = Keep.j + 1  OBVIOUS
    <3>4. j \in 1 .. Len(Kids(Top.p)) /\ Descend(Keep, j)
      <4>1. Kids(Top.p) \in Seq(Node)  BY <1>1, TopIs DEF Sorted, Gathering
      <4>2. Len(Kids(Top.p)) \in Nat /\ Top.j \in Nat  BY <1>2, <4>1 DEF CallOK
      <4> QED  BY <2>2, <2>3, <3>3, <4>2
    <3> QED  BY <1>1, <3>1, <3>2, <3>4, KeepCalls
  <2>4. CASE LET made == Folded(store, Arg(Top.p), Keep.outs)
             IN  store' = Free(made.s, Top.array) /\ Succeed(made.out)
    <3>1. PICK made, outs, fold : /\ made = Folded(store, fold, outs) /\ outs = Keep.outs
                                  /\ fold = Arg(Top.p)
      OBVIOUS
    <3>2. store' = Free(made.s, Top.array) /\ Succeed(made.out)  BY <2>4, <3>1
    <3>3. /\ outs \in Seq(Nat) /\ Distinct(outs)
          /\ (Top.array = 0 \/ Top.array \notin Named(outs))
          /\ Named(outs) \cup ({Top.array} \ {0}) = Holds(Top) \cup BackOf(ret)
      BY <1>2, <2>2, <3>1
    <3>4. outs # <<>>
      <4>1. Top.outs \in Seq(Nat) /\ Keep.outs = Append(Top.outs, ret.out)
        BY <1>1, TopHolds, KeptHolds
      <4>2. Len(Top.outs) \in Nat  BY <4>1
      <4>3. Len(outs) # 0  BY <2>2, <3>1, <4>2
      <4> QED  BY <4>3
    <3>5. fold \in {"first", "join", "tree"}  BY <1>1, <3>1, FoldTyped
    <3> QED  BY <1>1, <3>1, <3>2, <3>3, <3>4, <3>5, FoldAnswers
  <2> QED  BY <2>1, <2>3, <2>4
<1>4. CASE AndFail
  <2>1. ~ret.ok /\ store' = Free(FreeAll(store, Top.outs), Top.array) /\ Fail(ret.err)
    BY <1>4 DEF AndFail
  <2> QED  BY <1>1, <2>1, FailAnswers
<1> QED  BY <1>1, <1>3, <1>4

(* The end of the parse exports what is left, which is the value returned. *)
LEMMA EndSorted ==
  ASSUME Sorted, ParseEnd
  PROVE  SortedOn /\ ValuesOnce'
<1>1. /\ UNCHANGED <<prog, stack>> /\ ret # NoReturn /\ status = "run" /\ stack = <<>>
      /\ CallsOrderly /\ Accounted(store, stack, ret)
      /\ (~Dropping => NoneLost(store, stack, ret))
      /\ ret = [ok |-> ret.ok, out |-> ret.out, err |-> ret.err]
  BY DEF ParseEnd, Sorted, Gathering, RootReturns, ErrorsGathered
<1>2. /\ StoreSound(store) /\ BackOf(ret) = {ret.out} \ {0} /\ BackOf(ret) \subseteq AliveIn(store)
      /\ ret.out \in Nat /\ (~ret.ok => ret.out = 0)
  BY <1>1 DEF Accounted, BackOf, CallsOrderly
<1>3. Len(stack) = 0  BY <1>1
<1>4. ~Dropping => AliveIn(store) = BackOf(ret)
  BY <1>1, <1>2, <1>3 DEF NoneLost
<1>5. NoReturn' = NoReturn /\ (Dropping' <=> Dropping)
  BY <1>1, ConstantsStay DEF Dropping, Type, Arg
<1>6. ASSUME NEW t, StoreSound(t), \A b \in AliveIn(t) : t.blocks[b] = Heap
      PROVE  t.cells = {}
  <2>1. t.cells = {t.blocks[b] : b \in DOMAIN t.blocks} \cap PoolIndex  BY <1>6 DEF StoreSound
  <2>2. \A b \in DOMAIN t.blocks : t.blocks[b] \in {Freed, Heap}  BY <1>6 DEF AliveIn
  <2> QED  BY <2>1, <2>2, CellsTyped
<1>7. ASSUME NEW t, StoreSound(t), NEW b, NEW c, b \in AliveIn(t), c \in AliveIn(t),
             InPool(t, b), t.blocks[b] = t.blocks[c]
      PROVE  b = c
  BY <1>7 DEF StoreSound, AliveIn, InPool
<1>8. Held' = IF ret' = NoReturn THEN {} ELSE {ret'.out}
  <2>1. DOMAIN stack' = {}  BY <1>1
  <2> QED  BY <1>5, <2>1 DEF Held
<1>9. CASE status' = "done" /\ store' = Export(store, ret.out) /\ UNCHANGED ret
  <2>1. ret.out = 0 \/ ret.out \in AliveIn(store)  BY <1>2
  <2>2. PICK t : t = store'  OBVIOUS
  <2>3. /\ StoreSound(t) /\ AliveIn(t) = AliveIn(store)
        /\ ret.out # 0 => t.blocks[ret.out] = Heap
    BY <1>2, <1>9, <2>1, <2>2, ToHeapKeeps DEF Export
  <2>4. SortedOn  BY <1>1, <1>9, <2>2, <2>3, Stops
  <2>5. ~InPool(t, ret.out)  BY <2>3, CellsTyped DEF InPool
  <2>6. ~Dropping => AliveIn(t) = {ret.out} \ {0} /\ t.cells = {}
    <3>1. ~Dropping => AliveIn(t) = {ret.out} \ {0}  BY <1>2, <1>4, <2>3
    <3>2. ~Dropping => \A b \in AliveIn(t) : t.blocks[b] = Heap  BY <2>3, <3>1
    <3> QED  BY <1>6, <2>3, <3>1, <3>2
  <2>7. ~t.misused /\ Held' \ {0} \subseteq AliveIn(t)
    BY <1>1, <1>2, <1>8, <1>9, <2>3 DEF StoreSound
  <2> QED  BY <1>5, <1>7, <1>9, <2>2, <2>3, <2>4, <2>5, <2>6, <2>7 DEF ValuesOnce, Alive
<1>10. CASE /\ ~ret.ok /\ status' = "failed" /\ UNCHANGED store
            /\ ret' = [ret EXCEPT !.err = Merge(err, @)]
  <2>1. PICK m : m = Merge(err, ret.err)  OBVIOUS
  <2>2. ret' = [ok |-> ret.ok, out |-> ret.out, err |-> m]  BY <1>1, <1>10, <2>1
  <2>3. ret' # NoReturn /\ ret'.ok = ret.ok /\ ret'.out = ret.out
    BY <2>2, ReturnsSomething
  <2>4. BackOf(ret') = BackOf(ret)  BY <1>1, <2>3 DEF BackOf
  <2>5. Accounted(store', stack', ret')
    BY <1>1, <1>10, <2>4 DEF Accounted
  <2>6. CallsOrderly'
    BY <1>1, <1>2, <1>3, <1>5, <2>3 DEF CallsOrderly
  <2>7. SortedOn  BY <1>10, <2>5, <2>6 DEF SortedOn
  <2>8. BackOf(ret) = {} /\ ret.out = 0  BY <1>2, <1>10
  <2>9. ~Dropping => AliveIn(store) = {} /\ store.cells = {}
    BY <1>2, <1>4, <1>6, <2>8
  <2>10. ~store.misused /\ Held' \ {0} = {}
    BY <1>2, <1>8, <1>5, <2>3, <2>8 DEF StoreSound
  <2> QED  BY <1>2, <1>5, <1>7, <1>10, <2>7, <2>9, <2>10 DEF ValuesOnce, Alive
<1> QED  BY <1>9, <1>10 DEF ParseEnd

(* What the accounts mean while the parse is not over.                     *)
LEMMA AccountsMean ==
  ASSUME Accounted(store', stack', ret'), NoReturn' = NoReturn
  PROVE  /\ ~store'.misused
         /\ Held' \ {0} \subseteq Alive'
         /\ \A b, c \in Alive' :
              InPool(store', b) /\ store'.blocks[b] = store'.blocks[c] => b = c
<1>1. StoreSound(store') /\ BackOf(ret') \subseteq AliveIn(store')
      /\ \A k \in 1 .. Len(stack') : Holds(stack'[k]) \subseteq AliveIn(store')
  BY DEF Accounted
<1>2. Held' \ {0} \subseteq Alive'
  <2>1. SUFFICES ASSUME NEW b \in Held', b # 0 PROVE b \in AliveIn(store')
    BY DEF Alive
  <2>2. CASE ret' # NoReturn /\ b = ret'.out  BY <1>1, <2>1, <2>2 DEF BackOf
  <2>3. CASE \E k \in DOMAIN stack' : b \in ToSet(stack'[k].outs) \cup {stack'[k].array}
    <3>1. PICK k \in DOMAIN stack' : b \in ToSet(stack'[k].outs) \cup {stack'[k].array}
      BY <2>3
    <3>2. b \in Holds(stack'[k])  BY <2>1, <3>1 DEF Holds
    <3>3. DOMAIN stack' = 1 .. Len(stack')  OBVIOUS
    <3> QED  BY <1>1, <3>1, <3>2, <3>3
  <2> QED  BY <2>1, <2>2, <2>3 DEF Held
<1> QED  BY <1>1, <1>2 DEF StoreSound, Alive, AliveIn, InPool

ValInv ==
  /\ ErrInv /\ Balanced /\ ValuesOnce
  /\ ~Has({"liftval"}) => SmashedByNone

(* No step changes the grammar.                                            *)
LEMMA ProgStays ==
  ASSUME Next
  PROVE  UNCHANGED prog
<1>1. CASE Chars \/ Word \/ AnchorHere \/ Pass \/ LiftVal \/ Lift \/ StateCopy \/ Failing
           \/ OfNone
  BY <1>1 DEF Chars, Word, AnchorHere, Pass, LiftVal, Lift, StateCopy, Failing, OfNone
<1>2. CASE Enter \/ EnterExpect \/ EnterPredict \/ EnterNot \/ EnterCount \/ EnterSeveral
  BY <1>2 DEF Enter, EnterExpect, EnterPredict, EnterNot, EnterCount, EnterSeveral
<1>3. CASE Apply \/ Check \/ Expect \/ Predict \/ Not \/ Maybe
  BY <1>3 DEF Apply, Check, Expect, Predict, Not, Maybe
<1>4. CASE ManyMore \/ ManyEnd \/ CountMore \/ CountEnd
  BY <1>4, Zenon DEF ManyMore, ManyEnd, CountMore, CountEnd
<1>5. CASE OrTaken \/ OrNext \/ AndNext \/ AndFail
  BY <1>5, Zenon DEF OrTaken, OrNext, AndNext, AndFail
<1>6. CASE ParseEnd \/ Ended
  BY <1>6 DEF ParseEnd, Ended, vars
<1> QED  BY <1>1, <1>2, <1>3, <1>4, <1>5, <1>6 DEF Next

(* Every step but the end of the parse.                                    *)
LEMMA StepSorted ==
  ASSUME Sorted, Next, ~ParseEnd, ~Ended
  PROVE  SortedOn /\ UNCHANGED prog /\ (status' = "smashed" => CountsNone)
<1>1. SortedOn
  BY LeafSorted, EnterSorted, UnarySorted, ManySorted, ManyEndSorted, CountSorted,
     CountEndSorted, OrSorted, AndSorted DEF Next
<1>2. UNCHANGED prog  BY ProgStays
<1>3. status' = "smashed" => CountsNone
  BY OnlyAtTheEnd, CountSorted
<1> QED  BY <1>1, <1>2, <1>3

(* What the grammar has and whether it drops values stay what they are.    *)
LEMMA GrammarStays ==
  ASSUME UNCHANGED prog
  PROVE  /\ Has({"liftval"})' <=> Has({"liftval"})
         /\ Dropping' <=> Dropping
BY DEF Has, Dropping, Type, Arg

LEMMA NextSorts ==
  ASSUME ValInv, [Next]_vars
  PROVE  ValInv'
<1>1. ErrInv /\ Gathering /\ Balanced  BY DEF ValInv, ErrInv
<1>2. ErrInv'  BY <1>1, NextGathers
<1>3. CASE ParseEnd /\ ~Has({"liftval"})
  <2>1. Sorted  BY <1>1, <1>3 DEF Sorted, Balanced
  <2>2. SortedOn /\ ValuesOnce'  BY <1>3, <2>1, EndSorted
  <2>3. UNCHANGED prog /\ status' # "smashed"  BY <1>3 DEF ParseEnd
  <2>4. Balanced'  BY <2>2, <2>3, GrammarStays DEF Balanced, SortedOn
  <2> QED  BY <1>2, <2>2, <2>3, <2>4 DEF ValInv, SmashedByNone
<1>4. CASE UNCHANGED vars
  <2>1. UNCHANGED <<prog, store, stack, ret, status>>  BY <1>4 DEF vars
  <2>2. NoReturn' = NoReturn /\ (CountsNone' <=> CountsNone)  BY <2>1, ConstantsStay
  <2>3. (Has({"liftval"})' <=> Has({"liftval"})) /\ (Dropping' <=> Dropping)
    BY <2>1, GrammarStays
  <2>4. CallsOrderly' <=> CallsOrderly
    BY <2>1, <2>2 DEF CallsOrderly, Top, Type, Arg
  <2>5. Balanced'  BY <1>1, <2>1, <2>2, <2>3, <2>4 DEF Balanced
  <2>6. Held' = Held /\ Alive' = Alive  BY <2>1, <2>2 DEF Held, Alive
  <2>7. ValuesOnce'  BY <2>1, <2>3, <2>6 DEF ValInv, ValuesOnce
  <2>8. ~Has({"liftval"})' => SmashedByNone'  BY <2>1, <2>2, <2>3 DEF ValInv, SmashedByNone
  <2> QED  BY <1>2, <2>5, <2>7, <2>8 DEF ValInv
<1>5. CASE Next /\ ~ParseEnd /\ ~Ended /\ ~Has({"liftval"})
  <2>1. Sorted  BY <1>1, <1>5 DEF Sorted, Balanced
  <2>2. SortedOn /\ UNCHANGED prog /\ (status' = "smashed" => CountsNone)
    BY <1>5, <2>1, StepSorted
  <2>3. NoReturn' = NoReturn /\ (CountsNone' <=> CountsNone)  BY <2>2, ConstantsStay
  <2>4. status' \notin {"failed", "done"}  BY <1>5, OnlyAtTheEnd
  <2>5. Balanced'  BY <2>2, GrammarStays DEF Balanced, SortedOn
  <2>6. Accounted(store', stack', ret')  BY <2>2 DEF SortedOn
  <2>7. ValuesOnce'  BY <2>3, <2>4, <2>6, AccountsMean DEF ValuesOnce
  <2> QED  BY <1>2, <2>2, <2>3, <2>5, <2>7 DEF ValInv, SmashedByNone
<1>6. CASE Has({"liftval"}) /\ Next
  <2>1. UNCHANGED prog  BY <1>6, ProgStays
  <2>2. Has({"liftval"})'  BY <1>6, <2>1, GrammarStays
  <2>3. Balanced' /\ ValuesOnce'  BY <2>2 DEF Balanced, ValuesOnce
  <2> QED  BY <1>2, <2>2, <2>3 DEF ValInv
<1> QED  BY <1>3, <1>4, <1>5, <1>6 DEF Ended

LEMMA InitSorts ==
  ASSUME Init
  PROVE  ValInv
<1>1. ErrInv /\ prog \in Grammars  BY InitGathers DEF Init
<1>2. ret = NoReturn /\ stack = <<Fresh(Root)>> /\ status = "run"  BY DEF Init
<1>3. PICK f : f = Fresh(Root)  OBVIOUS
<1>4. f.j = 0 /\ f.p = Root /\ f.outs = <<>> /\ f.array = 0  BY <1>3 DEF Fresh
<1>5. Len(stack) = 1 /\ DOMAIN stack = {1} /\ stack[1] = f /\ stack # <<>> /\ Top = f
  <2>1. stack = <<f>>  BY <1>2, <1>3
  <2> QED  BY <2>1 DEF Top, Last
<1>6. Holds(f) = {} /\ Tidy(f)  BY <1>4 DEF Holds, ToSet, Tidy
<1>7. Orderly(prog, f)
  <2>1. Root \in Node  BY ParseAssumption
  <2>2. prog[Root].type = "count" => prog[Root].arg.n \in Int
    BY <1>1, <2>1, GrammarAssumption
  <2> QED  BY <1>4, <2>2 DEF Orderly
<1>8. CallsOrderly
  <2>1. \A k \in 1 .. Len(stack) : k = 1  BY <1>5
  <2> QED  BY <1>2, <1>4, <1>5, <1>7, <2>1 DEF CallsOrderly
<1>9. ASSUME ~Has({"liftval"})
      PROVE  StoreSound(store) /\ AliveIn(store) = {}
  <2>1. store = NewStore  BY <1>9 DEF Init, Has
  <2>2. 0 \in PoolIndex  BY CellsTyped, InputAssumption DEF PoolIndex
  <2> QED  BY <2>1, <2>2, EmptySeq DEF StoreSound, AliveIn, NewStore
<1>10. ASSUME ~Has({"liftval"})
       PROVE  Accounted(store, stack, ret) /\ NoneLost(store, stack, ret)
  <2>1. \A k \in 1 .. Len(stack) : k = 1  BY <1>5
  <2>2. BackOf(ret) = {}  BY <1>2 DEF BackOf
  <2> QED  BY <1>5, <1>6, <1>9, <1>10, <2>1, <2>2 DEF Accounted, NoneLost
<1>11. Balanced  BY <1>8, <1>10 DEF Balanced
<1>12. Held \ {0} = {}  BY <1>2, <1>4, <1>5 DEF Held, ToSet
<1>13. ValuesOnce
  BY <1>2, <1>9, <1>12 DEF ValuesOnce, Alive, StoreSound
<1> QED  BY <1>1, <1>2, <1>11, <1>13 DEF ValInv, SmashedByNone

(* However a grammar nests, gathers and suppresses, whatever the text, and *)
(* at whatever size of the pool: no step of a parse without a lifted value *)
(* destroys or folds a value twice or after it was freed, the results and  *)
(* arrays the calls of mpc_parse_run name are live and no two live values  *)
(* were given one cell of the pool (mpc_malloc, mpc_realloc); and, but for *)
(* values lost to a check, mpc_parse_input leaves nothing behind: the pool *)
(* is empty, and the value returned, if any, is outside it (mpc_export).   *)
THEOREM ValuesHold == Spec => []ValuesOnce
<1>1. Init => ValInv  BY InitSorts
<1>2. ValInv /\ [Next]_vars => ValInv'  BY NextSorts
<1>3. ValInv => ValuesOnce  BY DEF ValInv
<1> QED  BY <1>1, <1>2, <1>3, PTL DEF Spec

(* A parse without a lifted value runs over the end of the results it      *)
(* gathers on the C stack (mpc_parse_run, repetitions) only if a parser of *)
(* the grammar counts none.                                                *)
THEOREM SmashHolds == Spec => [](~Has({"liftval"}) => SmashedByNone)
<1>1. Init => ValInv  BY InitSorts
<1>2. ValInv /\ [Next]_vars => ValInv'  BY NextSorts
<1>3. ValInv => (~Has({"liftval"}) => SmashedByNone)  BY DEF ValInv
<1> QED  BY <1>1, <1>2, <1>3, PTL DEF Spec
==============================================================================
