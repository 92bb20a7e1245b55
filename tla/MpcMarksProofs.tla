---------------------------- MODULE MpcMarksProofs ----------------------------
(***************************************************************************)
(* The marks of the input are those of the calls under way, and failures   *)
(* and negations take it back to where their call began, whatever the kind *)
(* of input, the grammar and the text.                                     *)
(*                                                                         *)
(* In the second part: the error of a failed parse is about the furthest   *)
(* place anything was found wrong at, whatever the grammar that counts no  *)
(* none, the text and the kind of input.                                   *)
(***************************************************************************)
EXTENDS MpcErrors, MpcCursorProofs

------------------------------------------------------------------------------
(* What reading leaves alone *)

Room(i) ==
  /\ DOMAIN i = Fields
  /\ \E S : i.marks \in Seq(S)
  /\ i.slots \in Int /\ Len(i.marks) <= i.slots

(* j is i with no mark, and nothing suppressed or disabled, changed.       *)
Untouched(i, j) ==
  Room(j) /\ j.marks = i.marks /\ j.backtrack = i.backtrack /\ j.suppress = i.suppress

LEMMA UntouchedTwice ==
  ASSUME NEW i, NEW j, NEW k, Untouched(i, j), Untouched(j, k)
  PROVE  Untouched(i, k)
BY DEF Untouched

LEMMA Nothing ==
  ASSUME NEW i, Room(i)
  PROVE  Untouched(i, i)
BY DEF Untouched

(* Other fields are free to change.                                        *)
LEMMA Elsewhere ==
  ASSUME NEW i, Room(i), NEW j, DOMAIN j = Fields, j.marks = i.marks, j.slots = i.slots,
         j.backtrack = i.backtrack, j.suppress = i.suppress
  PROVE  Untouched(i, j)
BY DEF Untouched, Room

LEMMA FgetcLeaves ==
  ASSUME NEW i, Room(i)
  PROVE  Untouched(i, Fgetc(i).i) /\ Fgetc(i).i.state = i.state
<1>1. DOMAIN i = Fields  BY DEF Room
<1>2. LET j == Fgetc(i).i
      IN  /\ DOMAIN j = Fields /\ j.marks = i.marks /\ j.slots = i.slots
          /\ j.backtrack = i.backtrack /\ j.suppress = i.suppress /\ j.state = i.state
  BY <1>1 DEF Fgetc, Fields
<1> QED  BY <1>2, Elsewhere

LEMMA PutBackLeaves ==
  ASSUME NEW i, Room(i)
  PROVE  Untouched(i, PutBack(i)) /\ PutBack(i).state = i.state
<1>1. DOMAIN i = Fields  BY DEF Room
<1>2. LET j == PutBack(i)
      IN  /\ DOMAIN j = Fields /\ j.marks = i.marks /\ j.slots = i.slots
          /\ j.backtrack = i.backtrack /\ j.suppress = i.suppress /\ j.state = i.state
  BY <1>1 DEF PutBack, Seek, Fields
<1> QED  BY <1>2, Elsewhere

LEMMA PeekLeaves ==
  ASSUME NEW i, Room(i)
  PROVE  Untouched(i, Peekc(i).i) /\ Peekc(i).i.state = i.state
<1> DEFINE got == Fgetc(i)
<1>1. Peekc(i).i \in {i, got.i, PutBack(got.i)}
  BY DEF Peekc
<1>2. Untouched(i, got.i) /\ got.i.state = i.state /\ Room(got.i)
  BY FgetcLeaves DEF Untouched
<1>. HIDE DEF got
<1>3. Untouched(i, PutBack(got.i)) /\ PutBack(got.i).state = i.state
  BY <1>2, PutBackLeaves, UntouchedTwice
<1> QED  BY <1>1, <1>2, <1>3, Nothing

LEMMA SuccessLeaves ==
  ASSUME NEW i, Room(i), NEW c
  PROVE  Untouched(i, Success(i, c))
<1>1. DOMAIN i = Fields  BY DEF Room
<1>2. LET j == Success(i, c)
      IN  /\ DOMAIN j = Fields /\ j.marks = i.marks /\ j.slots = i.slots
          /\ j.backtrack = i.backtrack /\ j.suppress = i.suppress
  BY <1>1 DEF Success, Fields
<1> QED  BY <1>2, Elsewhere

(* A character is taken, or nothing moves.                                 *)
LEMMA TakeLeaves ==
  ASSUME NEW i, Room(i), NEW chars
  PROVE  LET t == Take(i, chars)
         IN  Untouched(i, t.i) /\ (~t.ok => t.i.state = i.state)
<1> DEFINE got == Getc(i)
           t == Take(i, chars)
<1>1. Untouched(i, got.i) /\ got.i.state = i.state
  <2>1. got.i \in {i, Fgetc(i).i}  BY DEF Getc
  <2>. HIDE DEF got
  <2> QED  BY <2>1, FgetcLeaves, Nothing
<1>2. Room(got.i)  BY <1>1 DEF Untouched
<1>3. \/ t.i = got.i
      \/ t.ok /\ t.i = Success(got.i, got.c)
      \/ t.i = Failure(got.i)
  BY DEF Take
<1>. HIDE DEF t, got
<1>4. Untouched(i, Success(got.i, got.c))
  BY <1>1, <1>2, SuccessLeaves, UntouchedTwice
<1>5. Failure(got.i) \in {got.i, PutBack(got.i)}  BY DEF Failure
<1>6. Untouched(i, PutBack(got.i)) /\ PutBack(got.i).state = i.state
  BY <1>1, <1>2, PutBackLeaves, UntouchedTwice
<1> QED  BY <1>1, <1>3, <1>4, <1>5, <1>6 DEF t

------------------------------------------------------------------------------
(* Marks *)

Sets(i, j) ==
  IF i.backtrack < 1 THEN j = i
  ELSE /\ Room(j) /\ j.marks = Append(i.marks, [state |-> i.state, last |-> i.last])
       /\ j.backtrack = i.backtrack /\ j.suppress = i.suppress /\ j.state = i.state

Drops(i, j) ==
  IF i.backtrack < 1 THEN j = i
  ELSE /\ Room(j) /\ j.marks = SubSeq(i.marks, 1, Len(i.marks) - 1)
       /\ j.backtrack = i.backtrack /\ j.suppress = i.suppress

LEMMA MarkSets ==
  ASSUME NEW i, Room(i)
  PROVE  Sets(i, Mark(i))
<1> DEFINE m == [state |-> i.state, last |-> i.last]
           n == Len(i.marks) + 1
           j == Mark(i)
<1>1. CASE i.backtrack < 1  BY <1>1 DEF Mark, Sets
<1>2. CASE ~(i.backtrack < 1)
  <2>1. PICK S : i.marks \in Seq(S)  BY DEF Room
  <2>2. DOMAIN i = Fields /\ i.slots \in Int /\ Len(i.marks) \in Nat  BY <2>1 DEF Room
  <2>3. /\ DOMAIN j = Fields /\ j.marks = Append(i.marks, m)
        /\ j.backtrack = i.backtrack /\ j.suppress = i.suppress /\ j.state = i.state
        /\ j.slots = IF n > i.slots THEN n + n \div 2 ELSE i.slots
    BY <1>2, <2>2 DEF Mark, Fields
  <2>. HIDE DEF j, m
  <2>4. i.marks \in Seq(S \cup {m})  BY <2>1, SeqMonotonic
  <2>5. Append(i.marks, m) \in Seq(S \cup {m}) /\ Len(Append(i.marks, m)) = n  BY <2>4
  <2>6. n \in Nat /\ n \div 2 \in Nat
    <3>1. n \in Nat  BY <2>2
    <3>. HIDE DEF n
    <3> QED  BY <3>1
  <2>7. j.slots \in Int /\ n <= j.slots
    <3>. HIDE DEF n
    <3> QED  BY <2>2, <2>3, <2>6
  <2>. HIDE DEF n
  <2>8. Room(j)  BY <2>3, <2>5, <2>7 DEF Room
  <2> QED  BY <1>2, <2>3, <2>8 DEF Sets, j, m
<1> QED  BY <1>1, <1>2

LEMMA UnmarkDrops ==
  ASSUME NEW i, Room(i), i.backtrack < 1 \/ i.marks # <<>>
  PROVE  Drops(i, Unmark(i)) /\ Unmark(i).state = i.state
<1> DEFINE n == Len(i.marks) - 1
           j == Unmark(i)
<1>1. CASE i.backtrack < 1  BY <1>1 DEF Unmark, Drops
<1>2. CASE ~(i.backtrack < 1)
  <2>1. PICK S : i.marks \in Seq(S)  BY DEF Room
  <2>2. /\ DOMAIN i = Fields /\ i.slots \in Int /\ Len(i.marks) \in Nat \ {0}
        /\ Len(i.marks) <= i.slots
    BY <1>2, <2>1 DEF Room
  <2>3. /\ DOMAIN j = Fields /\ j.marks = SubSeq(i.marks, 1, n)
        /\ j.backtrack = i.backtrack /\ j.suppress = i.suppress /\ j.state = i.state
        /\ \/ j.slots = i.slots
           \/ j.slots = IF n > MarksMin THEN n ELSE MarksMin
    BY <1>2, <2>2 DEF Unmark, Fields
  <2>. HIDE DEF j
  <2>4. SubSeq(i.marks, 1, n) \in Seq(S) /\ Len(SubSeq(i.marks, 1, n)) = n  BY <2>1, <2>2
  <2>5. MarksMin \in Nat \ {0}  BY InputAssumption
  <2>6. j.slots \in Int /\ n <= j.slots  BY <2>2, <2>3, <2>5
  <2>. HIDE DEF n
  <2>7. Room(j)  BY <2>3, <2>4, <2>6 DEF Room
  <2> QED  BY <1>2, <2>3, <2>7 DEF Drops, j, n
<1> QED  BY <1>1, <1>2

LEMMA RewindDrops ==
  ASSUME NEW i, Room(i), i.backtrack < 1 \/ i.marks # <<>>
  PROVE  /\ Drops(i, Rewind(i))
         /\ ~(i.backtrack < 1) => Rewind(i).state = i.marks[Len(i.marks)].state
<1> DEFINE mark == i.marks[Len(i.marks)]
           back == [i EXCEPT !.state = mark.state, !.last = mark.last]
           j == IF i.kind = "file" THEN Seek(back, mark.state.pos) ELSE back
<1>1. CASE i.backtrack < 1  BY <1>1 DEF Rewind, Drops
<1>2. CASE ~(i.backtrack < 1)
  <2>1. DOMAIN i = Fields  BY DEF Room
  <2>2. /\ DOMAIN j = Fields /\ j.marks = i.marks /\ j.backtrack = i.backtrack
        /\ j.suppress = i.suppress /\ j.slots = i.slots /\ j.state = mark.state
    <3>. HIDE DEF mark
    <3> QED  BY <2>1 DEF Seek, Fields
  <2>3. Rewind(i) = Unmark(j)  BY <1>2 DEF Rewind
  <2>. HIDE DEF j
  <2>4. Room(j) /\ j.marks # <<>> /\ ~(j.backtrack < 1)  BY <1>2, <2>2 DEF Room
  <2>5. Drops(j, Unmark(j)) /\ Unmark(j).state = j.state  BY <2>4, UnmarkDrops
  <2>6. Drops(i, Unmark(j))  BY <1>2, <2>2, <2>4, <2>5 DEF Drops
  <2> QED  BY <2>2, <2>3, <2>5, <2>6
<1> QED  BY <1>1, <1>2

(* A mark set and dropped again.                                           *)
LEMMA SetAndDropped ==
  ASSUME NEW i, Room(i), NEW j, Sets(i, j), NEW e, Untouched(j, e),
         NEW f, f \in {Unmark(e), Rewind(e)}
  PROVE  /\ Untouched(i, f)
         /\ ~(i.backtrack < 1) => Rewind(e).state = i.state
<1>1. CASE i.backtrack < 1
  <2>1. Untouched(i, e) /\ e.backtrack < 1  BY <1>1 DEF Sets, Untouched
  <2>2. Unmark(e) = e /\ Rewind(e) = e  BY <2>1 DEF Unmark, Rewind
  <2> QED  BY <1>1, <2>1, <2>2
<1>2. CASE ~(i.backtrack < 1)
  <2> DEFINE m == [state |-> i.state, last |-> i.last]
  <2>1. /\ Room(e) /\ e.marks = Append(i.marks, m) /\ ~(e.backtrack < 1)
        /\ e.backtrack = i.backtrack /\ e.suppress = i.suppress
    BY <1>2 DEF Sets, Untouched
  <2>2. PICK S : i.marks \in Seq(S)  BY DEF Room
  <2>3. m.state = i.state  OBVIOUS
  <2>. HIDE DEF m
  <2>4. i.marks \in Seq(S \cup {m}) /\ m \in S \cup {m}  BY <2>2, SeqMonotonic
  <2>5. /\ SubSeq(e.marks, 1, Len(e.marks) - 1) = i.marks /\ e.marks[Len(e.marks)] = m
        /\ e.marks # <<>>
    BY <2>1, <2>4, Dropped
  <2>6. /\ Drops(e, f) /\ Rewind(e).state = m.state
    BY <2>1, <2>5, UnmarkDrops, RewindDrops
  <2>7. Untouched(i, f)  BY <2>1, <2>5, <2>6 DEF Drops, Untouched
  <2> QED  BY <1>2, <2>3, <2>6, <2>7
<1> QED  BY <1>1, <1>2

LEMMA UptoLeaves ==
  ASSUME NEW a, Room(a.i), NEW word, NEW k \in Nat, NEW g, Upto(g, a, word, k)
  PROVE  \A n \in 0 .. k : Untouched(a.i, g[n].i)
<1> DEFINE Bad == {n \in 0 .. k : ~Untouched(a.i, g[n].i)}
<1>1. SUFFICES ASSUME Bad # {} PROVE FALSE
  OBVIOUS
<1>2. PICK n \in Bad : \A y \in Bad : ~(y < n)
  <2>1. Bad \subseteq Nat  OBVIOUS
  <2>. HIDE DEF Bad
  <2> QED  BY <1>1, <2>1, Least
<1>3. CASE n = 0
  <2>1. g[n] = a  BY <1>2, <1>3 DEF Upto
  <2> QED  BY <1>2, <2>1, Nothing
<1>4. CASE n # 0
  <2>1. n - 1 \in 0 .. k /\ n - 1 < n /\ n \in 0 .. k  BY <1>2, <1>4
  <2>2. Untouched(a.i, g[n - 1].i)  BY <1>2, <2>1
  <2>3. g[n] = IF g[n - 1].ok THEN Take(g[n - 1].i, {word[n]}) ELSE g[n - 1]
    BY <1>4, <2>1 DEF Upto
  <2>4. Room(g[n - 1].i)  BY <2>2 DEF Untouched
  <2>5. Untouched(g[n - 1].i, Take(g[n - 1].i, {word[n]}).i)  BY <2>4, TakeLeaves
  <2>6. Untouched(a.i, Take(g[n - 1].i, {word[n]}).i)  BY <2>2, <2>5, UntouchedTwice
  <2> QED  BY <1>2, <2>2, <2>3, <2>6
<1> QED  BY <1>3, <1>4

(* A word leaves the marks as they were, and is taken or gone back from.   *)
LEMMA WordLeaves ==
  ASSUME NEW i, Room(i), NEW word \in Seq(Char)
  PROVE  LET t == TakeAll(i, word)
         IN  /\ Untouched(i, t.i)
             /\ ~t.ok /\ ~(i.backtrack < 1) => t.i.state = i.state
<1> DEFINE a == [ok |-> TRUE, i |-> Mark(i)]
           g == CHOOSE f : Upto(f, a, word, Len(word))
           e == g[Len(word)].i
           t == TakeAll(i, word)
<1>0. Len(word) \in Nat  OBVIOUS
<1>1. Upto(g, a, word, Len(word))
  <2>. HIDE DEF a
  <2> QED  BY <1>0, UptoIs
<1>2. /\ t.i \in {Unmark(e), Rewind(e)}
      /\ ~t.ok => t.i = Rewind(e)
  BY DEF TakeAll, Upto
<1>3. a.i = Mark(i)  OBVIOUS
<1>. HIDE DEF a, g, t
<1>4. Sets(i, Mark(i)) /\ Room(Mark(i))  BY MarkSets DEF Sets
<1>5. Untouched(Mark(i), e)
  <2>1. \A n \in 0 .. Len(word) : Untouched(a.i, g[n].i)
    BY <1>0, <1>1, <1>3, <1>4, UptoLeaves
  <2> QED  BY <1>0, <1>3, <2>1
<1>. HIDE DEF e
<1>6. /\ Untouched(i, t.i)
      /\ ~(i.backtrack < 1) => Rewind(e).state = i.state
  BY <1>2, <1>4, <1>5, SetAndDropped
<1> QED  BY <1>2, <1>6 DEF t

------------------------------------------------------------------------------
(* Calls and what they own: marks, and what is suppressed and disabled     *)

Suppresses(g, s, n) == {k \in 1 .. n : g[s[k].p].type \in {"expect", "not"}}
Suppressing(g, s, n) == Cardinality(Suppresses(g, s, n))

(* What the input holds is what the first n calls have asked it for.       *)
Owned(i, g, s, n) ==
  /\ i.suppress = Suppressing(g, s, n)
  /\ i.backtrack = 1 - Disabling(g, s, n)
  /\ Len(i.marks) = Marked(g, s, n)
  /\ \A k \in Markers(g, s, n) : i.marks[Marked(g, s, k)].state = s[k].from

(* What a call of this type, begun at `from`, asks for before it calls,    *)
(* and gives back before it returns.                                       *)
Asks(i, j, type, from) ==
  /\ Room(j)
  /\ j.suppress = i.suppress + (IF type \in {"expect", "not"} THEN 1 ELSE 0)
  /\ j.backtrack = i.backtrack - (IF type = "predict" THEN 1 ELSE 0)
  /\ IF type \in {"and", "not"} /\ ~(i.backtrack < 1)
       THEN j.marks = Append(i.marks, [state |-> from, last |-> i.last])
       ELSE j.marks = i.marks
GivesBack(i, j, type) ==
  /\ Room(j)
  /\ j.suppress = i.suppress - (IF type \in {"expect", "not"} THEN 1 ELSE 0)
  /\ j.backtrack = i.backtrack + (IF type = "predict" THEN 1 ELSE 0)
  /\ j.marks = IF type \in {"and", "not"} /\ ~(i.backtrack < 1)
                 THEN SubSeq(i.marks, 1, Len(i.marks) - 1) ELSE i.marks

LEMMA SuppressesMore ==
  ASSUME NEW g, NEW s, NEW n \in Nat
  PROVE  /\ Suppressing(g, s, n) \in Nat
         /\ Suppressing(g, s, n + 1) = Suppressing(g, s, n) +
              (IF g[s[n + 1].p].type \in {"expect", "not"} THEN 1 ELSE 0)
<1> DEFINE type == g[s[n + 1].p].type
           P == Suppresses(g, s, n)
<1>1. IsFiniteSet(P)
  <2>1. P \subseteq 1 .. n  BY DEF Suppresses
  <2> QED  BY <2>1, FS_Interval, FS_Subset
<1>2. n + 1 \notin P  BY DEF Suppresses
<1>3. Suppresses(g, s, n + 1) = IF type \in {"expect", "not"} THEN P \cup {n + 1} ELSE P
  BY DEF Suppresses
<1>. HIDE DEF P, type
<1>4. Cardinality(P \cup {n + 1}) = Cardinality(P) + 1 /\ Cardinality(P) \in Nat
  BY <1>1, <1>2, FS_AddElement, FS_CardinalityType
<1> QED  BY <1>3, <1>4 DEF Suppressing, P, type

(* The mark of a call is one of those there are.                           *)
LEMMA MarkedWithin ==
  ASSUME NEW g, NEW s, NEW n \in Nat, NEW k \in Markers(g, s, n)
  PROVE  /\ k \in 1 .. n
         /\ Marked(g, s, k) \in 1 .. Marked(g, s, n)
<1>1. k \in 1 .. n /\ k \in Nat  BY DEF Markers
<1>2. Markers(g, s, k) \subseteq Markers(g, s, n) /\ k \in Markers(g, s, k)
  BY <1>1 DEF Markers
<1>3. IsFiniteSet(Markers(g, s, n)) /\ IsFiniteSet(Markers(g, s, k))
      /\ Marked(g, s, n) \in Nat /\ Marked(g, s, k) \in Nat
  BY <1>1, CountsTyped
<1>4. Marked(g, s, k) <= Marked(g, s, n)  BY <1>2, <1>3, FS_Subset DEF Marked
<1>5. Marked(g, s, k) # 0  BY <1>2, <1>3, FS_EmptySet DEF Marked
<1> QED  BY <1>1, <1>3, <1>4, <1>5

LEMMA OwnedSame ==
  ASSUME NEW i, NEW g, NEW s, NEW t, NEW n \in Nat, Owned(i, g, s, n),
         \A k \in 1 .. n : t[k].p = s[k].p /\ t[k].from = s[k].from
  PROVE  Owned(i, g, t, n)
<1>1. ASSUME NEW k \in 0 .. n
      PROVE  Predicts(g, t, k) = Predicts(g, s, k)
  BY DEF Predicts
<1>2. ASSUME NEW k \in 0 .. n
      PROVE  Markers(g, t, k) = Markers(g, s, k)
  <2>1. \A l \in 1 .. k : l - 1 \in 0 .. n /\ l \in 1 .. n  OBVIOUS
  <2> QED  BY <1>1, <2>1 DEF Markers
<1>3. Suppresses(g, t, n) = Suppresses(g, s, n)  BY DEF Suppresses
<1>4. n \in 0 .. n /\ \A k \in Markers(g, s, n) : k \in 0 .. n /\ k \in 1 .. n
  BY DEF Markers
<1> QED  BY <1>1, <1>2, <1>3, <1>4 DEF Owned, Suppressing, Disabling, Marked

LEMMA OwnsMore ==
  ASSUME NEW i, Room(i), NEW g, NEW s, NEW n \in Nat, Owned(i, g, s, n),
         NEW j, Asks(i, j, g[s[n + 1].p].type, s[n + 1].from)
  PROVE  Owned(j, g, s, n + 1)
<1> DEFINE type == g[s[n + 1].p].type
           d == Disabling(g, s, n)
           m == Marked(g, s, n)
           marking == type \in {"and", "not"} /\ d = 0
<1>1. d \in Nat /\ m \in Nat  BY CountsTyped
<1>2. /\ Disabling(g, s, n + 1) = IF type = "predict" THEN d + 1 ELSE d
      /\ Marked(g, s, n + 1) = IF marking THEN m + 1 ELSE m
  BY CountsMore
<1>3. Suppressing(g, s, n) \in Nat
      /\ Suppressing(g, s, n + 1) = Suppressing(g, s, n) +
           (IF type \in {"expect", "not"} THEN 1 ELSE 0)
  BY SuppressesMore
<1>4. /\ i.suppress = Suppressing(g, s, n) /\ i.backtrack = 1 - d /\ Len(i.marks) = m
      /\ \A k \in Markers(g, s, n) : i.marks[Marked(g, s, k)].state = s[k].from
  BY DEF Owned
<1>5. ~(i.backtrack < 1) <=> d = 0  BY <1>1, <1>4
<1>6. /\ j.suppress = i.suppress + (IF type \in {"expect", "not"} THEN 1 ELSE 0)
      /\ j.backtrack = i.backtrack - (IF type = "predict" THEN 1 ELSE 0)
      /\ IF marking
           THEN j.marks = Append(i.marks, [state |-> s[n + 1].from, last |-> i.last])
           ELSE j.marks = i.marks
  BY <1>5 DEF Asks
<1>7. Markers(g, s, n + 1) = IF marking THEN Markers(g, s, n) \cup {n + 1} ELSE Markers(g, s, n)
  <2>1. Predicts(g, s, n) = {} <=> d = 0
    BY CountsTyped, FS_EmptySet DEF Disabling
  <2>2. (n + 1) - 1 = n  OBVIOUS
  <2> QED  BY <2>1, <2>2 DEF Markers
<1>8. \A k \in Markers(g, s, n) : Marked(g, s, k) \in 1 .. m  BY MarkedWithin
<1>. HIDE DEF type, d, m
<1>9. j.suppress = Suppressing(g, s, n + 1) /\ j.backtrack = 1 - Disabling(g, s, n + 1)
  BY <1>1, <1>2, <1>3, <1>4, <1>6
<1>10. /\ Len(j.marks) = Marked(g, s, n + 1)
       /\ \A k \in Markers(g, s, n + 1) : j.marks[Marked(g, s, k)].state = s[k].from
  <2>1. CASE ~marking
    BY <1>2, <1>4, <1>6, <1>7, <2>1
  <2>2. CASE marking
    <3>1. j.marks = Append(i.marks, [state |-> s[n + 1].from, last |-> i.last])
      BY <1>6, <2>2
    <3>2. PICK mark : mark = [state |-> s[n + 1].from, last |-> i.last]  OBVIOUS
    <3>3. mark.state = s[n + 1].from  BY <3>2
    <3>4. PICK S : i.marks \in Seq(S)  BY DEF Room
    <3>5. i.marks \in Seq(S \cup {mark}) /\ j.marks = Append(i.marks, mark)
      BY <3>1, <3>2, <3>4, SeqMonotonic
    <3>6. /\ Len(j.marks) = m + 1 /\ j.marks[m + 1] = mark
          /\ \A l \in 1 .. m : j.marks[l] = i.marks[l]
      BY <1>1, <1>4, <3>5
    <3>7. Marked(g, s, n + 1) = m + 1  BY <1>2, <2>2
    <3>8. ASSUME NEW k \in Markers(g, s, n + 1)
          PROVE  j.marks[Marked(g, s, k)].state = s[k].from
      <4>1. CASE k = n + 1
        BY <3>3, <3>6, <3>7, <4>1
      <4>2. CASE k # n + 1
        <5>1. k \in Markers(g, s, n)  BY <1>7, <2>2, <4>2
        <5>2. Marked(g, s, k) \in 1 .. m  BY <1>8, <5>1
        <5> QED  BY <1>4, <3>6, <5>1, <5>2
      <4> QED  BY <4>1, <4>2
    <3> QED  BY <3>6, <3>7, <3>8
  <2> QED  BY <2>1, <2>2
<1> QED  BY <1>9, <1>10 DEF Owned

(* The newest mark is that of the newest call that made one.               *)
LEMMA NewestMark ==
  ASSUME NEW i, Room(i), NEW g, NEW s, NEW n \in Nat, Owned(i, g, s, n + 1),
         g[s[n + 1].p].type \in {"and", "not"}, ~(i.backtrack < 1)
  PROVE  i.marks # <<>> /\ i.marks[Len(i.marks)].state = s[n + 1].from
<1> DEFINE type == g[s[n + 1].p].type
           d == Disabling(g, s, n)
           m == Marked(g, s, n)
<1>1. d \in Nat /\ m \in Nat  BY CountsTyped
<1>2. /\ Disabling(g, s, n + 1) = IF type = "predict" THEN d + 1 ELSE d
      /\ Marked(g, s, n + 1) = IF type \in {"and", "not"} /\ d = 0 THEN m + 1 ELSE m
  BY CountsMore
<1>3. type \in {"and", "not"} /\ i.backtrack = 1 - Disabling(g, s, n + 1)
      /\ Len(i.marks) = Marked(g, s, n + 1)
      /\ \A k \in Markers(g, s, n + 1) : i.marks[Marked(g, s, k)].state = s[k].from
  BY DEF Owned
<1>4. Predicts(g, s, n) = {} <=> d = 0
  BY CountsTyped, FS_EmptySet DEF Disabling
<1>5. n + 1 \in Markers(g, s, n + 1) <=> type \in {"and", "not"} /\ Predicts(g, s, n) = {}
  <2>1. (n + 1) - 1 = n /\ n + 1 \in 1 .. n + 1  OBVIOUS
  <2> QED  BY <2>1 DEF Markers
<1>. HIDE DEF type, d, m
<1>6. d = 0  BY <1>1, <1>2, <1>3
<1>7. Len(i.marks) = m + 1 /\ i.marks[Len(i.marks)].state = s[n + 1].from
  BY <1>2, <1>3, <1>4, <1>5, <1>6
<1>8. Len(i.marks) # 0  BY <1>1, <1>7
<1> QED  BY <1>7, <1>8

LEMMA OwnsLess ==
  ASSUME NEW i, Room(i), NEW g, NEW s, NEW n \in Nat, Owned(i, g, s, n + 1),
         NEW j, GivesBack(i, j, g[s[n + 1].p].type)
  PROVE  Owned(j, g, s, n)
<1> DEFINE type == g[s[n + 1].p].type
           d == Disabling(g, s, n)
           m == Marked(g, s, n)
           marking == type \in {"and", "not"} /\ d = 0
<1>1. d \in Nat /\ m \in Nat  BY CountsTyped
<1>2. /\ Disabling(g, s, n + 1) = IF type = "predict" THEN d + 1 ELSE d
      /\ Marked(g, s, n + 1) = IF marking THEN m + 1 ELSE m
  BY CountsMore
<1>3. Suppressing(g, s, n) \in Nat
      /\ Suppressing(g, s, n + 1) = Suppressing(g, s, n) +
           (IF type \in {"expect", "not"} THEN 1 ELSE 0)
  BY SuppressesMore
<1>4. /\ i.suppress = Suppressing(g, s, n + 1) /\ i.backtrack = 1 - Disabling(g, s, n + 1)
      /\ Len(i.marks) = Marked(g, s, n + 1)
      /\ \A k \in Markers(g, s, n + 1) : i.marks[Marked(g, s, k)].state = s[k].from
  BY DEF Owned
<1>5. /\ j.suppress = i.suppress - (IF type \in {"expect", "not"} THEN 1 ELSE 0)
      /\ j.backtrack = i.backtrack + (IF type = "predict" THEN 1 ELSE 0)
      /\ j.marks = IF type \in {"and", "not"} /\ ~(i.backtrack < 1)
                     THEN SubSeq(i.marks, 1, Len(i.marks) - 1) ELSE i.marks
  BY DEF GivesBack
<1>6. Markers(g, s, n) \subseteq Markers(g, s, n + 1)  BY DEF Markers
<1>7. \A k \in Markers(g, s, n) : Marked(g, s, k) \in 1 .. m  BY MarkedWithin
<1>. HIDE DEF type, d, m
<1>8. type \in {"and", "not"} => (~(i.backtrack < 1) <=> d = 0)  BY <1>1, <1>2, <1>4
<1>9. j.suppress = Suppressing(g, s, n) /\ j.backtrack = 1 - d
  BY <1>1, <1>2, <1>3, <1>4, <1>5
<1>10. /\ Len(j.marks) = m
       /\ \A k \in Markers(g, s, n) : j.marks[Marked(g, s, k)].state = s[k].from
  <2>1. CASE ~marking
    BY <1>2, <1>4, <1>5, <1>6, <1>8, <2>1
  <2>2. CASE marking
    <3>1. PICK S : i.marks \in Seq(S)  BY DEF Room
    <3>2. Len(i.marks) = m + 1 /\ j.marks = SubSeq(i.marks, 1, m)
      <4>1. Len(i.marks) = m + 1 /\ Len(i.marks) - 1 = m  BY <1>1, <1>2, <1>4, <2>2
      <4> QED  BY <1>5, <1>8, <2>2, <4>1
    <3>3. Len(j.marks) = m /\ \A l \in 1 .. m : j.marks[l] = i.marks[l]
      BY <1>1, <3>1, <3>2
    <3> QED  BY <1>4, <1>6, <1>7, <3>3
  <2> QED  BY <2>1, <2>2
<1> QED  BY <1>9, <1>10 DEF Owned, d, m

------------------------------------------------------------------------------
(* The invariant *)

MarksInv ==
  /\ prog \in Grammars
  /\ StackOK(stack)
  /\ Room(input)
  /\ status = "run" => Owned(input, prog, stack, Calling)
  /\ StandsAtStart
  /\ FailuresReturn

(* A failure is back where the call that failed started.                   *)
Restores == ~Has(Straying) /\ ~ret'.ok => input'.state = Top.from

(* A step keeps the invariant, and a return restores.                      *)
Kept == MarksInv' /\ (Len(stack') < Len(stack) => Restores)

(* A call returns, with what it had asked for given back.                  *)
LEMMA ReturnKeeps ==
  ASSUME MarksInv, Running, UNCHANGED <<prog, status>>,
         stack' = Front(stack), ret' # NoReturn, Restores,
         Room(input'), Owned(input', prog, stack, Len(stack) - 1)
  PROVE  Kept
<1> DEFINE n == Len(stack)
<1>1. StackOK(stack) /\ stack # <<>> /\ status = "run" /\ prog \in Grammars /\ FailuresReturn
  BY DEF MarksInv, Running
<1>2. /\ StackOK(stack') /\ n \in Nat \ {0} /\ Len(stack') = n - 1
      /\ \A k \in 1 .. n - 1 : stack'[k] = stack[k]
      /\ Top = stack[n]
  BY <1>1, FrontOK DEF Top
<1>3. NoReturn' = NoReturn  BY DEF NoReturn
<1>4. Calling' = n - 1  BY <1>2, <1>3 DEF Calling
<1>. HIDE DEF n
<1>5. Owned(input', prog, stack', n - 1)
  <2>1. \A k \in 1 .. n - 1 : stack'[k].p = stack[k].p /\ stack'[k].from = stack[k].from
    BY <1>2
  <2>2. n - 1 \in Nat  BY <1>2
  <2>3. Owned(input', prog, stack, n - 1)  BY DEF n
  <2> QED  BY <2>1, <2>2, <2>3, OwnedSame
<1>6. StandsAtStart'  BY <1>3 DEF StandsAtStart
<1>7. FailuresReturn'
  <2>1. SUFFICES ASSUME ~Has(Straying)
                 PROVE  /\ \A k \in 1 .. Len(stack') - 1 :
                             HandsOn(prog', stack'[k]) => stack'[k + 1].from = stack'[k].from
                        /\ ~ret'.ok /\ stack' # <<>> /\ HandsOn(prog', Top') => input'.state = Top'.from
    <3>1. Has(Straying)' <=> Has(Straying)  BY DEF Has, Type, Straying
    <3> QED  BY <3>1 DEF FailuresReturn
  <2>2. \A k \in 1 .. n - 1 : HandsOn(prog, stack[k]) => stack[k + 1].from = stack[k].from
    BY <1>1, <2>1 DEF FailuresReturn, n
  <2>3. \A k \in 1 .. n - 1 : HandsOn(prog', stack'[k]) => HandsOn(prog, stack[k])
    BY <1>2
  <2>4. ASSUME NEW k \in 1 .. Len(stack') - 1, HandsOn(prog', stack'[k])
        PROVE  stack'[k + 1].from = stack'[k].from
    <3>1. k \in 1 .. n - 1 /\ k + 1 \in 1 .. n - 1  BY <1>2
    <3> QED  BY <1>2, <2>2, <2>3, <2>4, <3>1
  <2>5. ASSUME ~ret'.ok, stack' # <<>>, HandsOn(prog', Top')
        PROVE  input'.state = Top'.from
    <3>1. Top' = stack'[Len(stack')] /\ Len(stack') \in Nat \ {0}
      BY <1>2, <2>5, FrontOK DEF Top
    <3>2. n - 1 \in 1 .. n - 1 /\ (n - 1) + 1 = n  BY <1>2, <3>1
    <3>3. Top' = stack[n - 1]  BY <1>2, <3>1, <3>2
    <3>4. HandsOn(prog, stack[n - 1])  BY <2>5, <3>3
    <3>5. stack[n].from = stack[n - 1].from  BY <2>2, <3>2, <3>4
    <3>6. input'.state = Top.from  BY <2>1, <2>5 DEF Restores
    <3> QED  BY <1>2, <3>3, <3>5, <3>6
  <2> QED  BY <2>4, <2>5
<1>8. MarksInv'
  <2>1. Room(input)' /\ StackOK(stack)' /\ prog' \in Grammars  BY <1>1, <1>2
  <2>2. Owned(input', prog', stack', Calling')  BY <1>4, <1>5
  <2> QED  BY <1>6, <1>7, <2>1, <2>2 DEF MarksInv
<1> QED  BY <1>8 DEF Kept

(* The top call calls on, with what it has asked for owned.                *)
LEMMA CallKeeps ==
  ASSUME MarksInv, Running, UNCHANGED prog,
         NEW f, CallOK(f), f.p = Top.p, f.from = Top.from,
         NEW j, j \in 1 .. Len(Kids(f.p)), Descend(f, j),
         ~Has(Straying) /\ HandsOn(prog, f) => input.state = f.from,
         Room(input'), input'.state = input.state, Owned(input', prog, stack, Len(stack))
  PROVE  Kept
<1> DEFINE n == Len(stack)
           h == Fresh(Kids(f.p)[j])
<1>1. StackOK(stack) /\ stack # <<>> /\ status = "run" /\ prog \in Grammars /\ FailuresReturn
  BY DEF MarksInv, Running
<1>2. n \in Nat \ {0} /\ Top = stack[n]  BY <1>1, FrontOK DEF Top
<1>3. CallOK(h) /\ h.from = input.state
  <2>1. Kids(f.p) \in Seq(Node)  BY <1>1, GrammarAssumption DEF Kids, CallOK
  <2>2. Kids(f.p)[j] \in Node  BY <2>1
  <2> QED  BY <2>2 DEF Fresh, CallOK, CallFields
<1>4. Room(input)' /\ prog' \in Grammars  BY <1>1
<1>5. NoReturn' = NoReturn  BY DEF NoReturn
<1>6. CASE n < MaxDepth
  <2>1. stack' = Front(stack) \o <<f, h>> /\ ret' = NoReturn /\ status' = status
    BY <1>6 DEF Descend
  <2>. HIDE DEF h
  <2>2. /\ StackOK(stack') /\ Len(stack') = n + 1 /\ stack'[n] = f /\ stack'[n + 1] = h
        /\ \A k \in 1 .. n - 1 : stack'[k] = stack[k]
    BY <1>1, <1>3, <2>1, CalledOK
  <2>3. Calling' = n  BY <1>2, <1>5, <2>1, <2>2 DEF Calling
  <2>4. Owned(input', prog, stack, n)  BY DEF n
  <2>. HIDE DEF n
  <2>5. Owned(input', prog, stack', n)
    <3>1. ASSUME NEW k \in 1 .. n
          PROVE  stack'[k].p = stack[k].p /\ stack'[k].from = stack[k].from
      <4>1. k = n \/ k \in 1 .. n - 1  BY <1>2
      <4> QED  BY <1>2, <2>2, <4>1
    <3> QED  BY <1>2, <2>4, <3>1, OwnedSame
  <2>6. stack' # <<>> /\ Top' = h
    <3>1. stack' # <<>>  BY <1>2, <2>2, EmptySeq
    <3>2. Top' = stack'[Len(stack')]  BY <2>2, <3>1, FrontOK DEF Top
    <3> QED  BY <2>2, <3>1, <3>2
  <2>7. StandsAtStart'  BY <1>3, <2>6 DEF StandsAtStart
  <2>8. FailuresReturn'
    <3>1. SUFFICES ASSUME ~Has(Straying)
                   PROVE  \A k \in 1 .. Len(stack') - 1 :
                            HandsOn(prog', stack'[k]) => stack'[k + 1].from = stack'[k].from
      <4>1. Has(Straying)' <=> Has(Straying)  BY DEF Has, Type, Straying
      <4> QED  BY <1>5, <2>1, <4>1 DEF FailuresReturn
    <3>2. \A k \in 1 .. n - 1 : HandsOn(prog, stack[k]) => stack[k + 1].from = stack[k].from
      BY <1>1, <3>1 DEF FailuresReturn, n
    <3>3. ASSUME NEW k \in 1 .. Len(stack') - 1, HandsOn(prog', stack'[k])
          PROVE  stack'[k + 1].from = stack'[k].from
      <4>1. k \in 1 .. n /\ (k = n \/ k \in 1 .. n - 1)  BY <1>2, <2>2
      <4>2. HandsOn(prog, stack'[k])  BY <3>3
      <4>3. CASE k = n
        <5>1. HandsOn(prog, f)  BY <2>2, <3>3, <4>2, <4>3
        <5>2. input.state = f.from  BY <3>1, <5>1
        <5> QED  BY <1>3, <2>2, <4>3, <5>2
      <4>4. CASE k \in 1 .. n - 1
        <5>1. stack'[k] = stack[k] /\ stack'[k + 1].from = stack[k + 1].from
          <6>1. k + 1 \in 1 .. n - 1 \/ k + 1 = n  BY <1>2, <4>4
          <6> QED  BY <1>2, <2>2, <4>4, <6>1
        <5> QED  BY <3>2, <3>3, <4>2, <4>4, <5>1
      <4> QED  BY <4>1, <4>3, <4>4
    <3> QED  BY <3>3
  <2>9. MarksInv'
    <3>1. Owned(input', prog', stack', Calling')  BY <2>3, <2>5
    <3> QED  BY <1>4, <2>2, <2>7, <2>8, <3>1 DEF MarksInv
  <2>10. ~(Len(stack') < Len(stack))  BY <1>2, <2>2 DEF n
  <2> QED  BY <2>9, <2>10 DEF Kept
<1>7. CASE ~(n < MaxDepth)
  <2>1. stack' = stack /\ status' = "overflow"  BY <1>7 DEF Descend
  <2>2. MarksInv'  BY <1>1, <1>4, <2>1 DEF MarksInv, StandsAtStart, FailuresReturn
  <2>3. ~(Len(stack') < Len(stack))  BY <1>2, <2>1
  <2> QED  BY <2>2, <2>3 DEF Kept
<1> QED  BY <1>6, <1>7

(* A step that ends the run.                                               *)
LEMMA EndKeeps ==
  ASSUME MarksInv, UNCHANGED <<prog, input, stack>>, status' # "run"
  PROVE  Kept
<1>1. MarksInv'  BY DEF MarksInv, StandsAtStart, FailuresReturn
<1>2. Len(stack) \in Nat
  <2>1. PICK S : stack \in Seq(S)  BY DEF MarksInv, StackOK
  <2> QED  BY <2>1
<1>3. ~(Len(stack') < Len(stack))  BY <1>2
<1> QED  BY <1>1, <1>3 DEF Kept

------------------------------------------------------------------------------
(* The kinds of steps *)

LEMMA TopIs ==
  ASSUME MarksInv, Running
  PROVE  /\ CallOK(Top) /\ Kids(Top.p) \in Seq(Node)
         /\ Type(Top.p) \in Unary => 1 \in 1 .. Len(Kids(Top.p))
         /\ Type(Top.p) = "word" => Arg(Top.p) \in Seq(Char)
         /\ Len(stack) - 1 \in Nat /\ (Len(stack) - 1) + 1 = Len(stack)
         /\ Top = stack[Len(stack)] /\ Type(Top.p) = prog[stack[Len(stack)].p].type
<1>1. CallOK(Top) /\ prog \in Grammars /\ Len(stack) \in Nat \ {0} /\ Top = stack[Len(stack)]
  BY FrontOK DEF MarksInv, Running, Top
<1>2. /\ Kids(Top.p) \in Seq(Node)
      /\ Type(Top.p) \in Unary => Kids(Top.p) # <<>>
      /\ Type(Top.p) = "word" => Arg(Top.p) \in Seq(Char)
  BY <1>1, GrammarAssumption DEF CallOK, Kids, Type, Arg
<1>3. Kids(Top.p) # <<>> => Len(Kids(Top.p)) \in Nat \ {0}  BY <1>2, EmptySeq
<1>4. Type(Top.p) = prog[stack[Len(stack)].p].type  BY <1>1 DEF Type
<1> QED  BY <1>1, <1>2, <1>3, <1>4

(* Without a predict nothing is disabled.                                  *)
LEMMA NothingDisabled ==
  ASSUME MarksInv, Running, ~Has(Straying)
  PROVE  ~(input.backtrack < 1)
<1>1. StackOK(stack) /\ status = "run" /\ Owned(input, prog, stack, Calling)
  BY DEF MarksInv, Running
<1>2. \A k \in 1 .. Len(stack) : stack[k].p \in Node  BY <1>1 DEF StackOK, CallOK
<1>3. \A n \in Node : prog[n].type # "predict"  BY DEF Has, Straying, Type
<1>4. Len(stack) - 1 \in Nat /\ Calling \in {Len(stack) - 1, Len(stack)}
  BY TopIs DEF Calling
<1>5. Predicts(prog, stack, Calling) = {}
  <2>1. \A k \in 1 .. Calling : k \in 1 .. Len(stack)  BY <1>4
  <2> QED  BY <1>2, <1>3, <2>1 DEF Predicts
<1>6. Disabling(prog, stack, Calling) = 0  BY <1>5, FS_EmptySet DEF Disabling
<1> QED  BY <1>1, <1>6 DEF Owned

(* A call that returns without having called.                              *)
LEMMA AtOnceKeeps ==
  ASSUME MarksInv, Running, ret = NoReturn, UNCHANGED <<prog, status>>,
         stack' = Front(stack), ret' # NoReturn, Untouched(input, input'),
         ~ret'.ok /\ ~(input.backtrack < 1) => input'.state = input.state
  PROVE  Kept
<1>1. Owned(input, prog, stack, Len(stack) - 1) /\ input.state = Top.from
  BY DEF MarksInv, Running, Calling, StandsAtStart
<1>2. Owned(input', prog, stack, Len(stack) - 1) /\ Room(input')
  BY <1>1 DEF Owned, Untouched
<1>3. Restores  BY <1>1, NothingDisabled DEF Restores
<1> QED  BY <1>2, <1>3, ReturnKeeps

(* A call's first call.                                                    *)
LEMMA FirstKeeps ==
  ASSUME MarksInv, Running, ret = NoReturn, UNCHANGED prog,
         NEW f, CallOK(f), f.p = Top.p, f.from = Top.from,
         NEW j, j \in 1 .. Len(Kids(f.p)), Descend(f, j),
         Asks(input, input', Type(Top.p), input.state), input'.state = input.state
  PROVE  Kept
<1>1. Owned(input, prog, stack, Len(stack) - 1) /\ input.state = Top.from /\ Room(input)
  BY DEF MarksInv, Running, Calling, StandsAtStart
<1>2. /\ Len(stack) - 1 \in Nat /\ (Len(stack) - 1) + 1 = Len(stack)
      /\ Top = stack[Len(stack)] /\ Type(Top.p) = prog[stack[Len(stack)].p].type
  BY TopIs
<1> DEFINE n == Len(stack) - 1
<1>3. n \in Nat /\ n + 1 = Len(stack)  BY <1>2
<1>4. Owned(input, prog, stack, n)  BY <1>1
<1>. HIDE DEF n
<1>5. Asks(input, input', prog[stack[n + 1].p].type, stack[n + 1].from)
  BY <1>1, <1>2, <1>3
<1>6. Owned(input', prog, stack, n + 1)  BY <1>1, <1>3, <1>4, <1>5, OwnsMore
<1>7. Room(input')  BY DEF Asks
<1>8. Owned(input', prog, stack, Len(stack))  BY <1>3, <1>6
<1> QED  BY <1>1, <1>7, <1>8, CallKeeps

(* A call that returns after another has returned to it.                   *)
LEMMA AfterKeeps ==
  ASSUME MarksInv, Running, ret # NoReturn, UNCHANGED <<prog, status>>,
         stack' = Front(stack), ret' # NoReturn, Restores,
         GivesBack(input, input', Type(Top.p))
  PROVE  Kept
<1>1. Owned(input, prog, stack, Len(stack)) /\ Room(input)
  BY DEF MarksInv, Running, Calling
<1>2. /\ Len(stack) - 1 \in Nat /\ (Len(stack) - 1) + 1 = Len(stack)
      /\ Type(Top.p) = prog[stack[Len(stack)].p].type
  BY TopIs
<1> DEFINE n == Len(stack) - 1
<1>3. n \in Nat /\ n + 1 = Len(stack)  BY <1>2
<1>. HIDE DEF n
<1>4. Owned(input, prog, stack, n + 1) /\ GivesBack(input, input', prog[stack[n + 1].p].type)
  BY <1>1, <1>2, <1>3
<1>5. Owned(input', prog, stack, n)  BY <1>1, <1>3, <1>4, OwnsLess
<1>6. Room(input')  BY DEF GivesBack
<1>7. Owned(input', prog, stack, Len(stack) - 1)  BY <1>5 DEF n
<1> QED  BY <1>6, <1>7, ReturnKeeps

(* A call's next call.                                                     *)
LEMMA AgainKeeps ==
  ASSUME MarksInv, Running, ret # NoReturn, UNCHANGED <<prog, input>>,
         NEW f, CallOK(f), f.p = Top.p, f.from = Top.from,
         NEW j, j \in 1 .. Len(Kids(f.p)), Descend(f, j),
         ~Has(Straying) /\ HandsOn(prog, f) => input.state = f.from
  PROVE  Kept
<1>1. Owned(input, prog, stack, Len(stack)) /\ Room(input)
  BY DEF MarksInv, Running, Calling
<1>2. Owned(input', prog, stack, Len(stack)) /\ Room(input') /\ input'.state = input.state
  BY <1>1
<1> QED  BY <1>2, CallKeeps

(* What a call that asks for nothing, or gives nothing back, does.         *)
LEMMA AsksNothing ==
  ASSUME NEW i, NEW j, Room(j), Untouched(i, j), i.suppress \in Int, i.backtrack \in Int,
         NEW type, type \notin {"expect", "not", "and", "predict"}, NEW from
  PROVE  Asks(i, j, type, from) /\ GivesBack(i, j, type)
BY DEF Untouched, Asks, GivesBack

LEMMA InputTyped ==
  ASSUME MarksInv, Running
  PROVE  Room(input) /\ input.suppress \in Int /\ input.backtrack \in Int
<1>1. Room(input) /\ Owned(input, prog, stack, Calling)  BY DEF MarksInv, Running
<1>2. Calling \in Nat  BY TopIs DEF Calling
<1>3. Disabling(prog, stack, Calling) \in Nat /\ Suppressing(prog, stack, Calling) \in Nat
  BY <1>2, CountsTyped, SuppressesMore
<1> QED  BY <1>1, <1>3 DEF Owned

------------------------------------------------------------------------------
(* The steps *)

LEMMA SucceedWell ==
  ASSUME NEW out, Succeed(out)
  PROVE  stack' = Front(stack) /\ ret' # NoReturn /\ ret'.ok
BY ReturnsSomething DEF Succeed

LEMMA LeafKeeps ==
  ASSUME MarksInv, Chars \/ Word \/ AnchorHere \/ Pass \/ LiftVal \/ Lift \/ StateCopy \/ Failing
                   \/ OfNone
  PROVE  Kept
<1>1. /\ Running /\ ret = NoReturn /\ UNCHANGED <<prog, status>>
      /\ \E x : Succeed(x) \/ Fail(x)
  BY DEF Chars, Word, AnchorHere, Pass, LiftVal, Lift, StateCopy, Failing, OfNone, Starts, FailWith
<1>2. stack' = Front(stack) /\ ret' # NoReturn  BY <1>1, SucceedReturns, FailReturns
<1>3. Room(input)  BY DEF MarksInv
<1>4. /\ Untouched(input, input')
      /\ ~ret'.ok /\ ~(input.backtrack < 1) => input'.state = input.state
  <2>1. CASE Chars
    <3>1. PICK t : t = Take(input, Arg(Top.p))  OBVIOUS
    <3>2. input' = t.i /\ (t.ok => \E x : Succeed(x))  BY <2>1, <3>1 DEF Chars
    <3>3. Untouched(input, t.i) /\ (~t.ok => t.i.state = input.state)
      BY <1>3, <3>1, TakeLeaves
    <3> QED  BY <3>2, <3>3, SucceedWell
  <2>2. CASE Word
    <3>1. PICK t : t = TakeAll(input, Arg(Top.p))  OBVIOUS
    <3>2. input' = t.i /\ (t.ok => \E x : Succeed(x)) /\ Type(Top.p) = "word"
      BY <2>2, <3>1 DEF Word, Starts
    <3>3. Arg(Top.p) \in Seq(Char)  BY <1>1, <3>2, TopIs
    <3>4. Untouched(input, t.i) /\ (~t.ok /\ ~(input.backtrack < 1) => t.i.state = input.state)
      BY <1>3, <3>1, <3>3, WordLeaves
    <3> QED  BY <3>2, <3>4, SucceedWell
  <2>3. CASE AnchorHere
    <3>1. input' = Peekc(input).i  BY <2>3 DEF AnchorHere, Anchor
    <3> QED  BY <1>3, <3>1, PeekLeaves
  <2>4. CASE Pass \/ LiftVal \/ Lift \/ StateCopy \/ Failing \/ OfNone
    <3>1. input' = input  BY <2>4 DEF Pass, LiftVal, Lift, StateCopy, Failing, OfNone
    <3> QED  BY <1>3, <3>1, Nothing
  <2> QED  BY <2>1, <2>2, <2>3, <2>4
<1> QED  BY <1>1, <1>2, <1>4, AtOnceKeeps

LEMMA WithArrayFrom ==
  ASSUME NEW f, CallOK(f), NEW s, NEW n
  PROVE  WithArray(s, f, n).f.from = f.from /\ WithArray(s, f, n).f.j = f.j
BY DEF WithArray, CallOK, CallFields

(* Suppressing, disabling and marking, as a call asks for them.            *)
LEMMA AsksFor ==
  ASSUME NEW i, Room(i), i.suppress \in Int, i.backtrack \in Int
  PROVE  /\ Asks(i, Suppress(i), "expect", i.state) /\ Suppress(i).state = i.state
         /\ Asks(i, Disable(i), "predict", i.state) /\ Disable(i).state = i.state
         /\ Asks(i, Suppress(Mark(i)), "not", i.state) /\ Suppress(Mark(i)).state = i.state
         /\ Asks(i, Mark(i), "and", i.state) /\ Mark(i).state = i.state
<1>1. DOMAIN i = Fields  BY DEF Room
<1>2. ASSUME NEW j, Room(j)
      PROVE  LET k == Suppress(j)
             IN  /\ Room(k) /\ k.marks = j.marks /\ k.backtrack = j.backtrack
                 /\ k.suppress = j.suppress + 1 /\ k.state = j.state
  <2>1. DOMAIN j = Fields  BY <1>2 DEF Room
  <2>2. LET k == Suppress(j)
        IN  /\ DOMAIN k = Fields /\ k.marks = j.marks /\ k.backtrack = j.backtrack
            /\ k.suppress = j.suppress + 1 /\ k.state = j.state /\ k.slots = j.slots
    BY <2>1 DEF Suppress, Fields
  <2> QED  BY <1>2, <2>2 DEF Room
<1>3. LET k == Disable(i)
      IN  /\ DOMAIN k = Fields /\ k.marks = i.marks /\ k.backtrack = i.backtrack - 1
          /\ k.suppress = i.suppress /\ k.state = i.state /\ k.slots = i.slots
  BY <1>1 DEF Disable, Fields
<1>4. Room(Disable(i))  BY <1>3 DEF Room
<1>5. Sets(i, Mark(i)) /\ Room(Mark(i)) /\ Mark(i).state = i.state
      /\ Mark(i).suppress = i.suppress /\ Mark(i).backtrack = i.backtrack
  BY MarkSets DEF Sets
<1>6. PICK more : more = Append(i.marks, [state |-> i.state, last |-> i.last])  OBVIOUS
<1>7. Mark(i).marks = IF ~(i.backtrack < 1) THEN more ELSE i.marks
  BY <1>5, <1>6 DEF Sets
<1>8. ASSUME NEW j, NEW type
       PROVE  Asks(i, j, type, i.state) <=>
                /\ Room(j)
                /\ j.suppress = i.suppress + (IF type \in {"expect", "not"} THEN 1 ELSE 0)
                /\ j.backtrack = i.backtrack - (IF type = "predict" THEN 1 ELSE 0)
                /\ j.marks = IF type \in {"and", "not"} /\ ~(i.backtrack < 1) THEN more ELSE i.marks
  BY <1>6 DEF Asks
<1>9. Asks(i, Suppress(i), "expect", i.state) /\ Suppress(i).state = i.state
  BY <1>2, <1>8
<1>10. Asks(i, Disable(i), "predict", i.state) /\ Disable(i).state = i.state
  BY <1>3, <1>4, <1>8
<1>11. Asks(i, Mark(i), "and", i.state)
  BY <1>5, <1>7, <1>8
<1>12. Asks(i, Suppress(Mark(i)), "not", i.state) /\ Suppress(Mark(i)).state = i.state
  <2>1. PICK m : m = Mark(i)  OBVIOUS
  <2>2. /\ Room(Suppress(m)) /\ Suppress(m).marks = m.marks
        /\ Suppress(m).backtrack = m.backtrack /\ Suppress(m).suppress = m.suppress + 1
        /\ Suppress(m).state = m.state
    BY <1>2, <1>5, <2>1
  <2>3. Asks(i, Suppress(m), "not", i.state)
    BY <1>5, <1>7, <1>8, <2>1, <2>2
  <2> QED  BY <1>5, <2>1, <2>2, <2>3
<1> QED  BY <1>5, <1>9, <1>10, <1>11, <1>12

LEMMA EnterKeeps ==
  ASSUME MarksInv, Enter \/ EnterExpect \/ EnterPredict \/ EnterNot \/ EnterCount \/ EnterSeveral
  PROVE  Kept
<1>1. Running /\ ret = NoReturn /\ UNCHANGED prog
  BY DEF Enter, EnterExpect, EnterPredict, EnterNot, EnterCount, EnterSeveral, Starts
<1>2. CallOK(Top) /\ Kids(Top.p) \in Seq(Node)
      /\ (Type(Top.p) \in Unary => 1 \in 1 .. Len(Kids(Top.p)))
  BY <1>1, TopIs
<1>3. Room(input) /\ input.suppress \in Int /\ input.backtrack \in Int
  BY <1>1, InputTyped
<1>4. /\ Asks(input, Suppress(input), "expect", input.state)
      /\ Asks(input, Disable(input), "predict", input.state)
      /\ Asks(input, Suppress(Mark(input)), "not", input.state)
      /\ Asks(input, Mark(input), "and", input.state)
      /\ Suppress(input).state = input.state /\ Disable(input).state = input.state
      /\ Suppress(Mark(input)).state = input.state /\ Mark(input).state = input.state
  BY <1>3, AsksFor
<1>5. \A type : type \notin {"expect", "not", "and", "predict"} =>
        Asks(input, input, type, input.state)
  BY <1>3, Nothing, AsksNothing
<1>6. CASE Enter \/ EnterExpect \/ EnterPredict \/ EnterNot
  <2>1. /\ Type(Top.p) \in Unary /\ Descend(Top, 1)
        /\ \/ Type(Top.p) \notin {"expect", "not", "and", "predict"} /\ input' = input
           \/ Type(Top.p) = "expect" /\ input' = Suppress(input)
           \/ Type(Top.p) = "predict" /\ input' = Disable(input)
           \/ Type(Top.p) = "not" /\ input' = Suppress(Mark(input))
    BY <1>6 DEF Enter, EnterExpect, EnterPredict, EnterNot, Starts, Unary
  <2>2. Asks(input, input', Type(Top.p), input.state) /\ input'.state = input.state
    BY <1>4, <1>5, <2>1
  <2> QED  BY <1>1, <1>2, <2>1, <2>2, FirstKeeps
<1>7. CASE EnterCount
  <2> DEFINE f == WithArray(store, Top, Arg(Top.p).n).f
  <2>1. /\ Type(Top.p) \in Unary /\ Type(Top.p) \notin {"expect", "not", "and", "predict"}
        /\ Descend(f, 1) /\ UNCHANGED input
    BY <1>7 DEF EnterCount, Starts, Unary
  <2>2. CallOK(f) /\ f.p = Top.p /\ f.from = Top.from  BY <1>2, WithArrayOK, WithArrayFrom
  <2>3. Asks(input, input', Type(Top.p), input.state) /\ input'.state = input.state
    BY <1>5, <2>1
  <2>. HIDE DEF f
  <2> QED  BY <1>1, <1>2, <2>1, <2>2, <2>3, FirstKeeps
<1>8. CASE EnterSeveral
  <2> DEFINE f == WithArray(store, Top, Len(Kids(Top.p))).f
  <2>1. /\ Type(Top.p) \in {"or", "and"} /\ Kids(Top.p) # <<>>
        /\ Descend(f, 1)
        /\ input' = IF Type(Top.p) = "and" THEN Mark(input) ELSE input
    BY <1>8 DEF EnterSeveral, Starts
  <2>2. CallOK(f) /\ f.p = Top.p /\ f.from = Top.from  BY <1>2, WithArrayOK, WithArrayFrom
  <2>3. 1 \in 1 .. Len(Kids(f.p))  BY <1>2, <2>1, <2>2, EmptySeq
  <2>4. Asks(input, input', Type(Top.p), input.state) /\ input'.state = input.state
    BY <1>4, <1>5, <2>1
  <2>. HIDE DEF f
  <2> QED  BY <1>1, <2>1, <2>2, <2>3, <2>4, FirstKeeps
<1> QED  BY <1>6, <1>7, <1>8

(* What calls give back.                                                   *)
LEMMA BackFor ==
  ASSUME NEW i, Room(i), i.suppress \in Int, i.backtrack \in Int
  PROVE  /\ GivesBack(i, Unsuppress(i), "expect") /\ Unsuppress(i).state = i.state
         /\ GivesBack(i, Enable(i), "predict")
         /\ \A j : Drops(i, j) =>
              /\ GivesBack(i, j, "and")
              /\ GivesBack(i, Unsuppress(j), "not") /\ Unsuppress(j).state = j.state
<1>1. ASSUME NEW j, Room(j)
      PROVE  LET k == Unsuppress(j)
             IN  /\ Room(k) /\ k.marks = j.marks /\ k.backtrack = j.backtrack
                 /\ k.suppress = j.suppress - 1 /\ k.state = j.state
  <2>1. DOMAIN j = Fields  BY <1>1 DEF Room
  <2>2. LET k == Unsuppress(j)
        IN  /\ DOMAIN k = Fields /\ k.marks = j.marks /\ k.backtrack = j.backtrack
            /\ k.suppress = j.suppress - 1 /\ k.state = j.state /\ k.slots = j.slots
    BY <2>1 DEF Unsuppress, Fields
  <2> QED  BY <1>1, <2>2 DEF Room
<1>2. LET k == Enable(i)
      IN  /\ DOMAIN k = Fields /\ k.marks = i.marks /\ k.backtrack = i.backtrack + 1
          /\ k.suppress = i.suppress /\ k.slots = i.slots
  BY DEF Enable, Fields, Room
<1>3. Room(Enable(i))  BY <1>2 DEF Room
<1>4. PICK less : less = SubSeq(i.marks, 1, Len(i.marks) - 1)  OBVIOUS
<1>5. ASSUME NEW j, NEW type
      PROVE  GivesBack(i, j, type) <=>
               /\ Room(j)
               /\ j.suppress = i.suppress - (IF type \in {"expect", "not"} THEN 1 ELSE 0)
               /\ j.backtrack = i.backtrack + (IF type = "predict" THEN 1 ELSE 0)
               /\ j.marks = IF type \in {"and", "not"} /\ ~(i.backtrack < 1) THEN less ELSE i.marks
  BY <1>4 DEF GivesBack
<1>6. GivesBack(i, Unsuppress(i), "expect") /\ Unsuppress(i).state = i.state
  BY <1>1, <1>5
<1>7. GivesBack(i, Enable(i), "predict")
  BY <1>2, <1>3, <1>5
<1>8. ASSUME NEW j, Drops(i, j)
      PROVE  /\ GivesBack(i, j, "and")
             /\ GivesBack(i, Unsuppress(j), "not") /\ Unsuppress(j).state = j.state
  <2>1. /\ Room(j) /\ j.backtrack = i.backtrack /\ j.suppress = i.suppress
        /\ j.marks = IF ~(i.backtrack < 1) THEN less ELSE i.marks
    BY <1>4, <1>8 DEF Drops
  <2>2. /\ Room(Unsuppress(j)) /\ Unsuppress(j).marks = j.marks
        /\ Unsuppress(j).backtrack = j.backtrack /\ Unsuppress(j).suppress = j.suppress - 1
        /\ Unsuppress(j).state = j.state
    BY <1>1, <2>1
  <2> QED  BY <1>5, <2>1, <2>2
<1> QED  BY <1>6, <1>7, <1>8

(* Looking at the next character gives nothing back.                       *)
LEMMA BackTwice ==
  ASSUME NEW i, NEW j, NEW type, GivesBack(i, j, type), NEW k, k \in {j, Peekc(j).i}
  PROVE  GivesBack(i, k, type) /\ k.state = j.state
<1>1. Untouched(j, k) /\ k.state = j.state  BY PeekLeaves, Nothing DEF GivesBack
<1> QED  BY <1>1 DEF GivesBack, Untouched

(* The failure of a call handed on.                                        *)
LEMMA HandedOn ==
  ASSUME MarksInv, Running, ret # NoReturn, ~ret.ok, HandsOn(prog, Top), input'.state = input.state
  PROVE  Restores
BY DEF MarksInv, Running, FailuresReturn, Restores

(* A sequence or negation drops its own mark.                              *)
LEMMA OwnMark ==
  ASSUME MarksInv, Running, ret # NoReturn, Type(Top.p) \in {"and", "not"}
  PROVE  /\ Drops(input, Unmark(input)) /\ Drops(input, Rewind(input))
         /\ ~Has(Straying) => Rewind(input).state = Top.from
<1>1. Owned(input, prog, stack, Len(stack)) /\ Room(input)
  BY DEF MarksInv, Running, Calling
<1>2. /\ Len(stack) - 1 \in Nat /\ (Len(stack) - 1) + 1 = Len(stack)
      /\ Top = stack[Len(stack)] /\ Type(Top.p) = prog[stack[Len(stack)].p].type
  BY TopIs
<1> DEFINE n == Len(stack) - 1
<1>3. n \in Nat /\ n + 1 = Len(stack)  BY <1>2
<1>. HIDE DEF n
<1>4. Owned(input, prog, stack, n + 1) /\ prog[stack[n + 1].p].type \in {"and", "not"}
      /\ Top = stack[n + 1]
  BY <1>1, <1>2, <1>3
<1>5. ~(input.backtrack < 1) =>
        input.marks # <<>> /\ input.marks[Len(input.marks)].state = Top.from
  BY <1>1, <1>3, <1>4, NewestMark
<1>6. /\ Drops(input, Unmark(input)) /\ Drops(input, Rewind(input))
      /\ ~(input.backtrack < 1) => Rewind(input).state = input.marks[Len(input.marks)].state
  BY <1>1, <1>5, UnmarkDrops, RewindDrops
<1> QED  BY <1>5, <1>6, NothingDisabled

LEMMA UnaryKeeps ==
  ASSUME MarksInv, Apply \/ Check \/ Expect \/ Predict \/ Not \/ Maybe \/ ManyEnd \/ CountEnd
  PROVE  Kept
<1>1. /\ Running /\ ret # NoReturn /\ UNCHANGED <<prog, status>>
      /\ \E x : Succeed(x) \/ Fail(x)
  BY DEF Apply, Check, Expect, Predict, Not, Maybe, ManyEnd, CountEnd, Resumes, FailWith
<1>2. stack' = Front(stack) /\ ret' # NoReturn  BY <1>1, SucceedReturns, FailReturns
<1>3. Room(input) /\ input.suppress \in Int /\ input.backtrack \in Int
  BY <1>1, InputTyped
<1>4. /\ GivesBack(input, Unsuppress(input), "expect") /\ Unsuppress(input).state = input.state
      /\ GivesBack(input, Enable(input), "predict")
      /\ \A j : Drops(input, j) =>
           /\ GivesBack(input, j, "and")
           /\ GivesBack(input, Unsuppress(j), "not") /\ Unsuppress(j).state = j.state
  BY <1>3, BackFor
<1>5. Type(Top.p) \in Straying => Restores
  <2>1. Top.p \in Node  BY <1>1, TopIs DEF CallOK
  <2> QED  BY <2>1 DEF Has, Restores
<1>6. \A out : Succeed(out) => Restores  BY SucceedWell DEF Restores
<1>7. CASE Apply \/ Check \/ Maybe \/ ManyEnd \/ CountEnd
  <2>1. /\ Type(Top.p) \notin {"expect", "not", "and", "predict"} /\ UNCHANGED input
        /\ \/ \E x : Succeed(x)
           \/ Type(Top.p) \in Straying
           \/ ~ret.ok /\ HandsOn(prog, Top)
    BY <1>7 DEF Apply, Check, Maybe, ManyEnd, CountEnd, Resumes, Straying, HandsOn, Type
  <2>2. GivesBack(input, input', Type(Top.p))  BY <1>3, <2>1, Nothing, AsksNothing
  <2>3. Restores  BY <1>1, <1>5, <1>6, <2>1, HandedOn
  <2> QED  BY <1>1, <1>2, <2>2, <2>3, AfterKeeps
<1>8. CASE Expect
  <2> DEFINE i == Unsuppress(input)
  <2>1. /\ Type(Top.p) = "expect" /\ input' \in {i, Peekc(i).i}
        /\ \/ \E x : Succeed(x)
           \/ ~ret.ok /\ HandsOn(prog, Top)
    BY <1>8 DEF Expect, Resumes, HandsOn, Type
  <2>. HIDE DEF i
  <2>2. GivesBack(input, i, "expect") /\ i.state = input.state  BY <1>4 DEF i
  <2>3. GivesBack(input, input', Type(Top.p)) /\ input'.state = input.state
    BY <2>1, <2>2, BackTwice
  <2>4. Restores  BY <1>1, <1>6, <2>1, <2>3, HandedOn
  <2> QED  BY <1>1, <1>2, <2>3, <2>4, AfterKeeps
<1>9. CASE Predict
  <2>1. Type(Top.p) = "predict" /\ input' = Enable(input)
    BY <1>9 DEF Predict, Resumes
  <2>2. GivesBack(input, input', Type(Top.p)) /\ Restores  BY <1>4, <1>5, <2>1 DEF Straying
  <2> QED  BY <1>1, <1>2, <2>2, AfterKeeps
<1>10. CASE Not
  <2>1. /\ Type(Top.p) = "not"
        /\ \/ input' = Unsuppress(Unmark(input)) /\ \E x : Succeed(x)
           \/ input' \in {Unsuppress(Rewind(input)), Peekc(Unsuppress(Rewind(input))).i}
    BY <1>10 DEF Not, Resumes
  <2>2. /\ Drops(input, Unmark(input)) /\ Drops(input, Rewind(input))
        /\ ~Has(Straying) => Rewind(input).state = Top.from
    BY <1>1, <2>1, OwnMark
  <2>3. CASE input' = Unsuppress(Unmark(input)) /\ \E x : Succeed(x)
    <3>1. GivesBack(input, input', Type(Top.p)) /\ Restores
      BY <1>4, <1>6, <2>1, <2>2, <2>3
    <3> QED  BY <1>1, <1>2, <3>1, AfterKeeps
  <2>4. CASE input' \in {Unsuppress(Rewind(input)), Peekc(Unsuppress(Rewind(input))).i}
    <3> DEFINE i == Unsuppress(Rewind(input))
    <3>1. GivesBack(input, i, "not") /\ (~Has(Straying) => i.state = Top.from)
      BY <1>4, <2>2
    <3>2. input' \in {i, Peekc(i).i}  BY <2>4
    <3>. HIDE DEF i
    <3>3. GivesBack(input, input', Type(Top.p)) /\ input'.state = i.state
      BY <2>1, <3>1, <3>2, BackTwice
    <3>4. Restores  BY <3>1, <3>3 DEF Restores
    <3> QED  BY <1>1, <1>2, <3>3, <3>4, AfterKeeps
  <2> QED  BY <2>1, <2>3, <2>4
<1> QED  BY <1>7, <1>8, <1>9, <1>10

(* A repetition, a choice or a sequence goes on or returns.                *)
LEMMA RepeatKeeps ==
  ASSUME MarksInv, ManyMore \/ CountMore
  PROVE  Kept
<1>1. Running /\ ret # NoReturn /\ UNCHANGED <<prog, input>>
  BY DEF ManyMore, CountMore, Resumes
<1>2. CallOK(Top) /\ Top.j \in Nat /\ Top.p \in Node
      /\ (Type(Top.p) \in Unary => 1 \in 1 .. Len(Kids(Top.p)))
  BY <1>1, TopIs DEF CallOK
<1>3. Room(input) /\ input.suppress \in Int /\ input.backtrack \in Int
  BY <1>1, InputTyped
<1> DEFINE kept == [Top EXCEPT !.j = Top.j + 1, !.outs = Append(@, ret.out)]
<1>4. /\ CallOK(kept) /\ kept.p = Top.p /\ kept.from = Top.from /\ kept.j = Top.j + 1
      /\ \A a : LET f == [kept EXCEPT !.array = a]
                IN  CallOK(f) /\ f.p = Top.p /\ f.from = Top.from /\ f.j = Top.j + 1
  BY <1>2 DEF CallOK, CallFields
<1>5. CASE ManyMore
  <2>1. /\ Type(Top.p) \in Unary /\ Type(Top.p) \in {"many", "many1"}
        /\ \/ status' = "exhausted" /\ UNCHANGED stack
           \/ \E a : Descend([kept EXCEPT !.array = a], 1)
           \/ Descend(kept, 1)
    <3>1. Type(Top.p) \in {"many", "many1"}  BY <1>5 DEF ManyMore, Resumes
    <3>2. \/ status' = "exhausted" /\ UNCHANGED stack
          \/ \E a : Descend([kept EXCEPT !.array = a], 1)
          \/ Descend(kept, 1)
      BY <1>5, Zenon DEF ManyMore
    <3>3. Type(Top.p) \in Unary  BY <3>1 DEF Unary
    <3>. HIDE DEF kept
    <3> QED  BY <3>1, <3>2, <3>3
  <2>. HIDE DEF kept
  <2>2. 1 \in 1 .. Len(Kids(Top.p))  BY <1>2, <2>1
  <2>3. CASE status' = "exhausted" /\ UNCHANGED stack
    BY <1>1, <2>3, EndKeeps
  <2>4. ASSUME NEW f, CallOK(f), f.p = Top.p, f.from = Top.from, f.j = Top.j + 1, Descend(f, 1)
        PROVE  Kept
    <3>1. ~HandsOn(prog, f)
      <4>1. prog[f.p].type \in {"many", "many1"}  BY <2>1, <2>4 DEF Type
      <4>2. f.j # 0  BY <1>2, <2>4
      <4> QED  BY <4>1, <4>2 DEF HandsOn
    <3> QED  BY <1>1, <2>2, <2>4, <3>1, AgainKeeps
  <2> QED  BY <1>4, <2>1, <2>3, <2>4
<1>6. CASE CountMore
  <2>1. /\ Type(Top.p) \in Unary /\ Type(Top.p) = "count"
        /\ \/ status' = "smashed" /\ UNCHANGED stack
           \/ (\E x : Succeed(x)) /\ UNCHANGED status
           \/ Descend(kept, 1)
    BY <1>6 DEF CountMore, Resumes, Unary
  <2>. HIDE DEF kept
  <2>2. 1 \in 1 .. Len(Kids(Top.p))  BY <1>2, <2>1
  <2>3. Has(Straying)  BY <1>2, <2>1 DEF Has, Straying
  <2>4. CASE status' = "smashed" /\ UNCHANGED stack
    BY <1>1, <2>4, EndKeeps
  <2>5. CASE (\E x : Succeed(x)) /\ UNCHANGED status
    <3>1. GivesBack(input, input', Type(Top.p))
      BY <1>1, <1>3, <2>1, Nothing, AsksNothing
    <3>2. Restores  BY <2>3 DEF Restores
    <3> QED  BY <1>1, <2>5, <3>1, <3>2, SucceedWell, AfterKeeps
  <2>6. CASE Descend(kept, 1)
    BY <1>1, <1>4, <2>2, <2>3, <2>6, AgainKeeps
  <2> QED  BY <2>1, <2>4, <2>5, <2>6
<1> QED  BY <1>5, <1>6

LEMMA SeveralKeeps ==
  ASSUME MarksInv, OrTaken \/ OrNext \/ AndNext \/ AndFail
  PROVE  Kept
<1>1. Running /\ ret # NoReturn /\ UNCHANGED prog
  BY DEF OrTaken, OrNext, AndNext, AndFail, Resumes
<1>2. CallOK(Top) /\ Kids(Top.p) \in Seq(Node) /\ Top.j \in Nat /\ Top.j + 1 \in Nat
      /\ Len(Kids(Top.p)) \in Nat
  BY <1>1, TopIs DEF CallOK
<1>3. Room(input) /\ input.suppress \in Int /\ input.backtrack \in Int
  BY <1>1, InputTyped
<1>4. \A j : Drops(input, j) => GivesBack(input, j, "and")  BY <1>3, BackFor
<1>5. \A out : Succeed(out) => Restores  BY SucceedWell DEF Restores
<1>6. CASE OrTaken
  <2>1. /\ Type(Top.p) \notin {"expect", "not", "and", "predict"} /\ UNCHANGED <<input, status>>
        /\ \E x : Succeed(x)
    BY <1>6 DEF OrTaken, Resumes
  <2>2. GivesBack(input, input', Type(Top.p))  BY <1>3, <2>1, Nothing, AsksNothing
  <2> QED  BY <1>1, <1>5, <2>1, <2>2, SucceedReturns, AfterKeeps
<1>7. CASE OrNext
  <2> DEFINE f == [Top EXCEPT !.j = @ + 1]
  <2>1. /\ Type(Top.p) \notin {"expect", "not", "and", "predict"} /\ UNCHANGED input
        /\ ~ret.ok /\ HandsOn(prog, Top)
        /\ \/ Top.j + 1 < Len(Kids(Top.p)) /\ Descend(f, Top.j + 2)
           \/ Fail(NoErr) /\ UNCHANGED status
    BY <1>7 DEF OrNext, Resumes, HandsOn, Type
  <2>2. CallOK(f) /\ f.p = Top.p /\ f.from = Top.from  BY <1>2 DEF CallOK, CallFields
  <2>. HIDE DEF f
  <2>3. CASE Top.j + 1 < Len(Kids(Top.p)) /\ Descend(f, Top.j + 2)
    <3>1. Top.j + 2 \in 1 .. Len(Kids(f.p))  BY <1>2, <2>2, <2>3
    <3>2. ~Has(Straying) => input.state = f.from
      BY <1>1, <2>1, <2>2 DEF MarksInv, FailuresReturn, Running
    <3> QED  BY <1>1, <2>1, <2>2, <2>3, <3>1, <3>2, AgainKeeps
  <2>4. CASE Fail(NoErr) /\ UNCHANGED status
    <3>1. GivesBack(input, input', Type(Top.p))  BY <1>3, <2>1, Nothing, AsksNothing
    <3>2. Restores  BY <1>1, <2>1, HandedOn
    <3> QED  BY <1>1, <2>4, <3>1, <3>2, FailReturns, AfterKeeps
  <2> QED  BY <2>1, <2>3, <2>4
<1>8. CASE AndNext
  <2> DEFINE kept == [Top EXCEPT !.j = @ + 1, !.outs = Append(@, ret.out)]
  <2>1. /\ Type(Top.p) = "and"
        /\ \/ kept.j < Len(Kids(Top.p)) /\ Descend(kept, kept.j + 1) /\ UNCHANGED input
           \/ (\E x : Succeed(x)) /\ UNCHANGED status /\ input' = Unmark(input)
    BY <1>8 DEF AndNext, Resumes
  <2>2. CallOK(kept) /\ kept.p = Top.p /\ kept.from = Top.from
    BY <1>2 DEF CallOK, CallFields
  <2>. HIDE DEF kept
  <2>3. CASE kept.j < Len(Kids(Top.p)) /\ Descend(kept, kept.j + 1) /\ UNCHANGED input
    <3>1. kept.j \in Nat /\ kept.j + 1 \in 1 .. Len(Kids(kept.p))
      BY <1>2, <2>2, <2>3 DEF CallOK
    <3>2. ~HandsOn(prog, kept)  BY <2>1, <2>2 DEF HandsOn, Type
    <3> QED  BY <1>1, <2>2, <2>3, <3>1, <3>2, AgainKeeps
  <2>4. CASE (\E x : Succeed(x)) /\ UNCHANGED status /\ input' = Unmark(input)
    <3>1. Drops(input, Unmark(input))  BY <1>1, <2>1, OwnMark
    <3>2. GivesBack(input, input', Type(Top.p))  BY <1>4, <2>1, <2>4, <3>1
    <3> QED  BY <1>1, <1>5, <2>4, <3>2, SucceedReturns, AfterKeeps
  <2> QED  BY <2>1, <2>3, <2>4
<1>9. CASE AndFail
  <2>1. Type(Top.p) = "and" /\ input' = Rewind(input) /\ UNCHANGED status /\ Fail(ret.err)
    BY <1>9 DEF AndFail, Resumes
  <2>2. Drops(input, Rewind(input)) /\ (~Has(Straying) => Rewind(input).state = Top.from)
    BY <1>1, <2>1, OwnMark
  <2>3. GivesBack(input, input', Type(Top.p)) /\ Restores
    BY <1>4, <2>1, <2>2 DEF Restores
  <2> QED  BY <1>1, <2>1, <2>3, FailReturns, AfterKeeps
<1> QED  BY <1>6, <1>7, <1>8, <1>9

LEMMA NextKeeps ==
  ASSUME MarksInv, [Next]_vars
  PROVE  Kept
<1>1. CASE ParseEnd
  <2>1. UNCHANGED <<prog, input, stack>> /\ status' # "run"  BY <1>1 DEF ParseEnd
  <2> QED  BY <2>1, EndKeeps
<1>2. CASE UNCHANGED vars
  <2>1. UNCHANGED <<prog, input, stack, ret, status>>  BY <1>2 DEF vars
  <2>2. Len(stack) \in Nat
    <3>1. PICK S : stack \in Seq(S)  BY DEF MarksInv, StackOK
    <3> QED  BY <3>1
  <2>3. StandsAtStart'  BY <2>1 DEF MarksInv, StandsAtStart, NoReturn, Top
  <2>4. FailuresReturn'
    BY <2>1 DEF MarksInv, FailuresReturn, NoReturn, Top, Has, Type, Straying
  <2>5. MarksInv'  BY <2>1, <2>3, <2>4 DEF MarksInv, Calling, NoReturn
  <2>6. ~(Len(stack') < Len(stack))  BY <2>1, <2>2
  <2> QED  BY <2>5, <2>6 DEF Kept
<1>3. CASE Ended
  BY <1>2, <1>3 DEF Ended
<1> QED  BY <1>1, <1>2, <1>3, LeafKeeps, EnterKeeps, UnaryKeeps, RepeatKeeps, SeveralKeeps DEF Next

(* Nothing is marked, suppressed or disabled before the first call.        *)
LEMMA InitMarks ==
  ASSUME Init
  PROVE  MarksInv
<1>1. PICK kind \in InputKinds, text \in Texts : input = New(kind, text)  BY DEF Init
<1>2. /\ DOMAIN input = Fields /\ input.marks = <<>> /\ input.slots = MarksMin
      /\ input.backtrack = 1 /\ input.suppress = 0
  BY <1>1 DEF New, Fields
<1>3. Room(input)
  <2>1. <<>> \in Seq({}) /\ Len(<<>>) = 0  OBVIOUS
  <2>2. MarksMin \in Int /\ 0 <= MarksMin  BY InputAssumption
  <2> QED  BY <1>2, <2>1, <2>2 DEF Room
<1>4. /\ StackOK(stack) /\ prog \in Grammars  BY InitOK DEF Inv
<1>5. stack = <<Fresh(Root)>> /\ ret = NoReturn /\ Fresh(Root).from = input.state
  BY DEF Init, Fresh
<1>6. Len(stack) = 1 /\ Top = Fresh(Root)
  <2>1. PICK f : f = Fresh(Root)  OBVIOUS
  <2>2. stack = <<f>>  BY <1>5, <2>1
  <2>3. Len(stack) = 1 /\ stack[1] = f /\ stack # <<>>  BY <2>2
  <2>4. Top = stack[Len(stack)]  BY <1>4, <2>3, FrontOK DEF Top
  <2> QED  BY <2>1, <2>3, <2>4
<1>7. Calling = 0  BY <1>5, <1>6 DEF Calling
<1>8. Owned(input, prog, stack, 0)
  <2>1. Predicts(prog, stack, 0) = {} /\ Markers(prog, stack, 0) = {}
        /\ Suppresses(prog, stack, 0) = {}
    BY DEF Predicts, Markers, Suppresses
  <2>2. Disabling(prog, stack, 0) = 0 /\ Marked(prog, stack, 0) = 0
        /\ Suppressing(prog, stack, 0) = 0
    BY <2>1, FS_EmptySet DEF Disabling, Marked, Suppressing
  <2>3. Len(input.marks) = 0  BY <1>2
  <2> QED  BY <1>2, <2>1, <2>2, <2>3 DEF Owned
<1>9. StandsAtStart  BY <1>5, <1>6 DEF StandsAtStart
<1>10. FailuresReturn
  <2>1. 1 .. Len(stack) - 1 = {}  BY <1>6
  <2> QED  BY <1>5, <2>1 DEF FailuresReturn
<1> QED  BY <1>3, <1>4, <1>7, <1>8, <1>9, <1>10 DEF MarksInv

(* What the invariant says, in the words of the property.                  *)
LEMMA MarksInvMeans ==
  ASSUME MarksInv
  PROVE  MarksBelong
<1>1. SUFFICES ASSUME status = "run"
               PROVE  /\ Len(input.marks) = Cardinality(Marking)
                      /\ \A k \in Marking : MarkOfCall(k).state = stack[k].from
                      /\ input.suppress = Cardinality(Waits({"expect", "not"}))
                      /\ input.backtrack = 1 - Cardinality(Waits({"predict"}))
                      /\ Len(input.marks) <= input.slots
  BY DEF MarksBelong
<1>2. StackOK(stack) /\ Room(input) /\ Owned(input, prog, stack, Calling)
  BY <1>1 DEF MarksInv
<1>3. DOMAIN stack = 1 .. Len(stack) /\ Len(stack) \in Nat
  <2>1. PICK S : stack \in Seq(S)  BY <1>2 DEF StackOK
  <2> QED  BY <2>1
<1>4. Calling = Len(stack) - 1 \/ Calling = Len(stack)  BY DEF Calling
<1>5. \A types : Waits(types) = {k \in 1 .. Calling : prog[stack[k].p].type \in types}
  <2>1. PICK c, n : c = Calling /\ n = Len(stack)  OBVIOUS
  <2>2. n \in Nat /\ (c = n - 1 \/ c = n) /\ DOMAIN stack = 1 .. n  BY <1>3, <1>4, <2>1
  <2>3. ASSUME NEW k \in 1 .. n PROVE Waiting(k) <=> k <= c
    <3>1. Waiting(k) <=> k < n \/ c = n  BY <1>4, <2>1, <2>2 DEF Waiting, Calling
    <3> QED  BY <2>2, <3>1
  <2>4. ASSUME NEW k PROVE k \in 1 .. c <=> k \in 1 .. n /\ k <= c
    BY <2>2
  <2>5. \A k : k \in 1 .. c <=> k \in DOMAIN stack /\ Waiting(k)
    BY <2>2, <2>3, <2>4, Zenon
  <2> QED  BY <2>1, <2>5 DEF Waits, Type
<1>6. Waits({"predict"}) = Predicts(prog, stack, Calling)
      /\ Waits({"expect", "not"}) = Suppresses(prog, stack, Calling)
  BY <1>5 DEF Predicts, Suppresses
<1>7. Marking = Markers(prog, stack, Calling)
  <2>1. ASSUME NEW k \in 1 .. Calling, prog[stack[k].p].type \in {"and", "not"}
        PROVE  (\A j \in Waits({"predict"}) : k < j) <=> Predicts(prog, stack, k - 1) = {}
    <3>1. prog[stack[k].p].type # "predict"  BY <2>1
    <3>2. \A j \in 1 .. Calling : (~(k < j) /\ prog[stack[j].p].type = "predict") <=>
            (j \in 1 .. k - 1 /\ prog[stack[j].p].type = "predict")
      BY <1>4, <3>1
    <3>3. \A j \in 1 .. k - 1 : j \in 1 .. Calling  BY <1>4
    <3> QED  BY <1>6, <3>2, <3>3 DEF Predicts
  <2> QED  BY <1>5, <2>1 DEF Marking, Markers
<1>8. ASSUME NEW k \in Marking
      PROVE  {l \in Marking : l <= k} = Markers(prog, stack, k)
  BY <1>4, <1>7 DEF Markers
<1>9. \A k \in Marking : MarkOfCall(k) = input.marks[Marked(prog, stack, k)]
  BY <1>8 DEF MarkOfCall, Marked
<1> QED
  BY <1>2, <1>6, <1>7, <1>9 DEF Owned, Room, Marked, Suppressing, Disabling

(* Whatever the grammar, the text and the kind of input: the marks of the  *)
(* input are exactly those of the sequences and negations under way and    *)
(* not under a predict, each at the place its call started at, and what is *)
(* suppressed and disabled is what calls under way have asked for and not  *)
(* yet taken back (mpc_input_mark, _unmark, _rewind, _suppress_enable and  *)
(* _backtrack_enable, as mpc_parse_run pairs them).                        *)
THEOREM MarksHold == Spec => []MarksBelong
<1>1. Init => MarksInv  BY InitMarks
<1>2. MarksInv /\ [Next]_vars => MarksInv'  BY NextKeeps DEF Kept
<1>3. MarksInv => MarksBelong  BY MarksInvMeans
<1> QED  BY <1>1, <1>2, <1>3, PTL DEF Spec

(* Whatever the text and the kind of input, and whatever the grammar that  *)
(* has no count, check or predict: a call of mpc_parse_run that fails      *)
(* returns with the input at the place the call began at, so the next      *)
(* alternative of an or, and what follows a many or a maybe, read on from  *)
(* the right place.                                                        *)
THEOREM FailuresHold == Spec => FailureRestores
<1>1. Init => MarksInv  BY InitMarks
<1>2. MarksInv /\ [Next]_vars => MarksInv'  BY NextKeeps DEF Kept
<1>3. MarksInv /\ [Next]_vars =>
        [/\ Len(stack') < Len(stack) /\ ret' # NoReturn
         /\ ~Has(Straying) /\ ~ret'.ok
         => input'.state = Top.from]_vars
  BY NextKeeps DEF Kept, Restores
<1> QED  BY <1>1, <1>2, <1>3, PTL DEF Spec, FailureRestores

------------------------------------------------------------------------------
(* Places and text.  j is i, of the same text, at a place of some kind;    *)
(* that is all there is to say of a pipe.                                  *)

Placed(i) ==
  /\ i.state.pos \in Nat
  /\ \A m \in 1 .. Len(i.marks) : i.marks[m].state.pos \in Nat
Kin(i, j) == Room(j) /\ Placed(j) /\ j.kind = i.kind /\ j.text = i.text

LEMMA KinSelf ==
  ASSUME NEW i, Room(i), Placed(i)
  PROVE  Kin(i, i)
BY DEF Kin

LEMMA KinTwice ==
  ASSUME NEW i, NEW j, NEW k, Kin(i, j), Kin(j, k)
  PROVE  Kin(i, k)
BY DEF Kin

(* Neither place nor marks change.                                         *)
LEMMA KinStays ==
  ASSUME NEW i, Placed(i), NEW j, Room(j), j.state = i.state, j.marks = i.marks,
         j.kind = i.kind, j.text = i.text
  PROVE  Kin(i, j)
BY DEF Kin, Placed

LEMMA FgetcKin ==
  ASSUME NEW i, Room(i), Placed(i)
  PROVE  Kin(i, Fgetc(i).i)
<1>1. Untouched(i, Fgetc(i).i) /\ Fgetc(i).i.state = i.state  BY FgetcLeaves
<1>2. Fgetc(i).i.kind = i.kind /\ Fgetc(i).i.text = i.text  BY DEF Fgetc, Room, Fields
<1> QED  BY <1>1, <1>2, KinStays DEF Untouched

LEMMA PutBackKin ==
  ASSUME NEW i, Room(i), Placed(i)
  PROVE  Kin(i, PutBack(i))
<1>1. Untouched(i, PutBack(i)) /\ PutBack(i).state = i.state  BY PutBackLeaves
<1>2. PutBack(i).kind = i.kind /\ PutBack(i).text = i.text
  BY DEF PutBack, Seek, Room, Fields
<1> QED  BY <1>1, <1>2, KinStays DEF Untouched

LEMMA PeekKin ==
  ASSUME NEW i, Room(i), Placed(i)
  PROVE  Kin(i, Peekc(i).i)
<1> DEFINE got == Fgetc(i)
<1>1. Peekc(i).i \in {i, got.i, PutBack(got.i)}  BY DEF Peekc
<1>2. Kin(i, got.i) /\ Room(got.i) /\ Placed(got.i)  BY FgetcKin DEF Kin
<1>. HIDE DEF got
<1>3. Kin(i, PutBack(got.i))  BY <1>2, PutBackKin, KinTwice
<1> QED  BY <1>1, <1>2, <1>3, KinSelf

LEMMA SuccessKin ==
  ASSUME NEW i, Room(i), Placed(i), NEW c
  PROVE  Kin(i, Success(i, c))
<1> DEFINE j == Success(i, c)
<1>1. Untouched(i, j)  BY SuccessLeaves
<1>2. j.kind = i.kind /\ j.text = i.text /\ j.state.pos = i.state.pos + 1
  BY DEF Success, Room, Fields
<1>. HIDE DEF j
<1>3. j.state.pos \in Nat  BY <1>2 DEF Placed
<1>4. Room(j) /\ j.marks = i.marks  BY <1>1 DEF Untouched
<1>5. Placed(j)  BY <1>3, <1>4 DEF Placed
<1> QED  BY <1>2, <1>4, <1>5 DEF Kin, j

LEMMA TakeKin ==
  ASSUME NEW i, Room(i), Placed(i), NEW chars
  PROVE  Kin(i, Take(i, chars).i)
<1> DEFINE got == Getc(i)
           t == Take(i, chars)
<1>1. Kin(i, got.i)
  <2>1. got.i \in {i, Fgetc(i).i}  BY DEF Getc
  <2>. HIDE DEF got
  <2> QED  BY <2>1, FgetcKin, KinSelf
<1>2. \/ t.i = got.i
      \/ t.i = Success(got.i, got.c)
      \/ t.i = Failure(got.i)
  BY DEF Take
<1>3. Failure(got.i) \in {got.i, PutBack(got.i)}  BY DEF Failure
<1>. HIDE DEF t, got
<1>4. Room(got.i) /\ Placed(got.i)  BY <1>1 DEF Kin
<1>5. Kin(i, Success(got.i, got.c)) /\ Kin(i, PutBack(got.i))
  BY <1>1, <1>4, SuccessKin, PutBackKin, KinTwice
<1> QED  BY <1>1, <1>2, <1>3, <1>5 DEF t

------------------------------------------------------------------------------
(* Marks *)

LEMMA MarkKin ==
  ASSUME NEW i, Room(i), Placed(i)
  PROVE  Kin(i, Mark(i))
<1>1. CASE i.backtrack < 1
  <2>1. Mark(i) = i  BY <1>1 DEF Mark
  <2> QED  BY <2>1, KinSelf
<1>2. CASE ~(i.backtrack < 1)
  <2> DEFINE m == [state |-> i.state, last |-> i.last]
             j == Mark(i)
  <2>1. Room(j) /\ j.marks = Append(i.marks, m) /\ j.state = i.state
    BY <1>2, MarkSets DEF Sets
  <2>2. j.kind = i.kind /\ j.text = i.text  BY DEF Mark, Room, Fields
  <2>3. m.state.pos \in Nat  BY DEF Placed
  <2>4. PICK S : i.marks \in Seq(S)  BY DEF Room
  <2>. HIDE DEF m, j
  <2>5. i.marks \in Seq(S \cup {m})  BY <2>4, SeqMonotonic
  <2>6. ASSUME NEW k \in 1 .. Len(Append(i.marks, m))
        PROVE  Append(i.marks, m)[k] = m \/ (k \in 1 .. Len(i.marks) /\ Append(i.marks, m)[k] = i.marks[k])
    BY <2>5, <2>6
  <2>7. Placed(j)  BY <2>1, <2>3, <2>6 DEF Placed
  <2> QED  BY <2>1, <2>2, <2>7 DEF Kin, j
<1> QED  BY <1>1, <1>2

(* What is left of the marks.                                              *)
LEMMA LessPlaced ==
  ASSUME NEW marks, NEW S, marks \in Seq(S), marks # <<>>,
         \A m \in 1 .. Len(marks) : marks[m].state.pos \in Nat
  PROVE  LET less == SubSeq(marks, 1, Len(marks) - 1)
         IN  /\ \A m \in 1 .. Len(less) : less[m].state.pos \in Nat
             /\ marks[Len(marks)].state.pos \in Nat
<1>1. Len(marks) \in Nat \ {0}  OBVIOUS
<1> DEFINE n == Len(marks) - 1
           less == SubSeq(marks, 1, n)
<1>2. Len(less) = Len(marks) - 1 /\ \A m \in 1 .. Len(marks) - 1 : less[m] = marks[m]
  <2>1. n \in Nat /\ 1 \in Int /\ \A m \in 1 .. n : marks[m] \in S  BY <1>1
  <2>. HIDE DEF n
  <2>2. /\ Len(less) = IF 1 <= n THEN n - 1 + 1 ELSE 0
        /\ \A m \in 1 .. n - 1 + 1 : less[m] = marks[1 + m - 1]
    BY <2>1, SubSeqProperties
  <2>. HIDE DEF less
  <2>3. n - 1 + 1 = n /\ (1 <= n \/ n = 0) /\ \A m \in 1 .. n : 1 + m - 1 = m  BY <2>1
  <2>4. Len(less) = n /\ \A m \in 1 .. n : less[m] = marks[m]  BY <2>2, <2>3
  <2> QED  BY <2>4 DEF n
<1>. HIDE DEF less
<1>3. \A m \in 1 .. Len(less) : less[m].state.pos \in Nat  BY <1>1, <1>2
<1>4. Len(marks) \in 1 .. Len(marks)  BY <1>1
<1> QED  BY <1>3, <1>4 DEF less

LEMMA UnmarkKin ==
  ASSUME NEW i, Room(i), Placed(i), i.backtrack < 1 \/ i.marks # <<>>
  PROVE  Kin(i, Unmark(i))
<1>1. CASE i.backtrack < 1
  <2>1. Unmark(i) = i  BY <1>1 DEF Unmark
  <2> QED  BY <2>1, KinSelf
<1>2. CASE ~(i.backtrack < 1)
  <2> DEFINE j == Unmark(i)
  <2>1. Drops(i, j) /\ j.state = i.state  BY <1>2, UnmarkDrops
  <2>2. j.kind = i.kind /\ j.text = i.text  BY DEF Unmark, Room, Fields
  <2>. HIDE DEF j
  <2>3. Room(j) /\ j.marks = SubSeq(i.marks, 1, Len(i.marks) - 1)  BY <1>2, <2>1 DEF Drops
  <2>4. PICK S : i.marks \in Seq(S)  BY DEF Room
  <2>5. \A m \in 1 .. Len(j.marks) : j.marks[m].state.pos \in Nat
    BY <1>2, <2>3, <2>4, LessPlaced DEF Placed
  <2>6. Placed(j)  BY <2>1, <2>5 DEF Placed
  <2> QED  BY <2>2, <2>3, <2>6 DEF Kin, j
<1> QED  BY <1>1, <1>2

LEMMA RewindKin ==
  ASSUME NEW i, Room(i), Placed(i), i.backtrack < 1 \/ i.marks # <<>>
  PROVE  Kin(i, Rewind(i))
<1>1. CASE i.backtrack < 1
  <2>1. Rewind(i) = i  BY <1>1 DEF Rewind
  <2> QED  BY <2>1, KinSelf
<1>2. CASE ~(i.backtrack < 1)
  <2> DEFINE mark == i.marks[Len(i.marks)]
             back == [i EXCEPT !.state = mark.state, !.last = mark.last]
             sought == IF i.kind = "file" THEN Seek(back, mark.state.pos) ELSE back
             j == Rewind(i)
  <2>1. Drops(i, j) /\ j.state = mark.state  BY <1>2, RewindDrops
  <2>2. j.kind = i.kind /\ j.text = i.text
    <3>1. DOMAIN back = Fields /\ back.kind = i.kind /\ back.text = i.text
      <4>. HIDE DEF mark
      <4> QED  BY DEF Room, Fields
    <3>2. DOMAIN sought = Fields /\ sought.kind = i.kind /\ sought.text = i.text
      <4>. HIDE DEF mark, back
      <4> QED  BY <3>1 DEF Seek, Fields
    <3>3. j = Unmark(sought)  BY <1>2 DEF Rewind
    <3>. HIDE DEF sought, j
    <3>4. Unmark(sought).kind = sought.kind /\ Unmark(sought).text = sought.text
      BY <3>2 DEF Unmark, Fields
    <3> QED  BY <3>2, <3>3, <3>4
  <2>. HIDE DEF j
  <2>3. Room(j) /\ j.marks = SubSeq(i.marks, 1, Len(i.marks) - 1)  BY <1>2, <2>1 DEF Drops
  <2>4. PICK S : i.marks \in Seq(S)  BY DEF Room
  <2>5. /\ \A m \in 1 .. Len(j.marks) : j.marks[m].state.pos \in Nat
        /\ mark.state.pos \in Nat
    BY <1>2, <2>3, <2>4, LessPlaced DEF Placed
  <2>6. Placed(j)  BY <2>1, <2>5 DEF Placed
  <2> QED  BY <2>2, <2>3, <2>6 DEF Kin, j
<1> QED  BY <1>1, <1>2

LEMMA UptoKin ==
  ASSUME NEW a, Room(a.i), Placed(a.i), NEW word, NEW k \in Nat, NEW g, Upto(g, a, word, k)
  PROVE  \A n \in 0 .. k : Kin(a.i, g[n].i)
<1> DEFINE Bad == {n \in 0 .. k : ~Kin(a.i, g[n].i)}
<1>1. SUFFICES ASSUME Bad # {} PROVE FALSE
  OBVIOUS
<1>2. PICK n \in Bad : \A y \in Bad : ~(y < n)
  <2>1. Bad \subseteq Nat  OBVIOUS
  <2>. HIDE DEF Bad
  <2> QED  BY <1>1, <2>1, Least
<1>3. CASE n = 0
  <2>1. g[n] = a  BY <1>2, <1>3 DEF Upto
  <2> QED  BY <1>2, <2>1, KinSelf
<1>4. CASE n # 0
  <2>1. n - 1 \in 0 .. k /\ n - 1 < n /\ n \in 0 .. k  BY <1>2, <1>4
  <2>2. Kin(a.i, g[n - 1].i)  BY <1>2, <2>1
  <2>3. g[n] = IF g[n - 1].ok THEN Take(g[n - 1].i, {word[n]}) ELSE g[n - 1]
    BY <1>4, <2>1 DEF Upto
  <2>4. Room(g[n - 1].i) /\ Placed(g[n - 1].i)  BY <2>2 DEF Kin
  <2>5. Kin(a.i, Take(g[n - 1].i, {word[n]}).i)  BY <2>2, <2>4, TakeKin, KinTwice
  <2> QED  BY <1>2, <2>2, <2>3, <2>5
<1> QED  BY <1>3, <1>4

LEMMA WordKin ==
  ASSUME NEW i, Room(i), Placed(i), NEW word \in Seq(Char)
  PROVE  Kin(i, TakeAll(i, word).i)
<1> DEFINE a == [ok |-> TRUE, i |-> Mark(i)]
           g == CHOOSE f : Upto(f, a, word, Len(word))
           e == g[Len(word)].i
           t == TakeAll(i, word)
<1>0. Len(word) \in Nat  OBVIOUS
<1>1. Upto(g, a, word, Len(word))
  <2>. HIDE DEF a
  <2> QED  BY <1>0, UptoIs
<1>2. t.i \in {Unmark(e), Rewind(e)}  BY DEF TakeAll, Upto
<1>3. a.i = Mark(i)  OBVIOUS
<1>. HIDE DEF a, g, t
<1>4. Sets(i, Mark(i)) /\ Room(Mark(i))  BY MarkSets DEF Sets
<1>5. Kin(i, Mark(i)) /\ Placed(Mark(i))  BY MarkKin DEF Kin
<1>6. Untouched(Mark(i), e) /\ Kin(Mark(i), e)
  <2>1. \A n \in 0 .. Len(word) : Untouched(a.i, g[n].i)
    BY <1>0, <1>1, <1>3, <1>4, UptoLeaves
  <2>2. \A n \in 0 .. Len(word) : Kin(a.i, g[n].i)
    BY <1>0, <1>1, <1>3, <1>4, <1>5, UptoKin
  <2> QED  BY <1>0, <1>3, <2>1, <2>2
<1>. HIDE DEF e
<1>7. Kin(i, e) /\ Room(e) /\ Placed(e)  BY <1>5, <1>6, KinTwice DEF Kin
<1>8. e.backtrack < 1 \/ e.marks # <<>>
  <2>1. CASE i.backtrack < 1  BY <1>4, <1>6, <2>1 DEF Sets, Untouched
  <2>2. CASE ~(i.backtrack < 1)
    <3>1. e.marks = Append(i.marks, [state |-> i.state, last |-> i.last])
      BY <1>4, <1>6, <2>2 DEF Sets, Untouched
    <3>2. PICK m : m = [state |-> i.state, last |-> i.last]  OBVIOUS
    <3>3. PICK S : i.marks \in Seq(S)  BY DEF Room
    <3>4. i.marks \in Seq(S \cup {m}) /\ m \in S \cup {m}  BY <3>3, SeqMonotonic
    <3>5. Append(i.marks, m) # <<>>  BY <3>4
    <3> QED  BY <3>1, <3>2, <3>5
  <2> QED  BY <2>1, <2>2
<1>9. Kin(e, Unmark(e)) /\ Kin(e, Rewind(e))  BY <1>7, <1>8, UnmarkKin, RewindKin
<1>10. Kin(i, t.i)  BY <1>2, <1>7, <1>9, KinTwice
<1> QED  BY <1>10 DEF t

(* Suppressing and disabling move nothing.                                 *)
LEMMA SuppressKin ==
  ASSUME NEW i, Room(i), Placed(i)
  PROVE  /\ Kin(i, Suppress(i)) /\ Kin(i, Unsuppress(i))
         /\ Kin(i, Disable(i)) /\ Kin(i, Enable(i))
<1>1. ASSUME NEW j, DOMAIN j = Fields, j.state = i.state, j.marks = i.marks, j.slots = i.slots,
             j.kind = i.kind, j.text = i.text
      PROVE  Kin(i, j)
  <2>1. Room(j)  BY <1>1 DEF Room
  <2> QED  BY <1>1, <2>1, KinStays
<1>2. ASSUME NEW n
      PROVE  Kin(i, [i EXCEPT !.suppress = n]) /\ Kin(i, [i EXCEPT !.backtrack = n])
  <2>1. PICK j : j = [i EXCEPT !.suppress = n]  OBVIOUS
  <2>2. PICK k : k = [i EXCEPT !.backtrack = n]  OBVIOUS
  <2>3. /\ DOMAIN j = Fields /\ j.state = i.state /\ j.marks = i.marks /\ j.slots = i.slots
        /\ j.kind = i.kind /\ j.text = i.text
    BY <2>1 DEF Room, Fields
  <2>4. /\ DOMAIN k = Fields /\ k.state = i.state /\ k.marks = i.marks /\ k.slots = i.slots
        /\ k.kind = i.kind /\ k.text = i.text
    BY <2>2 DEF Room, Fields
  <2> QED  BY <1>1, <2>1, <2>2, <2>3, <2>4
<1> QED  BY <1>2 DEF Suppress, Unsuppress, Disable, Enable

(* There is a mark to drop when a sequence or negation returns.            *)
LEMMA MarkThere ==
  ASSUME MarksInv, Running, ret # NoReturn, Type(Top.p) \in {"and", "not"}
  PROVE  input.backtrack < 1 \/ input.marks # <<>>
<1>1. Owned(input, prog, stack, Len(stack)) /\ Room(input)
  BY DEF MarksInv, Running, Calling
<1>2. /\ Len(stack) - 1 \in Nat /\ (Len(stack) - 1) + 1 = Len(stack)
      /\ Top = stack[Len(stack)] /\ Type(Top.p) = prog[stack[Len(stack)].p].type
  BY TopIs
<1> DEFINE n == Len(stack) - 1
<1>3. n \in Nat /\ n + 1 = Len(stack)  BY <1>2
<1>. HIDE DEF n
<1>4. Owned(input, prog, stack, n + 1) /\ prog[stack[n + 1].p].type \in {"and", "not"}
  BY <1>1, <1>2, <1>3
<1> QED  BY <1>1, <1>3, <1>4, NewestMark

(* A step stays with its text.                                             *)
LEMMA NextKin ==
  ASSUME MarksInv, Placed(input), [Next]_vars
  PROVE  Kin(input, input')
<1>1. Room(input)  BY DEF MarksInv
<1>2. Kin(input, input)  BY <1>1, KinSelf
<1>3. CASE Chars \/ Word \/ AnchorHere
  <2>1. CASE Chars
    <3>1. input' = Take(input, Arg(Top.p)).i  BY <2>1 DEF Chars
    <3> QED  BY <1>1, <3>1, TakeKin
  <2>2. CASE Word
    <3>1. input' = TakeAll(input, Arg(Top.p)).i /\ Type(Top.p) = "word" /\ Running
      BY <2>2 DEF Word, Starts
    <3>2. Arg(Top.p) \in Seq(Char)  BY <3>1, TopIs
    <3> QED  BY <1>1, <3>1, <3>2, WordKin
  <2>3. CASE AnchorHere
    <3>1. input' = Peekc(input).i  BY <2>3 DEF AnchorHere, Anchor
    <3> QED  BY <1>1, <3>1, PeekKin
  <2> QED  BY <1>3, <2>1, <2>2, <2>3
<1>4. CASE EnterExpect \/ EnterPredict \/ EnterNot \/ EnterSeveral \/ Predict
  <2>1. input' \in {input, Suppress(input), Disable(input), Enable(input), Mark(input),
                    Suppress(Mark(input))}
    BY <1>4 DEF EnterExpect, EnterPredict, EnterNot, EnterSeveral, Predict
  <2>2. Kin(input, Mark(input)) /\ Room(Mark(input)) /\ Placed(Mark(input))
    BY <1>1, MarkKin DEF Kin
  <2>3. Kin(input, Suppress(Mark(input)))  BY <2>2, SuppressKin, KinTwice
  <2> QED  BY <1>1, <1>2, <2>1, <2>2, <2>3, SuppressKin
<1>5. ASSUME NEW j, Kin(input, j), input' \in {j, Unsuppress(j), Peekc(Unsuppress(j)).i}
      PROVE  Kin(input, input')
  <2>1. Kin(j, Unsuppress(j))  BY <1>5, SuppressKin DEF Kin
  <2>2. Kin(Unsuppress(j), Peekc(Unsuppress(j)).i)  BY <2>1, PeekKin DEF Kin
  <2> QED  BY <1>5, <2>1, <2>2, KinTwice
<1>6. CASE Expect
  <2>1. input' \in {Unsuppress(input), Peekc(Unsuppress(input)).i}  BY <1>6 DEF Expect
  <2> QED  BY <1>2, <1>5, <2>1
<1>7. CASE Not \/ AndNext \/ AndFail
  <2>1. /\ Running /\ ret # NoReturn /\ Type(Top.p) \in {"and", "not"}
        /\ \/ input' = input
           \/ \E j \in {Unmark(input), Rewind(input)} :
                input' \in {j, Unsuppress(j), Peekc(Unsuppress(j)).i}
    BY <1>7 DEF Not, AndNext, AndFail, Resumes
  <2>2. Kin(input, Unmark(input)) /\ Kin(input, Rewind(input))
    BY <1>1, <2>1, MarkThere, UnmarkKin, RewindKin
  <2> QED  BY <1>2, <1>5, <2>1, <2>2
<1>8. CASE Enter \/ EnterCount \/ Pass \/ LiftVal \/ Lift \/ StateCopy \/ Failing \/ Apply \/ Check
           \/ Maybe \/ ManyMore \/ ManyEnd \/ CountMore \/ CountEnd \/ OfNone \/ OrTaken \/ OrNext
           \/ ParseEnd \/ Ended
  <2>1. input' = input
    BY <1>8 DEF Enter, EnterCount, Pass, LiftVal, Lift, StateCopy, Failing, Apply, Check,
                Maybe, ManyMore, ManyEnd, CountMore, CountEnd, OfNone, OrTaken, OrNext,
                ParseEnd, Ended, vars
  <2> QED  BY <1>2, <2>1
<1>9. CASE UNCHANGED vars  BY <1>2, <1>9 DEF vars
<1> QED  BY <1>3, <1>4, <1>6, <1>7, <1>8, <1>9 DEF Next

------------------------------------------------------------------------------
(* Errors *)

ErrorFields == {"state", "expected", "failure", "received"}

LEMMA NotNoErr ==
  ASSUME NEW i, NEW e, ErrorSound(i, e)
  PROVE  e # NoErr
<1>1. "state" \in DOMAIN e /\ "state" \notin DOMAIN NoErr  BY DEF ErrorSound, NoErr
<1> QED  BY <1>1

(* An error stays true while the text does.                                *)
LEMMA SoundOfSame ==
  ASSUME NEW i, NEW j, Kin(i, j), NEW e, ErrorSound(i, e)
  PROVE  ErrorSound(j, e)
BY DEF Kin, ErrorSound

(* The next character of a text that can be sought is that of its place.   *)
LEMMA PeekChar ==
  ASSUME NEW i, Sound(i), i.kind # "pipe"
  PROVE  Peekc(i).c = CharOf(i.text, i.state.pos)
<1>1. CASE i.kind = "string"
  <2>1. Peekc(i).c = StringChar(i)  BY <1>1 DEF Peekc, Buffered
  <2> QED  BY <2>1 DEF StringChar, CharOf
<1>2. CASE i.kind = "file"
  <2>1. /\ DOMAIN i = Fields /\ i.file \in [at : Nat, eof : BOOLEAN]
        /\ i.file.at = i.state.pos /\ i.state.pos \in 0 .. Len(i.text) /\ Len(i.text) \in Nat
        /\ i.file.eof => i.file.at = Len(i.text)
    BY <1>2 DEF Sound, OnText, Stands
  <2>2. CASE i.state.pos = Len(i.text)
    <3>1. Fgetc(i).i.file.eof  BY <2>1, <2>2 DEF Fgetc, Fields
    <3>2. Peekc(i).c = NUL  BY <1>2, <3>1 DEF Peekc, Buffered
    <3> QED  BY <2>1, <2>2, <3>2 DEF CharOf
  <2>3. CASE i.state.pos # Len(i.text)
    <3>1. i.file.at < Len(i.text) /\ ~i.file.eof  BY <2>1, <2>3
    <3>2. /\ Fgetc(i).c = i.text[i.state.pos + 1]
          /\ ~Fgetc(i).i.file.eof
      <4>1. PICK g : g = [i EXCEPT !.file.at = @ + 1]  OBVIOUS
      <4>2. Fgetc(i) = [c |-> i.text[i.file.at + 1], i |-> g]  BY <3>1, <4>1 DEF Fgetc
      <4>3. ~g.file.eof  BY <2>1, <3>1, <4>1 DEF Fields
      <4> QED  BY <2>1, <4>2, <4>3
    <3>3. Peekc(i).c = i.text[i.state.pos + 1]  BY <1>2, <3>2 DEF Peekc, Buffered
    <3> QED  BY <2>1, <3>1, <3>3 DEF CharOf
  <2> QED  BY <2>2, <2>3
<1> QED  BY <1>1, <1>2 DEF Sound, Kinds

(* What mpc_err_new and mpc_err_fail say.                                  *)
LEMMA NewSound ==
  ASSUME NEW i, Sound(i), Placed(i), NEW label
  PROVE  LET e == ErrNew(i, label)
         IN  /\ e = NoErr \/ ErrorSound(i, e)
             /\ i.suppress > 0 => e = NoErr
<1>1. CASE i.suppress > 0  BY <1>1 DEF ErrNew
<1>2. CASE ~(i.suppress > 0)
  <2>1. PICK c : c = Peekc(i).c  OBVIOUS
  <2>2. PICK e : e = ErrNew(i, label)  OBVIOUS
  <2>3. e = [state |-> i.state, expected |-> {Label(label)}, failure |-> NoFailure,
             received |-> c]
    BY <1>2, <2>1, <2>2 DEF ErrNew
  <2>4. i.kind # "pipe" => c = CharOf(i.text, i.state.pos)  BY <2>1, PeekChar
  <2>5. ErrorSound(i, e)  BY <2>3, <2>4 DEF ErrorSound, Placed
  <2> QED  BY <1>2, <2>2, <2>5
<1> QED  BY <1>1, <1>2

LEMMA FailSound ==
  ASSUME NEW i, Placed(i), NEW failure, failure \in {"fail", "undefined", "check"}
  PROVE  LET e == ErrFail(i, failure)
         IN  /\ e = NoErr \/ ErrorSound(i, e)
             /\ i.suppress > 0 => e = NoErr
<1>1. failure # NoFailure  BY FailureAssumption
<1> QED  BY <1>1 DEF ErrFail, ErrorSound, Placed

LEMMA RepeatSound ==
  ASSUME NEW i, NEW e, ErrorSound(i, e), NEW prefix
  PROVE  ErrorSound(i, Repeat(e, prefix)) /\ Repeat(e, prefix).state = e.state
<1>1. PICK l : l = IF e.expected = {} THEN Label("") ELSE <<prefix, e.expected>>  OBVIOUS
<1>2. Repeat(e, prefix) = [e EXCEPT !.expected = {l}]  BY <1>1, NotNoErr DEF Repeat
<1> QED  BY <1>2 DEF ErrorSound

(* What is gathered is about the further of the two places.                *)
LEMMA AloneSound ==
  ASSUME NEW i, NEW e, ErrorSound(i, e)
  PROVE  ErrorSound(i, Alone(e)) /\ Alone(e).state = e.state
BY DEF ErrorSound, Alone

LEMMA BothSound ==
  ASSUME NEW i, NEW x, NEW y, ErrorSound(i, x), ErrorSound(i, y), x.state.pos = y.state.pos
  PROVE  ErrorSound(i, Both(x, y)) /\ Both(x, y).state = x.state
<1>1. CASE x.failure # NoFailure  BY <1>1, AloneSound DEF Both
<1>2. CASE x.failure = NoFailure /\ y.failure # NoFailure
  <2>1. Both(x, y) = [x EXCEPT !.failure = y.failure]  BY <1>2 DEF Both
  <2> QED  BY <1>2, <2>1 DEF ErrorSound
<1>3. CASE x.failure = NoFailure /\ y.failure = NoFailure
  <2>1. Both(x, y) = [x EXCEPT !.expected = @ \cup y.expected, !.received = y.received]
    BY <1>3 DEF Both
  <2> QED  BY <1>3, <2>1 DEF ErrorSound
<1> QED  BY <1>1, <1>2, <1>3

LEMMA MergeSound ==
  ASSUME NEW i, NEW x, NEW y, ErrorSound(i, x), ErrorSound(i, y)
  PROVE  /\ ErrorSound(i, Merge(x, y))
         /\ Merge(x, y).state.pos = IF x.state.pos < y.state.pos THEN y.state.pos ELSE x.state.pos
<1>1. x # NoErr /\ y # NoErr  BY NotNoErr
<1>2. x.state.pos \in Int /\ y.state.pos \in Int  BY DEF ErrorSound
<1>3. CASE y.state.pos < x.state.pos
  <2>1. Merge(x, y) = Alone(x)  BY <1>1, <1>2, <1>3 DEF Merge
  <2> QED  BY <1>2, <1>3, <2>1, AloneSound
<1>4. CASE x.state.pos < y.state.pos
  <2>1. Merge(x, y) = Alone(y)  BY <1>1, <1>2, <1>4 DEF Merge
  <2> QED  BY <1>2, <1>4, <2>1, AloneSound
<1>5. CASE x.state.pos = y.state.pos
  <2>1. Merge(x, y) = Both(x, y)  BY <1>1, <1>2, <1>5 DEF Merge
  <2> QED  BY <1>2, <1>5, <2>1, BothSound
<1> QED  BY <1>2, <1>3, <1>4, <1>5

LEMMA MergeOfNone ==
  ASSUME NEW i, NEW x, ErrorSound(i, x)
  PROVE  ErrorSound(i, Merge(x, NoErr)) /\ Merge(x, NoErr).state.pos = x.state.pos
<1>1. x # NoErr  BY NotNoErr
<1>2. Merge(x, NoErr) = Alone(x)  BY <1>1 DEF Merge
<1> QED  BY <1>2, AloneSound

------------------------------------------------------------------------------
(* What a step does with errors *)

LEMMA ConstantsStay ==
  ASSUME UNCHANGED prog
  PROVE  NoReturn' = NoReturn /\ NoErr' = NoErr /\ (CountsNone' <=> CountsNone)
BY DEF NoReturn, NoErr, CountsNone, Type, Arg

NoError(r) == r = NoReturn \/ \E ok, out : r = [ok |-> ok, out |-> out, err |-> NoErr]

LEMMA NoErrorMeans ==
  ASSUME NoError(ret'), UNCHANGED prog
  PROVE  /\ ~Returned'
         /\ ret' # NoReturn =>
              /\ ret' = [ok |-> ret'.ok, out |-> ret'.out, err |-> ret'.err]
              /\ ret'.err = NoErr
<1>1. NoReturn' = NoReturn /\ NoErr' = NoErr  BY ConstantsStay
<1>2. CASE ret' = NoReturn  BY <1>1, <1>2 DEF Returned
<1>3. CASE ret' # NoReturn
  <2>1. PICK ok, out : ret' = [ok |-> ok, out |-> out, err |-> NoErr]  BY <1>3 DEF NoError
  <2>2. ret'.ok = ok /\ ret'.out = out /\ ret'.err = NoErr  BY <2>1
  <2>3. ~Returned'  BY <1>1, <2>2 DEF Returned
  <2> QED  BY <2>1, <2>2, <2>3
<1> QED  BY <1>2, <1>3

(* No error is handed on, and none is lost but by a count of none.         *)
LEMMA QuietGathers ==
  ASSUME ErrorsGathered, Kin(input, input'), UNCHANGED <<prog, err, furthest>>,
         status' = "run" => status = "run",
         ~Returned \/ CountsNone, NoError(ret')
  PROVE  ErrorsGathered'
<1>1. NoReturn' = NoReturn /\ NoErr' = NoErr /\ (CountsNone' <=> CountsNone)
  BY ConstantsStay
<1>2. /\ ~Returned'
      /\ ret' # NoReturn =>
           /\ ret' = [ok |-> ret'.ok, out |-> ret'.out, err |-> ret'.err]
           /\ ret'.err = NoErr
  BY NoErrorMeans
<1>3. ErrorSound(input', err') /\ furthest' \in Int /\ err'.state.pos <= furthest'
  BY SoundOfSame DEF ErrorsGathered
<1>4. status' = "run" /\ ~CountsNone => err'.state.pos = furthest'
  BY DEF ErrorsGathered
<1> QED  BY <1>1, <1>2, <1>3, <1>4 DEF ErrorsGathered

(* The program has stopped, and left the errors as they were.              *)
LEMMA StopGathers ==
  ASSUME ErrorsGathered, Kin(input, input'), UNCHANGED <<prog, furthest, ret>>,
         status' # "run", ErrorSound(input', err'), err'.state.pos <= furthest
  PROVE  ErrorsGathered'
<1>1. NoReturn' = NoReturn /\ NoErr' = NoErr  BY ConstantsStay
<1>2. Returned' <=> Returned  BY <1>1 DEF Returned
<1>3. Returned => ErrorSound(input', ret.err)  BY SoundOfSame DEF ErrorsGathered
<1> QED  BY <1>1, <1>2, <1>3 DEF ErrorsGathered

(* The error of the call it made is handed on, as it is or repeated.       *)
LEMMA HandOnGathers ==
  ASSUME ErrorsGathered, Kin(input, input'), UNCHANGED <<prog, err, furthest, status>>,
         input'.suppress > 0 => input.suppress > 0, ret # NoReturn,
         NEW e, e = ret.err \/ (\E prefix : e = Repeat(ret.err, prefix)), Fail(e)
  PROVE  ErrorsGathered'
<1>1. NoReturn' = NoReturn /\ NoErr' = NoErr /\ (CountsNone' <=> CountsNone)
  BY ConstantsStay
<1>2. ret' = [ok |-> FALSE, out |-> 0, err |-> e]  BY DEF Fail
<1>3. ret' # NoReturn /\ ~ret'.ok /\ ret'.err = e
      /\ ret' = [ok |-> ret'.ok, out |-> ret'.out, err |-> ret'.err]
  BY <1>2, ReturnsSomething
<1>4. ErrorSound(input', err') /\ furthest' \in Int /\ err'.state.pos <= furthest'
  BY SoundOfSame DEF ErrorsGathered
<1>5. CASE ret.err = NoErr
  <2>1. e = NoErr  BY <1>5 DEF Repeat
  <2>2. ~Returned /\ ~Returned'  BY <1>1, <1>3, <1>5, <2>1 DEF Returned
  <2>3. status' = "run" /\ ~CountsNone => err'.state.pos = furthest'
    BY <2>2 DEF ErrorsGathered
  <2> QED  BY <1>1, <1>3, <1>4, <2>2, <2>3 DEF ErrorsGathered
<1>6. CASE ret.err # NoErr
  <2>1. Returned  BY <1>6 DEF Returned
  <2>2. ErrorSound(input, ret.err) /\ ret.err.state.pos <= furthest
        /\ (status = "run" => ~(input.suppress > 0))
        /\ (status = "run" /\ ~CountsNone => err.state.pos = furthest \/ ret.err.state.pos = furthest)
    BY <2>1 DEF ErrorsGathered
  <2>3. ErrorSound(input', ret.err)  BY <2>2, SoundOfSame
  <2>4. ErrorSound(input', e) /\ e.state = ret.err.state  BY <2>3, RepeatSound
  <2>5. Returned'  BY <1>1, <1>3, <2>4, NotNoErr DEF Returned
  <2> QED  BY <1>1, <1>3, <1>4, <2>2, <2>4, <2>5 DEF ErrorsGathered
<1> QED  BY <1>5, <1>6

(* A new error, where none was handed on.                                  *)
LEMMA FailGathers ==
  ASSUME ErrorsGathered, Kin(input, input'), UNCHANGED <<prog, err, status>>, ~Returned,
         NEW e, e = NoErr \/ ErrorSound(input', e), input'.suppress > 0 => e = NoErr,
         FailWith(e)
  PROVE  ErrorsGathered'
<1>1. NoReturn' = NoReturn /\ NoErr' = NoErr /\ (CountsNone' <=> CountsNone)
  BY ConstantsStay
<1>2. ret' = [ok |-> FALSE, out |-> 0, err |-> e]  BY DEF Fail, FailWith
<1>3. ret' # NoReturn /\ ~ret'.ok /\ ret'.err = e
      /\ ret' = [ok |-> ret'.ok, out |-> ret'.out, err |-> ret'.err]
  BY <1>2, ReturnsSomething
<1>4. /\ ErrorSound(input', err') /\ furthest \in Int /\ err'.state.pos <= furthest
      /\ err'.state.pos \in Int
      /\ status' = "run" /\ ~CountsNone => err'.state.pos = furthest
  BY SoundOfSame DEF ErrorsGathered, ErrorSound
<1>5. furthest' = IF e = NoErr \/ e.state.pos < furthest THEN furthest ELSE e.state.pos
  BY DEF FailWith
<1>6. CASE e = NoErr
  <2>1. ~Returned'  BY <1>1, <1>3, <1>6 DEF Returned
  <2> QED  BY <1>1, <1>3, <1>4, <1>5, <1>6, <2>1 DEF ErrorsGathered
<1>7. CASE e # NoErr
  <2>1. Returned'  BY <1>1, <1>3, <1>7 DEF Returned
  <2>2. ErrorSound(input', e) /\ e.state.pos \in Int  BY <1>7 DEF ErrorSound
  <2>3. furthest' \in Int /\ err'.state.pos <= furthest' /\ e.state.pos <= furthest'
        /\ (furthest' = furthest \/ furthest' = e.state.pos)
    BY <1>4, <1>5, <1>7, <2>2
  <2> QED  BY <1>1, <1>3, <1>4, <1>7, <2>1, <2>2, <2>3 DEF ErrorsGathered
<1> QED  BY <1>6, <1>7

(* The error of the call it made is gathered.                              *)
LEMMA Gathered ==
  ASSUME ErrorsGathered, Kin(input, input'), UNCHANGED furthest, ret # NoReturn,
         NEW m, m = Merge(err, ret.err)
  PROVE  /\ ErrorSound(input', m) /\ furthest' \in Int /\ m.state.pos <= furthest'
         /\ status = "run" /\ ~CountsNone => m.state.pos = furthest'
<1>1. ErrorSound(input', err) /\ furthest \in Int /\ err.state.pos <= furthest
  BY SoundOfSame DEF ErrorsGathered
<1>2. CASE ret.err = NoErr
  <2>1. ~Returned  BY <1>2 DEF Returned
  <2>2. ErrorSound(input', m) /\ m.state.pos = err.state.pos
    BY <1>1, <1>2, MergeOfNone
  <2> QED  BY <1>1, <2>1, <2>2 DEF ErrorsGathered
<1>3. CASE ret.err # NoErr
  <2>1. Returned  BY <1>3 DEF Returned
  <2>2. ErrorSound(input, ret.err) /\ ret.err.state.pos <= furthest
        /\ (status = "run" /\ ~CountsNone => err.state.pos = furthest \/ ret.err.state.pos = furthest)
    BY <2>1 DEF ErrorsGathered
  <2>3. ErrorSound(input', ret.err)  BY <2>2, SoundOfSame
  <2>4. /\ ErrorSound(input', m)
        /\ m.state.pos = IF err.state.pos < ret.err.state.pos THEN ret.err.state.pos ELSE err.state.pos
    BY <1>1, <2>3, MergeSound
  <2>5. err.state.pos \in Int /\ ret.err.state.pos \in Int  BY <1>1, <2>3 DEF ErrorSound
  <2> QED  BY <1>1, <2>2, <2>4, <2>5
<1> QED  BY <1>2, <1>3

LEMMA MergeGathers ==
  ASSUME ErrorsGathered, Kin(input, input'), UNCHANGED <<prog, furthest>>, ret # NoReturn,
         err' = Merge(err, ret.err), status' = "run" => status = "run", NoError(ret')
  PROVE  ErrorsGathered'
<1>1. NoReturn' = NoReturn /\ NoErr' = NoErr /\ (CountsNone' <=> CountsNone)
  BY ConstantsStay
<1>2. /\ ~Returned'
      /\ ret' # NoReturn =>
           /\ ret' = [ok |-> ret'.ok, out |-> ret'.out, err |-> ret'.err]
           /\ ret'.err = NoErr
  BY NoErrorMeans
<1>3. /\ ErrorSound(input', err') /\ furthest' \in Int /\ err'.state.pos <= furthest'
      /\ status = "run" /\ ~CountsNone => err'.state.pos = furthest'
  BY Gathered
<1> QED  BY <1>1, <1>2, <1>3 DEF ErrorsGathered

------------------------------------------------------------------------------
(* The calls *)

LEMMA PopCounts ==
  ASSUME CountsOn, StackOK(stack), stack # <<>>, stack' = Front(stack), ret' # NoReturn,
         UNCHANGED prog
  PROVE  CountsOn' /\ RootReturns'
<1>1. /\ Len(stack) \in Nat \ {0} /\ Len(stack') = Len(stack) - 1
      /\ \A k \in 1 .. Len(stack) - 1 : stack'[k] = stack[k]
  BY FrontOK
<1>2. \A k \in 1 .. Len(stack') : k \in 1 .. Len(stack) /\ stack'[k] = stack[k]
  BY <1>1
<1>3. NoReturn' = NoReturn /\ (CountsNone' <=> CountsNone)  BY ConstantsStay
<1> QED  BY <1>2, <1>3 DEF CountsOn, RootReturns, Type, Arg

LEMMA StayCounts ==
  ASSUME CountsOn, UNCHANGED <<prog, stack>>, stack # <<>> \/ ret' # NoReturn
  PROVE  CountsOn' /\ RootReturns'
<1>1. NoReturn' = NoReturn /\ (CountsNone' <=> CountsNone)  BY ConstantsStay
<1> QED  BY <1>1 DEF CountsOn, RootReturns, Type, Arg

LEMMA CallCounts ==
  ASSUME CountsOn, prog \in Grammars, StackOK(stack), stack # <<>>, UNCHANGED prog,
         NEW f, CallOK(f), f.p = Top.p, NEW j, j \in 1 .. Len(Kids(f.p)), Descend(f, j),
         ~CountsNone /\ Type(f.p) = "count" => f.j < Arg(f.p).n
  PROVE  CountsOn' /\ RootReturns'
<1>1. CASE Len(stack) < MaxDepth
  <2> DEFINE h == Fresh(Kids(f.p)[j])
  <2>1. stack' = Front(stack) \o <<f, h>>  BY <1>1 DEF Descend
  <2>2. CallOK(h) /\ h.j = 0
    <3>1. Kids(f.p) \in Seq(Node)  BY GrammarAssumption DEF Kids, CallOK
    <3>2. Kids(f.p)[j] \in Node  BY <3>1
    <3> QED  BY <3>2 DEF Fresh, CallOK, CallFields
  <2>. HIDE DEF h
  <2>3. /\ Len(stack') = Len(stack) + 1 /\ stack'[Len(stack)] = f /\ stack'[Len(stack) + 1] = h
        /\ \A k \in 1 .. Len(stack) - 1 : stack'[k] = stack[k]
        /\ StackOK(stack')
    <3>1. PICK s, t : s = stack /\ t = stack'  OBVIOUS
    <3>2. StackOK(s) /\ s # <<>> /\ CallOK(f) /\ CallOK(h) /\ t = Front(s) \o <<f, h>>
      BY <2>1, <2>2, <3>1
    <3>3. /\ StackOK(t) /\ Len(t) = Len(s) + 1 /\ t[Len(s)] = f /\ t[Len(s) + 1] = h
          /\ \A k \in 1 .. Len(s) - 1 : t[k] = s[k]
      BY ONLY <3>2, CalledOK
    <3> QED  BY ONLY <3>1, <3>3
  <2>4. Len(stack) \in Nat \ {0}  BY FrontOK
  <2>5. ASSUME ~CountsNone, NEW k \in 1 .. Len(stack'), Type(stack'[k].p) = "count"
        PROVE  stack'[k].j < Arg(stack'[k].p).n
    <3>1. k \in 1 .. Len(stack) - 1 \/ k = Len(stack) \/ k = Len(stack) + 1  BY <2>3, <2>4
    <3>2. CASE k \in 1 .. Len(stack) - 1
      <4>1. k \in 1 .. Len(stack) /\ stack'[k] = stack[k]  BY <2>3, <2>4, <3>2
      <4> QED  BY <2>5, <4>1 DEF CountsOn
    <3>3. CASE k = Len(stack)  BY <2>3, <2>5, <3>3
    <3>4. CASE k = Len(stack) + 1
      <4>1. h.p \in Node /\ Type(h.p) = "count"  BY <2>2, <2>3, <2>5, <3>4 DEF CallOK
      <4>2. Arg(h.p).n \in Int  BY <4>1, GrammarAssumption DEF Arg, Type
      <4>3. ~(Arg(h.p).n < 1)  BY <2>5, <4>1 DEF CountsNone
      <4> QED  BY <2>2, <2>3, <3>4, <4>2, <4>3
    <3> QED  BY <3>1, <3>2, <3>3, <3>4
  <2>6. stack' # <<>>  BY <2>3, <2>4, EmptySeq
  <2>7. CountsNone' <=> CountsNone  BY ConstantsStay
  <2> QED  BY <2>5, <2>6, <2>7 DEF CountsOn, RootReturns, Type, Arg
<1>2. CASE ~(Len(stack) < MaxDepth)
  <2>1. stack' = stack  BY <1>2 DEF Descend
  <2> QED  BY <2>1, StayCounts
<1> QED  BY <1>1, <1>2

(* A call of mpc_expect or mpc_not that waits suppresses errors.           *)
LEMMA Suppressed ==
  ASSUME MarksInv, Running, ret # NoReturn, Type(Top.p) \in {"expect", "not"}
  PROVE  input.suppress \in Nat /\ input.suppress > 0
<1>1. Owned(input, prog, stack, Len(stack))  BY DEF MarksInv, Running, Calling
<1>2. /\ Len(stack) - 1 \in Nat /\ (Len(stack) - 1) + 1 = Len(stack)
      /\ Type(Top.p) = prog[stack[Len(stack)].p].type
  BY TopIs
<1>3. input.suppress = Suppressing(prog, stack, Len(stack))  BY <1>1 DEF Owned
<1> DEFINE n == Len(stack) - 1
<1>4. n \in Nat /\ n + 1 = Len(stack)  BY <1>2
<1>. HIDE DEF n
<1>5. Suppressing(prog, stack, n + 1) = Suppressing(prog, stack, n) + 1
      /\ Suppressing(prog, stack, n) \in Nat
  <2>1. prog[stack[n + 1].p].type \in {"expect", "not"}  BY <1>2, <1>4
  <2>2. /\ Suppressing(prog, stack, n) \in Nat
        /\ Suppressing(prog, stack, n + 1) = Suppressing(prog, stack, n)
             + (IF prog[stack[n + 1].p].type \in {"expect", "not"} THEN 1 ELSE 0)
    BY <1>4, SuppressesMore
  <2> QED  BY <2>1, <2>2
<1> QED  BY <1>3, <1>4, <1>5

(* What a call that succeeded returns holds no error.                      *)
LEMMA OkIsQuiet ==
  ASSUME ErrorsGathered, ret # NoReturn, ret.ok
  PROVE  ~Returned /\ NoError(ret)
BY DEF ErrorsGathered, Returned, NoError

LEMMA AnswersQuiet ==
  ASSUME (\E out : Succeed(out)) \/ Fail(NoErr)
  PROVE  NoError(ret') /\ ret' # NoReturn /\ stack' = Front(stack)
BY ReturnsSomething DEF Succeed, Fail, NoError

LEMMA DescendQuiet ==
  ASSUME NEW f, NEW j, Descend(f, j), NoError(ret)
  PROVE  NoError(ret') /\ (status' = "run" => status = "run")
BY DEF Descend, NoError

------------------------------------------------------------------------------
(* The steps *)

Gathering == Inv /\ MarksInv /\ Placed(input) /\ ErrorsGathered /\ CountsOn /\ RootReturns
GatheredOn == ErrorsGathered' /\ CountsOn' /\ RootReturns'

(* A call returns.                                                         *)
LEMMA Popped ==
  ASSUME Gathering, Running, UNCHANGED prog, stack' = Front(stack), ret' # NoReturn
  PROVE  CountsOn' /\ RootReturns'
BY PopCounts DEF Gathering, Inv, Running

LEMMA LeafGathers ==
  ASSUME Gathering, Kin(input, input'),
         Chars \/ Word \/ AnchorHere \/ Pass \/ LiftVal \/ Lift \/ StateCopy \/ Failing \/ OfNone
  PROVE  GatheredOn
<1>1. /\ Running /\ ret = NoReturn /\ UNCHANGED <<prog, err, status>> /\ ~Returned
      /\ ErrorsGathered
  BY DEF Chars, Word, AnchorHere, Pass, LiftVal, Lift, StateCopy, Failing, OfNone, Starts,
         Returned, Gathering
<1>2. CASE Chars \/ Word \/ AnchorHere \/ Pass \/ LiftVal \/ Lift \/ StateCopy \/ OfNone
  <2>1. ((\E out : Succeed(out)) \/ Fail(NoErr)) /\ UNCHANGED furthest
    BY <1>2 DEF Chars, Word, AnchorHere, Pass, LiftVal, Lift, StateCopy, OfNone
  <2>2. NoError(ret') /\ ret' # NoReturn /\ stack' = Front(stack)  BY <2>1, AnswersQuiet
  <2>3. ErrorsGathered'  BY <1>1, <2>1, <2>2, QuietGathers
  <2> QED  BY <1>1, <2>2, <2>3, Popped DEF GatheredOn
<1>3. CASE Failing
  <2> DEFINE e == ErrFail(input, Type(Top.p))
  <2>1. FailWith(e) /\ UNCHANGED input /\ Type(Top.p) \in {"fail", "undefined"}
    BY <1>3 DEF Failing, Starts
  <2>2. /\ e = NoErr \/ ErrorSound(input, e)
        /\ input.suppress > 0 => e = NoErr
    BY <2>1, FailSound DEF Gathering
  <2>. HIDE DEF e
  <2>3. /\ e = NoErr \/ ErrorSound(input', e)
        /\ input'.suppress > 0 => e = NoErr
    BY <2>1, <2>2
  <2>4. ErrorsGathered'  BY <1>1, <2>1, <2>3, FailGathers
  <2>5. stack' = Front(stack) /\ ret' # NoReturn  BY <2>1, FailReturns DEF FailWith
  <2> QED  BY <1>1, <2>4, <2>5, Popped DEF GatheredOn
<1> QED  BY <1>2, <1>3

(* A first call, or the next one of a call that was answered well.         *)
LEMMA CallGathers ==
  ASSUME Gathering, Kin(input, input'), Running, UNCHANGED <<prog, err, furthest>>,
         ~Returned, NoError(ret),
         NEW f, CallOK(f), f.p = Top.p, NEW j, j \in 1 .. Len(Kids(f.p)), Descend(f, j),
         ~CountsNone /\ Type(f.p) = "count" => f.j < Arg(f.p).n
  PROVE  GatheredOn
<1>1. /\ CountsOn /\ prog \in Grammars /\ StackOK(stack) /\ stack # <<>> /\ ErrorsGathered
  BY DEF Gathering, Inv, Running
<1>2. NoError(ret') /\ (status' = "run" => status = "run")  BY DescendQuiet
<1>3. ErrorsGathered'  BY <1>1, <1>2, QuietGathers
<1>4. CountsOn' /\ RootReturns'  BY <1>1, CallCounts
<1> QED  BY <1>3, <1>4 DEF GatheredOn

LEMMA TopCount ==
  ASSUME Gathering, Running
  PROVE  ~CountsNone /\ Type(Top.p) = "count" => Top.j < Arg(Top.p).n
<1>1. Top = stack[Len(stack)] /\ Len(stack) \in Nat \ {0}
  BY FrontOK DEF Gathering, Inv, Running, Top
<1>2. Len(stack) \in 1 .. Len(stack)  BY <1>1
<1> QED  BY <1>1, <1>2 DEF Gathering, CountsOn

LEMMA EnterGathers ==
  ASSUME Gathering, Kin(input, input'),
         Enter \/ EnterExpect \/ EnterPredict \/ EnterNot \/ EnterCount \/ EnterSeveral
  PROVE  GatheredOn
<1>1. /\ Running /\ ret = NoReturn /\ UNCHANGED <<prog, err, furthest>> /\ ~Returned
      /\ NoError(ret)
  BY DEF Enter, EnterExpect, EnterPredict, EnterNot, EnterCount, EnterSeveral, Starts, Returned,
         NoError
<1>2. CallOK(Top) /\ Kids(Top.p) \in Seq(Node)
      /\ (Type(Top.p) \in Unary => 1 \in 1 .. Len(Kids(Top.p)))
  BY <1>1, TopIs DEF Gathering
<1>3. ~CountsNone /\ Type(Top.p) = "count" => Top.j < Arg(Top.p).n  BY <1>1, TopCount
<1>4. CASE Enter \/ EnterExpect \/ EnterPredict \/ EnterNot
  <2>1. Type(Top.p) \in Unary /\ Descend(Top, 1)
    BY <1>4 DEF Enter, EnterExpect, EnterPredict, EnterNot, Starts, Unary
  <2> QED  BY <1>1, <1>2, <1>3, <2>1, CallGathers
<1>5. CASE EnterCount
  <2> DEFINE f == WithArray(store, Top, Arg(Top.p).n).f
  <2>1. Type(Top.p) \in Unary /\ Descend(f, 1)  BY <1>5 DEF EnterCount, Starts, Unary
  <2>2. CallOK(f) /\ f.p = Top.p /\ f.j = Top.j  BY <1>2, WithArrayOK, WithArrayFrom
  <2>. HIDE DEF f
  <2> QED  BY <1>1, <1>2, <1>3, <2>1, <2>2, CallGathers
<1>6. CASE EnterSeveral
  <2> DEFINE f == WithArray(store, Top, Len(Kids(Top.p))).f
  <2>1. Type(Top.p) \in {"or", "and"} /\ Kids(Top.p) # <<>> /\ Descend(f, 1)
    BY <1>6 DEF EnterSeveral, Starts
  <2>2. CallOK(f) /\ f.p = Top.p  BY <1>2, WithArrayOK
  <2>3. 1 \in 1 .. Len(Kids(f.p))  BY <1>2, <2>1, <2>2, EmptySeq
  <2>. HIDE DEF f
  <2> QED  BY <1>1, <2>1, <2>2, <2>3, CallGathers
<1> QED  BY <1>4, <1>5, <1>6

(* What a call answers when the one it made succeeded, or failed.          *)
LEMMA WellGathers ==
  ASSUME Gathering, Kin(input, input'), Running, ret # NoReturn, ret.ok,
         UNCHANGED <<prog, err, status, furthest>>, NEW out, Succeed(out)
  PROVE  GatheredOn
<1>1. ~Returned /\ ErrorsGathered  BY OkIsQuiet DEF Gathering
<1>2. NoError(ret') /\ ret' # NoReturn /\ stack' = Front(stack)  BY AnswersQuiet
<1>3. ErrorsGathered'  BY <1>1, <1>2, QuietGathers
<1> QED  BY <1>2, <1>3, Popped DEF GatheredOn

LEMMA BadGathers ==
  ASSUME Gathering, Kin(input, input'), Running, ret # NoReturn,
         UNCHANGED <<prog, err, status, furthest>>, input'.suppress > 0 => input.suppress > 0,
         NEW e, e = ret.err \/ (\E prefix : e = Repeat(ret.err, prefix)), Fail(e)
  PROVE  GatheredOn
<1>1. ErrorsGathered  BY DEF Gathering
<1>2. ErrorsGathered'  BY <1>1, HandOnGathers
<1>3. stack' = Front(stack) /\ ret' # NoReturn  BY FailReturns
<1> QED  BY <1>2, <1>3, Popped DEF GatheredOn

LEMMA EndGathers ==
  ASSUME Gathering, Kin(input, input'), Running, ret # NoReturn,
         UNCHANGED <<prog, status, furthest>>, err' = Merge(err, ret.err),
         (\E out : Succeed(out)) \/ Fail(NoErr)
  PROVE  GatheredOn
<1>1. ErrorsGathered  BY DEF Gathering
<1>2. NoError(ret') /\ ret' # NoReturn /\ stack' = Front(stack)  BY AnswersQuiet
<1>3. ErrorsGathered'  BY <1>1, <1>2, MergeGathers
<1> QED  BY <1>2, <1>3, Popped DEF GatheredOn

LEMMA NewGathers ==
  ASSUME Gathering, Kin(input, input'), Running, ~Returned,
         UNCHANGED <<prog, err, status>>,
         NEW e, e = NoErr \/ ErrorSound(input', e), input'.suppress > 0 => e = NoErr,
         FailWith(e)
  PROVE  GatheredOn
<1>1. ErrorsGathered  BY DEF Gathering
<1>2. ErrorsGathered'  BY <1>1, FailGathers
<1>3. stack' = Front(stack) /\ ret' # NoReturn  BY FailReturns DEF FailWith
<1> QED  BY <1>2, <1>3, Popped DEF GatheredOn

LEMMA CountTyped ==
  ASSUME Gathering, Running, Type(Top.p) = "count"
  PROVE  Arg(Top.p).n \in Int
<1>1. CallOK(Top) /\ prog \in Grammars  BY TopIs DEF Gathering, Inv
<1> QED  BY <1>1, GrammarAssumption DEF Arg, Type, CallOK

(* The error of an expect or a negation, that answers outside of what it   *)
(* suppressed.                                                             *)
LEMMA AnewGathers ==
  ASSUME Gathering, Kin(input, input'), Running, ret # NoReturn,
         Type(Top.p) \in {"expect", "not"}, UNCHANGED <<prog, err, status>>,
         NEW i, Sound(i), Kin(input, i), NEW label, FailWith(ErrNew(i, label)),
         input' = IF i.suppress > 0 THEN i ELSE Peekc(i).i
  PROVE  GatheredOn
<1>1. status = "run" /\ ErrorsGathered /\ MarksInv  BY DEF Gathering, Running
<1>2. input.suppress > 0  BY <1>1, Suppressed
<1>3. ~Returned  BY <1>1, <1>2 DEF ErrorsGathered
<1>4. PICK e : e = ErrNew(i, label)  OBVIOUS
<1>5. Placed(i) /\ Room(i)  BY DEF Kin
<1>6. /\ e = NoErr \/ ErrorSound(i, e)
      /\ i.suppress > 0 => e = NoErr
  BY <1>4, <1>5, NewSound
<1>7. Kin(i, input') /\ input'.suppress = i.suppress
  BY <1>5, PeekKin, KinSelf, PeekLeaves DEF Untouched
<1>8. e = NoErr \/ ErrorSound(input', e)  BY <1>6, <1>7, SoundOfSame
<1>9. input'.suppress > 0 => e = NoErr  BY <1>6, <1>7
<1>10. FailWith(e)  BY <1>4
<1> QED  BY <1>3, <1>8, <1>9, <1>10, NewGathers

LEMMA UnaryGathers ==
  ASSUME Gathering, Kin(input, input'),
         Apply \/ Check \/ Predict \/ Maybe \/ ManyEnd \/ CountEnd
  PROVE  GatheredOn
<1>1. /\ Running /\ ret # NoReturn /\ UNCHANGED <<prog, status>> /\ MarksInv /\ Placed(input)
      /\ Room(input)
  BY DEF Apply, Check, Predict, Maybe, ManyEnd, CountEnd, Resumes, Gathering, MarksInv
<1>2. CASE Apply
  <2>1. UNCHANGED <<input, err, furthest>>
        /\ ((ret.ok /\ \E out : Succeed(out)) \/ (~ret.ok /\ Fail(ret.err)))
    BY <1>2 DEF Apply
  <2> QED  BY <1>1, <2>1, WellGathers, BadGathers
<1>3. CASE Check
  <2>1. /\ UNCHANGED <<input, err>>
        /\ \/ ret.ok /\ UNCHANGED furthest /\ \E out : Succeed(out)
           \/ ret.ok /\ FailWith(ErrFail(input, "check"))
           \/ ~ret.ok /\ UNCHANGED furthest /\ Fail(ret.err)
    BY <1>3 DEF Check
  <2>2. CASE ret.ok /\ FailWith(ErrFail(input, "check"))
    <3> DEFINE e == ErrFail(input, "check")
    <3>1. /\ e = NoErr \/ ErrorSound(input, e)
          /\ input.suppress > 0 => e = NoErr
      BY <1>1, FailSound
    <3>2. FailWith(e)  BY <2>2
    <3>. HIDE DEF e
    <3>3. /\ e = NoErr \/ ErrorSound(input', e)
          /\ input'.suppress > 0 => e = NoErr
      BY <2>1, <3>1
    <3>4. ~Returned  BY <1>1, <2>2, OkIsQuiet DEF Gathering
    <3> QED  BY <1>1, <2>1, <3>2, <3>3, <3>4, NewGathers
  <2> QED  BY <1>1, <2>1, <2>2, WellGathers, BadGathers
<1>4. CASE Predict
  <2>1. /\ input' = Enable(input) /\ UNCHANGED <<err, furthest>>
        /\ IF ret.ok THEN \E out : Succeed(out) ELSE Fail(ret.err)
    BY <1>4 DEF Predict
  <2>2. input'.suppress = input.suppress  BY <1>1, <2>1 DEF Enable, Room, Fields
  <2> QED  BY <1>1, <2>1, <2>2, WellGathers, BadGathers
<1>5. CASE Maybe
  <2>1. /\ UNCHANGED <<input, furthest>> /\ (\E out : Succeed(out))
        /\ \/ ret.ok /\ UNCHANGED err
           \/ err' = Merge(err, ret.err)
    BY <1>5 DEF Maybe
  <2> QED  BY <1>1, <2>1, WellGathers, EndGathers
<1>6. CASE ManyEnd
  <2>1. /\ UNCHANGED <<input, furthest>>
        /\ \/ Fail(Repeat(ret.err, "oneOrMore")) /\ UNCHANGED err
           \/ err' = Merge(err, ret.err) /\ \E out : Succeed(out)
    BY <1>6 DEF ManyEnd
  <2> QED  BY <1>1, <2>1, BadGathers, EndGathers
<1>7. CASE CountEnd
  <2>1. /\ UNCHANGED <<input, err, furthest>> /\ Type(Top.p) = "count"
        /\ \/ Top.j = Arg(Top.p).n /\ \E out : Succeed(out)
           \/ Fail(Repeat(ret.err, "countOf"))
    BY <1>7 DEF CountEnd, Resumes
  <2>2. CASE Top.j = Arg(Top.p).n /\ \E out : Succeed(out)
    <3>1. CountsNone  BY <1>1, <2>1, <2>2, TopCount, CountTyped
    <3>2. NoError(ret') /\ ret' # NoReturn /\ stack' = Front(stack)  BY <2>2, AnswersQuiet
    <3>3. ErrorsGathered  BY DEF Gathering
    <3>4. ErrorsGathered'  BY <1>1, <2>1, <3>1, <3>2, <3>3, QuietGathers
    <3> QED  BY <1>1, <3>2, <3>4, Popped DEF GatheredOn
  <2> QED  BY <1>1, <2>1, <2>2, BadGathers
<1> QED  BY <1>1, <1>2, <1>3, <1>4, <1>5, <1>6, <1>7

LEMMA LooksBack ==
  ASSUME NEW i, Room(i), Placed(i)
  PROVE  Kin(i, Unsuppress(i)) /\ Unsuppress(i).suppress = i.suppress - 1
<1>1. DOMAIN i = Fields  BY DEF Room
<1>2. LET k == Unsuppress(i)
      IN  /\ DOMAIN k = Fields /\ k.marks = i.marks /\ k.state = i.state /\ k.slots = i.slots
          /\ k.kind = i.kind /\ k.text = i.text /\ k.suppress = i.suppress - 1
  BY <1>1 DEF Unsuppress, Fields
<1>3. Room(Unsuppress(i))  BY <1>2 DEF Room
<1> QED  BY <1>2, <1>3, KinStays

LEMMA LookGathers ==
  ASSUME Gathering, Kin(input, input'), Expect \/ Not
  PROVE  GatheredOn
<1>1. /\ Running /\ ret # NoReturn /\ UNCHANGED <<prog, status, err>> /\ MarksInv
      /\ Type(Top.p) \in {"expect", "not"} /\ Placed(input) /\ Room(input)
      /\ Sound(input) /\ Inv /\ ErrorsGathered /\ status = "run"
  BY DEF Expect, Not, Resumes, Gathering, MarksInv, Inv, Running
<1>2. CASE Expect
  <2> DEFINE i == Unsuppress(input)
  <2>1. \/ ret.ok /\ UNCHANGED furthest /\ \E out : Succeed(out)
        \/ /\ FailWith(ErrNew(i, Arg(Top.p)))
           /\ input' = IF i.suppress > 0 THEN i ELSE Peekc(i).i
    BY <1>2 DEF Expect
  <2>2. Sound(i) /\ Kin(input, i)
    BY <1>1, SuppressLooks, MovesKeepsSound, LooksBack DEF Looks
  <2>. HIDE DEF i
  <2> QED  BY <1>1, <2>1, <2>2, WellGathers, AnewGathers
<1>3. CASE Not
  <2> DEFINE i == Unsuppress(Rewind(input))
  <2>1. \/ /\ FailWith(ErrNew(i, "opposite"))
           /\ input' = IF i.suppress > 0 THEN i ELSE Peekc(i).i
        \/ UNCHANGED furthest /\ \E out : Succeed(out)
    BY <1>3 DEF Not
  <2>. Type(Top.p) = "not"  BY <1>3 DEF Not, Resumes
  <2>2. CASE UNCHANGED furthest /\ \E out : Succeed(out)
    <3>1. input.suppress > 0  BY <1>1, Suppressed
    <3>2. ~Returned  BY <1>1, <3>1 DEF ErrorsGathered
    <3>3. NoError(ret') /\ ret' # NoReturn /\ stack' = Front(stack)  BY <2>2, AnswersQuiet
    <3>4. ErrorsGathered'  BY <1>1, <2>2, <3>2, <3>3, QuietGathers
    <3> QED  BY <1>1, <3>3, <3>4, Popped DEF GatheredOn
  <2>3. CASE /\ FailWith(ErrNew(i, "opposite"))
             /\ input' = IF i.suppress > 0 THEN i ELSE Peekc(i).i
    <3> DEFINE j == Rewind(input)
    <3>1. Sound(j)  BY <1>1, BackSound
    <3>2. Kin(input, j)
      <4>1. input.backtrack < 1 \/ input.marks # <<>>  BY <1>1, MarkThere
      <4> QED  BY <1>1, <4>1, RewindKin
    <3>3. i = Unsuppress(j)  OBVIOUS
    <3>. HIDE DEF j, i
    <3>4. Sound(i)  BY <3>1, <3>3, SuppressLooks, MovesKeepsSound DEF Looks
    <3>5. Kin(input, i)  BY <3>2, <3>3, LooksBack, KinTwice DEF Kin
    <3> QED  BY <1>1, <2>3, <3>4, <3>5, AnewGathers
  <2> QED  BY <2>1, <2>2, <2>3
<1> QED  BY <1>2, <1>3

LEMMA RepeatGathers ==
  ASSUME Gathering, Kin(input, input'), ManyMore \/ CountMore
  PROVE  GatheredOn
<1>1. Running /\ ret # NoReturn /\ ret.ok /\ UNCHANGED <<prog, err, furthest>>
      /\ MarksInv /\ ErrorsGathered /\ CountsOn /\ status = "run" /\ stack # <<>>
  BY DEF ManyMore, CountMore, Resumes, Gathering, Running
<1>2. CallOK(Top) /\ Top.j \in Nat
      /\ (Type(Top.p) \in Unary => 1 \in 1 .. Len(Kids(Top.p)))
  BY <1>1, TopIs DEF CallOK
<1>3. ~Returned /\ NoError(ret)  BY <1>1, OkIsQuiet
<1> DEFINE kept == [Top EXCEPT !.j = Top.j + 1, !.outs = Append(@, ret.out)]
<1>4. /\ CallOK(kept) /\ kept.p = Top.p /\ kept.j = Top.j + 1
      /\ \A a : LET f == [kept EXCEPT !.array = a]
                IN  CallOK(f) /\ f.p = Top.p /\ f.j = Top.j + 1
  BY <1>2 DEF CallOK, CallFields
<1>5. ASSUME UNCHANGED <<stack, ret>>, status' # "run" PROVE GatheredOn
  <2>1. NoError(ret')  BY <1>3, <1>5
  <2>2. ErrorsGathered'  BY <1>1, <1>3, <1>5, <2>1, QuietGathers
  <2>3. CountsOn' /\ RootReturns'  BY <1>1, <1>5, StayCounts
  <2> QED  BY <2>2, <2>3 DEF GatheredOn
<1>6. CASE ManyMore
  <2>1. /\ Type(Top.p) \in {"many", "many1"}
        /\ \/ status' = "exhausted" /\ UNCHANGED <<stack, ret>>
           \/ \E a : Descend([kept EXCEPT !.array = a], 1)
           \/ Descend(kept, 1)
    <3>1. Type(Top.p) \in {"many", "many1"}  BY <1>6 DEF ManyMore, Resumes
    <3>2. \/ status' = "exhausted" /\ UNCHANGED <<stack, ret>>
          \/ \E a : Descend([kept EXCEPT !.array = a], 1)
          \/ Descend(kept, 1)
      BY <1>6, Zenon DEF ManyMore
    <3>. HIDE DEF kept
    <3> QED  BY <3>1, <3>2
  <2>. HIDE DEF kept
  <2>2. 1 \in 1 .. Len(Kids(Top.p)) /\ Type(Top.p) # "count"  BY <1>2, <2>1 DEF Unary
  <2>3. ASSUME NEW f, CallOK(f), f.p = Top.p, Descend(f, 1) PROVE GatheredOn
    BY <1>1, <1>3, <2>2, <2>3, CallGathers
  <2> QED  BY <1>4, <1>5, <2>1, <2>3
<1>7. CASE CountMore
  <2>1. /\ Type(Top.p) = "count"
        /\ \/ (\E x : Succeed(x)) /\ UNCHANGED status
           \/ status' = "smashed" /\ UNCHANGED <<stack, ret>>
           \/ Top.j + 1 # Arg(Top.p).n /\ Descend(kept, 1)
    BY <1>7 DEF CountMore, Resumes
  <2>. HIDE DEF kept
  <2>2. 1 \in 1 .. Len(Kids(Top.p))  BY <1>2, <2>1 DEF Unary
  <2>3. CASE Top.j + 1 # Arg(Top.p).n /\ Descend(kept, 1)
    <3>1. Arg(Top.p).n \in Int  BY <1>1, <2>1, CountTyped
    <3>2. ~CountsNone => Top.j < Arg(Top.p).n  BY <1>1, <2>1, TopCount
    <3>3. ~CountsNone => kept.j < Arg(kept.p).n  BY <1>2, <1>4, <2>3, <3>1, <3>2
    <3> QED  BY <1>1, <1>3, <1>4, <2>2, <2>3, <3>3, CallGathers
  <2> QED  BY <1>1, <1>5, <2>1, <2>3, WellGathers
<1> QED  BY <1>6, <1>7

LEMMA SeveralGathers ==
  ASSUME Gathering, Kin(input, input'), OrTaken \/ AndNext \/ AndFail
  PROVE  GatheredOn
<1>1. Running /\ ret # NoReturn /\ UNCHANGED <<prog, err, furthest>> /\ MarksInv
      /\ ErrorsGathered
  BY DEF OrTaken, AndNext, AndFail, Resumes, Gathering
<1>2. CallOK(Top) /\ Kids(Top.p) \in Seq(Node) /\ Top.j \in Nat /\ Top.j + 1 \in Nat
      /\ Len(Kids(Top.p)) \in Nat
  BY <1>1, TopIs DEF CallOK
<1>3. CASE OrTaken
  <2>1. ret.ok /\ UNCHANGED status /\ \E x : Succeed(x)  BY <1>3 DEF OrTaken, Resumes
  <2> QED  BY <1>1, <2>1, WellGathers
<1>4. CASE AndNext
  <2> DEFINE kept == [Top EXCEPT !.j = @ + 1, !.outs = Append(@, ret.out)]
  <2>1. /\ Type(Top.p) = "and" /\ ret.ok
        /\ \/ kept.j < Len(Kids(Top.p)) /\ Descend(kept, kept.j + 1)
           \/ (\E x : Succeed(x)) /\ UNCHANGED status
    BY <1>4 DEF AndNext, Resumes
  <2>2. CallOK(kept) /\ kept.p = Top.p
    BY <1>2 DEF CallOK, CallFields
  <2>. HIDE DEF kept
  <2>3. CASE kept.j < Len(Kids(Top.p)) /\ Descend(kept, kept.j + 1)
    <3>1. kept.j \in Nat /\ kept.j + 1 \in 1 .. Len(Kids(kept.p))
      BY <1>2, <2>2, <2>3 DEF CallOK
    <3>2. ~Returned /\ NoError(ret)  BY <1>1, <2>1, OkIsQuiet
    <3>3. Type(kept.p) # "count"  BY <2>1, <2>2
    <3> QED  BY <1>1, <2>2, <2>3, <3>1, <3>2, <3>3, CallGathers
  <2> QED  BY <1>1, <2>1, <2>3, WellGathers
<1>5. CASE AndFail
  <2>1. Type(Top.p) = "and" /\ input' = Rewind(input) /\ UNCHANGED status /\ Fail(ret.err)
    BY <1>5 DEF AndFail, Resumes
  <2>2. Drops(input, Rewind(input))  BY <1>1, <2>1, OwnMark
  <2>3. input'.suppress = input.suppress  BY <2>1, <2>2 DEF Drops
  <2> QED  BY <1>1, <2>1, <2>3, BadGathers
<1> QED  BY <1>3, <1>4, <1>5

LEMMA OrGathers ==
  ASSUME Gathering, Kin(input, input'), OrNext
  PROVE  GatheredOn
<1>1. Running /\ ret # NoReturn /\ UNCHANGED <<prog, furthest>> /\ MarksInv
      /\ err' = Merge(err, ret.err) /\ Type(Top.p) = "or"
      /\ ErrorsGathered /\ CountsOn /\ prog \in Grammars /\ StackOK(stack) /\ stack # <<>>
  BY DEF OrNext, Resumes, Gathering, Inv, Running
<1>2. CallOK(Top) /\ Kids(Top.p) \in Seq(Node) /\ Top.j \in Nat /\ Len(Kids(Top.p)) \in Nat
  BY <1>1, TopIs DEF CallOK
<1> DEFINE f == [Top EXCEPT !.j = @ + 1]
<1>3. \/ Top.j + 1 < Len(Kids(Top.p)) /\ Descend(f, Top.j + 2)
      \/ Fail(NoErr) /\ UNCHANGED status
  BY DEF OrNext
<1>4. CallOK(f) /\ f.p = Top.p  BY <1>2 DEF CallOK, CallFields
<1>. HIDE DEF f
<1>5. CASE Top.j + 1 < Len(Kids(Top.p)) /\ Descend(f, Top.j + 2)
  <2>1. Top.j + 2 \in 1 .. Len(Kids(f.p))  BY <1>2, <1>4, <1>5
  <2>2. Type(f.p) # "count"  BY <1>1, <1>4
  <2>3. CountsOn' /\ RootReturns'  BY <1>1, <1>4, <1>5, <2>1, <2>2, CallCounts
  <2>4. CASE Len(stack) < MaxDepth
    <3>1. ret' = NoReturn /\ UNCHANGED status  BY <1>5, <2>4 DEF Descend
    <3>2. NoReturn' = NoReturn  BY <1>1, ConstantsStay
    <3>3. NoError(ret')  BY <3>1 DEF NoError
    <3>4. ErrorsGathered'  BY <1>1, <3>1, <3>3, MergeGathers
    <3> QED  BY <2>3, <3>4 DEF GatheredOn
  <2>5. CASE ~(Len(stack) < MaxDepth)
    <3>1. UNCHANGED ret /\ status' # "run"  BY <1>5, <2>5 DEF Descend
    <3>2. ErrorSound(input', err') /\ err'.state.pos <= furthest  BY <1>1, Gathered
    <3>3. ErrorsGathered'  BY <1>1, <3>1, <3>2, StopGathers
    <3> QED  BY <2>3, <3>3 DEF GatheredOn
  <2> QED  BY <2>4, <2>5
<1>6. CASE Fail(NoErr) /\ UNCHANGED status
  BY <1>1, <1>6, EndGathers
<1> QED  BY <1>3, <1>5, <1>6

(* The last failure is gathered too, and the whole is reported.            *)
LEMMA FinishGathers ==
  ASSUME Gathering, Kin(input, input'), ParseEnd
  PROVE  GatheredOn /\ ErrorIsFurthest'
<1>1. /\ UNCHANGED <<prog, input, stack, err, furthest>> /\ ret # NoReturn
      /\ status = "run" /\ ErrorsGathered /\ CountsOn
  BY DEF ParseEnd, Gathering, RootReturns
<1>2. NoReturn' = NoReturn /\ NoErr' = NoErr /\ (CountsNone' <=> CountsNone)
  BY <1>1, ConstantsStay
<1>3. CASE status' = "done" /\ UNCHANGED ret
  <2>1. ErrorSound(input', err') /\ err'.state.pos <= furthest  BY <1>1 DEF ErrorsGathered
  <2>2. ErrorsGathered'  BY <1>1, <1>3, <2>1, StopGathers
  <2>3. CountsOn' /\ RootReturns'  BY <1>1, <1>3, StayCounts
  <2>4. ErrorIsFurthest'  BY <1>3 DEF ErrorIsFurthest
  <2> QED  BY <2>2, <2>3, <2>4 DEF GatheredOn
<1>4. CASE /\ ~ret.ok /\ status' = "failed"
           /\ ret' = [ret EXCEPT !.err = Merge(err, @)]
  <2>1. PICK m : m = Merge(err, ret.err)  OBVIOUS
  <2>2. ret = [ok |-> ret.ok, out |-> ret.out, err |-> ret.err]  BY <1>1 DEF ErrorsGathered
  <2>3. ret' = [ok |-> ret.ok, out |-> ret.out, err |-> m]  BY <1>4, <2>1, <2>2
  <2>4. ret' # NoReturn /\ ret'.ok = ret.ok /\ ret'.out = ret.out /\ ret'.err = m
    BY <2>3, ReturnsSomething
  <2>5. /\ ErrorSound(input', m) /\ furthest' \in Int /\ m.state.pos <= furthest'
        /\ ~CountsNone => m.state.pos = furthest'
    BY <1>1, <2>1, Gathered
  <2>6. Returned'  BY <1>2, <2>4, <2>5, NotNoErr DEF Returned
  <2>7. ErrorSound(input', err') /\ err'.state.pos <= furthest'
    BY <1>1 DEF ErrorsGathered
  <2>8. ErrorsGathered'
    BY <1>2, <1>4, <2>3, <2>4, <2>5, <2>6, <2>7 DEF ErrorsGathered
  <2>9. CountsOn' /\ RootReturns'  BY <1>1, <1>2, <2>4, StayCounts
  <2>10. ErrorIsFurthest'
    <3>1. m # NoErr  BY <2>5, NotNoErr
    <3>2. m.failure = NoFailure /\ input'.kind # "pipe" =>
            m.expected # {} /\ m.received = CharOf(input'.text, m.state.pos)
      BY <2>5 DEF ErrorSound
    <3> QED  BY <1>2, <2>4, <2>5, <3>1, <3>2 DEF ErrorIsFurthest, CharAt
  <2> QED  BY <2>8, <2>9, <2>10 DEF GatheredOn
<1> QED  BY <1>3, <1>4 DEF ParseEnd

(* Only the end of the parse ends it well or ill, only a count smashes.    *)
LEMMA OnlyAtTheEnd ==
  ASSUME Next, ~ParseEnd, ~Ended
  PROVE  status' \notin {"failed", "done"} /\ (status' = "smashed" => CountMore)
<1>1. \A f, j : Descend(f, j) /\ status = "run" => status' \in {"run", "overflow"}
  BY DEF Descend
<1>2. CASE Chars \/ Word \/ AnchorHere \/ Pass \/ LiftVal \/ Lift \/ StateCopy \/ Failing \/ OfNone
  BY <1>2 DEF Chars, Word, AnchorHere, Pass, LiftVal, Lift, StateCopy, Failing, OfNone, Starts,
              Running
<1>3. CASE Enter \/ EnterExpect \/ EnterPredict \/ EnterNot \/ EnterCount \/ EnterSeveral
  BY <1>1, <1>3 DEF Enter, EnterExpect, EnterPredict, EnterNot, EnterCount, EnterSeveral, Starts,
                    Running
<1>4. CASE Apply \/ Check \/ Expect \/ Predict \/ Not \/ Maybe \/ ManyEnd \/ CountEnd
           \/ OrTaken \/ AndFail
  BY <1>4 DEF Apply, Check, Expect, Predict, Not, Maybe, ManyEnd, CountEnd, OrTaken, AndFail,
              Resumes, Running
<1>5. CASE ManyMore
  <2>1. status = "run" /\ (status' = "exhausted" \/ \E f, j : Descend(f, j))
    BY <1>5, Zenon DEF ManyMore, Resumes, Running
  <2> QED  BY <1>1, <2>1
<1>6. CASE CountMore \/ OrNext \/ AndNext
  BY <1>1, <1>6 DEF CountMore, OrNext, AndNext, Resumes, Running
<1> QED  BY <1>2, <1>3, <1>4, <1>5, <1>6 DEF Next

ErrInv == Gathering /\ ErrorIsFurthest

LEMMA NextGathers ==
  ASSUME ErrInv, [Next]_vars
  PROVE  ErrInv'
<1>1. Gathering /\ Inv /\ MarksInv /\ Placed(input)  BY DEF ErrInv, Gathering
<1>2. Inv' /\ MarksInv' /\ Kin(input, input')  BY <1>1, NextOK, NextKeeps, NextKin DEF Kept
<1>3. Placed(input')  BY <1>2 DEF Kin
<1>4. CASE ParseEnd
  BY <1>1, <1>2, <1>3, <1>4, FinishGathers DEF ErrInv, Gathering, GatheredOn, Placed
<1>5. CASE UNCHANGED vars
  <2>1. UNCHANGED <<prog, input, stack, ret, err, status, furthest>>  BY <1>5 DEF vars
  <2>2. NoReturn' = NoReturn /\ NoErr' = NoErr /\ (CountsNone' <=> CountsNone)
    BY <2>1, ConstantsStay
  <2>3. (Returned' <=> Returned) /\ \A at : CharAt(at)' = CharAt(at)
    BY <2>1, <2>2 DEF Returned, CharAt
  <2>4. ErrorsGathered'
    BY <2>1, <2>2, <2>3 DEF ErrInv, Gathering, ErrorsGathered
  <2>5. CountsOn' /\ RootReturns'
    BY <2>1, <2>2 DEF ErrInv, Gathering, CountsOn, RootReturns, Type, Arg
  <2>6. ErrorIsFurthest'
    BY <2>1, <2>2 DEF ErrInv, ErrorIsFurthest, CharAt
  <2> QED  BY <1>2, <1>3, <2>4, <2>5, <2>6 DEF ErrInv, Gathering, Placed
<1>6. CASE Next /\ ~ParseEnd /\ ~Ended
  <2>1. GatheredOn
    BY <1>1, <1>2, <1>6, LeafGathers, EnterGathers, UnaryGathers, LookGathers, RepeatGathers,
       SeveralGathers, OrGathers DEF Next
  <2>2. ErrorIsFurthest'  BY <1>6, OnlyAtTheEnd DEF ErrorIsFurthest
  <2> QED  BY <1>2, <1>3, <2>1, <2>2 DEF ErrInv, Gathering, GatheredOn, Placed
<1> QED  BY <1>4, <1>5, <1>6 DEF Ended

LEMMA InitGathers ==
  ASSUME Init
  PROVE  ErrInv
<1>1. Inv /\ MarksInv  BY InitOK, InitMarks
<1>2. PICK kind \in InputKinds, text \in Texts : input = New(kind, text)  BY DEF Init
<1>3. input.state.pos = 0 /\ input.marks = <<>>  BY <1>2 DEF New, Start
<1>4. Placed(input)  BY <1>3, EmptySeq DEF Placed
<1>5. ret = NoReturn /\ stack = <<Fresh(Root)>> /\ err = Unknown /\ furthest = -1
      /\ status = "run"
  BY DEF Init
<1>6. "unknown" # NoFailure  BY FailureAssumption
<1>7. /\ DOMAIN err = {"state", "expected", "failure", "received"}
      /\ err.state.pos = -1 /\ err.failure = "unknown"
  BY <1>5 DEF Unknown, Nowhere
<1>8. ErrorSound(input, err)  BY <1>6, <1>7 DEF ErrorSound
<1>9. ErrorsGathered  BY <1>5, <1>7, <1>8 DEF ErrorsGathered, Returned
<1>10. PICK f : f = Fresh(Root)  OBVIOUS
<1>11. f.j = 0 /\ f.p = Root  BY <1>10 DEF Fresh
<1>12. Len(stack) = 1 /\ stack[1] = f /\ stack # <<>>  BY <1>5, <1>10
<1>13. CountsOn
  <2>1. SUFFICES ASSUME ~CountsNone, NEW k \in 1 .. Len(stack), Type(stack[k].p) = "count"
                 PROVE  stack[k].j < Arg(stack[k].p).n
    BY DEF CountsOn
  <2>2. stack[k].j = 0 /\ stack[k].p = Root  BY <1>11, <1>12, <2>1
  <2>3. Root \in Node /\ prog \in Grammars  BY <1>1, ParseAssumption DEF Inv
  <2>4. Arg(Root).n \in Int  BY <2>1, <2>2, <2>3, GrammarAssumption DEF Arg, Type
  <2>5. ~(Arg(Root).n < 1)  BY <2>1, <2>2, <2>3 DEF CountsNone
  <2> QED  BY <2>2, <2>4, <2>5
<1> QED  BY <1>1, <1>4, <1>5, <1>9, <1>12, <1>13
         DEF ErrInv, Gathering, RootReturns, ErrorIsFurthest

(* Whatever the text, the kind of input and the order of alternatives,     *)
(* repetitions, negations and expectations in a grammar that counts no     *)
(* none: the error of a failed parse (mpc_parse_input) is about the        *)
(* furthest place anything was found wrong at, though the errors of        *)
(* alternatives and of repetitions that ended are gathered on the way      *)
(* (mpc_err_merge) and what was found under a suppression is left out;     *)
(* and, but for a pipe, it names what was expected there and the character *)
(* that was there instead.                                                 *)
THEOREM ErrorHolds == Spec => []ErrorIsFurthest
<1>1. Init => ErrInv  BY InitGathers
<1>2. ErrInv /\ [Next]_vars => ErrInv'  BY NextGathers
<1>3. ErrInv => ErrorIsFurthest  BY DEF ErrInv
<1> QED  BY <1>1, <1>2, <1>3, PTL DEF Spec
=============================================================================
