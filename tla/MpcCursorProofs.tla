---------------------------- MODULE MpcCursorProofs ----------------------------
(***************************************************************************)
(* The parse engine of mpc, on a string or a file, implements the cursor   *)
(* of module Cursor.  First, what the functions of mpc_input_t do to an    *)
(* input: they read on in its text, mark it and go back, and row, column   *)
(* and previous character stay those of the place; of a pipe they keep     *)
(* only that it is one.  Then, that the engine's calls and its marks stay  *)
(* matched.                                                                *)
(***************************************************************************)
EXTENDS MpcCursor, FiniteSetTheorems, SequenceTheorems, WellFoundedInduction, TLAPS

------------------------------------------------------------------------------
(* Places in a text *)

Ends(text, n) == {k \in 1 .. n : text[k] = Newline}
LastOf(S) == IF S = {} THEN 0 ELSE CHOOSE k \in S : \A j \in S : j <= k
LineAt(text, n) == LastOf(Ends(text, n))
PlaceIn(text, n) ==
  [pos |-> n, row |-> Cardinality(Ends(text, n)), col |-> n - LineAt(text, n),
   last |-> IF n = 0 THEN NUL ELSE text[n]]

Less == OpToRel(<, Nat)

(* Every non-empty set of natural numbers has a least element.             *)
LEMMA Least ==
  ASSUME NEW T, T \subseteq Nat, T # {}
  PROVE  \E x \in T : \A y \in T : ~(y < x)
<1>1. PICK x \in T : \A y \in T : ~(<<y, x>> \in Less)
  <2>1. IsWellFoundedOn(Less, Nat)  BY NatLessThanWellFounded DEF Less
  <2> QED  BY <2>1, WFMin
<1>2. \A y \in T : ~(y < x)
  BY <1>1 DEF Less, OpToRel
<1> QED  BY <1>2

(* A place in a line has a last end of a line in front of it, or none.     *)
LEMMA LineTyped ==
  ASSUME NEW text, NEW n \in Nat
  PROVE  LineAt(text, n) \in 0 .. n
<1>1. CASE Ends(text, n) = {}
  BY <1>1 DEF LineAt, LastOf
<1>2. CASE Ends(text, n) # {}
  <2> DEFINE T == {n - k : k \in Ends(text, n)}
  <2>1. T \subseteq Nat /\ T # {}  BY <1>2 DEF Ends
  <2>2. PICK x \in T : \A y \in T : ~(y < x)
    <3>. HIDE DEF T
    <3> QED  BY <2>1, Least
  <2>3. PICK k \in Ends(text, n) : x = n - k  OBVIOUS
  <2>4. \A j \in Ends(text, n) : j <= k
    <3> SUFFICES ASSUME NEW j \in Ends(text, n) PROVE j <= k
      OBVIOUS
    <3>1. n - j \in T  OBVIOUS
    <3>2. ~(n - j < n - k)  BY <2>2, <2>3, <3>1
    <3> QED  BY <3>2 DEF Ends
  <2>5. LineAt(text, n) \in Ends(text, n)  BY <1>2, <2>4 DEF LineAt, LastOf
  <2> QED  BY <2>5 DEF Ends
<1> QED  BY <1>1, <1>2

LEMMA EndsFinite ==
  ASSUME NEW text, NEW n \in Nat
  PROVE  IsFiniteSet(Ends(text, n)) /\ Cardinality(Ends(text, n)) \in Nat
<1>1. IsFiniteSet(1 .. n)  BY FS_Interval
<1>2. Ends(text, n) \subseteq 1 .. n  BY DEF Ends
<1>3. IsFiniteSet(Ends(text, n))  BY <1>1, <1>2, FS_Subset
<1> QED  BY <1>3, FS_CardinalityType

(* mpc_state_new is the place in front of a text.                          *)
LEMMA PlaceAtStart ==
  ASSUME NEW text
  PROVE  PlaceIn(text, 0) = [pos |-> 0, row |-> 0, col |-> 0, last |-> NUL]
<1>1. Ends(text, 0) = {}  BY DEF Ends
<1> QED  BY <1>1, FS_EmptySet DEF PlaceIn, LineAt, LastOf

(* mpc_input_success counts rows and columns as they are in the text.      *)
LEMMA PlaceBehind ==
  ASSUME NEW text, NEW n \in Nat
  PROVE  LET here == PlaceIn(text, n)
         IN  PlaceIn(text, n + 1) =
               IF text[n + 1] = Newline
                 THEN [pos |-> n + 1, row |-> here.row + 1, col |-> 0, last |-> text[n + 1]]
                 ELSE [pos |-> n + 1, row |-> here.row, col |-> here.col + 1,
                       last |-> text[n + 1]]
<1> DEFINE E == Ends(text, n)
           F == Ends(text, n + 1)
<1>0. n + 1 # 0 /\ E \subseteq 1 .. n /\ LineAt(text, n) \in 0 .. n
  BY LineTyped DEF Ends
<1>1. IsFiniteSet(E) /\ Cardinality(E) \in Nat  BY EndsFinite
<1>2. CASE text[n + 1] = Newline
  <2>1. F = E \cup {n + 1} /\ n + 1 \notin E  BY <1>2 DEF Ends
  <2>2. Cardinality(F) = Cardinality(E) + 1
    <3>. HIDE DEF E, F
    <3> QED  BY <1>1, <2>1, FS_AddElement
  <2>3. LineAt(text, n + 1) = n + 1
    <3>1. \A j \in F : j <= n + 1  BY DEF Ends
    <3>2. n + 1 \in F  BY <2>1
    <3>3. LineAt(text, n + 1) \in F /\ n + 1 <= LineAt(text, n + 1)
      BY <3>1, <3>2 DEF LineAt, LastOf
    <3> QED  BY <3>1, <3>3 DEF Ends
  <2> QED  BY <1>0, <1>2, <2>2, <2>3 DEF PlaceIn
<1>3. CASE text[n + 1] # Newline
  <2>1. F = E  BY <1>3 DEF Ends
  <2>2. LineAt(text, n + 1) = LineAt(text, n)  BY <2>1 DEF LineAt
  <2>3. n + 1 - LineAt(text, n + 1) = (n - LineAt(text, n)) + 1
    BY <1>0, <2>2
  <2>4. PlaceIn(text, n + 1) =
          [pos |-> n + 1, row |-> Cardinality(E), col |-> (n - LineAt(text, n)) + 1,
           last |-> text[n + 1]]
    <3>1. PlaceIn(text, n + 1).col = (n - LineAt(text, n)) + 1
      BY <1>0, <2>2, <2>3 DEF PlaceIn
    <3>2. PlaceIn(text, n + 1).row = Cardinality(E)  BY <2>1 DEF PlaceIn
    <3>3. PlaceIn(text, n + 1).last = text[n + 1]  BY <1>0 DEF PlaceIn
    <3> QED  BY <3>1, <3>2, <3>3 DEF PlaceIn
  <2>5. PlaceIn(text, n).row = Cardinality(E) /\ PlaceIn(text, n).col = n - LineAt(text, n)
    BY DEF PlaceIn
  <2> QED  BY <1>3, <2>4, <2>5
<1> QED  BY <1>2, <1>3

------------------------------------------------------------------------------
(* Inputs.  A sound one that is not a pipe stands, with its marks, at      *)
(* places of its text, and a file where the parser stands.                 *)

Fields == {"kind", "text", "state", "last", "marks", "slots", "backtrack",
           "suppress", "buffer", "file"}
State == [pos : Nat, row : Nat, col : Nat]
MarkOf == [state : State, last : Char \cup {NUL}]

Stands(text, state, last) ==
  /\ state \in State /\ last \in Char \cup {NUL}
  /\ state.pos \in 0 .. Len(text)
  /\ PlaceOf(state, last) = PlaceIn(text, state.pos)

OnText(i) ==
  /\ i.text \in Seq(Char)
  /\ Stands(i.text, i.state, i.last)
  /\ i.marks \in Seq(MarkOf)
  /\ \A m \in DOMAIN i.marks : Stands(i.text, i.marks[m].state, i.marks[m].last)
  /\ i.backtrack \in Int
  /\ i.file \in [at : Nat, eof : BOOLEAN]
  /\ i.kind = "file" =>
       i.file.at = i.state.pos /\ (i.file.eof => i.file.at = Len(i.text))

Sound(i) ==
  /\ DOMAIN i = Fields
  /\ i.kind \in Kinds
  /\ i.kind # "pipe" => OnText(i)

(* j is i after something was read, or looked at, and no mark touched.     *)
Reads(i, j) ==
  /\ DOMAIN j = Fields
  /\ j.kind = i.kind
  /\ i.kind # "pipe" =>
       /\ OnText(j) /\ j.text = i.text
       /\ j.marks = i.marks /\ j.backtrack = i.backtrack
       /\ i.state.pos <= j.state.pos

(* j is i with only its marks, and its place, changed.                     *)
Moves(i, j, state, last, marks) ==
  /\ DOMAIN j = Fields
  /\ j.kind = i.kind
  /\ i.kind # "pipe" =>
       /\ OnText(j) /\ j.text = i.text /\ j.backtrack = i.backtrack
       /\ j.state = state /\ j.last = last /\ j.marks = marks
Looks(i, j) == Moves(i, j, i.state, i.last, i.marks)

LEMMA ReadsNothing ==
  ASSUME NEW i, Sound(i)
  PROVE  Reads(i, i)
BY DEF Sound, Reads, OnText, Stands, State

LEMMA ReadsKeepsSound ==
  ASSUME NEW i, NEW j, Sound(i), Reads(i, j)
  PROVE  Sound(j)
BY DEF Sound, Reads

LEMMA ReadsOn ==
  ASSUME NEW i, NEW j, NEW k, Sound(i), Reads(i, j), Reads(j, k)
  PROVE  Reads(i, k)
<1>1. CASE i.kind = "pipe"  BY <1>1 DEF Reads
<1>2. CASE i.kind # "pipe"
  <2>1. OnText(j) /\ i.state.pos <= j.state.pos /\ j.kind = i.kind
    BY <1>2 DEF Reads
  <2>2. OnText(k) /\ j.state.pos <= k.state.pos /\ k.kind = j.kind /\ DOMAIN k = Fields
    BY <1>2, <2>1 DEF Reads
  <2>3. /\ i.state.pos \in Nat /\ j.state.pos \in Nat /\ k.state.pos \in Nat
    BY <1>2, <2>1, <2>2 DEF Sound, OnText, Stands, State
  <2>4. i.state.pos <= k.state.pos  BY <2>1, <2>2, <2>3
  <2>5. /\ j.text = i.text /\ j.marks = i.marks /\ j.backtrack = i.backtrack
        /\ k.text = j.text /\ k.marks = j.marks /\ k.backtrack = j.backtrack
    BY <1>2, <2>1 DEF Reads
  <2> QED  BY <1>2, <2>1, <2>2, <2>4, <2>5 DEF Reads
<1> QED  BY <1>1, <1>2

(* What there is to say of j in the fields that matter.                    *)
LEMMA ReadsMeans ==
  ASSUME NEW i, NEW j, Sound(i), DOMAIN j = Fields, j.kind = i.kind, i.kind # "pipe",
         j.text = i.text, j.marks = i.marks, j.backtrack = i.backtrack,
         Stands(i.text, j.state, j.last), i.state.pos <= j.state.pos,
         j.file \in [at : Nat, eof : BOOLEAN],
         j.kind = "file" => j.file.at = j.state.pos /\ (j.file.eof => j.file.at = Len(j.text))
  PROVE  Reads(i, j)
<1>1. OnText(i)  BY DEF Sound
<1>2. OnText(j)  BY <1>1 DEF OnText
<1> QED  BY <1>2 DEF Reads

LEMMA LooksMeans ==
  ASSUME NEW i, NEW j, Sound(i), DOMAIN j = Fields, j.kind = i.kind, i.kind # "pipe",
         j.text = i.text, j.marks = i.marks, j.backtrack = i.backtrack,
         j.state = i.state, j.last = i.last,
         j.file \in [at : Nat, eof : BOOLEAN],
         j.kind = "file" => j.file.at = j.state.pos /\ (j.file.eof => j.file.at = Len(j.text))
  PROVE  Looks(i, j)
<1>1. OnText(i)  BY DEF Sound
<1>2. OnText(j)  BY <1>1 DEF OnText
<1> QED  BY <1>2 DEF Looks, Moves

LEMMA LooksReads ==
  ASSUME NEW i, NEW j, Sound(i), Looks(i, j)
  PROVE  Reads(i, j)
BY DEF Sound, Looks, Moves, Reads, OnText, Stands, State

LEMMA LooksNowhere ==
  ASSUME NEW i, Sound(i)
  PROVE  Looks(i, i)
BY DEF Sound, Looks, Moves

LEMMA LooksTwice ==
  ASSUME NEW i, NEW j, NEW k, Looks(i, j), Looks(j, k)
  PROVE  Looks(i, k)
BY DEF Looks, Moves

LEMMA MovesKeepsSound ==
  ASSUME NEW i, NEW j, Sound(i), NEW x, NEW y, NEW z, Moves(i, j, x, y, z)
  PROVE  Sound(j)
BY DEF Sound, Moves

LEMMA SuppressLooks ==
  ASSUME NEW i, Sound(i)
  PROVE  Looks(i, Suppress(i)) /\ Looks(i, Unsuppress(i))
<1>1. ASSUME NEW n PROVE Looks(i, [i EXCEPT !.suppress = n])
  BY DEF Sound, Looks, Moves, OnText, Fields
<1> QED  BY <1>1 DEF Suppress, Unsuppress

(* A character of a text that does not end here.                           *)
LEMMA CharTyped ==
  ASSUME NEW text \in Seq(Char), NEW n \in 0 .. Len(text), n # Len(text)
  PROVE  n < Len(text) /\ n + 1 \in 1 .. Len(text) /\ text[n + 1] \in Char
<1>1. Len(text) \in Nat /\ n + 1 \in 1 .. Len(text)  OBVIOUS
<1> QED  BY <1>1, ElementOfSeq

(* mpc_input_success, of the character that is next, moves to the place    *)
(* behind it.                                                              *)
LEMMA SuccessStands ==
  ASSUME NEW i, Sound(i), i.kind # "pipe", i.state.pos # Len(i.text)
  PROVE  LET j == Success(i, i.text[i.state.pos + 1])
         IN  Stands(i.text, j.state, j.last) /\ j.state.pos = i.state.pos + 1
<1> DEFINE n == i.state.pos
           c == i.text[n + 1]
           j == Success(i, c)
<1>1. OnText(i) /\ DOMAIN i = Fields  BY DEF Sound
<1>2. n \in Nat /\ n \in 0 .. Len(i.text) /\ i.text \in Seq(Char) /\ i.state \in State
  BY <1>1 DEF OnText, Stands, State
<1>3. c \in Char /\ n + 1 \in 0 .. Len(i.text) /\ n + 1 \in Nat
  BY <1>2, CharTyped
<1>4. j.last = c /\ j.state = IF c = Newline
                                THEN [pos |-> n + 1, row |-> i.state.row + 1, col |-> 0]
                                ELSE [pos |-> n + 1, row |-> i.state.row, col |-> i.state.col + 1]
  BY <1>1 DEF Success, Fields
<1>5. i.state.row = PlaceIn(i.text, n).row /\ i.state.col = PlaceIn(i.text, n).col
  BY <1>1 DEF OnText, Stands, PlaceOf
<1>6. j.state \in State /\ j.state.pos = n + 1
  <2>. HIDE DEF j, c
  <2>1. i.state.row + 1 \in Nat /\ i.state.col + 1 \in Nat /\ i.state.row \in Nat
    BY <1>2 DEF State
  <2> QED  BY <2>1, <1>3, <1>4 DEF State
<1>7. PlaceOf(j.state, j.last) = PlaceIn(i.text, n + 1)
  <2>1. PlaceIn(i.text, n + 1) =
          IF c = Newline
            THEN [pos |-> n + 1, row |-> i.state.row + 1, col |-> 0, last |-> c]
            ELSE [pos |-> n + 1, row |-> i.state.row, col |-> i.state.col + 1, last |-> c]
    BY <1>2, <1>5, PlaceBehind
  <2>. HIDE DEF j, c
  <2> QED  BY <2>1, <1>4 DEF PlaceOf
<1> QED  BY <1>3, <1>4, <1>6, <1>7 DEF Stands

LEMMA SuccessKeeps ==
  ASSUME NEW i, Sound(i), i.kind # "pipe", NEW c
  PROVE  LET j == Success(i, c)
         IN  /\ DOMAIN j = Fields /\ j.kind = i.kind /\ j.text = i.text /\ j.marks = i.marks
             /\ j.backtrack = i.backtrack /\ j.file = i.file
BY DEF Sound, Success, Fields

(* Every function of mpc_input_t leaves a pipe a pipe.                     *)
LEMMA TakeOfPipe ==
  ASSUME NEW i, Sound(i), i.kind = "pipe", NEW chars
  PROVE  Reads(i, Take(i, chars).i)
<1> DEFINE Kept(j) == DOMAIN j = Fields /\ j.kind = i.kind
<1>1. Kept(i)  BY DEF Sound
<1>2. ASSUME NEW j, Kept(j), NEW c
      PROVE  Kept(Success(j, c)) /\ Kept(Failure(j))
  BY <1>2 DEF Success, Failure, PutBack, Seek, Fields
<1>3. Kept(Fgetc(i).i)  BY <1>1 DEF Fgetc, Fields
<1>4. Kept(Getc(i).i)
  BY <1>1, <1>3 DEF Getc
<1>5. \/ Take(i, chars).i = Getc(i).i
      \/ Take(i, chars).i = Success(Getc(i).i, Getc(i).c)
      \/ Take(i, chars).i = Failure(Getc(i).i)
  BY DEF Take
<1> QED  BY <1>2, <1>4, <1>5 DEF Reads

LEMMA TakeOfString ==
  ASSUME NEW i, Sound(i), i.kind = "string", NEW chars
  PROVE  Reads(i, Take(i, chars).i)
<1>1. OnText(i)  BY DEF Sound
<1>2. Getc(i) = [c |-> StringChar(i), i |-> i]  BY DEF Getc, Buffered
<1>3. CASE i.state.pos = Len(i.text)
  <2>1. Take(i, chars).i = i  BY <1>2, <1>3 DEF Take, Terminated
  <2> QED  BY <2>1, ReadsNothing
<1>4. CASE i.state.pos # Len(i.text)
  <2> DEFINE c == i.text[i.state.pos + 1]
  <2>1. StringChar(i) = c  BY <1>1, <1>4 DEF StringChar, OnText, Stands
  <2>2. Take(i, chars).i = IF c \in chars THEN Success(i, c) ELSE i
    BY <1>2, <1>4, <2>1 DEF Take, Terminated, Failure
  <2>3. Reads(i, Success(i, c))
    <3>1. Stands(i.text, Success(i, c).state, Success(i, c).last)
          /\ Success(i, c).state.pos = i.state.pos + 1
      BY <1>4, SuccessStands
    <3>2. /\ DOMAIN Success(i, c) = Fields /\ Success(i, c).kind = i.kind
          /\ Success(i, c).text = i.text /\ Success(i, c).marks = i.marks
          /\ Success(i, c).backtrack = i.backtrack /\ Success(i, c).file = i.file
      BY SuccessKeeps
    <3>3. i.state.pos <= Success(i, c).state.pos /\ i.file \in [at : Nat, eof : BOOLEAN]
      BY <1>1, <3>1 DEF OnText, Stands
    <3>. HIDE DEF c
    <3> QED  BY <3>1, <3>2, <3>3, ReadsMeans
  <2> QED  BY <2>2, <2>3, ReadsNothing
<1> QED  BY <1>3, <1>4

LEMMA TakeOfFile ==
  ASSUME NEW i, Sound(i), i.kind = "file", NEW chars
  PROVE  Reads(i, Take(i, chars).i)
<1>1. OnText(i) /\ DOMAIN i = Fields  BY DEF Sound
<1>2. /\ i.file \in [at : Nat, eof : BOOLEAN] /\ i.file.at = i.state.pos
      /\ i.state.pos \in 0 .. Len(i.text) /\ Len(i.text) \in Nat
      /\ i.file.eof => i.file.at = Len(i.text)
  BY <1>1 DEF OnText, Stands
<1>3. Getc(i) = Fgetc(i)  BY DEF Getc, Buffered
<1>4. CASE i.state.pos = Len(i.text)
  <2> DEFINE j == [i EXCEPT !.file.eof = TRUE]
  <2>1. Getc(i).i = j  BY <1>2, <1>3, <1>4 DEF Fgetc
  <2>2. j.kind = "file" /\ j.file.eof = TRUE /\ j.file.at = i.file.at
    BY <1>1, <1>2 DEF Fields
  <2>3. Take(i, chars).i = j  BY <2>1, <2>2 DEF Take, Terminated
  <2>4. Reads(i, j)
    <3>1. /\ DOMAIN j = Fields /\ j.text = i.text /\ j.marks = i.marks /\ j.state = i.state
          /\ j.last = i.last /\ j.backtrack = i.backtrack
          /\ j.file \in [at : Nat, eof : BOOLEAN]
      BY <1>1, <1>2 DEF Fields
    <3>2. i.state.pos <= j.state.pos /\ Stands(i.text, j.state, j.last)
      BY <1>1, <1>2, <3>1 DEF OnText
    <3>3. j.file.at = j.state.pos /\ j.file.at = Len(j.text)  BY <1>2, <1>4, <2>2, <3>1
    <3>. HIDE DEF j
    <3> QED  BY <2>2, <3>1, <3>2, <3>3, ReadsMeans
  <2> QED  BY <2>3, <2>4
<1>5. CASE i.state.pos # Len(i.text)
  <2> DEFINE c == i.text[i.state.pos + 1]
             j == [i EXCEPT !.file.at = @ + 1]
  <2>1. Getc(i) = [c |-> c, i |-> j]  BY <1>2, <1>3, <1>5 DEF Fgetc
  <2>2. /\ DOMAIN j = Fields /\ j.text = i.text /\ j.marks = i.marks /\ j.state = i.state
        /\ j.last = i.last /\ j.backtrack = i.backtrack /\ j.kind = "file"
        /\ j.file = [at |-> i.file.at + 1, eof |-> FALSE]
    BY <1>1, <1>2, <1>5 DEF Fields
  <2>3. Take(i, chars).i = IF c \in chars THEN Success(j, c) ELSE Failure(j)
    <3>. HIDE DEF j, c
    <3> QED  BY <2>1, <2>2 DEF Take, Terminated
  <2>4. Reads(i, Failure(j))
    <3> DEFINE k == Failure(j)
    <3>1. k = [j EXCEPT !.file = [at |-> j.file.at - 1, eof |-> FALSE]]
      <4>. HIDE DEF j
      <4> QED  BY <2>2 DEF Failure, Buffered, PutBack, Seek
    <3>2. j.file.at - 1 = i.file.at  BY <1>2, <2>2
    <3>3. /\ DOMAIN k = Fields /\ k.text = i.text /\ k.marks = i.marks /\ k.state = i.state
          /\ k.last = i.last /\ k.backtrack = i.backtrack /\ k.kind = "file"
          /\ k.file = [at |-> i.file.at, eof |-> FALSE]
      <4>. HIDE DEF k, j
      <4> QED  BY <2>2, <3>1, <3>2 DEF Fields
    <3>4. i.state.pos <= k.state.pos /\ k.file \in [at : Nat, eof : BOOLEAN]
      <4>. HIDE DEF k
      <4> QED  BY <1>2, <3>3
    <3>5. Stands(i.text, k.state, k.last)  BY <1>1, <3>3 DEF OnText
    <3>6. k.file.at = k.state.pos /\ (k.file.eof => k.file.at = Len(k.text))
      BY <1>2, <3>3
    <3>. HIDE DEF k, j
    <3>7. Reads(i, k)  BY <3>3, <3>4, <3>5, <3>6, ReadsMeans
    <3> QED  BY <3>7 DEF k
  <2>5. Reads(i, Success(j, c))
    <3> DEFINE k == Success(j, c)
               l == Success(i, c)
    <3>1. k.state = l.state /\ k.last = l.last
      <4>. HIDE DEF j
      <4> QED  BY <1>1, <2>2 DEF Success, Fields
    <3>2. Stands(i.text, l.state, l.last) /\ l.state.pos = i.state.pos + 1
      BY <1>5, SuccessStands
    <3>3. /\ DOMAIN k = Fields /\ k.text = i.text /\ k.marks = i.marks
          /\ k.backtrack = i.backtrack /\ k.kind = "file" /\ k.file = j.file
      <4>. HIDE DEF j
      <4> QED  BY <2>2 DEF Success, Fields
    <3>4. i.state.pos <= k.state.pos
      <4>1. i.state.pos \in Nat /\ k.state.pos = i.state.pos + 1
        BY <1>2, <3>1, <3>2, Zenon
      <4>. HIDE DEF k, l, j
      <4> QED  BY <4>1
    <3>5. k.file \in [at : Nat, eof : BOOLEAN] /\ k.file.at = k.state.pos /\ ~k.file.eof
      <4>1. i.file.at + 1 \in Nat /\ i.state.pos + 1 = i.file.at + 1  BY <1>2
      <4>. HIDE DEF k, j, l
      <4> QED  BY <2>2, <3>1, <3>2, <3>3, <4>1
    <3>. HIDE DEF k, l, c, j
    <3>6. Reads(i, k)  BY <3>1, <3>2, <3>3, <3>4, <3>5, ReadsMeans
    <3> QED  BY <3>6 DEF k
  <2> QED  BY <2>3, <2>4, <2>5
<1> QED  BY <1>4, <1>5

(* mpc_input_any and its kin read on.                                      *)
LEMMA TakeReads ==
  ASSUME NEW i, Sound(i), NEW chars
  PROVE  Reads(i, Take(i, chars).i)
BY TakeOfPipe, TakeOfString, TakeOfFile DEF Sound, Kinds

(* mpc_input_peekc leaves a file where it was: at its end, or one back from *)
(* the character it has read.                                              *)
LEMMA PeekLooks ==
  ASSUME NEW i, Sound(i)
  PROVE  Looks(i, Peekc(i).i)
<1>1. CASE i.kind = "pipe"
  <2>1. DOMAIN i = Fields  BY DEF Sound
  <2>2. DOMAIN Fgetc(i).i = Fields /\ Fgetc(i).i.kind = i.kind
    BY <2>1 DEF Fgetc, Fields
  <2>3. ASSUME NEW j, DOMAIN j = Fields, j.kind = i.kind
        PROVE  DOMAIN PutBack(j) = Fields /\ PutBack(j).kind = i.kind
    BY <2>3 DEF PutBack, Seek, Fields
  <2>4. Peekc(i).i \in {i, Fgetc(i).i, PutBack(Fgetc(i).i)}
    BY <1>1 DEF Peekc
  <2> QED  BY <1>1, <2>1, <2>2, <2>3, <2>4 DEF Looks, Moves
<1>2. CASE i.kind = "string"
  <2>1. Peekc(i).i = i  BY <1>2 DEF Peekc, Buffered
  <2> QED  BY <2>1, LooksNowhere
<1>3. CASE i.kind = "file"
  <2>1. OnText(i) /\ DOMAIN i = Fields  BY <1>3 DEF Sound
  <2>2. /\ i.file \in [at : Nat, eof : BOOLEAN] /\ i.file.at = i.state.pos
        /\ i.state.pos \in 0 .. Len(i.text) /\ Len(i.text) \in Nat
        /\ i.file.eof => i.file.at = Len(i.text)
        /\ Stands(i.text, i.state, i.last)
    BY <1>3, <2>1 DEF OnText, Stands
  <2>3. CASE i.state.pos = Len(i.text)
    <3> DEFINE j == [i EXCEPT !.file.eof = TRUE]
    <3>1. Fgetc(i).i = j  BY <2>2, <2>3 DEF Fgetc
    <3>2. /\ DOMAIN j = Fields /\ j.text = i.text /\ j.marks = i.marks /\ j.state = i.state
          /\ j.last = i.last /\ j.backtrack = i.backtrack /\ j.kind = "file"
          /\ j.file = [at |-> i.file.at, eof |-> TRUE]
      BY <1>3, <2>1, <2>2 DEF Fields
    <3>. HIDE DEF j
    <3>3. Peekc(i).i = j  BY <1>3, <3>1, <3>2 DEF Peekc, Buffered
    <3>4. j.file \in [at : Nat, eof : BOOLEAN] /\ j.file.at = j.state.pos
          /\ j.file.at = Len(j.text)
      BY <2>2, <2>3, <3>2
    <3> QED  BY <1>3, <2>2, <3>2, <3>3, <3>4, LooksMeans
  <2>4. CASE i.state.pos # Len(i.text)
    <3> DEFINE g == [i EXCEPT !.file.at = @ + 1]
               j == PutBack(g)
    <3>1. Fgetc(i).i = g  BY <2>2, <2>4 DEF Fgetc
    <3>2. /\ DOMAIN g = Fields /\ g.text = i.text /\ g.marks = i.marks /\ g.state = i.state
          /\ g.last = i.last /\ g.backtrack = i.backtrack /\ g.kind = "file"
          /\ g.file = [at |-> i.file.at + 1, eof |-> FALSE]
      BY <1>3, <2>1, <2>2, <2>4 DEF Fields
    <3>3. g.file.at - 1 = i.file.at  BY <2>2, <3>2
    <3>. HIDE DEF g
    <3>4. /\ DOMAIN j = Fields /\ j.text = i.text /\ j.marks = i.marks /\ j.state = i.state
          /\ j.last = i.last /\ j.backtrack = i.backtrack /\ j.kind = "file"
          /\ j.file = [at |-> i.file.at, eof |-> FALSE]
      BY <3>2, <3>3 DEF PutBack, Seek, Fields
    <3>. HIDE DEF j
    <3>5. Peekc(i).i = j
      BY <1>3, <3>1, <3>2 DEF Peekc, Buffered, j
    <3>6. j.file \in [at : Nat, eof : BOOLEAN] /\ j.file.at = j.state.pos /\ ~j.file.eof
      BY <2>2, <3>4
    <3> QED  BY <1>3, <2>2, <3>4, <3>5, <3>6, LooksMeans
  <2> QED  BY <2>3, <2>4
<1> QED  BY <1>1, <1>2, <1>3 DEF Sound, Kinds

------------------------------------------------------------------------------
(* Marks *)

(* What was appended to a sequence can be dropped.                         *)
LEMMA Dropped ==
  ASSUME NEW S, NEW s \in Seq(S), NEW x \in S
  PROVE  LET t == Append(s, x)
         IN  SubSeq(t, 1, Len(t) - 1) = s /\ t[Len(t)] = x /\ t # <<>>
<1> DEFINE t == Append(s, x)
           u == SubSeq(t, 1, Len(t) - 1)
<1>1. /\ t \in Seq(S) /\ Len(t) = Len(s) + 1 /\ Len(s) \in Nat /\ t[Len(s) + 1] = x
      /\ \A k \in 1 .. Len(s) : t[k] = s[k]
  OBVIOUS
<1>. HIDE DEF t
<1>2. u \in Seq(S) /\ Len(u) = Len(s) /\ \A k \in 1 .. Len(s) : u[k] = t[k]
  BY <1>1
<1>. HIDE DEF u
<1>3. u = s  BY <1>1, <1>2, SeqEqual
<1>4. t # <<>>  BY <1>1
<1> QED  BY <1>1, <1>3, <1>4 DEF u, t

(* While a predict disables marks, there are none made and none dropped.   *)
LEMMA DisabledMoves ==
  ASSUME NEW i, Sound(i), i.backtrack < 1
  PROVE  Mark(i) = i /\ Unmark(i) = i /\ Rewind(i) = i
BY DEF Mark, Unmark, Rewind

LEMMA MarkMoves ==
  ASSUME NEW i, Sound(i), ~(i.backtrack < 1)
  PROVE  Moves(i, Mark(i), i.state, i.last, Append(i.marks, [state |-> i.state, last |-> i.last]))
<1> DEFINE j == Mark(i)
           m == [state |-> i.state, last |-> i.last]
<1>1. DOMAIN i = Fields  BY DEF Sound
<1>2. /\ DOMAIN j = Fields /\ j.kind = i.kind /\ j.text = i.text /\ j.backtrack = i.backtrack
      /\ j.state = i.state /\ j.last = i.last /\ j.file = i.file
      /\ j.marks = Append(i.marks, m)
  BY <1>1 DEF Mark, Fields
<1>. HIDE DEF j
<1>3. ASSUME i.kind # "pipe" PROVE OnText(j)
  <2>1. OnText(i)  BY <1>3 DEF Sound
  <2>2. i.marks \in Seq(MarkOf) /\ Stands(i.text, i.state, i.last)  BY <2>1 DEF OnText
  <2>3. m \in MarkOf  BY <2>2 DEF Stands, MarkOf
  <2>4. Append(i.marks, m) \in Seq(MarkOf)  BY <2>2, <2>3
  <2>5. ASSUME NEW k \in DOMAIN Append(i.marks, m)
        PROVE  Stands(i.text, Append(i.marks, m)[k].state, Append(i.marks, m)[k].last)
    <3>1. CASE k \in DOMAIN i.marks
      <4>1. Append(i.marks, m)[k] = i.marks[k]
        <5>. HIDE DEF m
        <5> QED  BY <2>2, <2>3, <3>1
      <4> QED  BY <2>1, <3>1, <4>1 DEF OnText
    <3>2. CASE k \notin DOMAIN i.marks
      <4>1. Append(i.marks, m)[k] = m
        <5>. HIDE DEF m
        <5> QED  BY <2>2, <2>3, <2>5, <3>2
      <4> QED  BY <2>2, <4>1
    <3> QED  BY <3>1, <3>2
  <2>. HIDE DEF m
  <2> QED  BY <1>2, <2>1, <2>4, <2>5 DEF OnText
<1> QED  BY <1>2, <1>3 DEF Moves, j

(* The marks in front of the newest.                                       *)
LEMMA OlderMarks ==
  ASSUME NEW i, Sound(i), i.kind # "pipe", i.marks # <<>>
  PROVE  LET older == SubSeq(i.marks, 1, Len(i.marks) - 1)
             newest == i.marks[Len(i.marks)]
         IN  /\ older \in Seq(MarkOf)
             /\ \A m \in DOMAIN older : Stands(i.text, older[m].state, older[m].last)
             /\ Stands(i.text, newest.state, newest.last)
<1> DEFINE older == SubSeq(i.marks, 1, Len(i.marks) - 1)
<1>1. OnText(i)  BY DEF Sound
<1>2. i.marks \in Seq(MarkOf) /\ Len(i.marks) \in Nat \ {0}  BY <1>1 DEF OnText
<1>3. older \in Seq(MarkOf) /\ Len(older) = Len(i.marks) - 1  BY <1>2
<1>4. ASSUME NEW m \in DOMAIN older PROVE m \in DOMAIN i.marks /\ older[m] = i.marks[m]
  BY <1>2, <1>3
<1>5. Len(i.marks) \in DOMAIN i.marks  BY <1>2
<1>. HIDE DEF older
<1>6. /\ older \in Seq(MarkOf)
      /\ \A m \in DOMAIN older : Stands(i.text, older[m].state, older[m].last)
  BY <1>1, <1>3, <1>4 DEF OnText
<1>7. Stands(i.text, i.marks[Len(i.marks)].state, i.marks[Len(i.marks)].last)
  BY <1>1, <1>5 DEF OnText
<1> QED  BY <1>6, <1>7 DEF older

LEMMA UnmarkMoves ==
  ASSUME NEW i, Sound(i), ~(i.backtrack < 1), i.kind # "pipe" => i.marks # <<>>
  PROVE  Moves(i, Unmark(i), i.state, i.last, SubSeq(i.marks, 1, Len(i.marks) - 1))
<1> DEFINE j == Unmark(i)
<1>1. DOMAIN i = Fields  BY DEF Sound
<1>2. /\ DOMAIN j = Fields /\ j.kind = i.kind /\ j.text = i.text /\ j.backtrack = i.backtrack
      /\ j.state = i.state /\ j.last = i.last /\ j.file = i.file
      /\ j.marks = SubSeq(i.marks, 1, Len(i.marks) - 1)
  BY <1>1 DEF Unmark, Fields
<1>. HIDE DEF j
<1>3. ASSUME i.kind # "pipe" PROVE OnText(j)
  <2>1. OnText(i)  BY <1>3 DEF Sound
  <2> QED  BY <1>2, <1>3, <2>1, OlderMarks DEF OnText
<1> QED  BY <1>2, <1>3 DEF Moves, j

LEMMA RewindMoves ==
  ASSUME NEW i, Sound(i), ~(i.backtrack < 1), i.kind # "pipe" => i.marks # <<>>
  PROVE  LET newest == i.marks[Len(i.marks)]
         IN  Moves(i, Rewind(i), newest.state, newest.last, SubSeq(i.marks, 1, Len(i.marks) - 1))
<1> DEFINE newest == i.marks[Len(i.marks)]
           older == SubSeq(i.marks, 1, Len(i.marks) - 1)
           back == [i EXCEPT !.state = newest.state, !.last = newest.last]
           sought == IF i.kind = "file" THEN Seek(back, newest.state.pos) ELSE back
           j == Rewind(i)
<1>1. DOMAIN i = Fields  BY DEF Sound
<1>2. /\ DOMAIN back = Fields /\ back.kind = i.kind /\ back.text = i.text
      /\ back.backtrack = i.backtrack /\ back.marks = i.marks
      /\ back.state = newest.state /\ back.last = newest.last /\ back.file = i.file
  <2>. HIDE DEF newest
  <2> QED  BY <1>1 DEF Fields
<1>3. j = Unmark(sought)  BY DEF Rewind
<1>4. /\ DOMAIN sought = Fields /\ sought.kind = i.kind /\ sought.text = i.text
      /\ sought.backtrack = i.backtrack /\ sought.marks = i.marks
      /\ sought.state = newest.state /\ sought.last = newest.last
      /\ sought.file = IF i.kind = "file" THEN [at |-> newest.state.pos, eof |-> FALSE] ELSE i.file
  <2>. HIDE DEF newest, back
  <2> QED  BY <1>2 DEF Seek, Fields
<1>. HIDE DEF sought, back
<1>5. ASSUME i.kind # "pipe" PROVE OnText(sought)
  <2>1. OnText(i)  BY <1>5 DEF Sound
  <2>2. Stands(i.text, newest.state, newest.last)  BY <1>5, OlderMarks
  <2>3. newest.state.pos \in Nat  BY <2>2 DEF Stands, State
  <2>. HIDE DEF newest
  <2>4. i.file \in [at : Nat, eof : BOOLEAN]  BY <2>1 DEF OnText
  <2>5. sought.file \in [at : Nat, eof : BOOLEAN]  BY <1>4, <2>3, <2>4
  <2> QED  BY <1>4, <2>1, <2>2, <2>5 DEF OnText
<1>6. Sound(sought)  BY <1>4, <1>5 DEF Sound
<1>. HIDE DEF newest, j
<1>7. Moves(sought, Unmark(sought), newest.state, newest.last, older)
  BY <1>4, <1>6, UnmarkMoves
<1>8. Moves(i, Unmark(sought), newest.state, newest.last, older)
  BY <1>4, <1>7 DEF Moves
<1> QED  BY <1>3, <1>8 DEF newest, j

------------------------------------------------------------------------------
(* Words *)

(* g[n] is what mpc_input_string has after n characters, the marked input  *)
(* being `a`.                                                              *)
Upto(g, a, word, k) ==
  g = [n \in 0 .. k |->
         IF n = 0 THEN a
         ELSE IF g[n - 1].ok THEN Take(g[n - 1].i, {word[n]}) ELSE g[n - 1]]

LEMMA UptoIs ==
  ASSUME NEW a, NEW word, NEW k \in Nat
  PROVE  \E g : Upto(g, a, word, k)
<1> DEFINE Bad == {n \in 0 .. k : ~\E g : Upto(g, a, word, n)}
<1>1. SUFFICES ASSUME Bad # {} PROVE FALSE
  OBVIOUS
<1>2. PICK n \in Bad : \A y \in Bad : ~(y < n)
  <2>1. Bad \subseteq Nat  OBVIOUS
  <2>. HIDE DEF Bad
  <2> QED  BY <1>1, <2>1, Least
<1>3. CASE n = 0
  <2>1. Upto([x \in 0 .. 0 |-> a], a, word, 0)  BY DEF Upto
  <2> QED  BY <1>2, <1>3, <2>1
<1>4. CASE n # 0
  <2>1. n \in Nat /\ n - 1 \in 0 .. k /\ n - 1 < n  BY <1>4
  <2>2. PICK g : Upto(g, a, word, n - 1)  BY <1>2, <2>1
  <2> DEFINE next == IF g[n - 1].ok THEN Take(g[n - 1].i, {word[n]}) ELSE g[n - 1]
             h == [x \in 0 .. n |-> IF x = n THEN next ELSE g[x]]
  <2>3. \A x \in 0 .. n - 1 :
          g[x] = IF x = 0 THEN a
                 ELSE IF g[x - 1].ok THEN Take(g[x - 1].i, {word[x]}) ELSE g[x - 1]
    BY <2>1, <2>2 DEF Upto
  <2>4. ASSUME NEW x \in 0 .. n
        PROVE  h[x] = IF x = 0 THEN a
                      ELSE IF h[x - 1].ok THEN Take(h[x - 1].i, {word[x]}) ELSE h[x - 1]
    <3>1. CASE x = n
      <4>1. h[x] = next /\ h[x - 1] = g[n - 1]
        <5>. HIDE DEF next
        <5> QED  BY <2>1, <3>1
      <4>. HIDE DEF h
      <4> QED  BY <1>4, <3>1, <4>1
    <3>2. CASE x # n
      <4>1. x \in 0 .. n - 1 /\ (x # 0 => x - 1 \in 0 .. n /\ x - 1 # n)  BY <2>1, <3>2
      <4>2. h[x] = g[x] /\ (x # 0 => h[x - 1] = g[x - 1])
        <5>. HIDE DEF next
        <5> QED  BY <3>2, <4>1
      <4>. HIDE DEF h
      <4> QED  BY <2>3, <4>1, <4>2
    <3> QED  BY <3>1, <3>2
  <2>5. h = [x \in 0 .. n |->
              IF x = 0 THEN a
              ELSE IF h[x - 1].ok THEN Take(h[x - 1].i, {word[x]}) ELSE h[x - 1]]
    <3>1. h = [x \in 0 .. n |-> h[x]]  OBVIOUS
    <3>. HIDE DEF h
    <3> QED  BY <2>4, <3>1
  <2>6. Upto(h, a, word, n)
    <3>. HIDE DEF h
    <3> QED  BY <2>5 DEF Upto
  <2>. HIDE DEF h
  <2> QED  BY <1>2, <2>6
<1> QED  BY <1>3, <1>4

(* Every character of a word is read on.                                   *)
LEMMA UptoReads ==
  ASSUME NEW a, Sound(a.i), NEW word, NEW k \in Nat, NEW g, Upto(g, a, word, k)
  PROVE  \A n \in 0 .. k : Reads(a.i, g[n].i)
<1> DEFINE Bad == {n \in 0 .. k : ~Reads(a.i, g[n].i)}
<1>1. SUFFICES ASSUME Bad # {} PROVE FALSE
  OBVIOUS
<1>2. PICK n \in Bad : \A y \in Bad : ~(y < n)
  <2>1. Bad \subseteq Nat  OBVIOUS
  <2>. HIDE DEF Bad
  <2> QED  BY <1>1, <2>1, Least
<1>3. CASE n = 0
  <2>1. g[n] = a  BY <1>2, <1>3 DEF Upto
  <2> QED  BY <1>2, <2>1, ReadsNothing
<1>4. CASE n # 0
  <2>1. n - 1 \in 0 .. k /\ n - 1 < n /\ n \in 0 .. k  BY <1>2, <1>4
  <2>2. Reads(a.i, g[n - 1].i)  BY <1>2, <2>1
  <2>3. g[n] = IF g[n - 1].ok THEN Take(g[n - 1].i, {word[n]}) ELSE g[n - 1]
    BY <1>4, <2>1 DEF Upto
  <2>4. Sound(g[n - 1].i)  BY <2>2, ReadsKeepsSound
  <2>5. Reads(g[n - 1].i, Take(g[n - 1].i, {word[n]}).i)  BY <2>4, TakeReads
  <2>6. Reads(a.i, Take(g[n - 1].i, {word[n]}).i)  BY <2>2, <2>5, ReadsOn
  <2> QED  BY <1>2, <2>2, <2>3, <2>6
<1> QED  BY <1>3, <1>4

(* mpc_input_string reads all of a word, or goes back to where it began.   *)
LEMMA WordReads ==
  ASSUME NEW i, Sound(i), NEW word \in Seq(Char)
  PROVE  Reads(i, TakeAll(i, word).i)
<1> DEFINE a == [ok |-> TRUE, i |-> Mark(i)]
           g == CHOOSE f : Upto(f, a, word, Len(word))
           e == g[Len(word)].i
           m == [state |-> i.state, last |-> i.last]
<1>0. Len(word) \in Nat  OBVIOUS
<1>1. Upto(g, a, word, Len(word))
  <2>. HIDE DEF a
  <2> QED  BY <1>0, UptoIs
<1>2. \/ TakeAll(i, word).i = Unmark(e)
      \/ TakeAll(i, word).i = Rewind(e)
  BY DEF TakeAll, Upto
<1>3. a.i = Mark(i)  OBVIOUS
<1>. HIDE DEF a, g
<1>4. ASSUME Sound(Mark(i)) PROVE Reads(Mark(i), e)
  <2>1. \A n \in 0 .. Len(word) : Reads(a.i, g[n].i)
    BY <1>0, <1>1, <1>3, <1>4, UptoReads
  <2> QED  BY <1>0, <1>3, <2>1
<1>5. CASE i.backtrack < 1
  <2>1. Mark(i) = i  BY <1>5, DisabledMoves
  <2>2. Reads(i, e) /\ Sound(e)  BY <1>4, <2>1, ReadsKeepsSound
  <2>. HIDE DEF e
  <2>3. CASE e.backtrack < 1
    <3>1. Unmark(e) = e /\ Rewind(e) = e  BY <2>2, <2>3, DisabledMoves
    <3> QED  BY <1>2, <2>2, <3>1
  <2>4. CASE ~(e.backtrack < 1)
    <3>1. i.kind = "pipe" /\ e.kind = "pipe"  BY <1>5, <2>2, <2>4 DEF Reads
    <3>2. DOMAIN Unmark(e) = Fields /\ Unmark(e).kind = "pipe"
      BY <2>2, <2>4, <3>1, UnmarkMoves DEF Moves
    <3>3. DOMAIN Rewind(e) = Fields /\ Rewind(e).kind = "pipe"
      BY <2>2, <2>4, <3>1, RewindMoves DEF Moves
    <3> QED  BY <1>2, <3>1, <3>2, <3>3 DEF Reads
  <2> QED  BY <2>3, <2>4
<1>6. CASE ~(i.backtrack < 1)
  <2>1. Moves(i, Mark(i), i.state, i.last, Append(i.marks, m))  BY <1>6, MarkMoves
  <2>. HIDE DEF m
  <2>2. Sound(Mark(i))  BY <2>1 DEF Moves, Sound
  <2>3. Reads(Mark(i), e) /\ Sound(e)  BY <1>4, <2>2, ReadsKeepsSound
  <2>. HIDE DEF e
  <2>4. CASE i.kind = "pipe"
    <3>1. e.kind = "pipe" /\ DOMAIN e = Fields  BY <2>1, <2>3, <2>4 DEF Moves, Reads, Sound
    <3>2. DOMAIN Unmark(e) = Fields /\ Unmark(e).kind = "pipe"
      BY <2>3, <3>1, UnmarkMoves, DisabledMoves DEF Moves
    <3>3. DOMAIN Rewind(e) = Fields /\ Rewind(e).kind = "pipe"
      BY <2>3, <3>1, RewindMoves, DisabledMoves DEF Moves
    <3> QED  BY <1>2, <2>4, <3>2, <3>3 DEF Reads
  <2>5. CASE i.kind # "pipe"
    <3>1. OnText(i) /\ i.marks \in Seq(MarkOf) /\ Stands(i.text, i.state, i.last)
      BY <2>5 DEF Sound, OnText
    <3>2. /\ e.kind = i.kind /\ e.text = i.text /\ e.marks = Append(i.marks, m)
          /\ e.backtrack = i.backtrack /\ i.state.pos <= e.state.pos
      BY <2>1, <2>3, <2>5 DEF Moves, Reads
    <3>3. m \in MarkOf  BY <3>1 DEF Stands, MarkOf, m
    <3>4. /\ SubSeq(e.marks, 1, Len(e.marks) - 1) = i.marks
          /\ e.marks[Len(e.marks)] = m /\ e.marks # <<>>
      BY <3>1, <3>2, <3>3, Dropped
    <3>5. Moves(e, Unmark(e), e.state, e.last, i.marks)
      BY <1>6, <2>3, <3>2, <3>4, UnmarkMoves
    <3>6. Moves(e, Rewind(e), m.state, m.last, i.marks)
      BY <1>6, <2>3, <3>2, <3>4, RewindMoves
    <3>7. m.state = i.state /\ i.state.pos <= i.state.pos
      BY <3>1 DEF m, Stands, State
    <3>8. Reads(i, Unmark(e))  BY <2>5, <3>2, <3>5 DEF Moves, Reads
    <3>9. Reads(i, Rewind(e))  BY <2>5, <3>2, <3>6, <3>7 DEF Moves, Reads
    <3> QED  BY <1>2, <3>8, <3>9
  <2> QED  BY <2>4, <2>5
<1> QED  BY <1>5, <1>6

------------------------------------------------------------------------------
(* What the input's functions are to the cursor *)

Places == [pos : Nat, row : Nat, col : Nat, last : Char \cup {NUL}]
SavedOf(marks) == [m \in DOMAIN marks |-> PlaceOf(marks[m].state, marks[m].last)]

LEMMA SavedTyped ==
  ASSUME NEW marks \in Seq(MarkOf)
  PROVE  SavedOf(marks) \in Seq(Places) /\ Len(SavedOf(marks)) = Len(marks)
<1>1. ASSUME NEW m \in DOMAIN marks
      PROVE  PlaceOf(marks[m].state, marks[m].last) \in Places
  <2>1. marks[m] \in MarkOf  OBVIOUS
  <2> QED  BY <2>1 DEF MarkOf, State, Places, PlaceOf
<1>2. SavedOf(marks) \in [1 .. Len(marks) -> Places] /\ Len(marks) \in Nat
  BY <1>1 DEF SavedOf
<1> QED  BY <1>2

LEMMA SavedWithMark ==
  ASSUME NEW marks \in Seq(MarkOf), NEW state, NEW last,
         [state |-> state, last |-> last] \in MarkOf
  PROVE  SavedOf(Append(marks, [state |-> state, last |-> last]))
           = Append(SavedOf(marks), PlaceOf(state, last))
<1> DEFINE m == [state |-> state, last |-> last]
           more == Append(marks, m)
           p == PlaceOf(state, last)
<1>1. p \in Places  BY DEF MarkOf, State, Places, PlaceOf
<1>2. m.state = state /\ m.last = last  OBVIOUS
<1>. HIDE DEF m, p
<1>3. m \in MarkOf  BY DEF m
<1>4. /\ more \in Seq(MarkOf) /\ Len(more) = Len(marks) + 1 /\ Len(marks) \in Nat
      /\ more[Len(marks) + 1] = m /\ \A k \in 1 .. Len(marks) : more[k] = marks[k]
  BY <1>3
<1>. HIDE DEF more
<1>5. SavedOf(more) \in Seq(Places) /\ Len(SavedOf(more)) = Len(marks) + 1
  BY <1>4, SavedTyped
<1>6. SavedOf(marks) \in Seq(Places) /\ Len(SavedOf(marks)) = Len(marks)
  BY SavedTyped
<1>7. ASSUME NEW k \in 1 .. Len(marks) + 1
      PROVE  SavedOf(more)[k] = Append(SavedOf(marks), p)[k]
  <2>1. SavedOf(more)[k] = PlaceOf(more[k].state, more[k].last)
    BY <1>4 DEF SavedOf
  <2>2. CASE k = Len(marks) + 1
    <3>1. SavedOf(more)[k] = p  BY <1>2, <1>4, <2>1, <2>2 DEF p
    <3>2. Append(SavedOf(marks), p)[k] = p  BY <1>1, <1>6, <2>2
    <3> QED  BY <3>1, <3>2
  <2>3. CASE k # Len(marks) + 1
    <3>1. k \in 1 .. Len(marks) /\ k \in DOMAIN marks  BY <1>4, <2>3
    <3>2. SavedOf(more)[k] = SavedOf(marks)[k]  BY <1>4, <2>1, <3>1 DEF SavedOf
    <3>3. Append(SavedOf(marks), p)[k] = SavedOf(marks)[k]  BY <1>1, <1>6, <3>1
    <3> QED  BY <3>2, <3>3
  <2> QED  BY <2>2, <2>3
<1>8. Append(SavedOf(marks), p) \in Seq(Places) /\ Len(Append(SavedOf(marks), p)) = Len(marks) + 1
  BY <1>1, <1>6
<1>9. SavedOf(more) = Append(SavedOf(marks), p)
  BY <1>5, <1>7, <1>8, SeqEqual
<1> QED  BY <1>9 DEF more, m, p

LEMMA SavedWithoutMark ==
  ASSUME NEW marks \in Seq(MarkOf), marks # <<>>
  PROVE  LET n == Len(marks)
         IN  /\ SavedOf(SubSeq(marks, 1, n - 1)) = SubSeq(SavedOf(marks), 1, n - 1)
             /\ SavedOf(marks)[n] = PlaceOf(marks[n].state, marks[n].last)
             /\ Len(SavedOf(marks)) = n /\ SavedOf(marks) # <<>>
<1> DEFINE n == Len(marks)
           less == SubSeq(marks, 1, n - 1)
           there == SubSeq(SavedOf(marks), 1, n - 1)
<1>1. n \in Nat \ {0} /\ n \in DOMAIN marks /\ DOMAIN marks = 1 .. n  OBVIOUS
<1>2. less \in Seq(MarkOf) /\ Len(less) = n - 1 /\ \A k \in 1 .. n - 1 : less[k] = marks[k]
  BY <1>1
<1>3. SavedOf(marks) \in Seq(Places) /\ Len(SavedOf(marks)) = n  BY SavedTyped
<1>4. /\ there \in Seq(Places) /\ Len(there) = n - 1
      /\ \A k \in 1 .. n - 1 : there[k] = SavedOf(marks)[k]
  BY <1>1, <1>3
<1>. HIDE DEF less, there, n
<1>5. SavedOf(less) \in Seq(Places) /\ Len(SavedOf(less)) = n - 1  BY <1>2, SavedTyped
<1>6. ASSUME NEW k \in 1 .. n - 1 PROVE SavedOf(less)[k] = there[k]
  <2>1. k \in DOMAIN less /\ k \in DOMAIN marks  BY <1>1, <1>2
  <2> QED  BY <1>2, <1>4, <2>1 DEF SavedOf
<1>7. SavedOf(less) = there  BY <1>4, <1>5, <1>6, SeqEqual
<1>8. SavedOf(marks)[n] = PlaceOf(marks[n].state, marks[n].last)  BY <1>1 DEF SavedOf
<1>9. SavedOf(marks) # <<>>  BY <1>1, <1>3
<1> QED  BY <1>3, <1>7, <1>8, <1>9 DEF less, there, n

(* The cursor of an input that is not a pipe.                              *)
LEMMA CursorIs ==
  ASSUME input.kind # "pipe"
  PROVE  /\ Abstract!cursor = <<input.text, PlaceOf(input.state, input.last),
                                SavedOf(input.marks), 1 - input.backtrack>>
         /\ \A n : Abstract!PlaceAt(n) = PlaceIn(input.text, n)
<1>1. Seekable  BY DEF Seekable
<1>2. Abstract!cursor = <<input.text, PlaceOf(input.state, input.last),
                          SavedOf(input.marks), 1 - input.backtrack>>
  BY <1>1 DEF Abstract!cursor, SavedOf
<1>3. \A S : Abstract!Cardinality(S) = Cardinality(S)
  BY DEF Abstract!Cardinality, Cardinality
<1>4. ASSUME NEW n PROVE Abstract!PlaceAt(n) = PlaceIn(input.text, n)
  BY <1>1, <1>3 DEF Abstract!PlaceAt, PlaceIn, LineAt, LastOf, Ends
<1> QED  BY <1>2, <1>4

(* A pipe's cursor never moves.                                            *)
LEMMA PipeStutters ==
  ASSUME input.kind = "pipe", input'.kind = "pipe"
  PROVE  UNCHANGED Abstract!cursor
BY DEF Abstract!cursor, Seekable

(* `disabled` calls have disabled marks, and `marked` others made one.     *)
Balance(i, disabled, marked) ==
  i.kind # "pipe" => i.backtrack = 1 - disabled /\ Len(i.marks) = marked

Step == [Abstract!Next]_(Abstract!cursor)

LEMMA ReadStep ==
  ASSUME Sound(input), Reads(input, input'), NEW d, NEW m, Balance(input, d, m)
  PROVE  Sound(input') /\ Balance(input', d, m) /\ Step
<1>1. Sound(input')  BY ReadsKeepsSound
<1>2. Balance(input', d, m)  BY DEF Balance, Reads
<1>3. Step
  <2>1. CASE input.kind = "pipe"
    BY <2>1, PipeStutters DEF Reads, Step
  <2>2. CASE input.kind # "pipe"
    <3>1. Seekable /\ Seekable'  BY <2>2 DEF Seekable, Reads
    <3>2. /\ input'.text = input.text /\ input'.marks = input.marks
          /\ input'.backtrack = input.backtrack /\ input.state.pos <= input'.state.pos
      BY <2>2 DEF Reads
    <3>3. Stands(input'.text, input'.state, input'.last) /\ input.state.pos \in Nat
      BY <1>1, <2>2 DEF Sound, OnText, Reads, Stands, State
    <3>4. /\ input'.state.pos \in input.state.pos .. Len(input.text)
          /\ PlaceOf(input'.state, input'.last) = PlaceIn(input.text, input'.state.pos)
      BY <3>2, <3>3 DEF Stands
    <3>5. Abstract!PlaceAt(input'.state.pos) = PlaceIn(input.text, input'.state.pos)
      BY <2>2, CursorIs
    <3>6. Abstract!Read
      BY <3>1, <3>2, <3>4, <3>5 DEF Abstract!Read, PlaceOf
    <3> QED  BY <3>6 DEF Step, Abstract!Next
  <2> QED  BY <2>1, <2>2
<1> QED  BY <1>1, <1>2, <1>3

LEMMA LookStep ==
  ASSUME Sound(input), Looks(input, input'), NEW d, NEW m, Balance(input, d, m)
  PROVE  Sound(input') /\ Balance(input', d, m) /\ Step
BY LooksReads, ReadStep

LEMMA StayStep ==
  ASSUME Sound(input), UNCHANGED input, NEW d, NEW m, Balance(input, d, m)
  PROVE  Sound(input') /\ Balance(input', d, m) /\ Step
BY LooksNowhere, LookStep

LEMMA MarkStep ==
  ASSUME Sound(input), Looks(Mark(input), input'),
         NEW d \in Nat, NEW m \in Nat, Balance(input, d, m)
  PROVE  /\ Sound(input') /\ Step
         /\ Balance(input', d, IF d = 0 THEN m + 1 ELSE m)
<1>1. CASE input.backtrack < 1
  <2>1. Looks(input, input')  BY <1>1, DisabledMoves
  <2>2. Sound(input') /\ Step /\ Balance(input', d, m)  BY <2>1, LookStep
  <2>3. input.kind # "pipe" => d # 0  BY <1>1 DEF Balance
  <2>4. input'.kind = input.kind  BY <2>1 DEF Looks, Moves
  <2> QED  BY <2>2, <2>3, <2>4 DEF Balance
<1>2. CASE ~(input.backtrack < 1)
  <2> DEFINE mark == [state |-> input.state, last |-> input.last]
  <2>1. Moves(input, Mark(input), input.state, input.last, Append(input.marks, mark))
    BY <1>2, MarkMoves
  <2>2. Moves(input, input', input.state, input.last, Append(input.marks, mark))
    BY <2>1 DEF Looks, Moves
  <2>3. Sound(input')  BY <2>2, MovesKeepsSound
  <2>4. CASE input.kind = "pipe"
    BY <2>2, <2>3, <2>4, PipeStutters DEF Moves, Step, Balance
  <2>5. CASE input.kind # "pipe"
    <3>1. /\ input.marks \in Seq(MarkOf) /\ Stands(input.text, input.state, input.last)
          /\ input.backtrack \in Int
      BY <2>5 DEF Sound, OnText
    <3>2. mark \in MarkOf  BY <3>1 DEF Stands, MarkOf
    <3>3. /\ input'.kind # "pipe" /\ input'.text = input.text
          /\ input'.backtrack = input.backtrack /\ input'.state = input.state
          /\ input'.last = input.last /\ input'.marks = Append(input.marks, mark)
      BY <2>2, <2>5 DEF Moves
    <3>4. d = 0 /\ input.backtrack = 1  BY <1>2, <2>5, <3>1 DEF Balance
    <3>5. SavedOf(input'.marks) = Append(SavedOf(input.marks), PlaceOf(input.state, input.last))
      BY <3>1, <3>2, <3>3, SavedWithMark
    <3>6. Len(input'.marks) = Len(input.marks) + 1
      <4>. HIDE DEF mark
      <4> QED  BY <3>1, <3>2, <3>3
    <3>. HIDE DEF mark
    <3>7. Seekable /\ Seekable'  BY <2>5, <3>3 DEF Seekable
    <3>8. Abstract!Mark
      <4>1. PICK p : p = PlaceOf(input.state, input.last)  OBVIOUS
      <4>2. /\ PlaceOf(input'.state, input'.last) = p /\ input'.text = input.text
            /\ 1 - input.backtrack = 0 /\ 1 - input'.backtrack = 1 - input.backtrack
        BY <3>3, <3>4, <4>1
      <4>3. PICK s, t : s = SavedOf(input.marks) /\ t = SavedOf(input'.marks)  OBVIOUS
      <4>4. t = Append(s, p)  BY <3>5, <4>1, <4>3
      <4>5. /\ s = [k \in DOMAIN input.marks |->
                      PlaceOf(input.marks[k].state, input.marks[k].last)]
            /\ t = [k \in DOMAIN input'.marks |->
                      PlaceOf(input'.marks[k].state, input'.marks[k].last)]
        BY <4>3 DEF SavedOf
      <4> QED  BY <3>7, <4>1, <4>2, <4>4, <4>5 DEF Abstract!Mark
    <3> QED  BY <2>3, <2>5, <3>3, <3>4, <3>6, <3>8 DEF Balance, Step, Abstract!Next
  <2> QED  BY <2>4, <2>5
<1> QED  BY <1>1, <1>2

(* A mark dropped, with or without going back to it.                       *)
LEMMA DropStep ==
  ASSUME Sound(input), Balance(input, 0, Len(input.marks)), input.marks # <<>>,
         NEW state, NEW last,
         Moves(input, input', state, last, SubSeq(input.marks, 1, Len(input.marks) - 1)),
         input.kind # "pipe" =>
           \/ state = input.state /\ last = input.last
           \/ /\ state = input.marks[Len(input.marks)].state
              /\ last = input.marks[Len(input.marks)].last
  PROVE  Sound(input') /\ Step
<1>1. Sound(input')  BY MovesKeepsSound
<1>2. CASE input.kind = "pipe"
  BY <1>1, <1>2, PipeStutters DEF Moves, Step
<1>3. CASE input.kind # "pipe"
  <2>1. input.marks \in Seq(MarkOf) /\ input.backtrack = 1
    BY <1>3 DEF Sound, OnText, Balance
  <2>2. /\ input'.kind # "pipe" /\ input'.text = input.text
        /\ input'.backtrack = input.backtrack /\ input'.state = state
        /\ input'.last = last
        /\ input'.marks = SubSeq(input.marks, 1, Len(input.marks) - 1)
    BY <1>3 DEF Moves
  <2>3. /\ SavedOf(input'.marks)
             = SubSeq(SavedOf(input.marks), 1, Len(SavedOf(input.marks)) - 1)
        /\ SavedOf(input.marks) # <<>>
        /\ SavedOf(input.marks)[Len(SavedOf(input.marks))]
             = PlaceOf(input.marks[Len(input.marks)].state, input.marks[Len(input.marks)].last)
    BY <2>1, <2>2, SavedWithoutMark
  <2>4. Seekable /\ Seekable'  BY <1>3, <2>2 DEF Seekable
  <2>5. PICK s, t : s = SavedOf(input.marks) /\ t = SavedOf(input'.marks)  OBVIOUS
  <2>6. /\ s = [k \in DOMAIN input.marks |->
                  PlaceOf(input.marks[k].state, input.marks[k].last)]
        /\ t = [k \in DOMAIN input'.marks |->
                  PlaceOf(input'.marks[k].state, input'.marks[k].last)]
    BY <2>5 DEF SavedOf
  <2>7. t = SubSeq(s, 1, Len(s) - 1) /\ s # <<>>  BY <2>3, <2>5
  <2>8. /\ 1 - input.backtrack = 0 /\ 1 - input'.backtrack = 1 - input.backtrack
        /\ input'.text = input.text /\ input'.state = state /\ input'.last = last
    BY <2>1, <2>2
  <2>9. ASSUME state = input.state, last = input.last
        PROVE  Abstract!Unmark
    <3>1. PlaceOf(input'.state, input'.last) = PlaceOf(input.state, input.last)
      BY <2>8, <2>9
    <3> QED  BY <2>4, <2>6, <2>7, <2>8, <3>1 DEF Abstract!Unmark, Abstract!DropMark
  <2>10. ASSUME state = input.marks[Len(input.marks)].state,
                last = input.marks[Len(input.marks)].last
         PROVE  Abstract!Rewind
    <3>1. PlaceOf(input'.state, input'.last) = s[Len(s)]
      BY <2>3, <2>5, <2>8, <2>10
    <3> QED  BY <2>4, <2>6, <2>7, <2>8, <3>1 DEF Abstract!Rewind, Abstract!DropMark
  <2> QED  BY <1>1, <1>3, <2>9, <2>10 DEF Step, Abstract!Next
<1> QED  BY <1>2, <1>3

LEMMA BackStep ==
  ASSUME Sound(input), NEW j, j \in {Unmark(input), Rewind(input)}, Looks(j, input'),
         NEW d \in Nat, NEW m \in Nat, Balance(input, d, IF d = 0 THEN m + 1 ELSE m)
  PROVE  Sound(input') /\ Step /\ Balance(input', d, m)
<1>1. CASE input.backtrack < 1
  <2>1. j = input  BY <1>1, DisabledMoves
  <2>2. input.kind # "pipe" => d # 0  BY <1>1 DEF Balance
  <2>3. Balance(input, d, m)  BY <2>2 DEF Balance
  <2> QED  BY <2>1, <2>3, LookStep
<1>2. CASE ~(input.backtrack < 1)
  <2>1. ASSUME input.kind # "pipe"
        PROVE  /\ d = 0 /\ input.backtrack = 1 /\ Len(input.marks) = m + 1
               /\ input.marks # <<>> /\ input.marks \in Seq(MarkOf)
    <3>1. input.backtrack \in Int /\ input.marks \in Seq(MarkOf)
      BY <2>1 DEF Sound, OnText
    <3>2. d = 0 /\ input.backtrack = 1 /\ Len(input.marks) = m + 1
      BY <1>2, <2>1, <3>1 DEF Balance
    <3> QED  BY <3>1, <3>2
  <2> DEFINE older == SubSeq(input.marks, 1, Len(input.marks) - 1)
             newest == input.marks[Len(input.marks)]
  <2>2. /\ j = Unmark(input) => Moves(input, j, input.state, input.last, older)
        /\ j = Rewind(input) => Moves(input, j, newest.state, newest.last, older)
    BY <1>2, <2>1, UnmarkMoves, RewindMoves
  <2>3. PICK state, last :
          /\ Moves(input, j, state, last, older)
          /\ \/ state = input.state /\ last = input.last
             \/ state = newest.state /\ last = newest.last
    BY <2>2
  <2>4. Moves(input, input', state, last, older)
    BY <2>3 DEF Looks, Moves
  <2>5. CASE input.kind = "pipe"
    <3>1. Sound(input')  BY <2>4, MovesKeepsSound
    <3> QED  BY <2>4, <2>5, <3>1, PipeStutters DEF Moves, Step, Balance
  <2>6. CASE input.kind # "pipe"
    <3>1. Balance(input, 0, Len(input.marks))  BY <2>1, <2>6 DEF Balance
    <3>2. Sound(input') /\ Step  BY <2>1, <2>3, <2>4, <2>6, <3>1, DropStep
    <3>3. Len(older) = m  BY <2>1, <2>6
    <3>4. input'.marks = older /\ input'.backtrack = input.backtrack
      BY <2>4, <2>6 DEF Moves
    <3>. HIDE DEF older
    <3> QED  BY <2>1, <2>6, <3>2, <3>3, <3>4 DEF Balance
  <2> QED  BY <2>5, <2>6
<1> QED  BY <1>1, <1>2

LEMMA DisableStep ==
  ASSUME Sound(input), input' = Disable(input), NEW d \in Nat, NEW m, Balance(input, d, m)
  PROVE  Sound(input') /\ Step /\ Balance(input', d + 1, m)
<1>1. DOMAIN input = Fields  BY DEF Sound
<1>2. /\ DOMAIN input' = Fields /\ input'.kind = input.kind /\ input'.text = input.text
      /\ input'.state = input.state /\ input'.last = input.last /\ input'.file = input.file
      /\ input'.marks = input.marks /\ input'.backtrack = input.backtrack - 1
  BY <1>1 DEF Disable, Fields
<1>3. ASSUME input.kind # "pipe"
      PROVE  /\ OnText(input') /\ input'.backtrack = 1 - (d + 1)
             /\ 1 - input'.backtrack = (1 - input.backtrack) + 1
  <2>1. OnText(input) /\ input.backtrack \in Int  BY <1>3 DEF Sound, OnText
  <2>2. input'.backtrack \in Int /\ input'.backtrack = 1 - (d + 1)
        /\ 1 - input'.backtrack = (1 - input.backtrack) + 1
    BY <1>2, <1>3, <2>1 DEF Balance
  <2> QED  BY <1>2, <2>1, <2>2 DEF OnText
<1>4. Sound(input')  BY <1>2, <1>3 DEF Sound
<1>5. CASE input.kind = "pipe"
  BY <1>2, <1>4, <1>5, PipeStutters DEF Step, Balance
<1>6. CASE input.kind # "pipe"
  <2>1. Seekable /\ Seekable'  BY <1>2, <1>6 DEF Seekable
  <2>2. Abstract!Disable  BY <1>2, <1>3, <1>6, <2>1 DEF Abstract!Disable
  <2> QED  BY <1>2, <1>3, <1>4, <1>6, <2>2 DEF Step, Abstract!Next, Balance
<1> QED  BY <1>5, <1>6

LEMMA EnableStep ==
  ASSUME Sound(input), input' = Enable(input), NEW d \in Nat, NEW m, Balance(input, d + 1, m)
  PROVE  Sound(input') /\ Step /\ Balance(input', d, m)
<1>1. DOMAIN input = Fields  BY DEF Sound
<1>2. /\ DOMAIN input' = Fields /\ input'.kind = input.kind /\ input'.text = input.text
      /\ input'.state = input.state /\ input'.last = input.last /\ input'.file = input.file
      /\ input'.marks = input.marks /\ input'.backtrack = input.backtrack + 1
  BY <1>1 DEF Enable, Fields
<1>3. ASSUME input.kind # "pipe"
      PROVE  /\ OnText(input') /\ input'.backtrack = 1 - d
             /\ 1 - input'.backtrack = (1 - input.backtrack) - 1
             /\ 1 - input.backtrack > 0
  <2>1. OnText(input) /\ input.backtrack \in Int  BY <1>3 DEF Sound, OnText
  <2>2. input'.backtrack \in Int /\ input'.backtrack = 1 - d
        /\ 1 - input'.backtrack = (1 - input.backtrack) - 1
        /\ 1 - input.backtrack > 0
    BY <1>2, <1>3, <2>1 DEF Balance
  <2> QED  BY <1>2, <2>1, <2>2 DEF OnText
<1>4. Sound(input')  BY <1>2, <1>3 DEF Sound
<1>5. CASE input.kind = "pipe"
  BY <1>2, <1>4, <1>5, PipeStutters DEF Step, Balance
<1>6. CASE input.kind # "pipe"
  <2>1. Seekable /\ Seekable'  BY <1>2, <1>6 DEF Seekable
  <2>2. Abstract!Enable  BY <1>2, <1>3, <1>6, <2>1 DEF Abstract!Enable
  <2> QED  BY <1>2, <1>3, <1>4, <1>6, <2>2 DEF Step, Abstract!Next, Balance
<1> QED  BY <1>5, <1>6

------------------------------------------------------------------------------
(* The calls *)

CallFields == {"p", "j", "outs", "array", "from"}
CallOK(f) == DOMAIN f = CallFields /\ f.p \in Node /\ f.j \in Nat
StackOK(s) == (\E S : s \in Seq(S)) /\ \A k \in 1 .. Len(s) : CallOK(s[k])

(* The calls of the first n that disable marks, and those that made one.   *)
Predicts(g, s, n) == {k \in 1 .. n : g[s[k].p].type = "predict"}
Markers(g, s, n) ==
  {k \in 1 .. n : g[s[k].p].type \in {"and", "not"} /\ Predicts(g, s, k - 1) = {}}
Disabling(g, s, n) == Cardinality(Predicts(g, s, n))
Marked(g, s, n) == Cardinality(Markers(g, s, n))

LEMMA CountsTyped ==
  ASSUME NEW g, NEW s, NEW n \in Nat
  PROVE  /\ IsFiniteSet(Predicts(g, s, n)) /\ Disabling(g, s, n) \in Nat
         /\ IsFiniteSet(Markers(g, s, n)) /\ Marked(g, s, n) \in Nat
<1>1. IsFiniteSet(1 .. n)  BY FS_Interval
<1>2. Predicts(g, s, n) \subseteq 1 .. n /\ Markers(g, s, n) \subseteq 1 .. n
  BY DEF Predicts, Markers
<1>3. IsFiniteSet(Predicts(g, s, n)) /\ IsFiniteSet(Markers(g, s, n))
  BY <1>1, <1>2, FS_Subset
<1> QED  BY <1>3, FS_CardinalityType DEF Disabling, Marked

LEMMA CountsSame ==
  ASSUME NEW g, NEW s, NEW t, NEW n \in Nat, \A k \in 1 .. n : t[k].p = s[k].p
  PROVE  Disabling(g, t, n) = Disabling(g, s, n) /\ Marked(g, t, n) = Marked(g, s, n)
<1>1. ASSUME NEW k \in 0 .. n PROVE Predicts(g, t, k) = Predicts(g, s, k)
  BY DEF Predicts
<1>2. \A k \in 1 .. n : k - 1 \in 0 .. n  OBVIOUS
<1>3. Markers(g, t, n) = Markers(g, s, n)  BY <1>1, <1>2 DEF Markers
<1>4. Predicts(g, t, n) = Predicts(g, s, n)  BY <1>1
<1> QED  BY <1>3, <1>4 DEF Disabling, Marked

(* What one more call adds.                                                *)
LEMMA CountsMore ==
  ASSUME NEW g, NEW s, NEW n \in Nat
  PROVE  LET type == g[s[n + 1].p].type
         IN  /\ Disabling(g, s, n + 1) = IF type = "predict" THEN Disabling(g, s, n) + 1
                                         ELSE Disabling(g, s, n)
             /\ Marked(g, s, n + 1) = IF type \in {"and", "not"} /\ Disabling(g, s, n) = 0
                                      THEN Marked(g, s, n) + 1 ELSE Marked(g, s, n)
<1> DEFINE type == g[s[n + 1].p].type
           P == Predicts(g, s, n)
           M == Markers(g, s, n)
<1>1. IsFiniteSet(P) /\ IsFiniteSet(M)  BY CountsTyped
<1>2. P \subseteq 1 .. n /\ M \subseteq 1 .. n  BY DEF Predicts, Markers
<1>3. n + 1 \notin P /\ n + 1 \notin M  BY <1>2
<1>4. Disabling(g, s, n) = 0 <=> P = {}
  BY <1>1, FS_EmptySet DEF Disabling
<1>5. Predicts(g, s, n + 1) = IF type = "predict" THEN P \cup {n + 1} ELSE P
  BY DEF Predicts
<1>6. Markers(g, s, n + 1) = IF type \in {"and", "not"} /\ P = {} THEN M \cup {n + 1} ELSE M
  <2>1. (n + 1) - 1 = n  OBVIOUS
  <2> QED  BY <2>1 DEF Markers
<1>. HIDE DEF P, M, type
<1>7. Cardinality(P \cup {n + 1}) = Cardinality(P) + 1  BY <1>1, <1>3, FS_AddElement
<1>8. Cardinality(M \cup {n + 1}) = Cardinality(M) + 1  BY <1>1, <1>3, FS_AddElement
<1>9. Disabling(g, s, n + 1) = IF type = "predict" THEN Disabling(g, s, n) + 1
                               ELSE Disabling(g, s, n)
  BY <1>5, <1>7 DEF Disabling, P
<1>10. Marked(g, s, n + 1) = IF type \in {"and", "not"} /\ Disabling(g, s, n) = 0
                             THEN Marked(g, s, n) + 1 ELSE Marked(g, s, n)
  BY <1>4, <1>6, <1>8 DEF Marked, M
<1> QED  BY <1>9, <1>10 DEF type

LEMMA FrontOK ==
  ASSUME NEW s, StackOK(s), s # <<>>
  PROVE  /\ StackOK(Front(s)) /\ Len(s) \in Nat \ {0} /\ Len(Front(s)) = Len(s) - 1
         /\ \A k \in 1 .. Len(s) - 1 : Front(s)[k] = s[k]
         /\ Last(s) = s[Len(s)] /\ CallOK(Last(s))
<1>1. PICK S : s \in Seq(S)  BY DEF StackOK
<1>2. Len(s) \in Nat \ {0}  BY <1>1
<1>3. /\ Front(s) \in Seq(S) /\ Len(Front(s)) = Len(s) - 1
      /\ \A k \in 1 .. Len(s) - 1 : Front(s)[k] = s[k]
  <2> DEFINE n == Len(s) - 1
             u == SubSeq(s, 1, n)
  <2>1. n \in Nat /\ 1 \in Int /\ \A k \in 1 .. n : s[k] \in S  BY <1>1, <1>2
  <2>. HIDE DEF n
  <2>2. /\ u \in Seq(S) /\ Len(u) = IF 1 <= n THEN n - 1 + 1 ELSE 0
        /\ \A k \in 1 .. n - 1 + 1 : u[k] = s[1 + k - 1]
    BY <2>1, SubSeqProperties
  <2>. HIDE DEF u
  <2>3. n - 1 + 1 = n /\ (1 <= n \/ n = 0) /\ \A k \in 1 .. n : 1 + k - 1 = k  BY <2>1
  <2>4. Len(u) = n  BY <2>2, <2>3
  <2>5. \A k \in 1 .. n : u[k] = s[k]  BY <2>2, <2>3
  <2> QED  BY <2>2, <2>4, <2>5 DEF Front, u, n
<1>4. Last(s) = s[Len(s)] /\ Len(s) \in 1 .. Len(s)  BY <1>2 DEF Last
<1>5. \A k \in 1 .. Len(s) - 1 : k \in 1 .. Len(s)  BY <1>2
<1> QED  BY <1>2, <1>3, <1>4, <1>5 DEF StackOK

LEMMA CalledOK ==
  ASSUME NEW s, StackOK(s), s # <<>>, NEW f, NEW h, CallOK(f), CallOK(h)
  PROVE  LET t == Front(s) \o <<f, h>>
         IN  /\ StackOK(t) /\ Len(t) = Len(s) + 1 /\ t[Len(s)] = f /\ t[Len(s) + 1] = h
             /\ \A k \in 1 .. Len(s) - 1 : t[k] = s[k]
<1> DEFINE u == Front(s)
           t == u \o <<f, h>>
           n == Len(s)
<1>1. /\ StackOK(u) /\ n \in Nat \ {0} /\ Len(u) = n - 1
      /\ \A k \in 1 .. n - 1 : u[k] = s[k]
  BY FrontOK
<1>. HIDE DEF u, n
<1>2. PICK S : u \in Seq(S)  BY <1>1 DEF StackOK
<1>3. u \in Seq(S \cup {f, h})  BY <1>2, SeqMonotonic
<1>4. <<f, h>> \in Seq(S \cup {f, h}) /\ Len(<<f, h>>) = 2 /\ <<f, h>>[1] = f /\ <<f, h>>[2] = h
  OBVIOUS
<1>5. /\ t \in Seq(S \cup {f, h}) /\ Len(t) = Len(u) + 2
      /\ \A k \in 1 .. Len(u) + 2 : t[k] = IF k <= Len(u) THEN u[k] ELSE <<f, h>>[k - Len(u)]
  BY <1>3, <1>4, ConcatProperties
<1>. HIDE DEF t
<1>6. Len(t) = n + 1  BY <1>1, <1>5
<1>7. t[n] = f
  <2>1. n - Len(u) = 1 /\ n \in 1 .. Len(u) + 2 /\ ~(n <= Len(u))  BY <1>1
  <2> QED  BY <1>4, <1>5, <2>1
<1>8. t[n + 1] = h
  <2>1. (n + 1) - Len(u) = 2 /\ n + 1 \in 1 .. Len(u) + 2 /\ ~(n + 1 <= Len(u))  BY <1>1
  <2> QED  BY <1>4, <1>5, <2>1
<1>9. ASSUME NEW k \in 1 .. n - 1 PROVE t[k] = s[k] /\ CallOK(t[k])
  <2>1. k \in 1 .. Len(u) /\ k \in 1 .. Len(u) + 2 /\ k <= Len(u)  BY <1>1
  <2> QED  BY <1>1, <1>5, <2>1 DEF StackOK
<1>10. ASSUME NEW k \in 1 .. Len(t) PROVE CallOK(t[k])
  <2>1. k \in 1 .. n - 1 \/ k = n \/ k = n + 1  BY <1>1, <1>6
  <2> QED  BY <1>7, <1>8, <1>9, <2>1
<1>11. StackOK(t)  BY <1>5, <1>10 DEF StackOK
<1> QED  BY <1>6, <1>7, <1>8, <1>9, <1>11 DEF t, u, n

------------------------------------------------------------------------------
(* The invariant: the marks that are set are those of the sequences and    *)
(* negations under way, outside of every predict, and marking is disabled  *)
(* as often as there are predicts under way.                               *)

Calling == IF ret = NoReturn THEN Len(stack) - 1 ELSE Len(stack)

Inv ==
  /\ prog \in Grammars
  /\ Sound(input)
  /\ StackOK(stack)
  /\ status = "run" =>
       Balance(input, Disabling(prog, stack, Calling), Marked(prog, stack, Calling))

LEMMA ReturnsSomething ==
  ASSUME NEW a, NEW b, NEW c
  PROVE  [ok |-> a, out |-> b, err |-> c] # NoReturn
<1>1. "ok" \in DOMAIN [ok |-> a, out |-> b, err |-> c] /\ "ok" \notin DOMAIN NoReturn
  BY DEF NoReturn
<1> QED  BY <1>1

LEMMA ReturnsTo ==
  ASSUME StackOK(stack), stack # <<>>, stack' = Front(stack), ret' # NoReturn, UNCHANGED prog
  PROVE  LET n == Len(stack) - 1
         IN  /\ StackOK(stack') /\ n \in Nat /\ Calling' = n
             /\ Disabling(prog', stack', n) = Disabling(prog, stack, n)
             /\ Marked(prog', stack', n) = Marked(prog, stack, n)
<1>1. /\ StackOK(stack') /\ Len(stack) \in Nat \ {0} /\ Len(stack') = Len(stack) - 1
      /\ \A k \in 1 .. Len(stack) - 1 : stack'[k] = stack[k]
  BY FrontOK
<1>2. Len(stack) - 1 \in Nat  BY <1>1
<1>3. NoReturn' = NoReturn  BY DEF NoReturn
<1> QED  BY <1>1, <1>2, <1>3, CountsSame DEF Calling

LEMMA CallsOn ==
  ASSUME prog \in Grammars, StackOK(stack), stack # <<>>, UNCHANGED prog,
         NEW f, CallOK(f), f.p = Top.p, NEW j, j \in 1 .. Len(Kids(f.p)), Descend(f, j)
  PROVE  LET n == Len(stack)
         IN  /\ StackOK(stack') /\ n \in Nat
             /\ status' = "run" =>
                  /\ Calling' = n
                  /\ Disabling(prog', stack', n) = Disabling(prog, stack, n)
                  /\ Marked(prog', stack', n) = Marked(prog, stack, n)
<1> DEFINE h == Fresh(Kids(f.p)[j])
<1>1. Len(stack) \in Nat \ {0} /\ Top = stack[Len(stack)]  BY FrontOK DEF Top
<1>2. CallOK(h)
  <2>1. Kids(f.p) \in Seq(Node)  BY GrammarAssumption DEF Kids, CallOK
  <2>2. Kids(f.p)[j] \in Node  BY <2>1
  <2> QED  BY <2>2 DEF Fresh, CallOK, CallFields
<1>3. CASE Len(stack) < MaxDepth
  <2>1. stack' = Front(stack) \o <<f, h>> /\ ret' = NoReturn
    BY <1>3 DEF Descend
  <2>. HIDE DEF h
  <2>2. /\ StackOK(stack') /\ Len(stack') = Len(stack) + 1 /\ stack'[Len(stack)] = f
        /\ \A k \in 1 .. Len(stack) - 1 : stack'[k] = stack[k]
    BY <1>2, <2>1, CalledOK
  <2>3. ASSUME NEW k \in 1 .. Len(stack) PROVE stack'[k].p = stack[k].p
    <3>1. k = Len(stack) \/ k \in 1 .. Len(stack) - 1  BY <1>1
    <3> QED  BY <1>1, <2>2, <3>1
  <2>4. NoReturn' = NoReturn  BY DEF NoReturn
  <2>5. Calling' = Len(stack)  BY <1>1, <2>1, <2>2, <2>4 DEF Calling
  <2> QED  BY <1>1, <2>2, <2>3, <2>5, CountsSame
<1>4. CASE ~(Len(stack) < MaxDepth)
  BY <1>1, <1>4 DEF Descend
<1> QED  BY <1>3, <1>4

(* What the top call adds to the counts once it has called another.        *)
LEMMA TopCounts ==
  ASSUME StackOK(stack), stack # <<>>
  PROVE  LET n == Len(stack)
             d == Disabling(prog, stack, n - 1)
             m == Marked(prog, stack, n - 1)
         IN  /\ n \in Nat \ {0} /\ d \in Nat /\ m \in Nat
             /\ Disabling(prog, stack, n) = IF Type(Top.p) = "predict" THEN d + 1 ELSE d
             /\ Marked(prog, stack, n) =
                  IF Type(Top.p) \in {"and", "not"} /\ d = 0 THEN m + 1 ELSE m
<1>1. Len(stack) \in Nat \ {0} /\ Top = stack[Len(stack)]  BY FrontOK DEF Top
<1>2. Len(stack) - 1 \in Nat /\ (Len(stack) - 1) + 1 = Len(stack)  BY <1>1
<1>3. LET n == Len(stack) - 1
          type == prog[stack[n + 1].p].type
      IN  /\ Disabling(prog, stack, n + 1) = IF type = "predict" THEN Disabling(prog, stack, n) + 1
                                             ELSE Disabling(prog, stack, n)
          /\ Marked(prog, stack, n + 1) =
               IF type \in {"and", "not"} /\ Disabling(prog, stack, n) = 0
               THEN Marked(prog, stack, n) + 1 ELSE Marked(prog, stack, n)
  BY <1>2, CountsMore
<1>4. Disabling(prog, stack, Len(stack) - 1) \in Nat /\ Marked(prog, stack, Len(stack) - 1) \in Nat
  BY <1>2, CountsTyped
<1> QED  BY <1>1, <1>2, <1>3, <1>4 DEF Type

(* A call that returns without having called another.                      *)
LEMMA ReturnAtOnce ==
  ASSUME Inv, Running, ret = NoReturn, UNCHANGED <<prog, status>>,
         stack' = Front(stack), ret' # NoReturn, Reads(input, input')
  PROVE  Inv' /\ Step
<1>1. /\ StackOK(stack) /\ stack # <<>> /\ Sound(input) /\ status = "run"
      /\ Balance(input, Disabling(prog, stack, Len(stack) - 1), Marked(prog, stack, Len(stack) - 1))
  BY DEF Inv, Running, Calling
<1>2. Sound(input') /\ Step
      /\ Balance(input', Disabling(prog, stack, Len(stack) - 1), Marked(prog, stack, Len(stack) - 1))
  BY <1>1, ReadStep
<1>3. LET n == Len(stack) - 1
      IN  /\ StackOK(stack') /\ Calling' = n
          /\ Disabling(prog', stack', n) = Disabling(prog, stack, n)
          /\ Marked(prog', stack', n) = Marked(prog, stack, n)
  BY <1>1, ReturnsTo
<1> QED  BY <1>2, <1>3 DEF Inv

(* A call's first call.                                                    *)
LEMMA CallFirst ==
  ASSUME Inv, Running, ret = NoReturn, UNCHANGED prog,
         NEW f, CallOK(f), f.p = Top.p, NEW j, j \in 1 .. Len(Kids(f.p)), Descend(f, j),
         \/ Type(Top.p) \notin {"predict", "and", "not"} /\ Looks(input, input')
         \/ Type(Top.p) \in {"and", "not"} /\ Looks(Mark(input), input')
         \/ Type(Top.p) = "predict" /\ input' = Disable(input)
  PROVE  Inv' /\ Step
<1> DEFINE n == Len(stack)
           d == Disabling(prog, stack, n - 1)
           m == Marked(prog, stack, n - 1)
<1>1. /\ StackOK(stack) /\ stack # <<>> /\ Sound(input) /\ prog \in Grammars
      /\ Balance(input, d, m)
  BY DEF Inv, Running, Calling
<1>2. /\ n \in Nat \ {0} /\ d \in Nat /\ m \in Nat
      /\ Disabling(prog, stack, n) = IF Type(Top.p) = "predict" THEN d + 1 ELSE d
      /\ Marked(prog, stack, n) = IF Type(Top.p) \in {"and", "not"} /\ d = 0 THEN m + 1 ELSE m
  BY <1>1, TopCounts
<1>3. /\ StackOK(stack')
      /\ status' = "run" =>
           /\ Calling' = n
           /\ Disabling(prog', stack', n) = Disabling(prog, stack, n)
           /\ Marked(prog', stack', n) = Marked(prog, stack, n)
  BY <1>1, CallsOn
<1>. HIDE DEF d, m, n
<1>4. Sound(input') /\ Step /\ Balance(input', Disabling(prog, stack, n), Marked(prog, stack, n))
  <2>1. CASE Type(Top.p) \notin {"predict", "and", "not"} /\ Looks(input, input')
    BY <1>1, <1>2, <2>1, LookStep
  <2>2. CASE Type(Top.p) \in {"and", "not"} /\ Looks(Mark(input), input')
    <3>1. Sound(input') /\ Step /\ Balance(input', d, IF d = 0 THEN m + 1 ELSE m)
      BY <1>1, <1>2, <2>2, MarkStep
    <3>2. Disabling(prog, stack, n) = d /\ Marked(prog, stack, n) = IF d = 0 THEN m + 1 ELSE m
      BY <1>2, <2>2
    <3> QED  BY <3>1, <3>2
  <2>3. CASE Type(Top.p) = "predict" /\ input' = Disable(input)
    BY <1>1, <1>2, <2>3, DisableStep
  <2> QED  BY <2>1, <2>2, <2>3
<1>5. prog' \in Grammars  BY <1>1
<1> QED  BY <1>3, <1>4, <1>5 DEF Inv

(* A call that returns after another has returned to it.                   *)
LEMMA ReturnAfter ==
  ASSUME Inv, Running, ret # NoReturn, UNCHANGED <<prog, status>>,
         stack' = Front(stack), ret' # NoReturn,
         \/ Type(Top.p) \notin {"predict", "and", "not"} /\ Looks(input, input')
         \/ /\ Type(Top.p) \in {"and", "not"}
            /\ Looks(Unmark(input), input') \/ Looks(Rewind(input), input')
         \/ Type(Top.p) = "predict" /\ input' = Enable(input)
  PROVE  Inv' /\ Step
<1> DEFINE n == Len(stack)
           d == Disabling(prog, stack, n - 1)
           m == Marked(prog, stack, n - 1)
<1>1. /\ StackOK(stack) /\ stack # <<>> /\ Sound(input) /\ prog \in Grammars
      /\ Balance(input, Disabling(prog, stack, n), Marked(prog, stack, n))
  BY DEF Inv, Running, Calling
<1>2. /\ n \in Nat \ {0} /\ d \in Nat /\ m \in Nat
      /\ Disabling(prog, stack, n) = IF Type(Top.p) = "predict" THEN d + 1 ELSE d
      /\ Marked(prog, stack, n) = IF Type(Top.p) \in {"and", "not"} /\ d = 0 THEN m + 1 ELSE m
  BY <1>1, TopCounts
<1>3. /\ StackOK(stack') /\ Calling' = n - 1
      /\ Disabling(prog', stack', n - 1) = d /\ Marked(prog', stack', n - 1) = m
  BY <1>1, ReturnsTo
<1>. HIDE DEF d, m, n
<1>4. Sound(input') /\ Step /\ Balance(input', d, m)
  <2>1. CASE Type(Top.p) \notin {"predict", "and", "not"} /\ Looks(input, input')
    BY <1>1, <1>2, <2>1, LookStep
  <2>2. CASE /\ Type(Top.p) \in {"and", "not"}
             /\ Looks(Unmark(input), input') \/ Looks(Rewind(input), input')
    <3>1. Disabling(prog, stack, n) = d /\ Marked(prog, stack, n) = IF d = 0 THEN m + 1 ELSE m
      BY <1>2, <2>2
    <3>2. Balance(input, d, IF d = 0 THEN m + 1 ELSE m)  BY <1>1, <3>1
    <3>3. PICK j \in {Unmark(input), Rewind(input)} : Looks(j, input')  BY <2>2
    <3> QED  BY <1>1, <1>2, <3>2, <3>3, BackStep
  <2>3. CASE Type(Top.p) = "predict" /\ input' = Enable(input)
    <3>1. Balance(input, d + 1, m)  BY <1>1, <1>2, <2>3
    <3> QED  BY <1>1, <1>2, <2>3, <3>1, EnableStep
  <2> QED  BY <2>1, <2>2, <2>3
<1>5. prog' \in Grammars  BY <1>1
<1> QED  BY <1>3, <1>4, <1>5 DEF Inv

(* A call's next call.                                                     *)
LEMMA CallAgain ==
  ASSUME Inv, Running, ret # NoReturn, UNCHANGED <<prog, input>>,
         NEW f, CallOK(f), f.p = Top.p, NEW j, j \in 1 .. Len(Kids(f.p)), Descend(f, j)
  PROVE  Inv' /\ Step
<1> DEFINE n == Len(stack)
<1>1. /\ StackOK(stack) /\ stack # <<>> /\ Sound(input) /\ prog \in Grammars
      /\ Balance(input, Disabling(prog, stack, n), Marked(prog, stack, n))
  BY DEF Inv, Running, Calling
<1>2. /\ StackOK(stack')
      /\ status' = "run" =>
           /\ Calling' = n
           /\ Disabling(prog', stack', n) = Disabling(prog, stack, n)
           /\ Marked(prog', stack', n) = Marked(prog, stack, n)
  BY <1>1, CallsOn
<1>3. Sound(input') /\ Step /\ Balance(input', Disabling(prog, stack, n), Marked(prog, stack, n))
  BY <1>1, StayStep
<1>4. prog' \in Grammars  BY <1>1
<1>. HIDE DEF n
<1> QED  BY <1>2, <1>3, <1>4 DEF Inv

(* A step that ends the run.                                               *)
LEMMA EndStep ==
  ASSUME Inv, UNCHANGED <<prog, input, stack>>, status' # "run"
  PROVE  Inv' /\ Step
<1>1. Step  BY DEF Step, Abstract!cursor, Seekable, PlaceOf
<1> QED  BY <1>1 DEF Inv

------------------------------------------------------------------------------
(* The steps *)

LEMMA StartOK ==
  ASSUME NEW kind \in Kinds, NEW text \in Seq(Char)
  PROVE  LET i == New(kind, text)
         IN  Sound(i) /\ Balance(i, 0, 0)
<1> DEFINE i == New(kind, text)
<1>1. /\ DOMAIN i = Fields /\ i.kind = kind /\ i.text = text /\ i.state = Start
      /\ i.last = NUL /\ i.marks = <<>> /\ i.backtrack = 1
      /\ i.file = [at |-> 0, eof |-> FALSE]
  BY DEF New, Fields
<1>. HIDE DEF i
<1>2. Stands(i.text, i.state, i.last)
  <2>1. Start \in State /\ Start.pos = 0  BY DEF Start, State
  <2>2. PlaceOf(Start, NUL) = PlaceIn(text, 0)  BY PlaceAtStart DEF PlaceOf, Start
  <2>3. 0 \in 0 .. Len(text)  OBVIOUS
  <2> QED  BY <1>1, <2>1, <2>2, <2>3 DEF Stands
<1>3. OnText(i)
  <2>1. i.marks \in Seq(MarkOf) /\ DOMAIN i.marks = {}  BY <1>1
  <2>2. i.file.at = i.state.pos /\ ~i.file.eof /\ i.file \in [at : Nat, eof : BOOLEAN]
    BY <1>1 DEF Start
  <2> QED  BY <1>1, <1>2, <2>1, <2>2 DEF OnText
<1>4. Sound(i)  BY <1>1, <1>3 DEF Sound
<1>5. Balance(i, 0, 0)  BY <1>1 DEF Balance
<1> QED  BY <1>4, <1>5 DEF i

(* Before the first call everything is as the cursor wants it.             *)
LEMMA InitOK ==
  ASSUME Init
  PROVE  Inv /\ Abstract!Init
<1>1. PICK kind \in InputKinds, text \in Texts : input = New(kind, text)  BY DEF Init
<1>2. kind \in Kinds /\ text \in Seq(Char)  BY ParseAssumption
<1>3. Sound(input) /\ Balance(input, 0, 0)  BY <1>1, <1>2, StartOK
<1>4. stack = <<Fresh(Root)>> /\ CallOK(Fresh(Root)) /\ prog \in Grammars /\ ret = NoReturn
  BY ParseAssumption DEF Init, Fresh, CallOK, CallFields
<1>5. StackOK(stack) /\ Len(stack) = 1
  <2> DEFINE f == Fresh(Root)
  <2>1. stack = <<f>> /\ CallOK(f)  BY <1>4
  <2>. HIDE DEF f
  <2>2. stack \in Seq({f}) /\ Len(stack) = 1 /\ stack[1] = f  BY <2>1
  <2>3. \A k \in 1 .. Len(stack) : CallOK(stack[k])  BY <2>1, <2>2
  <2>4. \E S : stack \in Seq(S)  BY <2>2
  <2> QED  BY <2>2, <2>3, <2>4 DEF StackOK
<1>6. Calling = 0  BY <1>4, <1>5 DEF Calling
<1>7. Disabling(prog, stack, 0) = 0 /\ Marked(prog, stack, 0) = 0
  <2>1. Predicts(prog, stack, 0) = {} /\ Markers(prog, stack, 0) = {}
    BY DEF Predicts, Markers
  <2> QED  BY <2>1, FS_EmptySet DEF Disabling, Marked
<1>8. Inv  BY <1>3, <1>4, <1>5, <1>6, <1>7 DEF Inv
<1>9. Abstract!Init
  <2>1. CASE input.kind = "pipe"
    <3>1. ~Seekable  BY <2>1 DEF Seekable
    <3>2. Abstract!PlaceAt(0) = PlaceIn(<<>>, 0)
      <4>1. \A S : Abstract!Cardinality(S) = Cardinality(S)
        BY DEF Abstract!Cardinality, Cardinality
      <4> QED  BY <3>1, <4>1 DEF Abstract!PlaceAt, PlaceIn, LineAt, LastOf, Ends
    <3>3. PlaceOf(Start, NUL) = PlaceIn(<<>>, 0)  BY PlaceAtStart DEF PlaceOf, Start
    <3>4. <<>> \in Seq(Char)  OBVIOUS
    <3> QED  BY <3>1, <3>2, <3>3, <3>4 DEF Abstract!Init
  <2>2. CASE input.kind # "pipe"
    <3>1. Seekable  BY <2>2 DEF Seekable
    <3>2. /\ input.text = text /\ input.state = Start /\ input.last = NUL
          /\ input.marks = <<>> /\ input.backtrack = 1
      BY <1>1 DEF New
    <3>3. Abstract!PlaceAt(0) = PlaceIn(text, 0)  BY <2>2, <3>2, CursorIs
    <3>4. PlaceOf(Start, NUL) = PlaceIn(text, 0)  BY PlaceAtStart DEF PlaceOf, Start
    <3>5. [m \in DOMAIN <<>> |-> PlaceOf(<<>>[m].state, <<>>[m].last)] = <<>>  OBVIOUS
    <3> QED  BY <1>2, <3>1, <3>2, <3>3, <3>4, <3>5 DEF Abstract!Init
  <2> QED  BY <2>1, <2>2
<1> QED  BY <1>8, <1>9

(* The top call is one of a parser that has the kids its type needs.       *)
LEMMA TopTyped ==
  ASSUME Inv, Running
  PROVE  /\ CallOK(Top) /\ Kids(Top.p) \in Seq(Node)
         /\ Type(Top.p) \in Unary => 1 \in 1 .. Len(Kids(Top.p))
         /\ Type(Top.p) = "word" => Arg(Top.p) \in Seq(Char)
<1>1. CallOK(Top) /\ prog \in Grammars  BY FrontOK DEF Inv, Running, Top
<1>2. /\ Kids(Top.p) \in Seq(Node)
      /\ Type(Top.p) \in Unary => Kids(Top.p) # <<>>
      /\ Type(Top.p) = "word" => Arg(Top.p) \in Seq(Char)
  BY <1>1, GrammarAssumption DEF CallOK, Kids, Type, Arg
<1>3. Kids(Top.p) # <<>> => Len(Kids(Top.p)) \in Nat \ {0}  BY <1>2, EmptySeq
<1> QED  BY <1>1, <1>2, <1>3

(* A step returns or calls.                                                *)
LEMMA SucceedReturns ==
  ASSUME NEW out, Succeed(out)
  PROVE  stack' = Front(stack) /\ ret' # NoReturn
BY ReturnsSomething DEF Succeed

LEMMA FailReturns ==
  ASSUME NEW e, Fail(e)
  PROVE  stack' = Front(stack) /\ ret' # NoReturn
BY ReturnsSomething DEF Fail

(* Parsers that call no other.                                             *)
LEMMA LeafSteps ==
  ASSUME Inv, Chars \/ Word \/ AnchorHere \/ Pass \/ LiftVal \/ Lift \/ StateCopy \/ Failing
              \/ OfNone
  PROVE  Inv' /\ Step
<1>1. /\ Running /\ ret = NoReturn /\ UNCHANGED <<prog, status>>
      /\ \E x : Succeed(x) \/ Fail(x)
  BY DEF Chars, Word, AnchorHere, Pass, LiftVal, Lift, StateCopy, Failing, OfNone, Starts, FailWith
<1>2. stack' = Front(stack) /\ ret' # NoReturn  BY <1>1, SucceedReturns, FailReturns
<1>3. Sound(input)  BY DEF Inv
<1>4. Reads(input, input')
  <2>1. CASE Chars
    <3>1. input' = Take(input, Arg(Top.p)).i  BY <2>1 DEF Chars
    <3> QED  BY <1>3, <3>1, TakeReads
  <2>2. CASE Word
    <3>1. input' = TakeAll(input, Arg(Top.p)).i /\ Type(Top.p) = "word"
      BY <2>2 DEF Word, Starts
    <3>2. Arg(Top.p) \in Seq(Char)  BY <1>1, <3>1, TopTyped
    <3> QED  BY <1>3, <3>1, <3>2, WordReads
  <2>3. CASE AnchorHere
    <3>1. input' = Peekc(input).i  BY <2>3 DEF AnchorHere, Anchor
    <3> QED  BY <1>3, <3>1, PeekLooks, LooksReads
  <2>4. CASE Pass \/ LiftVal \/ Lift \/ StateCopy \/ Failing \/ OfNone
    <3>1. input' = input  BY <2>4 DEF Pass, LiftVal, Lift, StateCopy, Failing, OfNone
    <3> QED  BY <1>3, <3>1, ReadsNothing
  <2> QED  BY <2>1, <2>2, <2>3, <2>4
<1> QED  BY <1>1, <1>2, <1>4, ReturnAtOnce

LEMMA MarkSound ==
  ASSUME Sound(input)
  PROVE  Sound(Mark(input))
BY DisabledMoves, MarkMoves, MovesKeepsSound

LEMMA BackSound ==
  ASSUME Inv, Running, ret # NoReturn, Type(Top.p) \in {"and", "not"}
  PROVE  Sound(Unmark(input)) /\ Sound(Rewind(input))
<1>1. /\ StackOK(stack) /\ stack # <<>> /\ Sound(input)
      /\ Balance(input, Disabling(prog, stack, Len(stack)), Marked(prog, stack, Len(stack)))
  BY DEF Inv, Running, Calling
<1>2. CASE input.backtrack < 1
  BY <1>1, <1>2, DisabledMoves
<1>3. CASE ~(input.backtrack < 1)
  <2>1. ASSUME input.kind # "pipe" PROVE input.marks # <<>>
    <3> DEFINE d == Disabling(prog, stack, Len(stack) - 1)
               m == Marked(prog, stack, Len(stack) - 1)
    <3>1. /\ d \in Nat /\ m \in Nat /\ Disabling(prog, stack, Len(stack)) = d
          /\ Marked(prog, stack, Len(stack)) = IF d = 0 THEN m + 1 ELSE m
      BY <1>1, TopCounts
    <3>. HIDE DEF d, m
    <3>2. input.backtrack = 1 - d  BY <1>1, <2>1, <3>1 DEF Balance
    <3>3. d = 0  BY <1>3, <3>1, <3>2
    <3>4. Len(input.marks) = m + 1  BY <1>1, <2>1, <3>1, <3>3 DEF Balance
    <3>5. Len(input.marks) # 0  BY <3>1, <3>4
    <3> QED  BY <3>5
  <2> QED  BY <1>1, <1>3, <2>1, UnmarkMoves, RewindMoves, MovesKeepsSound
<1> QED  BY <1>2, <1>3

LEMMA WithArrayOK ==
  ASSUME NEW f, CallOK(f), NEW s, NEW n
  PROVE  CallOK(WithArray(s, f, n).f) /\ WithArray(s, f, n).f.p = f.p
BY DEF WithArray, CallOK, CallFields

(* A parser calls its first kid.                                           *)
LEMMA EnterSteps ==
  ASSUME Inv, Enter \/ EnterExpect \/ EnterPredict \/ EnterNot \/ EnterCount \/ EnterSeveral
  PROVE  Inv' /\ Step
<1>1. Running /\ ret = NoReturn /\ UNCHANGED prog /\ Sound(input)
  BY DEF Inv, Enter, EnterExpect, EnterPredict, EnterNot, EnterCount, EnterSeveral, Starts
<1>2. CallOK(Top) /\ Kids(Top.p) \in Seq(Node)  BY <1>1, TopTyped
<1>3. CASE Enter
  <2>1. /\ Type(Top.p) \in Unary /\ Type(Top.p) \notin {"predict", "and", "not"}
        /\ Descend(Top, 1) /\ UNCHANGED input
    BY <1>3 DEF Enter, Starts, Unary
  <2>2. 1 \in 1 .. Len(Kids(Top.p))  BY <1>1, <2>1, TopTyped
  <2>3. Looks(input, input')  BY <1>1, <2>1, LooksNowhere
  <2> QED  BY <1>1, <1>2, <2>1, <2>2, <2>3, CallFirst
<1>4. CASE EnterExpect
  <2>1. /\ Type(Top.p) \in Unary /\ Type(Top.p) \notin {"predict", "and", "not"}
        /\ Descend(Top, 1) /\ input' = Suppress(input)
    BY <1>4 DEF EnterExpect, Starts, Unary
  <2>2. 1 \in 1 .. Len(Kids(Top.p))  BY <1>1, <2>1, TopTyped
  <2>3. Looks(input, input')  BY <1>1, <2>1, SuppressLooks
  <2> QED  BY <1>1, <1>2, <2>1, <2>2, <2>3, CallFirst
<1>5. CASE EnterPredict
  <2>1. /\ Type(Top.p) \in Unary /\ Type(Top.p) = "predict"
        /\ Descend(Top, 1) /\ input' = Disable(input)
    BY <1>5 DEF EnterPredict, Starts, Unary
  <2>2. 1 \in 1 .. Len(Kids(Top.p))  BY <1>1, <2>1, TopTyped
  <2> QED  BY <1>1, <1>2, <2>1, <2>2, CallFirst
<1>6. CASE EnterNot
  <2>1. /\ Type(Top.p) \in Unary /\ Type(Top.p) \in {"and", "not"}
        /\ Descend(Top, 1) /\ input' = Suppress(Mark(input))
    BY <1>6 DEF EnterNot, Starts, Unary
  <2>2. 1 \in 1 .. Len(Kids(Top.p))  BY <1>1, <2>1, TopTyped
  <2>3. Looks(Mark(input), input')  BY <1>1, <2>1, MarkSound, SuppressLooks
  <2> QED  BY <1>1, <1>2, <2>1, <2>2, <2>3, CallFirst
<1>7. CASE EnterCount
  <2> DEFINE f == WithArray(store, Top, Arg(Top.p).n).f
  <2>1. /\ Type(Top.p) \in Unary /\ Type(Top.p) \notin {"predict", "and", "not"}
        /\ Descend(f, 1) /\ UNCHANGED input
    BY <1>7 DEF EnterCount, Starts, Unary
  <2>2. CallOK(f) /\ f.p = Top.p  BY <1>2, WithArrayOK
  <2>3. 1 \in 1 .. Len(Kids(f.p))  BY <1>1, <2>1, <2>2, TopTyped
  <2>4. Looks(input, input')  BY <1>1, <2>1, LooksNowhere
  <2>. HIDE DEF f
  <2> QED  BY <1>1, <2>1, <2>2, <2>3, <2>4, CallFirst
<1>8. CASE EnterSeveral
  <2> DEFINE f == WithArray(store, Top, Len(Kids(Top.p))).f
  <2>1. /\ Type(Top.p) \in {"or", "and"} /\ Kids(Top.p) # <<>>
        /\ Descend(f, 1)
        /\ input' = IF Type(Top.p) = "and" THEN Mark(input) ELSE input
    BY <1>8 DEF EnterSeveral, Starts
  <2>2. CallOK(f) /\ f.p = Top.p  BY <1>2, WithArrayOK
  <2>3. 1 \in 1 .. Len(Kids(f.p))  BY <1>2, <2>1, <2>2, EmptySeq
  <2>4. Looks(input, input) /\ Looks(Mark(input), Mark(input))
    BY <1>1, MarkSound, LooksNowhere
  <2>. HIDE DEF f
  <2>5. CASE Type(Top.p) = "and"
    BY <1>1, <2>1, <2>2, <2>3, <2>4, <2>5, CallFirst
  <2>6. CASE Type(Top.p) # "and"
    <3>1. Type(Top.p) \notin {"predict", "and", "not"} /\ Looks(input, input')
      BY <2>1, <2>4, <2>6
    <3> QED  BY <1>1, <2>1, <2>2, <2>3, <3>1, CallFirst
  <2> QED  BY <2>5, <2>6
<1> QED  BY <1>3, <1>4, <1>5, <1>6, <1>7, <1>8

(* A parser of one parser returns.                                         *)
LEMMA UnarySteps ==
  ASSUME Inv, Apply \/ Check \/ Expect \/ Predict \/ Not \/ Maybe \/ ManyEnd \/ CountEnd
  PROVE  Inv' /\ Step
<1>1. /\ Running /\ ret # NoReturn /\ UNCHANGED <<prog, status>> /\ Sound(input)
      /\ \E x : Succeed(x) \/ Fail(x)
  BY DEF Inv, Apply, Check, Expect, Predict, Not, Maybe, ManyEnd, CountEnd, Resumes, FailWith
<1>2. stack' = Front(stack) /\ ret' # NoReturn  BY <1>1, SucceedReturns, FailReturns
<1>3. CASE Apply \/ Check \/ Maybe \/ ManyEnd \/ CountEnd
  <2>1. Type(Top.p) \notin {"predict", "and", "not"} /\ UNCHANGED input
    BY <1>3 DEF Apply, Check, Maybe, ManyEnd, CountEnd, Resumes
  <2>2. Looks(input, input')  BY <1>1, <2>1, LooksNowhere
  <2> QED  BY <1>1, <1>2, <2>1, <2>2, ReturnAfter
<1>4. CASE Expect
  <2> DEFINE i == Unsuppress(input)
  <2>1. Type(Top.p) \notin {"predict", "and", "not"} /\ input' \in {i, Peekc(i).i}
    BY <1>4 DEF Expect, Resumes
  <2>2. Looks(input, i)  BY <1>1, SuppressLooks
  <2>. HIDE DEF i
  <2>3. Sound(i)  BY <1>1, <2>2, MovesKeepsSound DEF Looks
  <2>4. Looks(i, input')  BY <2>1, <2>3, LooksNowhere, PeekLooks
  <2>5. Looks(input, input')  BY <2>2, <2>4, LooksTwice
  <2> QED  BY <1>1, <1>2, <2>1, <2>5, ReturnAfter
<1>5. CASE Predict
  <2>1. Type(Top.p) = "predict" /\ input' = Enable(input)
    BY <1>5 DEF Predict, Resumes
  <2> QED  BY <1>1, <1>2, <2>1, ReturnAfter
<1>6. CASE Not
  <2>1. /\ Type(Top.p) \in {"and", "not"}
        /\ \E j \in {Unmark(input), Rewind(input)} :
             input' \in {Unsuppress(j), Peekc(Unsuppress(j)).i}
    BY <1>6 DEF Not, Resumes
  <2>2. PICK j \in {Unmark(input), Rewind(input)} :
          input' \in {Unsuppress(j), Peekc(Unsuppress(j)).i}
    BY <2>1
  <2>3. Sound(j)  BY <1>1, <2>1, BackSound
  <2>4. Looks(j, Unsuppress(j))  BY <2>3, SuppressLooks
  <2>5. Sound(Unsuppress(j))  BY <2>3, <2>4, MovesKeepsSound DEF Looks
  <2>6. Looks(Unsuppress(j), input')  BY <2>2, <2>5, LooksNowhere, PeekLooks
  <2>7. Looks(j, input')  BY <2>4, <2>6, LooksTwice
  <2> QED  BY <1>1, <1>2, <2>1, <2>7, ReturnAfter
<1> QED  BY <1>3, <1>4, <1>5, <1>6

(* A repetition, a choice or a sequence goes on or returns.                *)
LEMMA SeveralSteps ==
  ASSUME Inv, ManyMore \/ CountMore \/ OrTaken \/ OrNext \/ AndNext \/ AndFail
  PROVE  Inv' /\ Step
<1>1. Running /\ ret # NoReturn /\ UNCHANGED prog /\ Sound(input)
  BY DEF Inv, ManyMore, CountMore, OrTaken, OrNext, AndNext, AndFail, Resumes
<1>2. CallOK(Top) /\ Kids(Top.p) \in Seq(Node) /\ Top.j \in Nat /\ Top.j + 1 \in Nat
      /\ Len(Kids(Top.p)) \in Nat
  BY <1>1, TopTyped DEF CallOK
<1>3. CASE ManyMore
  <2> DEFINE kept == [Top EXCEPT !.j = Top.j + 1, !.outs = Append(@, ret.out)]
  <2>1. /\ Type(Top.p) \in Unary /\ UNCHANGED input
        /\ \/ status' = "exhausted" /\ UNCHANGED stack
           \/ \E a : Descend([kept EXCEPT !.array = a], 1)
           \/ Descend(kept, 1)
    <3>1. Type(Top.p) \in Unary /\ UNCHANGED input
      BY <1>3 DEF ManyMore, Resumes, Unary
    <3>2. \/ status' = "exhausted" /\ UNCHANGED stack
          \/ \E a : Descend([kept EXCEPT !.array = a], 1)
          \/ Descend(kept, 1)
      BY <1>3, Zenon DEF ManyMore
    <3>. HIDE DEF kept
    <3> QED  BY <3>1, <3>2
  <2>2. CallOK(kept) /\ kept.p = Top.p
        /\ \A a : CallOK([kept EXCEPT !.array = a]) /\ [kept EXCEPT !.array = a].p = Top.p
    BY <1>2 DEF CallOK, CallFields
  <2>. HIDE DEF kept
  <2>3. 1 \in 1 .. Len(Kids(Top.p))  BY <1>1, <2>1, TopTyped
  <2>4. CASE status' = "exhausted" /\ UNCHANGED stack
    BY <1>1, <2>1, <2>4, EndStep
  <2>5. ASSUME NEW f, CallOK(f), f.p = Top.p, Descend(f, 1) PROVE Inv' /\ Step
    BY <1>1, <2>1, <2>3, <2>5, CallAgain
  <2> QED  BY <2>1, <2>2, <2>4, <2>5
<1>4. CASE CountMore
  <2> DEFINE kept == [Top EXCEPT !.j = Top.j + 1, !.outs = Append(@, ret.out)]
  <2>1. /\ Type(Top.p) \in Unary /\ Type(Top.p) \notin {"predict", "and", "not"}
        /\ UNCHANGED input
        /\ \/ status' = "smashed" /\ UNCHANGED stack
           \/ (\E x : Succeed(x)) /\ UNCHANGED status
           \/ Descend(kept, 1)
    BY <1>4 DEF CountMore, Resumes, Unary
  <2>2. CallOK(kept) /\ kept.p = Top.p  BY <1>2 DEF CallOK, CallFields
  <2>. HIDE DEF kept
  <2>3. 1 \in 1 .. Len(Kids(Top.p))  BY <1>1, <2>1, TopTyped
  <2>4. CASE status' = "smashed" /\ UNCHANGED stack
    BY <1>1, <2>1, <2>4, EndStep
  <2>5. CASE (\E x : Succeed(x)) /\ UNCHANGED status
    <3>1. Looks(input, input')  BY <1>1, <2>1, LooksNowhere
    <3> QED  BY <1>1, <2>1, <2>5, <3>1, SucceedReturns, ReturnAfter
  <2>6. CASE Descend(kept, 1)
    BY <1>1, <2>1, <2>2, <2>3, <2>6, CallAgain
  <2> QED  BY <2>1, <2>4, <2>5, <2>6
<1>5. CASE OrTaken
  <2>1. /\ Type(Top.p) \notin {"predict", "and", "not"} /\ UNCHANGED <<input, status>>
        /\ \E x : Succeed(x)
    BY <1>5 DEF OrTaken, Resumes
  <2>2. Looks(input, input')  BY <1>1, <2>1, LooksNowhere
  <2> QED  BY <1>1, <2>1, <2>2, SucceedReturns, ReturnAfter
<1>6. CASE OrNext
  <2> DEFINE f == [Top EXCEPT !.j = @ + 1]
  <2>1. /\ Type(Top.p) \notin {"predict", "and", "not"} /\ UNCHANGED input
        /\ \/ Top.j + 1 < Len(Kids(Top.p)) /\ Descend(f, Top.j + 2)
           \/ Fail(NoErr) /\ UNCHANGED status
    BY <1>6 DEF OrNext, Resumes
  <2>2. CallOK(f) /\ f.p = Top.p  BY <1>2 DEF CallOK, CallFields
  <2>. HIDE DEF f
  <2>3. CASE Top.j + 1 < Len(Kids(Top.p)) /\ Descend(f, Top.j + 2)
    <3>1. Top.j + 2 \in 1 .. Len(Kids(f.p))  BY <1>2, <2>2, <2>3
    <3> QED  BY <1>1, <2>1, <2>2, <2>3, <3>1, CallAgain
  <2>4. CASE Fail(NoErr) /\ UNCHANGED status
    <3>1. Looks(input, input')  BY <1>1, <2>1, LooksNowhere
    <3> QED  BY <1>1, <2>1, <2>4, <3>1, FailReturns, ReturnAfter
  <2> QED  BY <2>1, <2>3, <2>4
<1>7. CASE AndNext
  <2> DEFINE kept == [Top EXCEPT !.j = @ + 1, !.outs = Append(@, ret.out)]
  <2>1. /\ Type(Top.p) \in {"and", "not"}
        /\ \/ kept.j < Len(Kids(Top.p)) /\ Descend(kept, kept.j + 1) /\ UNCHANGED input
           \/ (\E x : Succeed(x)) /\ UNCHANGED status /\ input' = Unmark(input)
    BY <1>7 DEF AndNext, Resumes
  <2>2. CallOK(kept) /\ kept.p = Top.p  BY <1>2 DEF CallOK, CallFields
  <2>. HIDE DEF kept
  <2>3. CASE kept.j < Len(Kids(Top.p)) /\ Descend(kept, kept.j + 1) /\ UNCHANGED input
    <3>1. kept.j \in Nat /\ kept.j + 1 \in 1 .. Len(Kids(kept.p))
      BY <1>2, <2>2, <2>3 DEF CallOK
    <3> QED  BY <1>1, <2>2, <2>3, <3>1, CallAgain
  <2>4. CASE (\E x : Succeed(x)) /\ UNCHANGED status /\ input' = Unmark(input)
    <3>1. Looks(Unmark(input), input')  BY <1>1, <2>1, <2>4, BackSound, LooksNowhere
    <3> QED  BY <1>1, <2>1, <2>4, <3>1, SucceedReturns, ReturnAfter
  <2> QED  BY <2>1, <2>3, <2>4
<1>8. CASE AndFail
  <2>1. /\ Type(Top.p) \in {"and", "not"} /\ input' = Rewind(input) /\ UNCHANGED status
        /\ Fail(ret.err)
    BY <1>8 DEF AndFail, Resumes
  <2>2. Looks(Rewind(input), input')  BY <1>1, <2>1, BackSound, LooksNowhere
  <2> QED  BY <1>1, <2>1, <2>2, FailReturns, ReturnAfter
<1> QED  BY <1>3, <1>4, <1>5, <1>6, <1>7, <1>8

LEMMA NextOK ==
  ASSUME Inv, [Next]_vars
  PROVE  Inv' /\ Step
<1>1. CASE ParseEnd
  <2>1. UNCHANGED <<prog, input, stack>> /\ status' # "run"  BY <1>1 DEF ParseEnd
  <2> QED  BY <2>1, EndStep
<1>2. CASE UNCHANGED vars
  <2>1. UNCHANGED <<prog, input, stack, ret, status>>  BY <1>2 DEF vars
  <2>2. Step  BY <2>1 DEF Step, Abstract!cursor, Seekable, PlaceOf
  <2> QED  BY <2>1, <2>2 DEF Inv, Calling, NoReturn
<1>3. CASE Ended
  BY <1>2, <1>3 DEF Ended
<1> QED  BY <1>1, <1>2, <1>3, LeafSteps, EnterSteps, UnarySteps, SeveralSteps DEF Next

(* The engine, on a string or a file, implements the cursor: whatever the  *)
(* grammar, the text and the order of the calls, a file stands where the   *)
(* parser stands (mpc_input_peekc and mpc_input_failure seek back exactly  *)
(* what was read), rows and columns are those of the text, and every       *)
(* rewind goes to the mark of the call that makes it, whatever predicts    *)
(* and negations are under way inside and around it.                       *)
THEOREM InputIsCursor == Spec => IsCursor
<1>1. Init => Inv /\ Abstract!Init  BY InitOK
<1>2. Inv /\ [Next]_vars => Inv' /\ [Abstract!Next]_(Abstract!cursor)
  BY NextOK DEF Step
<1> QED  BY <1>1, <1>2, PTL DEF Spec, IsCursor, Abstract!Spec
==============================================================================
