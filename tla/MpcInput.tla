------------------------------- MODULE MpcInput -------------------------------
(***************************************************************************)
(* The input of mpc (mpc/mpc.c): a text read from a string, a file that    *)
(* can be sought, or a pipe that cannot, with the marks a parser backs up  *)
(* to; and the pool it gives memory out of.  An input and a store are      *)
(* records; the operators are the functions of mpc_input_t on them.  A     *)
(* question returns its answer `ok` or `c` and the input afterwards.       *)
(***************************************************************************)
EXTENDS Integers, Sequences

CONSTANTS
  Char, Newline,
  NUL,        \* '\0': the character in front of a text, and behind a string
  EOF,        \* what fgetc returns at the end, as a character
  NoBuffer,   \* a null pointer
  MarksMin,   \* MPC_INPUT_MARKS_MIN
  PoolCells,  \* MPC_INPUT_MEM_NUM
  PoolFits    \* how many pointers a cell of the pool has room for

ASSUME InputAssumption ==
  /\ Newline \in Char /\ {NUL, EOF} \cap Char = {} /\ NUL # EOF
  /\ MarksMin \in Nat \ {0} /\ PoolCells \in Nat \ {0} /\ PoolFits \in Nat \ {0}

Kinds == {"string", "file", "pipe"}

Start == [pos |-> 0, row |-> 0, col |-> 0]
Nowhere == [pos |-> -1, row |-> -1, col |-> -1]

(* mpc_input_new_string, _file and _pipe.  `file` is the stream: how much  *)
(* of the text has been read from it, and its end-of-file indicator.       *)
New(kind, text) ==
  [kind |-> kind, text |-> text, state |-> Start, last |-> NUL,
   marks |-> <<>>, slots |-> MarksMin, backtrack |-> 1, suppress |-> 0,
   buffer |-> NoBuffer, file |-> [at |-> 0, eof |-> FALSE]]

------------------------------------------------------------------------------
(* Marks *)

Mark(i) ==
  LET n == Len(i.marks) + 1
  IN  IF i.backtrack < 1 THEN i
      ELSE [i EXCEPT !.marks = Append(@, [state |-> i.state, last |-> i.last]),
                     !.slots = IF n > @ THEN n + n \div 2 ELSE @,
                     !.buffer = IF i.kind = "pipe" /\ n = 1 THEN <<>> ELSE @]

Unmark(i) ==
  LET n == Len(i.marks) - 1
      shrink == i.slots > n + n \div 2 /\ i.slots > MarksMin
  IN  IF i.backtrack < 1 THEN i
      ELSE [i EXCEPT !.marks = SubSeq(@, 1, n),
                     !.slots = IF ~shrink THEN @ ELSE IF n > MarksMin THEN n ELSE MarksMin,
                     !.buffer = IF i.kind = "pipe" /\ n = 0 THEN NoBuffer ELSE @]

Seek(i, to) == [i EXCEPT !.file = [at |-> to, eof |-> FALSE]]

(* Mutant: going back forgets the character in front.                      *)
RewindKeepsLast(i) ==
  LET mark == i.marks[Len(i.marks)]
      back == [i EXCEPT !.state = mark.state]
  IN  IF i.backtrack < 1 THEN i
      ELSE Unmark(IF i.kind = "file" THEN Seek(back, mark.state.pos) ELSE back)

Rewind(i) ==
  LET mark == i.marks[Len(i.marks)]
      back == [i EXCEPT !.state = mark.state, !.last = mark.last]
  IN  IF i.backtrack < 1 THEN i
      ELSE Unmark(IF i.kind = "file" THEN Seek(back, mark.state.pos) ELSE back)

Disable(i) == [i EXCEPT !.backtrack = @ - 1]
(* Mutant: what a predict disables stays disabled.                         *)
EnableNot(i) == i

Enable(i) == [i EXCEPT !.backtrack = @ + 1]
Suppress(i) == [i EXCEPT !.suppress = @ + 1]
Unsuppress(i) == [i EXCEPT !.suppress = @ - 1]

------------------------------------------------------------------------------
(* Characters *)

(* A pipe that is marked keeps what is read since its first mark.          *)
InRange(i) == i.state.pos < Len(i.buffer) + i.marks[1].state.pos
Buffered(i) == i.kind = "pipe" /\ i.buffer # NoBuffer /\ InRange(i)
Refill(i) == i.kind = "pipe" /\ i.buffer # NoBuffer /\ ~InRange(i)
BufferGet(i) == i.buffer[i.state.pos - i.marks[1].state.pos + 1]

StringChar(i) == IF i.state.pos < Len(i.text) THEN i.text[i.state.pos + 1] ELSE NUL

(* fgetc of the C library.                                                 *)
Fgetc(i) ==
  IF i.file.at < Len(i.text)
    THEN [c |-> i.text[i.file.at + 1], i |-> [i EXCEPT !.file.at = @ + 1]]
    ELSE [c |-> EOF, i |-> [i EXCEPT !.file.eof = TRUE]]

Getc(i) ==
  CASE i.kind = "string" -> [c |-> StringChar(i), i |-> i]
    [] Buffered(i) -> [c |-> BufferGet(i), i |-> i]
    [] OTHER -> Fgetc(i)

Terminated(i) ==
  IF i.kind = "string" THEN i.state.pos = Len(i.text) ELSE i.file.eof

(* A file is sought one back, a pipe is given the character back.          *)
PutBack(i) == Seek(i, i.file.at - 1)

Peekc(i) ==
  LET got == Fgetc(i)
  IN  CASE i.kind = "string" -> [c |-> StringChar(i), i |-> i]
        [] Buffered(i) -> [c |-> BufferGet(i), i |-> i]
        [] OTHER -> IF got.i.file.eof THEN [c |-> NUL, i |-> got.i]
                    ELSE [c |-> got.c, i |-> PutBack(got.i)]

(* Mutant: a character of a file that does not fit stays read.             *)
FailureReads(i) == IF i.kind # "pipe" \/ Buffered(i) THEN i ELSE PutBack(i)

Failure(i) == IF i.kind = "string" \/ Buffered(i) THEN i ELSE PutBack(i)

Success(i, c) ==
  [i EXCEPT !.buffer = IF Refill(i) THEN Append(@, c) ELSE @,
            !.last = c,
            !.state = IF c = Newline
                        THEN [pos |-> @.pos + 1, row |-> @.row + 1, col |-> 0]
                        ELSE [pos |-> @.pos + 1, row |-> @.row, col |-> @.col + 1]]

(* mpc_input_any, _char, _range, _oneof, _noneof and _satisfy: the next    *)
(* character is taken if it is one of `chars`.                             *)
Take(i, chars) ==
  LET got == Getc(i)
  IN  CASE Terminated(got.i) -> [ok |-> FALSE, i |-> got.i]
        [] ~Terminated(got.i) /\ got.c \in chars ->
             [ok |-> TRUE, i |-> Success(got.i, got.c)]
        [] OTHER -> [ok |-> FALSE, i |-> Failure(got.i)]

(* Mutant: half a word stays taken.                                        *)
TakeSome(i, word) ==
  LET upto[n \in 0 .. Len(word)] ==
        IF n = 0 THEN [ok |-> TRUE, i |-> Mark(i)]
        ELSE IF upto[n - 1].ok THEN Take(upto[n - 1].i, {word[n]}) ELSE upto[n - 1]
  IN  [upto[Len(word)] EXCEPT !.i = Unmark(@)]

(* mpc_input_string: the characters of a word, all of them or none.        *)
TakeAll(i, word) ==
  LET upto[n \in 0 .. Len(word)] ==
        IF n = 0 THEN [ok |-> TRUE, i |-> Mark(i)]
        ELSE IF upto[n - 1].ok THEN Take(upto[n - 1].i, {word[n]}) ELSE upto[n - 1]
      end == upto[Len(word)]
  IN  IF end.ok THEN [ok |-> TRUE, i |-> Unmark(end.i)]
      ELSE [ok |-> FALSE, i |-> Rewind(end.i)]

(* mpc_soi_anchor, mpc_eoi_anchor and one that looks at both sides: what   *)
(* mpc_input_anchor is asked for.                                          *)
Anchors == {"soi", "eoi", "between"}
Anchored(anchor, previous, next) ==
  CASE anchor = "soi" -> previous = NUL
    [] anchor = "eoi" -> next = NUL
    [] anchor = "between" -> previous # NUL /\ next # NUL

Anchor(i, anchor) ==
  LET got == Peekc(i)
  IN  [ok |-> Anchored(anchor, i.last, got.c), i |-> got.i]

------------------------------------------------------------------------------
(* Memory.  `cells` are the used cells of the pool, `next` is where the    *)
(* search for a free one starts; `blocks` is every block handed out, in    *)
(* order: a cell of the pool, heap memory or freed.  0 is the null pointer.*)

Heap == -1
Freed == -2
NewStore == [cells |-> {}, next |-> 0, blocks |-> <<>>, misused |-> FALSE]

PoolIndex == 0 .. PoolCells - 1
InPool(s, b) == b # 0 /\ s.blocks[b] \in PoolIndex

(* mpc_malloc of room for n pointers; the new block is the last one.       *)
Malloc(s, n) ==
  LET away == {k \in PoolIndex : (s.next + k) % PoolCells \notin s.cells}
      nearest == CHOOSE k \in away : \A j \in away : k <= j
      cell == (s.next + nearest) % PoolCells
  IN  IF n > PoolFits \/ away = {}
        THEN [s EXCEPT !.blocks = Append(@, Heap)]
        ELSE [s EXCEPT !.blocks = Append(@, cell), !.cells = @ \cup {cell},
                       !.next = (cell + 1) % PoolCells]
NewBlock(s) == Len(s.blocks)

HeapBlock(s) == [s EXCEPT !.blocks = Append(@, Heap)]

Free(s, b) ==
  CASE b = 0 -> s
    [] b # 0 /\ s.blocks[b] = Freed -> [s EXCEPT !.misused = TRUE]
    [] OTHER -> [s EXCEPT !.blocks[b] = Freed, !.cells = @ \ {s.blocks[b]}]

(* mpc_realloc and mpc_export: a block keeps its number when it moves.     *)
ToHeap(s, b) ==
  CASE b = 0 -> s
    [] b # 0 /\ s.blocks[b] = Freed -> [s EXCEPT !.misused = TRUE]
    [] OTHER -> [s EXCEPT !.blocks[b] = Heap, !.cells = @ \ {s.blocks[b]}]

Realloc(s, b, n) == IF InPool(s, b) /\ n <= PoolFits THEN s ELSE ToHeap(s, b)
(* Mutant: what is handed out stays in the pool.                           *)
ExportNot(s, b) == s

Export(s, b) == ToHeap(s, b)
==============================================================================
