------------------------------ MODULE MpcCursor ------------------------------
(***************************************************************************)
(* The parse engine on a string or a file implements a cursor over its     *)
(* text.  Nothing is promised of a pipe.                                   *)
(***************************************************************************)
EXTENDS MpcParse, FiniteSets

Seekable == input.kind # "pipe"
PlaceOf(state, last) == [pos |-> state.pos, row |-> state.row, col |-> state.col, last |-> last]
Abstract == INSTANCE Cursor WITH
  text <- IF Seekable THEN input.text ELSE <<>>,
  place <- IF Seekable THEN PlaceOf(input.state, input.last) ELSE PlaceOf(Start, NUL),
  saved <- IF Seekable THEN [m \in DOMAIN input.marks |-> PlaceOf(input.marks[m].state, input.marks[m].last)]
           ELSE <<>>,
  disabled <- IF Seekable THEN 1 - input.backtrack ELSE 0

(* A step of the engine reads on in the text, marks it, or goes back to    *)
(* the newest mark; a file's position never comes apart from the parser's, *)
(* and row, column and previous character are those of the place.          *)
IsCursor == Abstract!Spec
==============================================================================
