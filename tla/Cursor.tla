-------------------------------- MODULE Cursor --------------------------------
(***************************************************************************)
(* What a parser of mpc may rely its input for, whatever the text comes    *)
(* from: a place in a text that moves forward, that can be marked, and     *)
(* that a mark takes back.  Marks are kept in a stack; while marking is    *)
(* disabled the stack stays as it is.                                      *)
(***************************************************************************)
EXTENDS Integers, Sequences, FiniteSets

CONSTANTS
  Char,    \* the characters a text is made of
  Newline, \* the one that ends a line
  NUL      \* what stands in front of the first character

VARIABLES text, place, saved, disabled

cursor == <<text, place, saved, disabled>>

(* Everything there is to know of the place behind the first n characters. *)
PlaceAt(n) ==
  LET ends == {k \in 1 .. n : text[k] = Newline}
      line == IF ends = {} THEN 0 ELSE CHOOSE k \in ends : \A j \in ends : j <= k
  IN  [pos |-> n, row |-> Cardinality(ends), col |-> n - line,
       last |-> IF n = 0 THEN NUL ELSE text[n]]

Init ==
  /\ text \in Seq(Char)
  /\ place = PlaceAt(0)
  /\ saved = <<>>
  /\ disabled = 0

Read ==
  /\ \E n \in place.pos .. Len(text) : place' = PlaceAt(n)
  /\ UNCHANGED <<text, saved, disabled>>

Mark ==
  /\ disabled = 0
  /\ saved' = Append(saved, place)
  /\ UNCHANGED <<text, place, disabled>>

DropMark(where) ==
  /\ disabled = 0 /\ saved # <<>>
  /\ place' = where
  /\ saved' = SubSeq(saved, 1, Len(saved) - 1)
  /\ UNCHANGED <<text, disabled>>

Unmark == DropMark(place)
Rewind == DropMark(saved[Len(saved)])

Disable == disabled' = disabled + 1 /\ UNCHANGED <<text, place, saved>>
Enable == disabled > 0 /\ disabled' = disabled - 1 /\ UNCHANGED <<text, place, saved>>

Next == Read \/ Mark \/ Unmark \/ Rewind \/ Disable \/ Enable

Spec == Init /\ [][Next]_cursor
==============================================================================
