------------------------------ MODULE MpcErrors ------------------------------
(***************************************************************************)
(* The error mpc reports: every failed alternative, the end of every       *)
(* repetition and the last failure are gathered in it (mpc_err_merge).     *)
(***************************************************************************)
EXTENDS MpcMarks

CountsNone == \E n \in Node : Type(n) = "count" /\ Arg(n).n < 1
CharOf(text, at) == IF at < Len(text) THEN text[at + 1] ELSE NUL
CharAt(at) == CharOf(input.text, at)

(* The error of a failed parse is about the furthest place anything was    *)
(* found wrong at (mpc_err_or), says what was expected there and which     *)
(* character was there instead.  A count of none, that succeeds where its  *)
(* parser fails, drops the error of that failure.                          *)
ErrorIsFurthest ==
  status = "failed" /\ ~CountsNone =>
    /\ ret.err # NoErr
    /\ ret.err.state.pos = furthest
    /\ ret.err.failure = NoFailure /\ input.kind # "pipe" =>
         ret.err.expected # {} /\ ret.err.received = CharAt(furthest)

------------------------------------------------------------------------------
(* What makes them inductive.                                              *)

(* An error says what the text has where it is about, unless it is of a    *)
(* failure.                                                                *)
ErrorSound(i, e) ==
  /\ DOMAIN e = {"state", "expected", "failure", "received"}
  /\ e.state.pos \in Int
  /\ e.failure = NoFailure /\ i.kind # "pipe" =>
       e.expected # {} /\ e.received = CharOf(i.text, e.state.pos)

Returned == ret # NoReturn /\ ret.err # NoErr

(* What is gathered and what was returned last hold the furthest place; a  *)
(* call that succeeds, and one made to look, hand no error on.             *)
ErrorsGathered ==
  /\ ErrorSound(input, err) /\ furthest \in Int /\ err.state.pos <= furthest
  /\ Returned => ErrorSound(input, ret.err) /\ ret.err.state.pos <= furthest
  /\ ret # NoReturn =>
       /\ ret = [ok |-> ret.ok, out |-> ret.out, err |-> ret.err]
       /\ ret.ok => ret.err = NoErr
  /\ status = "run" /\ input.suppress > 0 => ~Returned
  /\ status = "run" /\ ~CountsNone =>
       err.state.pos = furthest \/ (Returned /\ ret.err.state.pos = furthest)

(* A count that is under way has not reached its number.                  *)
CountsOn ==
  ~CountsNone => \A k \in 1 .. Len(stack) :
    Type(stack[k].p) = "count" => stack[k].j < Arg(stack[k].p).n

(* The last call to return is answered.                                    *)
RootReturns == stack = <<>> => ret # NoReturn
==============================================================================
