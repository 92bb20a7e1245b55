------------------------------- MODULE MpcMarks -------------------------------
(***************************************************************************)
(* The marks of mpc's input and the calls of mpc_parse_run that set them:  *)
(* a call that fails, or looks ahead, takes the input back to where the    *)
(* call itself began, whatever the calls it made have marked in between.   *)
(***************************************************************************)
EXTENDS MpcCursor

Has(types) == \E n \in Node : Type(n) \in types

(* Parsers that take characters and still fail: their failure leaves the   *)
(* input where they got to.                                                *)
Straying == {"count", "check", "predict"}

(* A parser that fails leaves the input where it found it, unless it       *)
(* counts, checks or predicts: the next alternative of an or, the end of a *)
(* many and a maybe rely on it (mpc_parse_run marks in NOT, AND and        *)
(* mpc_input_string only).                                                 *)
FailureRestores ==
  [][/\ Len(stack') < Len(stack) /\ ret' # NoReturn
     /\ ~Has(Straying) /\ ~ret'.ok
     => input'.state = Top.from]_vars

(* The calls that have made a call, and of them those whose mark is set:   *)
(* AND and NOT, but not under predict.                                     *)
Waiting(k) == k < Len(stack) \/ ret # NoReturn
Waits(types) == {k \in DOMAIN stack : Type(stack[k].p) \in types /\ Waiting(k)}
Marking == {k \in Waits({"and", "not"}) : \A j \in Waits({"predict"}) : k < j}
MarkOfCall(k) == input.marks[Cardinality({l \in Marking : l <= k})]

(* The marks are those of the calls of AND and NOT that are under way and  *)
(* not under predict, each with the place its call started at; what is     *)
(* suppressed and disabled is what calls under way have asked for.         *)
MarksBelong ==
  status = "run" =>
    /\ Len(input.marks) = Cardinality(Marking)
    /\ \A k \in Marking : MarkOfCall(k).state = stack[k].from
    /\ input.suppress = Cardinality(Waits({"expect", "not"}))
    /\ input.backtrack = 1 - Cardinality(Waits({"predict"}))
    /\ Len(input.marks) <= input.slots

------------------------------------------------------------------------------
(* What makes them inductive.                                              *)

(* A call that has made none stands where it started.                      *)
StandsAtStart ==
  status = "run" /\ ret = NoReturn /\ stack # <<>> => input.state = Top.from

(* A call that hands on the failure of the call it made: that one started  *)
(* where it did, so its failure is back there.                             *)
HandsOn(g, f) == \/ g[f.p].type \in {"apply", "expect", "or"}
                 \/ g[f.p].type = "many1" /\ f.j = 0
FailuresReturn ==
  status = "run" /\ ~Has(Straying) =>
    /\ \A k \in 1 .. Len(stack) - 1 : HandsOn(prog, stack[k]) => stack[k + 1].from = stack[k].from
    /\ ret # NoReturn /\ ~ret.ok /\ stack # <<>> /\ HandsOn(prog, Top) => input.state = Top.from
==============================================================================
