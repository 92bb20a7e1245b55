---------------------------- MODULE MpcParseProps ----------------------------
(***************************************************************************)
(* What a grammar may rely on the parse engine of mpc for.                 *)
(***************************************************************************)
EXTENDS MpcValues

------------------------------------------------------------------------------
(* Meaning: where a parser, started behind the first `at` characters,      *)
(* comes to and whether it succeeds.  Without count, check and predict     *)
(* this is the meaning of a parsing expression grammar; `back` is false    *)
(* under predict, where nothing is taken back.                             *)

End(ok, at) == [ok |-> ok, at |-> at]
Before(at) == IF at = 0 THEN NUL ELSE input.text[at]

Prefix(word, at) ==
  LET fits == {n \in 0 .. Len(word) : \A k \in 1 .. n : CharAt(at + k - 1) = word[k]}
  IN  CHOOSE n \in fits : \A m \in fits : m <= n

RECURSIVE Meaning(_, _, _), Several(_, _, _, _), Repeated(_, _, _, _)
Meaning(n, at, back) ==
  LET one == Meaning(Kids(n)[1], at, back)
      word == Prefix(Arg(n), at)
      times == Repeated(n, at, back, 0)
      all == Several(n, at, back, 1)
  IN  CASE Type(n) = "chars" -> End(CharAt(at) \in Arg(n), at + (IF CharAt(at) \in Arg(n) THEN 1 ELSE 0))
        [] Type(n) = "word" -> IF word = Len(Arg(n)) THEN End(TRUE, at + word)
                               ELSE End(FALSE, IF back THEN at ELSE at + word)
        [] Type(n) = "anchor" -> End(Anchored(Arg(n), Before(at), CharAt(at)), at)
        [] Type(n) \in {"pass", "lift", "liftval", "state"} -> End(TRUE, at)
        [] Type(n) \in {"fail", "undefined"} -> End(FALSE, at)
        [] Type(n) \in {"apply", "expect"} -> one
        [] Type(n) = "check" -> End(one.ok /\ Arg(n), one.at)
        [] Type(n) = "predict" -> Meaning(Kids(n)[1], at, FALSE)
        [] Type(n) = "not" -> IF one.ok THEN End(FALSE, IF back THEN at ELSE one.at)
                              ELSE End(TRUE, one.at)
        [] Type(n) = "maybe" -> End(TRUE, one.at)
        [] Type(n) = "many" -> End(TRUE, times.at)
        [] Type(n) = "many1" -> End(times.j > 0, times.at)
        [] Type(n) = "count" -> End(times.j = Arg(n).n, times.at)
        [] Type(n) = "or" -> all
        [] Type(n) = "and" -> End(all.ok, IF all.ok \/ ~back THEN all.at ELSE at)

Several(n, at, back, j) ==
  LET kid == Meaning(Kids(n)[j], at, back)
  IN  IF j > Len(Kids(n)) THEN End(Type(n) = "and" \/ Kids(n) = <<>>, at)
      ELSE IF kid.ok = (Type(n) = "or") THEN kid
      ELSE Several(n, kid.at, back, j + 1)

Repeated(n, at, back, j) ==
  LET kid == Meaning(Kids(n)[1], at, back)
  IN  IF (Type(n) = "count" /\ j = Arg(n).n) \/ ~kid.ok
        THEN [at |-> IF Type(n) = "count" /\ j = Arg(n).n THEN at ELSE kid.at, j |-> j]
      ELSE Repeated(n, kid.at, back, j + 1)

------------------------------------------------------------------------------
(* Grammars that come to an end: nothing calls itself before it has taken  *)
(* a character, and nothing that may take none is repeated for ever.       *)

RECURSIVE Nullable(_, _)
Nullable(n, depth) ==
  /\ depth > 0
  /\ CASE Type(n) = "word" -> Arg(n) = <<>>
       [] Type(n) \in {"anchor", "pass", "lift", "liftval", "state", "not", "maybe", "many"} -> TRUE
       [] Type(n) \in {"chars", "fail", "undefined"} -> FALSE
       [] Type(n) = "or" -> \/ Kids(n) = <<>>
                            \/ \E k \in ToSet(Kids(n)) : Nullable(k, depth - 1)
       [] Type(n) = "and" -> \A k \in ToSet(Kids(n)) : Nullable(k, depth - 1)
       [] OTHER -> Nullable(Kids(n)[1], depth - 1)
MayTakeNone(n) == Nullable(n, Cardinality(Node))

(* The parsers one may call without having taken a character.              *)
CalledAtOnce(n) ==
  {Kids(n)[k] : k \in {k \in DOMAIN Kids(n) :
     Type(n) = "and" => \A j \in 1 .. k - 1 : MayTakeNone(Kids(n)[j])}}

RECURSIVE ReachedAtOnce(_, _)
ReachedAtOnce(ns, depth) ==
  IF depth = 0 THEN ns
  ELSE ReachedAtOnce(ns \cup UNION {CalledAtOnce(n) : n \in ns}, depth - 1)

WellFounded ==
  \A n \in Node :
    /\ n \notin ReachedAtOnce(CalledAtOnce(n), Cardinality(Node))
    /\ Type(n) \in {"many", "many1"} => ~MayTakeNone(Kids(n)[1])

------------------------------------------------------------------------------
(* mpc_parse_run decides what the grammar means, and stops where it means: *)
(* on strings and files always, on pipes for what is under mpc_predictive  *)
(* and looks one character ahead.                                          *)
RunsAsMeant ==
  status \in {"done", "failed"} /\ WellFounded /\ ~CountsNone
    /\ (input.kind = "pipe" => Type(Root) = "predict")
  => LET end == Meaning(Root, 0, TRUE)
     IN  end.ok = (status = "done") /\ end.at = input.state.pos

(* What never comes back, or writes past the results on its stack, is a    *)
(* grammar that recurses to the left, repeats nothing, or counts none.     *)
StopsUnlessIllFounded ==
  /\ status \in {"overflow", "exhausted"} => ~WellFounded \/ CountsNone
  /\ SmashedByNone

==============================================================================
