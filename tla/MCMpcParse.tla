------------------------------ MODULE MCMpcParse ------------------------------
(***************************************************************************)
(* Small grammars for TLC: trees over a family of parsers, numbered in     *)
(* preorder, and some that refer to themselves.                            *)
(***************************************************************************)
EXTENDS MpcParseProps

CONSTANT MaxNode

MCNode == 1 .. MaxNode
MCTexts == UNION {[1 .. n -> {"a", "b"}] : n \in 0 .. 3}
           \cup {<<"a", "/", "b">>, <<"a", "a", "a", "a">>, <<"a", "b", "a", "a">>}

P(type, kids, arg) == [type |-> type, kids |-> kids, arg |-> arg]
A == P("chars", <<>>, {"a"})
B == P("chars", <<>>, {"b"})
AnyChar == P("chars", <<>>, {"a", "b", "/"})
WordAB == P("word", <<>>, <<"a", "b">>)
At(anchor) == P("anchor", <<>>, anchor)
Nothing(type) == P(type, <<>>, "")
Labelled(p) == P("expect", <<p>>, "x")
Named(p, label) == P("expect", <<p>>, label)
One(type, p, arg) == P(type, <<p>>, arg)
Many(p) == One("many", p, "join")
Many1(p) == One("many1", p, "tree")
CountOf(n, p) == One("count", p, [n |-> n, fold |-> "join"])
Or(ps) == P("or", ps, "")
And(fold, ps) == P("and", ps, fold)

RECURSIVE SizeOf(_)
SizeOf(t) == 1 + FoldSeq(LAMBDA x, y : x + y, 0, [k \in DOMAIN t.kids |-> SizeOf(t.kids[k])])

RECURSIVE Table(_, _)
Table(t, at) ==
  LET first(k) == at + 1 + FoldSeq(LAMBDA x, y : x + y, 0, [j \in 1 .. k - 1 |-> SizeOf(t.kids[j])])
      me == [t EXCEPT !.kids = [k \in DOMAIN t.kids |-> first(k)]]
  IN  <<me>> \o FlattenSeq([k \in DOMAIN t.kids |-> Table(t.kids[k], first(k))])

Padded(table) == [n \in MCNode |-> IF n <= Len(table) THEN table[n] ELSE Nothing("pass")]
Numbered(t) == Padded(Table(t, 1))

(* Characters and words with a value, and what may stand for one.          *)
Valued == {A, Named(B, "b"), WordAB}
Small == Valued \cup {Labelled(Or(<<A, WordAB>>)), And("join", <<A, B>>), CountOf(2, A)}
Empty == {At("soi"), Named(At("eoi"), "end"), At("between"), Nothing("pass"), Nothing("lift"), Nothing("state"),
          Nothing("fail"), Nothing("undefined")}
Around(p) ==
  {Many(p), Many1(p), CountOf(2, p), CountOf(3, p), CountOf(0, p),
   One("apply", p, "free"), One("apply", p, "to"), One("check", p, TRUE), One("check", p, FALSE),
   Labelled(p), One("predict", p, ""), One("not", p, "null"), One("not", p, "str"),
   One("maybe", p, "null"), One("maybe", p, "str")}
Wrapped == UNION {Around(p) : p \in Small}
Middle == Small \cup Empty \cup Wrapped
EitherOr == {Or(<<p, WordAB>>) : p \in Middle}
InTurn == {And("tree", <<p, Named(B, "b")>>) : p \in Middle}
Pairs == EitherOr \cup InTurn \cup {And("tree", <<p, CountOf(2, A)>>) : p \in Small \cup Empty}
         \cup {And("first", <<A, p>>) : p \in Middle}
Triples == {And("join", <<A, p, B>>) : p \in Small}
           \cup {Or(<<And("tree", <<A, p>>), p, And("tree", <<p, At("eoi")>>)>>) : p \in Wrapped}
           \cup {Or(<<And("join", <<A, B>>), And("tree", <<At(anchor), A>>)>>) : anchor \in Anchors}
           \cup {Or(<<A, B, WordAB>>), Or(<<>>), And("tree", <<>>)}
Nested == {One("predict", p, "") : p \in EitherOr \cup InTurn} \cup {Many(And("join", <<A, p>>)) : p \in Small}
          \cup {One("not", And("tree", <<A, One("not", p, "null")>>), "null") : p \in Small}
          \cup {Labelled(And("tree", <<p, At("eoi")>>)) : p \in Wrapped}
          \cup {Many(Nothing("lift")), Many1(Or(<<A, Nothing("pass")>>)),
                Many(And("tree", <<Nothing("liftval"), A>>)),
                And("tree", <<CountOf(0, And("join", <<A, Named(B, "b")>>)), Named(B, "c")>>)}

(* S = "a" S "b" | nothing;  S = S "a" | "a";  S = !S.                     *)
Recursive ==
  {Padded(<<Or(<<2, 6>>), And("tree", <<3, 1, 4>>), A, Named(5, "b"), B, Nothing("pass")>>),
   Padded(<<Or(<<2, 3>>), And("tree", <<1, 3>>), A>>),
   Padded(<<One("not", 1, "null")>>)}

Trees == Middle \cup Pairs \cup Triples \cup Nested
MCGrammars == {Numbered(t) : t \in Trees} \cup Recursive
==============================================================================
