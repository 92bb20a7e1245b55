--------------------------- MODULE MpcGrammarProps ---------------------------
(***************************************************************************)
(* What the parsers made from a grammar are, and what becomes of them.     *)
(***************************************************************************)
EXTENDS MpcGrammar

Live == {n \in DOMAIN heap : heap[n].live}
Rules(name) == {r \in DOMAIN source : source[r].ident = name}
Invalid == rules # <<>>       \* when reading is over: it ended in an error

------------------------------------------------------------------------------
(* A rule as it is written, and a parser as it is, as trees                *)

Form(type, arg, kids) == [type |-> type, arg |-> arg, kids |-> kids]

Pushed(forms, token) ==
  LET n == CASE token.op \in {"lit", "chr", "name", "place"} -> 0
             [] token.op \in {"repeat", "regex"} -> 1
             [] token.op = "or" -> 2
             [] token.op = "term" -> token.arg.n
      kids == SubSeq(forms, Len(forms) - n + 1, Len(forms))
      form == CASE token.op = "repeat" -> Form(RepeatType(token.arg.fold, token.arg.n), token.arg.fold, kids)
                [] token.op = "name" -> Form("ref", IF IsGiven(token.arg) THEN token.arg ELSE "", <<>>)
                [] token.op = "place" -> Form("ref", IF token.arg < Len(Given) THEN Given[token.arg + 1] ELSE "", <<>>)
                [] token.op = "term" -> Form("term", token.arg.fold, kids)
                [] OTHER -> Form(token.op, token.arg, kids)
  IN  SubSeq(forms, 1, Len(forms) - n) \o <<form>>
Written(code) == FoldLeft(Pushed, <<>>, code)[1]

RECURSIVE Made(_)
Made(n) ==
  IF heap[n].type = "ref"
    THEN LET p == heap[n].kids[1]
         IN  Form("ref", IF heap[p].retained THEN Given[p] ELSE "", <<>>)
    ELSE Form(heap[n].type, heap[n].arg, [k \in DOMAIN heap[n].kids |-> Made(heap[n].kids[k])])

------------------------------------------------------------------------------
(* Meaning: whether a parser succeeds where the literals and rules `yes`   *)
(* do, which it tries until it knows, and the tree it returns.  Whatever   *)
(* is repeated is found once at most.  `thin`: a sequence of more than two *)
(* has fewer than two trees to show.                                       *)

(* The first rule returns a tree without kids, the others one with two.    *)
TreeOf(name) == IF name = Given[1] THEN Tree(<<"string">>, <<>>)
                ELSE Root(<<Tree(<<"x">>, <<>>), Tree(<<"y">>, <<>>)>>)
Nothing(fold) == IF fold = "ast" THEN Null ELSE Text(<<>>)
Fold(fold, vals) == IF fold = "ast" THEN FoldAst(vals) ELSE FoldText(vals)

RECURSIVE Eval(_, _)
Eval(t, yes) ==
  LET kid == [k \in DOMAIN t.kids |-> Eval(t.kids[k], yes)]
      Decides(k) == kid[k].ok = (t.type = "or")
      deciding == {k \in DOMAIN kid : Decides(k) /\ \A j \in 1 .. k - 1 : ~Decides(j)}
      tried == {k \in DOMAIN kid : \A j \in deciding : k <= j}
      all == SelectSeq([k \in DOMAIN kid |-> kid[k].trail], LAMBDA x : TRUE)
      vals == [k \in DOMAIN kid |-> kid[k].val]
      there == {k \in DOMAIN kid : vals[k] # Null}
      is(ok, val) == [ok |-> ok, val |-> IF ok THEN val ELSE Null,
                      trail |-> FlattenSeq(SubSeq(all, 1, Cardinality(tried))),
                      thin |-> (ok /\ t.type = "and" /\ Len(vals) > 2 /\ Cardinality(there) < 2)
                               \/ \E k \in tried : kid[k].thin]
      leaf(val) == [is(t.arg \in yes, val) EXCEPT !.trail = <<t.arg>>]
  IN  CASE t.type = "lit" -> leaf(Tree(<<t.arg>>, <<>>))
        [] t.type = "chr" -> leaf(Text(<<t.arg>>))
        [] t.type = "ref" -> leaf(AddRoot(AddTag(TreeOf(t.arg), t.arg)))
        [] t.type = "pass" -> is(TRUE, Null)
        [] t.type = "lift" -> is(TRUE, Text(<<>>))
        [] t.type \in {"fail", "undefined"} -> is(FALSE, Null)
        [] t.type = "regex" -> is(kid[1].ok, Tree(<<"regex">> \o kid[1].val.tag, <<>>))
        [] t.type \in {"expect", "many1", "count"} -> is(kid[1].ok, vals[1])
        [] t.type \in {"many", "maybe"} -> is(TRUE, IF kid[1].ok THEN vals[1] ELSE Nothing(t.arg))
        [] t.type = "not" -> is(~kid[1].ok, Null)
        [] t.type = "or" -> is(deciding # {}, IF deciding = {} THEN Null ELSE vals[Cardinality(tried)])
        [] t.type = "and" -> is(deciding = {}, Fold(t.arg, vals))
        [] t.type = "term" ->
             is(deciding = {}, FoldLeft(LAMBDA v, w : Fold(t.arg, <<v, w>>), Nothing(t.arg), vals))

Labels == UNION {{source[r].code[k].arg : k \in {k \in DOMAIN source[r].code :
                    source[r].code[k].op \in {"lit", "chr"}}} : r \in DOMAIN source}
          \cup ToSet(Given)
(* For every named parser with a rule: what its last rule means, and what  *)
(* it means.                                                               *)
Rule(k) == CHOOSE r \in Rules(Given[k]) : \A s \in Rules(Given[k]) : s <= r
Agree(Same(_, _)) ==
  \A k \in {k \in DOMAIN Given : Rules(Given[k]) # {}} : \A yes \in SUBSET Labels :
    Same(Eval(Written(source[Rule(k)].code), yes), Eval(Made(k), yes))

RECURSIVE Preorder(_), Walk(_)
Preorder(t) == <<t>> \o FlattenSeq([k \in DOMAIN t.kids |-> Preorder(t.kids[k])])
Walk(trav) == IF trav = <<>> THEN <<>> ELSE <<Last(trav).at>> \o Walk(TraverseNext(trav))

------------------------------------------------------------------------------
Tokens == FlattenSeq([r \in DOMAIN source |-> source[r].code])
PlaceIn(token) ==
  CASE token.op = "place" -> token.arg + 1
    [] token.op = "name" -> IF IsGiven(token.arg) THEN Position(token.arg) ELSE Len(Given) + 1
    [] OTHER -> 0
(* Places are asked for in turn: none behind which a parser is known.      *)
InTurn == \A k \in DOMAIN Tokens : Tokens[k].op = "place" =>
            \A j \in 1 .. k - 1 : PlaceIn(Tokens[j]) <= PlaceIn(Tokens[k])

References(n) ==
  {<<m, k>> \in Live \X (1 .. Len(heap)) : k \in DOMAIN heap[m].kids /\ heap[m].kids[k] = n}
Held == values \o [k \in DOMAIN stmts |-> stmts[k].grammar]

(* No parser is used or freed after it was freed.  A parser without a name *)
(* is one other's, or a value not yet used; one with a name stays, and     *)
(* stays retained, until it is deleted (mpc_undefine_unretained and        *)
(* mpc_optimise_unretained rely on it).                                    *)
OwnedOnce ==
  /\ ~misused
  /\ status \notin {"deleting", "gone"} => \A n \in Live : ToSet(heap[n].kids) \subseteq Live
  /\ ToSet(Held) \subseteq Live
  /\ \A n \in Live \ DOMAIN Given :
       ~heap[n].retained
       /\ Cardinality(References(n)) + Cardinality({k \in DOMAIN Held : Held[k] = n}) <= 1
  /\ \A n \in DOMAIN Given : heap[n].retained

(* When Parser is destroyed nothing of the grammar is left, unless a rule  *)
(* had a name that is not given or the name of another rule.               *)
CleansUp ==
  status = "gone" /\ Live # {} =>
    /\ ~Invalid
    /\ \E r \in DOMAIN source : ~IsGiven(source[r].ident) \/ Rules(source[r].ident) # {r}

(* A grammar with an error defines nothing; any other defines what it has  *)
(* rules for, and no parser tries anything but what its last rule says, in *)
(* that order, whatever the optimiser makes of it.                         *)
ParsesAsWritten ==
  /\ status = "invalid" => \A k \in DOMAIN Given : heap[k].type = "undefined"
  /\ status = "ready" /\ cleaned = 0 /\ InTurn =>
       /\ \A k \in DOMAIN Given : heap[k].type = "undefined" <=> Rules(Given[k]) = {}
       /\ Agree(LAMBDA w, m : m.ok = w.ok /\ m.trail = w.trail)

(* Nor does the optimiser change the tree that is returned, where every    *)
(* sequence of more than two has two trees to show; otherwise it adds a    *)
(* root that the rule as written does not have.  Module::traverse sees     *)
(* every node of such a tree, parents first.                               *)
TreesAsWritten ==
  status = "ready" /\ cleaned = 0 =>
    /\ InTurn => Agree(LAMBDA w, m : m.thin \/ m.val = w.val)
    /\ Agree(LAMBDA w, m : Walk(TraverseStart(m.val)) = Preorder(m.val))

(* The arguments are read past their end, or their end is taken for a      *)
(* parser, only where a place is asked for after what is not there.        *)
EndsExplained ==
  status \in {"crash", "overread"} =>
    \E j, k \in DOMAIN Tokens :
      j < k /\ Tokens[k].op = "place" /\ PlaceIn(Tokens[j]) > Len(Given)

(* Building and destroying parsers comes to an end.                        *)
Finishes == <>Over
==============================================================================
