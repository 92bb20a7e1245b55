-------------------------------- MODULE MpcAst --------------------------------
(***************************************************************************)
(* The syntax trees mpc makes of what its parsers return (mpc/mpc.c), and  *)
(* the walk Module::traverse makes over one.  A tag is the list of names   *)
(* its text joins with '|'; contents and positions are left out.           *)
(***************************************************************************)
EXTENDS Integers, Sequences, SequencesExt

Null == [tag |-> <<>>, kids |-> <<>>]     \* a null pointer
Tree(tag, kids) == [tag |-> tag, kids |-> kids]
Root(kids) == Tree(<<">">>, kids)

AddTag(t, name) == IF t = Null THEN t ELSE [t EXCEPT !.tag = <<name>> \o @]
AddRoot(t) == IF Len(t.kids) < 2 THEN t ELSE Root(<<t>>)

(* What mpcf_fold_ast takes from a tree: the tree, the one below its root  *)
(* with the root's tag but for the last character, or those below it.      *)
Unrooted(t) ==
  CASE Len(t.kids) = 0 -> <<t>>
    [] Len(t.kids) = 1 -> <<[t.kids[1] EXCEPT !.tag = Front(t.tag) \o @]>>
    [] OTHER -> t.kids

(* Mutant: a sequence of two with nothing in front gets a root, too.       *)
FoldAstRooted(ts) ==
  LET there == SelectSeq(ts, LAMBDA t : t # Null)
  IN  CASE Len(ts) < 2 -> IF there = <<>> THEN Null ELSE there[1]
        [] OTHER -> Root(FlattenSeq([k \in DOMAIN there |-> Unrooted(there[k])]))

FoldAst(ts) ==
  LET there == SelectSeq(ts, LAMBDA t : t # Null)
  IN  CASE Len(ts) < 2 \/ (Len(ts) = 2 /\ Len(there) < 2) ->
             IF there = <<>> THEN Null ELSE there[1]
        [] OTHER -> Root(FlattenSeq([k \in DOMAIN there |-> Unrooted(there[k])]))

(* mpcf_strfold, on characters: what is read is one string.                *)
Text(cs) == Tree(<<"text">> \o cs, <<>>)
FoldText(ts) == Text(FlattenSeq([k \in DOMAIN ts |-> Tail(ts[k].tag)]))

------------------------------------------------------------------------------
(* mpc_ast_traverse_start and _next, in preorder: a traversal is the path  *)
(* to the tree that is next, each with how many of its kids were visited.  *)

TraverseStart(t) == <<[at |-> t, child |-> 0]>>

TraverseNext(trav) ==
  LET left == {k \in DOMAIN trav : trav[k].child < Len(trav[k].at.kids)}
      up == CHOOSE k \in left : \A j \in left : j <= k
      next == trav[up].child + 1
  IN  IF left = {} THEN <<>>
      ELSE SubSeq(trav, 1, up - 1)
           \o <<[trav[up] EXCEPT !.child = next], [at |-> trav[up].at.kids[next], child |-> 0]>>
==============================================================================
