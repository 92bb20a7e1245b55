--------------------------- MODULE LoweringSupport ---------------------------
(***************************************************************************)
(* Which functions whack can lower.  The predicates are about statement    *)
(* trees: outside the part of the language they describe the same handlers *)
(* produce blocks LLVM's verifier rejects, or do not come back.            *)
(***************************************************************************)
EXTENDS Lowering

Branches == {"if", "match", "typeswitch"}
Loops == {"while", "for"}
Jumps == {"break", "continue"}

Has(p, n, kinds) == \E m \in Within(p)[n] : p[m].kind \in kinds
StraightLine(p, n) == ~Has(p, n, Branches \cup Loops)
NoBareBody(p, n) ==
  \A m \in Within(p)[n] : p[m].kind = "body" =>
    \A k \in ToSet(p[m].kids) : p[k].kind # "body"

(* The statements of statement n that no loop of n surrounds.              *)
Unlooped(t) == IF t.kind \in Loops THEN {} ELSE ToSet(t.kids)
OutsideLoops(p) ==
  LET outside[n \in Node] == {n} \cup UNION {outside[k] : k \in Unlooped(p[n])}
  IN  outside

(* The statements after which nothing can run.                             *)
Leaves(p) ==
  LET leaves[n \in Node] ==
        \/ p[n].kind \in {"return", "break", "continue"}
        \/ p[n].kind = "body" /\ p[n].kids # <<>> /\ leaves[Last(p[n].kids)]
        \/ p[n].kind = "if" /\ Len(p[n].kids) = 2 /\ \A k \in ToSet(p[n].kids) : leaves[k]
        \/ p[n].kind = "typeswitch" /\ p[n].arg # 0 /\ leaves[p[n].kids[p[n].arg]]
  IN  leaves

(* The statements that leave the builder in a block that is not empty.     *)
EndsFilled(p) ==
  LET filled[n \in Node] ==
        \/ p[n].kind \in {"expr", "return", "break", "continue"}
        \/ /\ p[n].kind = "body"
           /\ \E i \in 1..Len(p[n].kids) :
                /\ filled[p[n].kids[i]]
                /\ \A j \in i + 1 .. Len(p[n].kids) : p[p[n].kids[j]].kind \in {"nop", "defer"}
  IN  filled

SupportedStmt(p, n) ==
  LET t == p[n]
  IN  CASE t.kind = "body" ->
             \A i \in 1 .. Len(t.kids) - 1 : ~Leaves(p)[t.kids[i]]
        [] t.kind = "if" -> \A k \in ToSet(t.kids) : EndsFilled(p)[k]
        [] t.kind = "match" ->
             /\ t.arg = 1 /\ t.kids # <<>>
             /\ \A k \in ToSet(t.kids) : EndsFilled(p)[k] /\ StraightLine(p, k)
        [] t.kind = "typeswitch" ->
             \A k \in Parts(t) : StraightLine(p, k)
        [] t.kind = "while" -> ~Leaves(p)[t.kids[1]]
        [] t.kind = "for" -> ~Leaves(p)[t.kids[1]] /\ StraightLine(p, t.kids[1])
        [] t.kind = "defer" -> p[t.kids[1]].kind = "expr"
        [] OTHER -> TRUE

(* The functions whose blocks come out right: nothing follows a statement  *)
(* that leaves, branches end in a statement of their own, loops and arms   *)
(* hold what their block order and their scope exit allow, jumps are in a  *)
(* loop, and defers meet none.                                             *)
Supported(p) ==
  /\ \A n \in Within(p)[Root] : SupportedStmt(p, n)
  /\ \A n \in OutsideLoops(p)[Root] : p[n].kind \notin Jumps
  /\ Has(p, Root, {"defer"}) =>
       ~Has(p, Root, Loops) /\ EndsFilled(p)[Root] /\ NoBareBody(p, Root)

(* A block that ends in its only terminator.                               *)
EndsOnce(bs, b) ==
  /\ HasTerminator(bs, b)
  /\ \A i \in 1 .. Len(bs[b].insts) - 1 : ~IsTerminator(bs[b].insts[i])

(* A supported function comes out of buildFunction as LLVM's verifier      *)
(* wants it: every block of it ends in its only terminator.                *)
WellFormed ==
  status = "done" /\ Supported(prog) =>
    \A i \in 1..Len(layout) : EndsOnce(blocks, layout[i])
==============================================================================
