------------------------------- MODULE MCScopes -------------------------------
(***************************************************************************)
(* Small functions for TLC: every sequence of up to MaxStatements          *)
(* statements of a family.  S has a constructor, T has none; S has a       *)
(* member m.                                                               *)
(***************************************************************************)
EXTENDS ScopesInv

S == Plain("S")
T == Plain("T")

One == [kind |-> "const"]
Call(t) == [kind |-> "call", type |-> t]
NewOf(t) == [kind |-> "new", type |-> t]
PlaceIn(n, t) == [kind |-> "place", var |-> n, type |-> t]
Of(n) == [kind |-> "var", var |-> n]
AddressOf(n) == [kind |-> "addr", var |-> n]
At(n) == [kind |-> "deref", var |-> n]
Member(n) == [kind |-> "member", var |-> n, member |-> "m"]

LetOf(names, values) == [kind |-> "let", names |-> names, values |-> values]
LetOne(n, e) == LetOf(<<n>>, <<e>>)
Decl(n, s, ms) == [kind |-> "decl", name |-> n, struct |-> s, members |-> ms]
DeleteOf(n) == [kind |-> "delete", of |-> Of(n)]
AssignTo(e) == [kind |-> "assign", of |-> e]
BodyStmt == [kind |-> "body"]
If(lets) == [kind |-> "if", lets |-> lets]
For(let) == [kind |-> "for", lets |-> <<let>>]
DeferOf(s) == [kind |-> "defer", stmt |-> s]

(* The argument p points to an S.                                          *)
Arguments == [n \in {"p"} |-> PointerTo(S)]

(* Ways to name a variable, to rename it and to look it up.                *)
Naming ==
  {LetOne("x", One), LetOf(<<"x", "y">>, <<One, Of("x")>>),
   LetOf(<<"x", "_">>, <<Call(Plain("pair"))>>), LetOne("cont", Of("p")),
   LetOf(<<"x", "y">>, <<One>>), LetOf(<<"x">>, <<One, One>>),
   Decl("m", "S", <<>>), Decl("y", "S", <<"m">>), BodyStmt,
   If(<<>>), If(<<LetOne("x", One)>>),
   If(<<LetOne("x", One), LetOf(<<"y", "_">>, <<Of("x"), One>>)>>),
   For(LetOne("y", Of("f"))), DeferOf(DeleteOf("x")),
   DeferOf(LetOne("y", At("x"))), AssignTo(Member("y")), AssignTo(Of("x")),
   LetOne("x", Of("then"))}

(* Ways to make objects, to point to them and to construct them.           *)
Making ==
  {LetOne("x", NewOf(S)), LetOne("x", NewOf(T)), LetOne("y", NewOf(S)),
   LetOne("x", Call(S)), LetOne("y", At("x")), LetOne("y", Of("x")),
   LetOne("y", PlaceIn("x", PointerTo(S))), LetOne("x", PlaceIn("p", PointerTo(S))),
   LetOne("y", At("p")), LetOne("y", PlaceIn("x", PointerTo(T))),
   LetOne("y", AddressOf("x")), LetOne("y", PlaceIn("x", Plain("int"))),
   DeleteOf("x"),
   LetOf(<<"x", "y">>, <<One, NewOf(S)>>), LetOf(<<"_", "y">>, <<NewOf(S), One>>),
   LetOf(<<"x", "y", "m">>, <<NewOf(S), One, NewOf(S)>>),
   Decl("x", "S", <<>>), Decl("y", "S", <<"m">>), Decl("y", "T", <<>>),
   If(<<LetOne("x", NewOf(S))>>), For(LetOne("y", NewOf(T))),
   DeferOf(DeleteOf("x")), AssignTo(Member("x"))}

Common == Naming \cup Making

(* An object of an if.                                                    *)
Lost == {If(<<LetOne("x", NewOf(S))>>), LetOne("x", One), Decl("y", "S", <<>>),
         LetOne("y", NewOf(S)), DeleteOf("x")}
==============================================================================
