--------------------------- MODULE MCDeclarations ---------------------------
(***************************************************************************)
(* Small modules for TLC: every sequence of up to MaxElements elements of  *)
(* a family.                                                               *)
(***************************************************************************)
EXTENDS DeclarationsInv

CONSTANTS A, B, M, N

T(name) == [name |-> name, ptr |-> FALSE]
P(name) == [name |-> name, ptr |-> TRUE]

AliasOf(name, t) == [kind |-> "alias", names |-> <<name>>, types |-> <<t>>]
Struct(name, t) ==
  [kind |-> "structure", name |-> name, fields |-> <<M>>, types |-> <<t>>]
EmptyStruct(name) ==
  [kind |-> "structure", name |-> name, fields |-> <<>>, types |-> <<>>]
Enum(name, under, options) ==
  [kind |-> "enumeration", name |-> name, under |-> under, options |-> options]
Iface(name, parents, funcs) ==
  [kind |-> "interface", name |-> name, parents |-> parents, funcs |-> funcs,
   types |-> [i \in DOMAIN funcs |-> T("int")]]
Class(name, ts) ==
  [kind |-> "dataclass", name |-> name,
   ctors |-> [i \in DOMAIN ts |-> [name |-> <<M, N>>[i], types |-> <<ts[i]>>]]]
Extern(name, t) == [kind |-> "externfunc", name |-> name, types |-> <<t>>]
Func(name, deduced, stmts) ==
  [kind |-> "function", name |-> name, types |-> <<>>, deduced |-> deduced,
   body |-> stmts]
Method(of, func, deduced, stmts) ==
  [kind |-> "structfunc", of |-> of, func |-> func, types |-> <<>>,
   deduced |-> deduced, default |-> FALSE, body |-> stmts]
Convert(of, to, stmts) ==
  [kind |-> "conversion", of |-> of, to |-> to, types |-> <<>>,
   deduced |-> TRUE, default |-> FALSE, body |-> stmts]
LetVar(name, t) == [kind |-> "let", name |-> name, type |-> t]
Get(var, member) == [kind |-> "access", var |-> var, member |-> member]
CallOf(name) == [kind |-> "call", name |-> name]
CastOf(var, t) == [kind |-> "cast", var |-> var, to |-> t]
Make(class, ctor) == [kind |-> "construct", class |-> class, ctor |-> ctor]

(* Types of every sort that hold, rename and shadow each other.            *)
Typing ==
  {AliasOf(A, T("int")), AliasOf(B, T(A)), AliasOf("int", P("char")),
   [kind |-> "alias", names |-> <<A, B>>, types |-> <<T("int"), P("char")>>],
   [kind |-> "alias", names |-> <<A, B>>, types |-> <<T("int")>>],
   EmptyStruct(A), Struct(A, T(A)), Struct(A, P(B)), Struct(B, T(A)),
   Struct(B, T("auto")),
   Enum(A, "bool", <<M, N>>), Enum(B, A, <<M>>), Enum(B, "bool", <<M, M>>),
   Enum(A, "bool", <<M, N, M, N>>), [Func(A, FALSE, <<>>) EXCEPT !.types = <<T(B)>>],
   Method(A, M, FALSE, <<CastOf("this", T(B))>>),
   Iface(A, <<>>, <<M>>), Iface(A, <<B>>, <<M>>), Iface(B, <<>>, <<M, N>>),
   Iface(B, <<A>>, <<N, N>>),
   Class(A, <<T("int"), T(B)>>), Class(B, <<T(A)>>), Class(B, <<P(A), T("int")>>),
   Extern(A, T(B)), Func(B, FALSE, <<AliasOf(A, P(B)), Struct(B, P(A))>>),
   Func(A, FALSE, <<LetVar(B, T("char")), Enum(A, "int", <<M>>)>>)}

(* Functions that look names up, and what they may find.                   *)
Using ==
  {EmptyStruct(A), Struct(A, T(A)), Struct(A, T(B)), Enum(M, "bool", <<N>>),
   Iface(B, <<>>, <<M>>), Iface(B, <<>>, <<M, N>>),
   Class(B, <<T("int"), T(A)>>), AliasOf(B, P("char")),
   Extern(B, T("int")),
   Method(A, M, FALSE, <<>>), Method(A, M, TRUE, <<Get("this", M)>>),
   Method(A, N, FALSE, <<Get("this", M)>>),
   [Method(A, N, FALSE, <<>>) EXCEPT !.default = TRUE],
   [Method(A, N, FALSE, <<>>) EXCEPT !.types = <<T(B)>>],
   Convert(A, P("char"), <<>>), Convert(A, T("auto"), <<>>),
   Convert(A, T(B), <<CastOf("this", T(B))>>),
   Func(A, TRUE, <<CallOf(A)>>), Func(A, FALSE, <<CallOf(B), CallOf(A)>>),
   Func(N, FALSE, <<LetVar(M, T(A)), Get(M, M), CallOf(M)>>),
   Func(N, FALSE, <<LetVar(M, T(A)), CastOf(M, T(B))>>),
   Iface(M, <<B, B>>, <<N>>), Method(A, N, FALSE, <<CastOf("this", T(M))>>),
   Func(N, FALSE, <<LetVar(M, P(A)), CastOf(M, T("int"))>>),
   Func(N, FALSE, <<Get(M, M)>>), Func(N, FALSE, <<LetVar(M, P(A)), Get(M, M)>>),
   Func(N, FALSE, <<LetVar(M, T("char")), CastOf(M, P(A)), CastOf(M, T(A))>>),
   Func(N, FALSE, <<Make(B, M), Make(B, N), CastOf(M, T(A))>>)}

(* Interfaces with parents, and a struct cast to one.                      *)
Inheriting ==
  {Iface(A, <<>>, <<M>>), Iface(B, <<>>, <<N>>), Iface(M, <<A, B>>, <<M>>),
   Iface(M, <<A>>, <<N>>), EmptyStruct(N)}
==============================================================================
