----------------------------- MODULE MCLowering -----------------------------
(***************************************************************************)
(* Families of small functions for TLC.  A function is written as a tree   *)
(* of [kind, kids, ok, arg] and numbered in preorder, as the AST is.       *)
(***************************************************************************)
EXTENDS LoweringProps, LoweringInv

CONSTANT MaxNode

MCNode == 1..MaxNode

T(kind, kids) == [kind |-> kind, kids |-> kids, ok |-> TRUE, arg |-> 0]
Bad(t) == [t EXCEPT !.ok = FALSE]
E == T("expr", <<>>)
N == T("nop", <<>>)
R(ty) == [T("return", <<>>) EXCEPT !.arg = ty]
Brk == T("break", <<>>)
Cnt == T("continue", <<>>)
D(s) == T("defer", <<s>>)
B(ss) == T("body", ss)
If(s) == T("if", <<s>>)
IfElse2(s, t) == T("if", <<s, t>>)
W(s) == T("while", <<s>>)
F(s) == T("for", <<s>>)
M(ss, default) == [T("match", ss) EXCEPT !.arg = default]
TS(ss, k) == [T("typeswitch", ss) EXCEPT !.arg = k]

RECURSIVE SizeOf(_)
SizeOf(t) == 1 + FoldSeq(+, 0, [k \in DOMAIN t.kids |-> SizeOf(t.kids[k])])

RECURSIVE Table(_, _)
Table(t, at) ==
  LET first(k) == at + 1 + FoldSeq(+, 0, [j \in 1..k-1 |-> SizeOf(t.kids[j])])
      me == [t EXCEPT !.kids = [k \in DOMAIN t.kids |-> first(k)]]
  IN  <<me>> \o FlattenSeq([k \in DOMAIN t.kids |-> Table(t.kids[k], first(k))])

Numbered(t) ==
  LET table == Table(t, 1)
  IN  [n \in MCNode |-> IF n <= Len(table) THEN table[n] ELSE N]

Functions(bodies) == {Numbered(B(b)) : b \in bodies}
Upto(S, n) == UNION {[1..k -> S] : k \in 0..n}

(* Anything at all, two statements long and one level deep.                *)
Leaf == {E, R(0), Brk, Cnt, D(E)}
Small == {B(b) : b \in Upto(Leaf, 1)} \cup {B(<<D(E), E>>), B(<<E, R(0)>>)}
Nested == {If(s) : s \in Small} \cup {W(s) : s \in Small} \cup {F(s) : s \in Small}
          \cup {IfElse2(B(<<E>>), s) : s \in Small}
          \cup {M(<<s>>, d) : s \in {B(<<E>>), B(<<D(E), E>>), B(<<>>)}, d \in {0, 1}}
          \cup {M(<<B(<<E>>), s>>, 1) : s \in {B(<<E>>), B(<<D(E), E>>), B(<<>>)}}
(* A deferred match arm leads the builder into the block behind an if.     *)
Astray == Functions({<<W(B(<<IfElse2(B(<<E>>),
            B(<<M(<<B(<<D(E), If(B(<<Cnt>>)), E>>)>>, 0)>>))>>))>>})
(* A deferred match that is lowered twice makes its arms anew.             *)
Twice == Functions({<<D(M(<<B(<<D(E), E>>), B(<<E>>)>>, 1)), If(B(<<R(0)>>)), E>>})
Wide == Functions(Upto(Leaf \cup Nested, 2)) \cup Astray \cup Twice

(* Loops around branches, jumps and other loops.                           *)
Jumping == {If(B(<<s>>)) : s \in {Brk, Cnt, E, R(0)}}
           \cup {IfElse2(B(<<s>>), B(<<t>>)) : s \in {Brk, E}, t \in {Cnt, R(0)}}
           \cup {M(<<B(<<s>>), B(<<E>>)>>, 1) : s \in {Brk, Cnt}}
Inner == {W(B(<<s>>)) : s \in {E, Brk} \cup Jumping} \cup {F(B(<<E>>))}
LoopBody == Upto({E} \cup Jumping \cup Inner, 2)
Looping == Functions({<<W(B(b))>> : b \in LoopBody}
                      \cup {<<F(B(b)), s>> : b \in Upto({E} \cup Jumping, 1), s \in {E, If(B(<<E>>))}}
                      \cup {<<W(B(<<E>>)), If(B(<<s>>)), E>> : s \in {E, Cnt, R(0)}})

(* Defers in nested scopes with early exits.                               *)
Exits == {If(B(b)) : b \in {<<R(0)>>, <<E>>, <<D(E), R(0)>>, <<D(E), E>>,
                            <<D(E), If(B(<<R(0)>>)), E>>, <<If(B(<<R(0)>>)), D(E), E>>}}
Splits == {IfElse2(B(b), B(c)) : b \in {<<R(0)>>, <<D(E), R(0)>>},
                               c \in {<<E>>, <<D(E), E>>, <<D(E), R(0)>>}}
          \cup {M(<<B(<<D(E), E>>), B(<<E>>)>>, 1)}
Deferring == Functions({Append(b, E) : b \in Upto({E, D(E)} \cup Exits \cup Splits, 3)})

(* Expressions, conditions, tags and loops that do not compile, returns of *)
(* two types, and statements that are only partly lowered.                 *)
Simple == {E, N, Bad(E), R(0), R(1), R(2), Bad(R(1)), D(Bad(E))}
Branching == {TS(<<B(<<If(B(<<E>>))>>)>>, 1)} \cup {If(B(<<s>>)) : s \in {R(1), Bad(E)}} \cup {Bad(If(B(<<E>>)))}
           \cup {IfElse2(B(<<R(1)>>), B(<<R(t)>>)) : t \in {0, 1}}
           \cup {TS(<<B(<<E>>), B(<<s>>)>>, k) : s \in {R(1), Bad(E)}, k \in 0..2}
           \cup {Bad(TS(<<B(<<E>>)>>, 1)), Bad(M(<<B(<<E>>)>>, 1))}
           \cup {M(<<Bad(B(<<E>>)), B(<<s>>)>>, 1) : s \in {E, R(1), Bad(E)}}
Around == {W(s) : s \in {B(<<E>>), B(<<Bad(E)>>), Bad(B(<<E>>))}}
          \cup {F(s) : s \in {B(<<E>>), B(<<Bad(E)>>), Bad(B(<<E>>))}}
          \cup {Bad(W(B(<<E>>))), Bad(F(B(<<E>>))), T("forin", <<B(<<E>>)>>)}
          \cup {Bad(B(<<E>>)), B(<<Bad(B(<<E>>))>>)}
Typed == Functions(Upto(Simple \cup Branching \cup Around, 2))

(* All of these; the declared type matters to the last family only.        *)
Sound == Looping \cup Deferring \cup Typed
SoundInit == Init /\ (decl = 0 \/ prog \in Typed)
SoundSpec == SoundInit /\ [][Next]_vars

(* One function each: a jump behind a loop, and one straight inside.       *)
StrayContinue == Functions({<<F(B(<<E>>)), Cnt>>})
BreakAtOnce == Functions({<<W(B(<<Brk>>))>>})
==============================================================================
