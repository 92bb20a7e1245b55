----------------------------- MODULE MCMpcGrammar -----------------------------
(***************************************************************************)
(* Small grammars for TLC.  A grammar is put together the way it is        *)
(* written; its value is the code that reading it comes to.                *)
(***************************************************************************)
EXTENDS MpcGrammarProps

MCGiven == <<"a", "b", "w">>
Op(op, arg) == <<[op |-> op, arg |-> arg]>>
Lit(x) == Op("lit", x)
Ref(name) == Op("name", name)
At(place) == Op("place", place)
Term0(fold, es) == FlattenSeq(es) \o Op("term", [n |-> Len(es), fold |-> fold])
Seq1(es) == Term0("ast", es)
Either(a, b) == a \o b \o Op("or", [fold |-> "ast"])
Times(n, e) == e \o Op("repeat", [n |-> n, fold |-> "ast"])
Star(e) == Times(42, e)
Opt(e) == Times(63, e)
Chr(x) == Op("chr", x)
Word(es) == Term0("str", es)
OrWord(a, b) == a \o b \o Op("or", [fold |-> "str"])
Again(n, e) == e \o Op("repeat", [n |-> n, fold |-> "str"])
Re(e) == e \o Op("regex", "")
R(ident, code) == [ident |-> ident, label |-> FALSE, code |-> code]
L(ident, code) == [ident |-> ident, label |-> TRUE, code |-> code]

Regexes == {Re(Word(<<>>)), Re(Word(<<Chr("c")>>)), Re(Word(<<Chr("c"), Chr("d"), Chr("e")>>)),
            Re(OrWord(Word(<<Chr("c"), Chr("d")>>), OrWord(Word(<<Chr("d")>>), Word(<<Chr("e")>>)))),
            Re(Word(<<Again(42, Word(<<Chr("c"), Chr("d")>>)), Word(<<Chr("e"), Again(63, Chr("d"))>>)>>)),
            Re(Word(<<OrWord(Word(<<Chr("c")>>), Word(<<>>)), Again(2, Chr("e"))>>))}
Bases == {Lit("x"), Ref("a"), Ref("b")}
Groups == {Seq1(<<Lit("x"), Ref("a")>>), Seq1(<<Opt(Lit("x")), Opt(Ref("b"))>>),
           Either(Seq1(<<Lit("x")>>), Seq1(<<Ref("b"), Lit("y")>>)),
           Either(Seq1(<<Ref("a")>>), Either(Seq1(<<Lit("y")>>), Seq1(<<Lit("x")>>)))}
Factors == Bases \cup Groups \cup {Opt(e) : e \in {Lit("x"), Ref("b")} \cup Groups}
           \cup {Star(Ref("a")), Times(43, Lit("x")), Times(33, Lit("x")), Times(2, Seq1(<<Lit("x"), Lit("y")>>))}
Few == {Lit("z"), Opt(Ref("b")), Seq1(<<Opt(Lit("z")), Ref("a")>>)}
Terms == {Seq1(<<e>>) : e \in Factors} \cup {Seq1(<<e, f>>) : e \in Factors, f \in Few}
         \cup {Seq1(<<e, f, g>>) : e \in Few, f \in Few \cup Groups, g \in {Lit("y"), Opt(Lit("y"))}}
Branches == {Either(s, t) : s \in {Seq1(<<e>>) : e \in Factors}, t \in {Seq1(<<Lit("z")>>), Seq1(<<Ref("b"), Lit("z")>>)}}
            \cup {Either(s, Either(Seq1(<<Lit("y")>>), Seq1(<<g>>))) : s \in {Seq1(<<Lit("x")>>)}, g \in Groups}
Nested == {Seq1(<<e, t>>) : e \in Few, t \in Branches \cup {Seq1(<<f, g>>) : f \in Factors, g \in Few}}
          \cup {Either(s, Seq1(<<t, Lit("y")>>)) : s \in {Seq1(<<e>>) : e \in Few}, t \in Branches}
One == {<<L("w", t)>> : t \in Terms \cup Branches \cup Nested} \cup {<<R("w", Seq1(<<e>>))>> : e \in Regexes \cup Groups}

(* Several rules, and names that are not given, or given twice.            *)
Bodies == {Seq1(<<Opt(Lit("x")), Opt(Ref("a")), Lit("y")>>), Either(Seq1(<<Ref("b")>>), Seq1(<<Ref("w")>>)), Seq1(<<Lit("x")>>), Seq1(<<Ref("u"), Lit("x")>>), Seq1(<<Ref("w"), Ref("a")>>)}
Several == {<<R(n, Seq1(<<Lit("y"), Ref("b")>>)), R(m, e), L("w", f)>> :
              n \in {"a", "b", "u"}, m \in {"a", "b", "u"}, e \in Bodies, f \in Bodies}
Places == {<<R("a", Seq1(<<At(j), At(k)>>)), R("w", Seq1(<<e>>))>> :
             j \in 0 .. 4, k \in 0 .. 4, e \in {Ref("b"), Ref("u"), At(1)}}
          \cup {<<R("w", Seq1(<<Ref("u"), At(k)>>))>> : k \in {1, 3, 4}}
MCSources == One \cup Several \cup Places \cup {<<>>}
==============================================================================
