------------------------------ MODULE MpcGrammar ------------------------------
(***************************************************************************)
(* How the parsers of whack are made from a grammar and destroyed again    *)
(* (mpca_lang_contents and mpc_cleanup of mpc/mpc.c, Parser of parser.hpp). *)
(* A parser is a block of memory that points to others; a named one is     *)
(* retained, any other belongs to whatever points to it.  A rule's grammar *)
(* is given as the order in which reading it calls the functions that      *)
(* build it, innermost first.                                              *)
(***************************************************************************)
EXTENDS MpcAst, FiniteSets

CONSTANTS
  Given,      \* the names of the parsers mpca_lang_contents is called with
  Sources     \* the grammars looked at: sequences of rules [ident, label, code]

ASSUME GrammarAssumption ==
  /\ Given # <<>>
  /\ \A j, k \in DOMAIN Given : Given[j] = Given[k] => j = k

VARIABLES
  heap,     \* every parser there was, by address
  source,   \* the grammar
  rules,    \* the part of it that is still to be read
  values,   \* what the parser of grammars has read of a rule
  stmts,    \* the rules read
  parsers,  \* st->parsers: those looked at so far, 0 for the end of the list
  calls,    \* the calls of mpc_optimise_unretained
  status,   \* what is being done; or what ended the program
  cleaned,  \* how far mpc_cleanup has got
  misused   \* a block was used, or freed, after it was freed

vars == <<heap, source, rules, values, stmts, parsers, calls, status, cleaned, misused>>

Statuses == {"reading", "regex", "invalid", "applying", "optimising", "finishing", "ready",
             "deleting", "gone", "crash", "overread"}

Node(type, arg, kids) ==
  [type |-> type, arg |-> arg, kids |-> kids, retained |-> FALSE, live |-> TRUE]
And(fold, kids) == Node("and", fold, kids)
Named == [Node("undefined", "", <<>>) EXCEPT !.retained = TRUE]
Failing == Node("fail", "", <<>>)

(* The named parsers are made first, so their addresses are their places   *)
(* in Given; whack's is the last.                                          *)
Main == Len(Given)

------------------------------------------------------------------------------
(* mpc_undefine_unretained: what it frees of parsers ps, and what it reads. *)

Owned(h, ps) ==
  LET below[n \in DOMAIN h] ==
        IF h[n].retained THEN {} ELSE {n} \cup UNION {below[k] : k \in ToSet(h[n].kids)}
  IN  UNION {below[n] : n \in ToSet(ps)}
Touched(h, ps) == ToSet(ps) \cup UNION {ToSet(h[n].kids) : n \in Owned(h, ps)}
Size(h, ps) ==
  LET size[n \in DOMAIN h] ==
        IF h[n].retained THEN 0
        ELSE 1 + FoldSeq(LAMBDA k, sum : size[k] + sum, 0, h[n].kids)
  IN  FoldSeq(LAMBDA k, sum : size[k] + sum, 0, ps)

Released(h, freed) == [n \in DOMAIN h |-> IF n \in freed THEN [h[n] EXCEPT !.live = FALSE] ELSE h[n]]

(* Mutant: only a parser itself is freed, not what belongs to it.          *)
DestroyTop(ps) ==
  /\ heap' = Released(heap, {n \in ToSet(ps) : ~heap[n].retained})
  /\ UNCHANGED misused

(* The parsers ps, all of them at once, and what belongs to them.          *)
Destroy(ps) ==
  /\ heap' = Released(heap, Owned(heap, ps))
  /\ misused' = (misused \/ Size(heap, ps) # Cardinality(Owned(heap, ps))
                         \/ \E n \in Touched(heap, ps) : ~heap[n].live)

------------------------------------------------------------------------------
(* mpca_grammar_find_parser.  The arguments of mpca_lang_contents are read *)
(* when they are first asked for, up to the null pointer behind the last.  *)

Arguments == [k \in DOMAIN Given |-> k] \o <<0>>
Upto(n) == SubSeq(Arguments, 1, n)
Ended == parsers # <<>> /\ Last(parsers) = 0

Position(name) == CHOOSE k \in DOMAIN Given : Given[k] = name
IsGiven(name) == name \in ToSet(Given)

(* What is found under a name, and the arguments read by then.             *)
FindName(name) ==
  LET known == IsGiven(name) /\ Position(name) <= Len(parsers)
  IN  [read |-> CASE known \/ Ended -> parsers
                  [] ~known /\ ~Ended /\ IsGiven(name) -> Upto(Position(name))
                  [] ~IsGiven(name) /\ ~Ended -> Arguments,
       p |-> IF IsGiven(name) THEN Position(name) ELSE 0,
       fails |-> ~IsGiven(name)]

(* Mutant: the end of the arguments is not looked for.                     *)
FindPlaceUnchecked(place) ==
  LET upto == IF place < Len(Arguments) THEN Upto(place + 1) ELSE Arguments
      read == IF place < Len(parsers) THEN parsers ELSE upto
  IN  [read |-> read, p |-> Last(read), fails |-> FALSE]

(* And in a place counted from 0: the last parser read, whichever it is.   *)
FindPlace(place) ==
  LET upto == IF place < Len(Arguments) THEN Upto(place + 1) ELSE Arguments
      read == IF place < Len(parsers) THEN parsers ELSE upto
  IN  [read |-> read, p |-> Last(read), fails |-> Len(parsers) <= place /\ Last(read) = 0]
Overreads(place) == Ended /\ place >= Len(parsers)

------------------------------------------------------------------------------
(* Reading a rule.  A value is the address of a parser.                    *)

Reads(ops) == status = "reading" /\ rules # <<>> /\ rules[1].code # <<>>
              /\ rules[1].code[1].op \in ops
Arg == rules[1].code[1].arg
ReadOn == rules' = [rules EXCEPT ![1].code = Tail(@)]

(* n values are replaced by a parser that is made of them: the last of     *)
(* the new nodes.                                                          *)
Make(n, nodes) ==
  /\ heap' = heap \o nodes
  /\ values' = SubSeq(values, 1, Len(values) - n) \o <<Len(heap) + Len(nodes)>>
  /\ ReadOn
Operands(n) == SubSeq(values, Len(values) - n + 1, Len(values))

(* mpcaf_grammar_string and _char, or a base of a regular expression.      *)
Literal ==
  /\ Reads({"lit", "chr"})
  /\ Make(0, <<Node(rules[1].code[1].op, Arg, <<>>)>>)
  /\ UNCHANGED <<source, stmts, parsers, calls, status, cleaned, misused>>

(* Mutant: a named parser is used as it is, without a tag.                 *)
ReferBare(found) ==
  /\ parsers' = found.read
  /\ values' = Append(values, IF found.fails THEN Len(heap) + 1 ELSE found.p)
  /\ heap' = IF found.fails THEN Append(heap, Failing) ELSE heap
  /\ ReadOn
  /\ UNCHANGED <<source, stmts, calls, status, cleaned, misused>>

(* mpcaf_grammar_id.  A parser without a name gets no tag; a null pointer  *)
(* has none to look at.                                                    *)
Refer(found) ==
  /\ parsers' = found.read
  /\ \/ /\ found.fails
        /\ Make(0, <<Failing, Node("ref", "", <<Len(heap) + 1>>)>>)
        /\ UNCHANGED status
     \/ /\ ~found.fails /\ found.p # 0
        /\ Make(0, <<Node("ref", "", <<found.p>>)>>)
        /\ UNCHANGED status
     \/ /\ ~found.fails /\ found.p = 0
        /\ status' = "crash" /\ UNCHANGED <<heap, values, rules>>
  /\ UNCHANGED <<source, stmts, calls, cleaned, misused>>

Name == Reads({"name"}) /\ Refer(FindName(Arg))
Place == Reads({"place"}) /\ ~Overreads(Arg) /\ Refer(FindPlace(Arg))
PlaceBehindEnd ==
  /\ Reads({"place"}) /\ Overreads(Arg)
  /\ status' = "overread"
  /\ UNCHANGED <<heap, source, rules, values, stmts, parsers, calls, cleaned, misused>>

(* mpcaf_grammar_repeat and mpcf_re_repeat look at the first byte of what  *)
(* stands behind: an operator, or a number that may look like one.         *)
Bytes(fold) == [many |-> 42, many1 |-> 43, maybe |-> 63] @@ (IF fold = "ast" THEN [not |-> 33] ELSE <<>>)
RepeatType(fold, n) ==
  LET looks == {op \in DOMAIN Bytes(fold) : Bytes(fold)[op] = n % 256}
  IN  IF looks = {} THEN "count" ELSE CHOOSE op \in looks : TRUE

Repeat ==
  /\ Reads({"repeat"})
  /\ Make(1, <<Node(RepeatType(Arg.fold, Arg.n), Arg.fold, Operands(1))>>)
  /\ UNCHANGED <<source, stmts, parsers, calls, status, cleaned, misused>>

(* mpcaf_grammar_and and mpcf_re_and: pairs, the first one with nothing.   *)
Neutral(fold) == Node(IF fold = "ast" THEN "pass" ELSE "lift", "", <<>>)
Term ==
  /\ Reads({"term"})
  /\ LET first == Len(heap) + 1
     IN  Make(Arg.n, <<Neutral(Arg.fold)>>
                     \o [k \in 1 .. Arg.n |-> And(Arg.fold, <<first + k - 1, Operands(Arg.n)[k]>>)])
  /\ UNCHANGED <<source, stmts, parsers, calls, status, cleaned, misused>>

(* mpcaf_grammar_or and mpcf_re_or.                                        *)
Or ==
  /\ Reads({"or"})
  /\ Make(2, <<Node("or", "", Operands(2))>>)
  /\ UNCHANGED <<source, stmts, parsers, calls, status, cleaned, misused>>

(* The end of mpc_re: its parser is optimised before the literal is made.  *)
Optimise(h, p) == calls' = <<[p |-> p, rest |-> h[p].kids]>>
Regex ==
  /\ Reads({"regex"})
  /\ status' = "regex" /\ Optimise(heap, Last(values))
  /\ UNCHANGED <<heap, source, rules, values, stmts, parsers, cleaned, misused>>
RegexRead ==
  /\ status = "regex" /\ calls = <<>>
  /\ status' = "reading"
  /\ Make(1, <<Node("regex", Arg, Operands(1))>>)
  /\ UNCHANGED <<source, stmts, parsers, calls, cleaned, misused>>

(* mpca_stmt_afold, mpca_stmt_fold.                                        *)
Statement ==
  /\ status = "reading" /\ rules # <<>> /\ rules[1].code = <<>>
  /\ stmts' = Append(stmts, [ident |-> rules[1].ident, label |-> rules[1].label,
                             grammar |-> values[1], left |-> 0])
  /\ rules' = Tail(rules) /\ values' = <<>>
  /\ UNCHANGED <<heap, source, parsers, calls, status, cleaned, misused>>

(* The text goes wrong: the destructors of what was read so far run.  (A   *)
(* literal that is no regular expression is a parser that fails.)          *)
InRegex == Reads({"chr", "regex"}) \/ (Reads({"term", "repeat", "or"}) /\ Arg.fold = "str")
SyntaxError ==
  /\ status = "reading" /\ rules # <<>> /\ ~InRegex
  /\ Destroy(values \o [k \in DOMAIN stmts |-> stmts[k].grammar])
  /\ values' = <<>> /\ stmts' = <<>>
  /\ status' = "invalid"
  /\ UNCHANGED <<source, rules, parsers, calls, cleaned>>

------------------------------------------------------------------------------
(* mpca_stmt_list_apply_to *)

EndOfText ==
  /\ status = "reading" /\ rules = <<>>
  /\ status' = "applying"
  /\ UNCHANGED <<heap, source, rules, values, stmts, parsers, calls, cleaned, misused>>

Apply ==
  /\ status = "applying" /\ stmts # <<>>
  /\ LET stmt == stmts[1]
         found == FindName(stmt.ident)
         with == IF found.fails THEN Append(heap, Failing) ELSE heap
         expect == Node("expect", "", <<stmt.grammar>>)
     IN  /\ parsers' = found.read
         /\ heap' = IF stmt.label THEN Append(with, expect) ELSE with
         /\ stmts' = [stmts EXCEPT ![1].left = IF found.fails THEN Len(with) ELSE found.p,
                                   ![1].grammar = IF stmt.label THEN Len(heap') ELSE @]
         /\ Optimise(heap', stmts'[1].grammar)
  /\ status' = "optimising"
  /\ UNCHANGED <<source, rules, values, cleaned, misused>>

(* mpc_define: the parser itself is freed, what it points to changes hands. *)
(* What cannot be defined becomes a parser that fails.                     *)
Define ==
  /\ status = "optimising" /\ calls = <<>>
  /\ LET left == stmts[1].left
         a == stmts[1].grammar
         as == IF heap[left].retained THEN heap[a] ELSE Failing
     IN  /\ heap' = [heap EXCEPT ![left].type = as.type, ![left].kids = as.kids,
                                 ![left].arg = as.arg, ![a].live = FALSE]
         /\ misused' = (misused \/ ~heap[a].live \/ ~heap[left].live)
  /\ stmts' = Tail(stmts) /\ status' = "applying"
  /\ UNCHANGED <<source, rules, values, parsers, calls, cleaned>>

(* Parser::Parser                                                          *)
Built ==
  /\ status = "applying" /\ stmts = <<>>
  /\ Optimise(heap, Main) /\ status' = "finishing"
  /\ UNCHANGED <<heap, source, rules, values, stmts, parsers, cleaned, misused>>
Ready ==
  /\ status = "finishing" /\ calls = <<>>
  /\ status' = "ready"
  /\ UNCHANGED <<heap, source, rules, values, stmts, parsers, calls, cleaned, misused>>

------------------------------------------------------------------------------
(* mpc_optimise_unretained: first what a parser is made of, then itself,   *)
(* as long as one of the rewritings applies, the first that does.          *)

Busy == status \in {"regex", "optimising", "finishing"} /\ calls # <<>>
Call == Last(calls)
This == heap[Call.p]
Return == calls' = Front(calls)

(* The first or last of the kids, if it is like its parent and its own.    *)
Mergeable(p, at) ==
  LET t == heap[heap[p].kids[at]]
  IN  /\ heap[p].type \in {"or", "and"} /\ heap[p].kids # <<>>
      /\ t.type = heap[p].type /\ ~t.retained
      /\ t.type = "and" => t.arg = heap[p].arg /\ t.arg \in {"ast", "str"}
MergesLast(p) == heap[p].kids # <<>> /\ Mergeable(p, Len(heap[p].kids))
MergesFirst(p) == heap[p].kids # <<>> /\ Mergeable(p, 1)
DropsNeutral(p) ==
  /\ heap[p].type = "and" /\ heap[p].arg \in {"ast", "str"} /\ Len(heap[p].kids) = 2
  /\ LET first == heap[heap[p].kids[1]]
     IN  first.type = Neutral(heap[p].arg).type /\ ~first.retained

OptimiseKid ==
  /\ Busy /\ Call.rest # <<>>
  /\ LET kid == Head(Call.rest)
         on == Append(Front(calls), [Call EXCEPT !.rest = Tail(@)])
     IN  calls' = IF heap[kid].retained THEN on
                  ELSE Append(on, [p |-> kid, rest |-> heap[kid].kids])
  /\ UNCHANGED <<heap, source, rules, values, stmts, parsers, status, cleaned, misused>>

Rewriting == Busy /\ Call.rest = <<>>

(* Mutant: the kids of a merged parser go to the end.                      *)
MergeBehind(at) ==
  /\ heap' = [heap EXCEPT ![Call.p].kids = SubSeq(@, 1, at - 1) \o SubSeq(@, at + 1, Len(@))
                                           \o heap[This.kids[at]].kids,
                          ![This.kids[at]].live = FALSE]
  /\ UNCHANGED <<source, rules, values, stmts, parsers, calls, status, cleaned, misused>>

(* A kid's own kids take its place, and it is freed.                       *)
Merge(at) ==
  /\ heap' = [heap EXCEPT ![Call.p].kids = SubSeq(@, 1, at - 1) \o heap[This.kids[at]].kids
                                           \o SubSeq(@, at + 1, Len(@)),
                          ![This.kids[at]].live = FALSE]
  /\ UNCHANGED <<source, rules, values, stmts, parsers, calls, status, cleaned, misused>>

(* An or looks at its last kid first, an and at its first.                 *)
MergeLast ==
  /\ Rewriting /\ MergesLast(Call.p)
  /\ This.type = "and" => ~DropsNeutral(Call.p) /\ ~MergesFirst(Call.p)
  /\ Merge(Len(This.kids))

MergeFirst ==
  /\ Rewriting /\ MergesFirst(Call.p)
  /\ This.type = "or" => ~MergesLast(Call.p)
  /\ This.type = "and" => ~DropsNeutral(Call.p)
  /\ Merge(1)

(* Mutant: the second kid is freed and not copied.                         *)
DropBoth ==
  /\ Rewriting /\ DropsNeutral(Call.p)
  /\ heap' = Released(heap, ToSet(This.kids))
  /\ UNCHANGED <<source, rules, values, stmts, parsers, calls, status, cleaned, misused>>

(* The second kid is copied over the parser, whoever else it belongs to.   *)
DropNeutral ==
  /\ Rewriting /\ DropsNeutral(Call.p)
  /\ heap' = [heap EXCEPT ![Call.p] = heap[This.kids[2]],
                          ![This.kids[1]].live = FALSE, ![This.kids[2]].live = FALSE]
  /\ misused' = (misused \/ \E k \in ToSet(This.kids) : ~heap[k].live)
  /\ UNCHANGED <<source, rules, values, stmts, parsers, calls, status, cleaned>>

OptimiseReturn ==
  /\ Rewriting
  /\ ~MergesLast(Call.p) /\ ~MergesFirst(Call.p) /\ ~DropsNeutral(Call.p)
  /\ Return
  /\ UNCHANGED <<heap, source, rules, values, stmts, parsers, status, cleaned, misused>>

------------------------------------------------------------------------------
(* Parser::~Parser, mpc_cleanup: every parser is undefined before the      *)
(* first one is deleted.                                                   *)

Undefine ==
  /\ status \in {"ready", "invalid"} /\ cleaned < Len(Given)
  /\ LET p == cleaned + 1
         freed == Owned(heap, heap[p].kids)
     IN  /\ heap' = [Released(heap, freed) EXCEPT ![p].type = "undefined", ![p].kids = <<>>,
                                                   ![p].arg = ""]
         /\ misused' = (misused \/ Size(heap, heap[p].kids) # Cardinality(freed)
                                \/ \E n \in {p} \cup Touched(heap, heap[p].kids) : ~heap[n].live)
  /\ cleaned' = cleaned + 1
  /\ UNCHANGED <<source, rules, values, stmts, parsers, calls, status>>

Cleanup ==
  /\ status \in {"ready", "invalid"} /\ cleaned = Len(Given)
  /\ status' = "deleting" /\ cleaned' = 0
  /\ UNCHANGED <<heap, source, rules, values, stmts, parsers, calls, misused>>

Delete ==
  /\ status = "deleting" /\ cleaned < Len(Given)
  /\ heap' = [heap EXCEPT ![cleaned + 1].live = FALSE]
  /\ misused' = (misused \/ ~heap[cleaned + 1].live)
  /\ cleaned' = cleaned + 1
  /\ UNCHANGED <<source, rules, values, stmts, parsers, calls, status>>

Deleted ==
  /\ status = "deleting" /\ cleaned = Len(Given)
  /\ status' = "gone"
  /\ UNCHANGED <<heap, source, rules, values, stmts, parsers, calls, cleaned, misused>>

------------------------------------------------------------------------------
Over == status \in {"gone", "crash", "overread"}
Stopped == Over /\ UNCHANGED vars

Init ==
  /\ source \in Sources /\ rules = source
  /\ heap = [k \in DOMAIN Given |-> Named]
  /\ values = <<>> /\ stmts = <<>> /\ parsers = <<>> /\ calls = <<>>
  /\ status = "reading" /\ cleaned = 0 /\ misused = FALSE

Next ==
  \/ Literal \/ Name \/ Place \/ PlaceBehindEnd \/ Repeat \/ Term \/ Or \/ Regex \/ RegexRead
  \/ Statement \/ SyntaxError \/ EndOfText \/ Apply \/ Define \/ Built \/ Ready
  \/ OptimiseKid \/ MergeLast \/ MergeFirst \/ DropNeutral \/ OptimiseReturn
  \/ Undefine \/ Cleanup \/ Delete \/ Deleted \/ Stopped

Spec == Init /\ [][Next]_vars
FairSpec == Spec /\ WF_vars(Next)
==============================================================================
