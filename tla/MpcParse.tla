------------------------------- MODULE MpcParse -------------------------------
(***************************************************************************)
(* The parse engine of mpc (mpc_parse_run and mpc_parse_input, mpc/mpc.c). *)
(* A parser is a graph of nodes [type, kids, arg]; mpc_parse_run calls     *)
(* itself for the kids of a node, so its C stack is a variable, and a step *)
(* is what a call does up to the next call it makes or to its return.      *)
(***************************************************************************)
EXTENDS MpcInput, SequencesExt

CONSTANTS
  Node, Root,   \* places of a parser, and where it starts
  Grammars,     \* the parsers looked at: functions from Node
  Texts,        \* the texts they are run on
  InputKinds,   \* a subset of Kinds
  StackMin,     \* MPC_PARSE_STACK_MIN
  MaxDepth,     \* the calls the C stack has room for
  MaxResults,   \* the results there is memory for
  NoFailure, Unread

ASSUME ParseAssumption ==
  /\ Root \in Node /\ InputKinds \subseteq Kinds /\ Texts \subseteq Seq(Char)
  /\ StackMin \in Nat \ {0, 1} /\ MaxDepth \in Nat \ {0} /\ MaxResults \in Nat

VARIABLES
  prog,     \* the parser
  input, store,
  stack,    \* the calls of mpc_parse_run that have not returned
  ret,      \* what the last one returned, until it is looked at
  err,      \* the error gathered so far (*e)
  status,   \* run, done, failed; or what ended the program
  furthest  \* history: the furthest place anything was found wrong at

vars == <<prog, input, store, stack, ret, err, status, furthest>>

Leaves == {"chars", "word", "anchor", "pass", "lift", "liftval", "state",
           "fail", "undefined"}
Unary == {"apply", "check", "expect", "predict", "not", "maybe", "many",
          "many1", "count"}
Types == Leaves \cup Unary \cup {"or", "and"}

(* A parser's kids are parsers, those of one parser have it, a word is a   *)
(* text, and what is counted to is a number.                               *)
ASSUME GrammarAssumption ==
  \A g \in Grammars : \A n \in Node :
    /\ g[n].kids \in Seq(Node)
    /\ g[n].type \in Unary => g[n].kids # <<>>
    /\ g[n].type = "word" => g[n].arg \in Seq(Char)
    /\ g[n].type = "count" => g[n].arg.n \in Int

(* Values are folded in a way that is known; what may have none does not   *)
(* keep the first of them.                                                 *)
ASSUME FoldAssumption ==
  \A g \in Grammars : \A n \in Node :
    /\ g[n].type \in {"many1", "and"} => g[n].arg \in {"first", "join", "tree"}
    /\ g[n].type = "many" => g[n].arg \in {"join", "tree"}
    /\ g[n].type = "count" => g[n].arg.fold \in {"join", "tree"}

ASSUME FailureAssumption == NoFailure \notin {"fail", "undefined", "check", "unknown"}

Type(n) == prog[n].type
Kids(n) == prog[n].kids
Arg(n) == prog[n].arg

------------------------------------------------------------------------------
(* Errors.  A label is some words and what they are said of; that each is  *)
(* kept once makes what was expected a set.                                *)

NoErr == [none |-> TRUE]
Label(words) == <<words, {}>>

ErrNew(i, label) ==
  IF i.suppress > 0 THEN NoErr
  ELSE [state |-> i.state, expected |-> {Label(label)}, failure |-> NoFailure,
        received |-> Peekc(i).c]

ErrFail(i, failure) ==
  IF i.suppress > 0 THEN NoErr
  ELSE [state |-> i.state, expected |-> {}, failure |-> failure, received |-> Unread]

(* Mutant: the newer error replaces the older.                             *)
MergeNewest(x, y) == IF y = NoErr THEN x ELSE y

(* mpc_err_merge: what is known of the furthest place, of x before y.  A   *)
(* failure ends the list; `received` is not set then.                      *)
Alone(e) == IF e.failure = NoFailure THEN e ELSE [e EXCEPT !.expected = {}, !.received = Unread]
Both(x, y) ==
  CASE x.failure # NoFailure -> Alone(x)
    [] x.failure = NoFailure /\ y.failure # NoFailure -> [x EXCEPT !.failure = y.failure]
    [] OTHER -> [x EXCEPT !.expected = @ \cup y.expected, !.received = y.received]
Merge(x, y) ==
  CASE x = NoErr /\ y = NoErr -> NoErr
    [] x # NoErr /\ (y = NoErr \/ y.state.pos < x.state.pos) -> Alone(x)
    [] y # NoErr /\ (x = NoErr \/ x.state.pos < y.state.pos) -> Alone(y)
    [] OTHER -> Both(x, y)

(* mpc_err_many1 and mpc_err_count; a failure that expects nothing is      *)
(* given an empty text.                                                    *)
Repeat(e, prefix) ==
  IF e = NoErr THEN NoErr
  ELSE [e EXCEPT !.expected = {IF @ = {} THEN Label("") ELSE <<prefix, @>>}]

------------------------------------------------------------------------------
(* Values: folds, applications and destructors                             *)

FreeAll(s, bs) ==
  LET upto[n \in 0 .. Len(bs)] == IF n = 0 THEN s ELSE Free(upto[n - 1], bs[n])
  IN  upto[Len(bs)]
ExportAll(s, bs) ==
  LET upto[n \in 0 .. Len(bs)] == IF n = 0 THEN s ELSE Export(upto[n - 1], bs[n])
  IN  upto[Len(bs)]

(* mpc_parse_fold: mpcf_fst_free, mpcf_strfold, and one mpc does not know, *)
(* which is given heap memory and makes one value of several.  mpcf_strfold*)
(* would die of a null value; here it adds nothing.                        *)
Folded(s, fold, outs) ==
  LET given == [s |-> s, out |-> IF outs = <<>> THEN 0 ELSE outs[1]]
      exported == ExportAll(s, outs)
      made(t) == [s |-> t, out |-> NewBlock(t)]
  IN  CASE fold = "first" -> [given EXCEPT !.s = FreeAll(s, Tail(outs))]
        [] fold = "join" /\ outs = <<>> -> made(Malloc(s, 1))
        [] fold = "join" /\ outs # <<>> ->
             [given EXCEPT !.s = FreeAll(Realloc(s, outs[1], Len(outs)), Tail(outs))]
        [] fold = "tree" /\ Len(outs) < 2 -> [given EXCEPT !.s = exported]
        [] fold = "tree" /\ Len(outs) >= 2 -> made(HeapBlock(FreeAll(exported, outs)))

(* The constructors of mpc_not, mpc_maybe and mpc_lift.                    *)
Constructed(s, lf) ==
  IF lf = "null" THEN [s |-> s, out |-> 0]
  ELSE [s |-> HeapBlock(s), out |-> NewBlock(HeapBlock(s))]

------------------------------------------------------------------------------
(* Calls *)

NoReturn == [none |-> TRUE]
Fresh(n) == [p |-> n, j |-> 0, outs |-> <<>>, array |-> 0, from |-> input.state]
Top == Last(stack)
Running == status = "run" /\ stack # <<>>
Starts(types) == Running /\ ret = NoReturn /\ Type(Top.p) \in types
Resumes(types) == Running /\ ret # NoReturn /\ Type(Top.p) \in types

Succeed(out) ==
  stack' = Front(stack) /\ ret' = [ok |-> TRUE, out |-> out, err |-> NoErr]
Fail(e) ==
  stack' = Front(stack) /\ ret' = [ok |-> FALSE, out |-> 0, err |-> e]
FailWith(e) ==
  /\ Fail(e)
  /\ furthest' = IF e = NoErr \/ e.state.pos < furthest THEN furthest ELSE e.state.pos

(* The top call, now `frame`, calls itself for the j-th kid.               *)
Descend(frame, j) ==
  IF Len(stack) < MaxDepth
    THEN /\ stack' = Front(stack) \o <<frame, Fresh(Kids(frame.p)[j])>>
         /\ ret' = NoReturn
         /\ UNCHANGED status
    ELSE status' = "overflow" /\ UNCHANGED <<stack, ret>>

(* Mutant: one result more than the stack has room for.                    *)
WithArrayLate(s, frame, n) ==
  IF n > StackMin + 1 THEN [s |-> Malloc(s, n), f |-> [frame EXCEPT !.array = NewBlock(Malloc(s, n))]]
  ELSE [s |-> s, f |-> frame]

(* Results move to memory of their own when there are more than StackMin.  *)
WithArray(s, frame, n) ==
  IF n > StackMin THEN [s |-> Malloc(s, n), f |-> [frame EXCEPT !.array = NewBlock(Malloc(s, n))]]
  ELSE [s |-> s, f |-> frame]
------------------------------------------------------------------------------
(* Parsers that call no other *)

Chars ==
  /\ Starts({"chars"})
  /\ LET t == Take(input, Arg(Top.p))
     IN  /\ input' = t.i
         /\ store' = IF t.ok THEN Malloc(store, 1) ELSE store
         /\ IF t.ok THEN Succeed(NewBlock(store')) ELSE Fail(NoErr)
  /\ UNCHANGED <<prog, err, status, furthest>>

Word ==
  /\ Starts({"word"})
  /\ LET t == TakeAll(input, Arg(Top.p))
     IN  /\ input' = t.i
         /\ store' = IF t.ok THEN Malloc(store, 1) ELSE store
         /\ IF t.ok THEN Succeed(NewBlock(store')) ELSE Fail(NoErr)
  /\ UNCHANGED <<prog, err, status, furthest>>

AnchorHere ==
  /\ Starts({"anchor"})
  /\ LET t == Anchor(input, Arg(Top.p))
     IN  /\ input' = t.i
         /\ IF t.ok THEN Succeed(0) ELSE Fail(NoErr)
  /\ UNCHANGED <<prog, store, err, status, furthest>>

Pass ==
  /\ Starts({"pass"}) /\ Succeed(0)
  /\ UNCHANGED <<prog, input, store, err, status, furthest>>

(* A lifted value is the same block every time, and the parser's.          *)
Lifted == 1
LiftVal ==
  /\ Starts({"liftval"}) /\ Succeed(Lifted)
  /\ UNCHANGED <<prog, input, store, err, status, furthest>>

Lift ==
  /\ Starts({"lift"})
  /\ store' = HeapBlock(store) /\ Succeed(NewBlock(store'))
  /\ UNCHANGED <<prog, input, err, status, furthest>>

StateCopy ==
  /\ Starts({"state"})
  /\ store' = Malloc(store, 2) /\ Succeed(NewBlock(store'))
  /\ UNCHANGED <<prog, input, err, status, furthest>>

Failing ==
  /\ Starts({"fail", "undefined"})
  /\ FailWith(ErrFail(input, Type(Top.p)))
  /\ UNCHANGED <<prog, input, store, err, status>>

------------------------------------------------------------------------------
(* Parsers of one parser *)

Enter ==
  /\ Starts({"apply", "check", "maybe", "many", "many1"})
  /\ Descend(Top, 1)
  /\ UNCHANGED <<prog, input, store, err, furthest>>

EnterExpect ==
  /\ Starts({"expect"})
  /\ input' = Suppress(input) /\ Descend(Top, 1)
  /\ UNCHANGED <<prog, store, err, furthest>>

EnterPredict ==
  /\ Starts({"predict"})
  /\ input' = Disable(input) /\ Descend(Top, 1)
  /\ UNCHANGED <<prog, store, err, furthest>>

EnterNot ==
  /\ Starts({"not"})
  /\ input' = Suppress(Mark(input)) /\ Descend(Top, 1)
  /\ UNCHANGED <<prog, store, err, furthest>>

Apply ==
  /\ Resumes({"apply"})
  /\ \/ /\ ret.ok /\ Arg(Top.p) = "free"
        /\ store' = Free(store, ret.out) /\ Succeed(0)
     \/ /\ ret.ok /\ Arg(Top.p) = "to"
        /\ store' = Export(store, ret.out) /\ Succeed(ret.out)
     \/ ~ret.ok /\ Fail(ret.err) /\ UNCHANGED store
  /\ UNCHANGED <<prog, input, err, status, furthest>>

(* A value that fails the check is dropped, not destroyed.                 *)
Check ==
  /\ Resumes({"check"})
  /\ \/ ret.ok /\ Arg(Top.p) /\ Succeed(ret.out) /\ UNCHANGED furthest
     \/ ret.ok /\ ~Arg(Top.p) /\ FailWith(ErrFail(input, "check"))
     \/ ~ret.ok /\ Fail(ret.err) /\ UNCHANGED furthest
  /\ UNCHANGED <<prog, input, store, err, status>>

Expect ==
  /\ Resumes({"expect"})
  /\ LET i == Unsuppress(input)
     IN  \/ ret.ok /\ input' = i /\ Succeed(ret.out) /\ UNCHANGED furthest
         \/ /\ ~ret.ok
            /\ FailWith(ErrNew(i, Arg(Top.p)))
            /\ input' = IF i.suppress > 0 THEN i ELSE Peekc(i).i
  /\ UNCHANGED <<prog, store, err, status>>

Predict ==
  /\ Resumes({"predict"})
  /\ input' = Enable(input)
  /\ IF ret.ok THEN Succeed(ret.out) ELSE Fail(ret.err)
  /\ UNCHANGED <<prog, store, err, status, furthest>>

Not ==
  /\ Resumes({"not"})
  /\ \/ /\ ret.ok
        /\ LET i == Unsuppress(Rewind(input))
           IN  /\ FailWith(ErrNew(i, "opposite"))
               /\ input' = IF i.suppress > 0 THEN i ELSE Peekc(i).i
        /\ store' = Free(store, ret.out)
     \/ /\ ~ret.ok
        /\ input' = Unsuppress(Unmark(input))
        /\ LET made == Constructed(store, Arg(Top.p))
           IN  store' = made.s /\ Succeed(made.out)
        /\ UNCHANGED furthest
  /\ UNCHANGED <<prog, err, status>>

Maybe ==
  /\ Resumes({"maybe"})
  /\ \/ ret.ok /\ Succeed(ret.out) /\ UNCHANGED <<store, err>>
     \/ /\ ~ret.ok
        /\ err' = Merge(err, ret.err)
        /\ LET made == Constructed(store, Arg(Top.p))
           IN  store' = made.s /\ Succeed(made.out)
  /\ UNCHANGED <<prog, input, status, furthest>>

------------------------------------------------------------------------------
(* Repetition *)

(* Room for result j, counted from 0, in `slots` = j + j / 2 as of the     *)
(* last time it grew.                                                      *)
SlotsAt(j) ==
  LET slots[k \in 0 .. j] ==
        IF k < StackMin THEN StackMin
        ELSE IF k = StackMin \/ k >= slots[k - 1] THEN k + k \div 2 ELSE slots[k - 1]
  IN  slots[j]

ManyMore ==
  /\ Resumes({"many", "many1"}) /\ ret.ok
  /\ LET j == Top.j + 1
         kept == [Top EXCEPT !.j = j, !.outs = Append(@, ret.out)]
         grows == j > StackMin /\ SlotsAt(j) > SlotsAt(j - 1)
     IN  /\ IF j > MaxResults THEN status' = "exhausted" /\ UNCHANGED <<stack, ret, store>>
            ELSE IF j = StackMin
              THEN LET s == Malloc(store, SlotsAt(j))
                   IN  store' = s /\ Descend([kept EXCEPT !.array = NewBlock(s)], 1)
              ELSE /\ store' = IF grows THEN Realloc(store, Top.array, SlotsAt(j)) ELSE store
                   /\ Descend(kept, 1)
  /\ UNCHANGED <<prog, input, err, furthest>>

ManyEnd ==
  /\ Resumes({"many", "many1"}) /\ ~ret.ok
  /\ \/ /\ Type(Top.p) = "many1" /\ Top.j = 0
        /\ Fail(Repeat(ret.err, "oneOrMore"))
        /\ UNCHANGED <<store, err>>
     \/ /\ Type(Top.p) = "many" \/ Top.j > 0
        /\ err' = Merge(err, ret.err)
        /\ LET made == Folded(store, Arg(Top.p), Top.outs)
           IN  store' = Free(made.s, Top.array) /\ Succeed(made.out)
  /\ UNCHANGED <<prog, input, status, furthest>>

EnterCount ==
  /\ Starts({"count"})
  /\ LET with == WithArray(store, Top, Arg(Top.p).n)
     IN  store' = with.s /\ Descend(with.f, 1)
  /\ UNCHANGED <<prog, input, err, furthest>>

(* The count is compared after each result: of none, it is never reached,  *)
(* and the results run over the end of the array on the stack.             *)
CountMore ==
  /\ Resumes({"count"}) /\ ret.ok
  /\ LET j == Top.j + 1
         kept == [Top EXCEPT !.j = j, !.outs = Append(@, ret.out)]
         made == Folded(store, Arg(Top.p).fold, kept.outs)
     IN  \/ j = Arg(Top.p).n /\ store' = Free(made.s, Top.array) /\ Succeed(made.out)
                             /\ UNCHANGED status
         \/ /\ j # Arg(Top.p).n
            /\ IF Top.array = 0 /\ j = StackMin
                 THEN status' = "smashed" /\ UNCHANGED <<stack, ret>>
                 ELSE Descend(kept, 1)
            /\ UNCHANGED store
  /\ UNCHANGED <<prog, input, err, furthest>>

CountEnd ==
  /\ Resumes({"count"}) /\ ~ret.ok
  /\ \/ /\ Top.j = Arg(Top.p).n
        /\ LET made == Folded(store, Arg(Top.p).fold, <<>>)
           IN  store' = Free(made.s, Top.array) /\ Succeed(made.out)
     \/ /\ Top.j # Arg(Top.p).n
        /\ store' = Free(FreeAll(store, Top.outs), Top.array)
        /\ Fail(Repeat(ret.err, "countOf"))
  /\ UNCHANGED <<prog, input, err, status, furthest>>

------------------------------------------------------------------------------
(* Choice and sequence *)

OfNone ==
  /\ Starts({"or", "and"}) /\ Kids(Top.p) = <<>>
  /\ Succeed(0)
  /\ UNCHANGED <<prog, input, store, err, status, furthest>>

EnterSeveral ==
  /\ Starts({"or", "and"}) /\ Kids(Top.p) # <<>>
  /\ input' = IF Type(Top.p) = "and" THEN Mark(input) ELSE input
  /\ LET with == WithArray(store, Top, Len(Kids(Top.p)))
     IN  store' = with.s /\ Descend(with.f, 1)
  /\ UNCHANGED <<prog, err, furthest>>

OrTaken ==
  /\ Resumes({"or"}) /\ ret.ok
  /\ store' = Free(store, Top.array) /\ Succeed(ret.out)
  /\ UNCHANGED <<prog, input, err, status, furthest>>

OrNext ==
  /\ Resumes({"or"}) /\ ~ret.ok
  /\ err' = Merge(err, ret.err)
  /\ \/ /\ Top.j + 1 < Len(Kids(Top.p))
        /\ Descend([Top EXCEPT !.j = @ + 1], Top.j + 2)
        /\ UNCHANGED store
     \/ /\ Top.j + 1 = Len(Kids(Top.p))
        /\ store' = Free(store, Top.array) /\ Fail(NoErr)
        /\ UNCHANGED status
  /\ UNCHANGED <<prog, input, furthest>>

AndNext ==
  /\ Resumes({"and"}) /\ ret.ok
  /\ LET kept == [Top EXCEPT !.j = @ + 1, !.outs = Append(@, ret.out)]
         made == Folded(store, Arg(Top.p), kept.outs)
     IN  \/ /\ kept.j < Len(Kids(Top.p))
            /\ Descend(kept, kept.j + 1)
            /\ UNCHANGED <<input, store>>
         \/ /\ kept.j = Len(Kids(Top.p))
            /\ input' = Unmark(input)
            /\ store' = Free(made.s, Top.array) /\ Succeed(made.out)
            /\ UNCHANGED status
  /\ UNCHANGED <<prog, err, furthest>>

AndFail ==
  /\ Resumes({"and"}) /\ ~ret.ok
  /\ input' = Rewind(input)
  /\ store' = Free(FreeAll(store, Top.outs), Top.array)
  /\ Fail(ret.err)
  /\ UNCHANGED <<prog, err, status, furthest>>

------------------------------------------------------------------------------
(* mpc_parse_input *)

Unknown == [state |-> Nowhere, expected |-> {}, failure |-> "unknown", received |-> Unread]

ParseEnd ==
  /\ status = "run" /\ stack = <<>>
  /\ \/ ret.ok /\ status' = "done" /\ store' = Export(store, ret.out) /\ UNCHANGED ret
     \/ /\ ~ret.ok /\ status' = "failed"
        /\ ret' = [ret EXCEPT !.err = Merge(err, @)] /\ UNCHANGED store
  /\ UNCHANGED <<prog, input, stack, err, furthest>>

Ended == status # "run" /\ UNCHANGED vars

Init ==
  /\ prog \in Grammars
  /\ \E kind \in InputKinds, text \in Texts : input = New(kind, text)
  /\ store = IF \E n \in Node : Type(n) = "liftval" THEN HeapBlock(NewStore) ELSE NewStore
  /\ stack = <<Fresh(Root)>>
  /\ ret = NoReturn
  /\ err = Unknown
  /\ status = "run"
  /\ furthest = -1

Next ==
  \/ Chars \/ Word \/ AnchorHere \/ Pass \/ LiftVal \/ Lift \/ StateCopy \/ Failing
  \/ Enter \/ EnterExpect \/ EnterPredict \/ EnterNot
  \/ Apply \/ Check \/ Expect \/ Predict \/ Not \/ Maybe
  \/ ManyMore \/ ManyEnd \/ EnterCount \/ CountMore \/ CountEnd
  \/ OfNone \/ EnterSeveral \/ OrTaken \/ OrNext \/ AndNext \/ AndFail
  \/ ParseEnd \/ Ended

Spec == Init /\ [][Next]_vars
==============================================================================
