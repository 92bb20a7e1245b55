----------------------------- MODULE LoweringInv -----------------------------
(***************************************************************************)
(* The inductive invariants behind the theorems of LoweringProofs: which   *)
(* blocks each variable and each active call may name, what a call may     *)
(* rely on when the call it made returns, where the blocks are, and what   *)
(* has compiled.                                                           *)
(***************************************************************************)
EXTENDS LoweringSupport

Made == 1..Len(blocks)
Jumpable == 2..Len(blocks)            \* all blocks but the entry

TreeOK ==
  /\ prog \in [Node -> Tree]
  /\ decl \in Nat \cup {Deduced}
  /\ \A n \in Node : WellFormedNode(prog[n])

BlocksOK ==
  /\ Linked(blocks)
  /\ blocks # <<>>
  /\ blocks[1].name = "entry"
  /\ blocks[1].preds = <<>>

LayoutOK ==
  /\ layout \in Seq(Made)
  /\ layout # <<>>
  /\ layout[1] = 1

IpOK ==
  /\ ip \in InsertPoint
  /\ ip.at \in Made
  /\ ip.back => blocks[ip.at].insts # <<>>

(* The blocks a loop moves or creates blocks in front of stay in place.    *)
Standing == ToSet(layout) \ {1}

HeldOK ==
  /\ held \in [Node -> [a : Nat, b : Nat]]
  /\ \A n \in Node :
       /\ held[n].a <= Len(blocks) /\ held[n].b <= Len(blocks)
       /\ prog[n].kind = "while" /\ held[n].a # 0 => held[n].a \in Standing

DeferralsOK ==
  /\ deferrals \in [Node -> Seq(Deferral)]
  /\ \A n \in Node : \A i \in 1..Len(deferrals[n]) :
       /\ deferrals[n][i].at \in Made
       /\ deferrals[n][i].stmt \in lowered
       /\ prog[deferrals[n][i].stmt].kind = "defer"

(* Once a statement has been lowered its scope can be ended: the members   *)
(* that reads are set, and what it contains has been lowered too.          *)
Ready(n, S) ==
  /\ prog[n].kind = "body" =>
       \A j \in 1..Len(prog[n].kids) : prog[n].kids[j] \in S
  /\ prog[n].kind \in {"if", "while", "for"} => prog[n].kids[1] \in S
  /\ prog[n].kind \in {"if", "while"} => held[n].a # 0
  /\ prog[n].kind = "if" /\ Len(prog[n].kids) = 2 =>
       held[n].b # 0 /\ prog[n].kids[2] \in S

LoweredOK ==
  /\ lowered \in SUBSET Node
  /\ \A n \in lowered : Ready(n, lowered)

(* What an active call knows, when the statements in S have been lowered.  *)
CodegenOK(f, S) ==
  LET t == prog[f.n]
  IN  /\ t.kind = "body" =>
           f.i <= Len(t.kids) /\ \A j \in 1..f.i : t.kids[j] \in S
      /\ t.kind = "if" /\ f.pc # 0 =>
           f.x \in Jumpable /\ f.y \in Jumpable /\ t.kids[1] \in S
      /\ t.kind = "if" /\ f.pc = 2 =>
           Len(t.kids) = 2 /\ held[f.n].a # 0 /\ t.kids[2] \in S
      /\ t.kind = "while" /\ f.pc # 0 =>
           /\ f.x \in Jumpable /\ f.y \in Standing
           /\ held[f.n].a # 0 /\ t.kids[1] \in S
      /\ t.kind = "for" /\ f.pc # 0 =>
           f.x \in Jumpable /\ f.y \in Jumpable /\ t.kids[1] \in S
      /\ t.kind = "match" /\ f.pc # 0 =>
           f.x \in Jumpable /\ f.y \in Standing /\ Len(f.todo) = 1
      /\ t.kind = "match" /\ f.pc \in {2, 3} =>
           f.i \in 1..Len(t.kids) /\ t.kids[f.i] \in S
      /\ t.kind = "typeswitch" /\ f.pc # 0 => t.arg # 0 /\ t.kids[t.arg] \in S

ExitOK(f, S) ==
  LET t == prog[f.n]
  IN  /\ t.kind = "if" /\ f.pc # 0 => Len(t.kids) = 2
      /\ t.kind = "body" /\ f.pc # 0 => f.x \in Made
      /\ t.kind = "defer" /\ f.pc # 0 => t.kids[1] \in S

FrameOK(f, S) ==
  /\ f.todo \in Seq(Made)
  /\ f.act = "build" /\ f.pc # 0 => f.n \in S
  /\ f.act = "codegen" => CodegenOK(f, S)
  /\ f.act = "exit" => f.n \in lowered /\ ExitOK(f, S)
  /\ f.act = "apply" =>
       /\ f.n \in lowered /\ prog[f.n].kind = "defer"
       /\ f.x \in Made /\ f.y \in Made

(* A call may count on what it called having been lowered when it returns. *)
Promised(k) ==
  IF k < Len(stack) THEN lowered \cup {stack[k + 1].n} ELSE lowered

StackOK ==
  /\ stack \in Seq(Frame)
  /\ \A k \in 1..Len(stack) : FrameOK(stack[k], Promised(k))

IInv ==
  /\ TreeOK /\ BlocksOK /\ LayoutOK /\ IpOK
  /\ HeldOK /\ DeferralsOK /\ LoweredOK /\ StackOK
  /\ status \in Statuses

------------------------------------------------------------------------------
(* Where the blocks are *)

(* The blocks a call has created and not yet inserted in the function: an  *)
(* If keeps "else" and "cont" outside until the branch before them is done. *)
Waits(p, f) ==
  IF f.act = "codegen" /\ p[f.n].kind = "if" /\ f.pc # 0
  THEN IF f.pc = 1 THEN {f.x, f.y} ELSE {f.y}
  ELSE {}

(* Those of an If are two while it has an else to place.  buildFunction is *)
(* the outermost call.                                                     *)
Orderly(p, f, k) ==
  /\ Waits(p, f) # {} /\ f.pc = 1 => (Len(p[f.n].kids) = 2 <=> f.x # f.y)
  /\ f.act = "build" => k = 1

(* Each block is in one place: once in the function, or with one call.     *)
Distinct(s) == \A i, j \in 1..Len(s) : s[i] = s[j] => i = j

Waiting(k) == Waits(prog, stack[k])
Placement ==
  /\ Distinct(layout)
  /\ \A k \in 1..Len(stack) : Waiting(k) \cap ToSet(layout) = {}
  /\ \A k, l \in 1..Len(stack) : k # l => Waiting(k) \cap Waiting(l) = {}
  /\ \A b \in Made :
       b \in ToSet(layout) \/ \E k \in 1..Len(stack) : b \in Waiting(k)
  /\ \A k \in 1..Len(stack) : Orderly(prog, stack[k], k)
  /\ status = "done" => Made \subseteq ToSet(layout)

------------------------------------------------------------------------------
(* What has compiled *)

(* All that is lowered with statement n compiles.                          *)
Right(p, n) == \A m \in CompiledIn(p)[n] : p[m].ok /\ p[m].kind # "forin"

(* A statement whose codegen has returned: its own expressions compile,    *)
(* and what is in it unless its scope is still to be ended.  The tags of a *)
(* body are looked at when its scope ends.                                 *)
Passed(p, n) ==
  LET t == p[n]
  IN  /\ t.kind # "forin" /\ (t.kind # "body" => t.ok)
      /\ t.kind \in {"match", "typeswitch"} => \A k \in Parts(t) : Right(p, k)

(* What a call has seen compile, when those it made have returned.         *)
Seen(p, f) ==
  LET t == p[f.n]
      upto(i) == \A j \in 1..i : Right(p, t.kids[j])
  IN  /\ f.act = "codegen" /\ t.kind \in {"if", "while", "for", "match", "typeswitch"} /\ f.pc # 0 =>
           t.ok
      /\ f.act = "codegen" /\ t.kind = "match" =>
           /\ f.pc \in {0, 1, 3} => upto(f.i)
           /\ f.pc = 2 => upto(f.i - 1)
      /\ f.act = "codegen" /\ t.kind = "typeswitch" /\ f.pc = 2 => \A k \in Parts(t) : Right(p, k)
      /\ f.act = "exit" /\ t.kind = "body" =>
           /\ f.pc = 0 => f.i = 0
           /\ f.pc = 1 => upto(f.i)
           /\ f.pc = 2 => upto(Len(t.kids))
      /\ f.act = "exit" /\ t.kind = "if" /\ f.pc = 1 => upto(1)
      /\ f.act = "build" => f.n = Root /\ (f.pc = 2 => Right(p, Root))

(* A call that ends a scope returns only if all in it compiles.            *)
Returning(p, s, k) == k < Len(s) /\ s[k + 1].act = "exit" => Right(p, s[k + 1].n)

Rightness ==
  /\ \A n \in lowered : Passed(prog, n)
  /\ \A k \in 1..Len(stack) : Returning(prog, stack, k) => Seen(prog, stack[k])
  /\ OnlyRightIsLowered

------------------------------------------------------------------------------
(* How the blocks of a supported function end *)

(* A block that no instruction has ended, one that has instructions, and   *)
(* one that returns.                                                       *)
Open(bs, b) == \A i \in 1..Len(bs[b].insts) : ~IsTerminator(bs[b].insts[i])
Filled(bs, b) == bs[b].insts # <<>>
ReturnsIn(bs, b) == Filled(bs, b) /\ bs[b].insts[Len(bs[b].insts)].op = "ret"

(* What holds of all of a supported function holds of each statement in    *)
(* it.  Bodies that remember defers are not parts of other bodies.         *)
Fine(p, n) ==
  /\ \A m \in Within(p)[n] : SupportedStmt(p, m)
  /\ Has(p, n, {"defer"}) => NoBareBody(p, n)
NoJump(p, n) == \A m \in OutsideLoops(p)[n] : p[m].kind \notin Jumps

Coding(f) == f.act = "codegen"
Unwinding(f) == f.act \in {"exit", "apply"}
Doing(p, f, kinds) == Coding(f) /\ p[f.n].kind \in kinds /\ f.pc # 0
InArm(p, f) == Doing(p, f, {"for", "match", "typeswitch"})
Iterates(p, f) == Doing(p, f, Loops)

(* The statement a call of codegen is lowering, or has lowered last, once  *)
(* there is one.                                                           *)
Callee(p, f) ==
  LET t == p[f.n]
  IN  CASE t.kind \in {"body", "match"} -> t.kids[f.i]
        [] t.kind = "if" -> t.kids[f.pc]
        [] t.kind = "typeswitch" -> t.kids[t.arg]
        [] OTHER -> t.kids[1]
Busy(p, f) ==
  \/ p[f.n].kind = "body" /\ f.i # 0
  \/ p[f.n].kind \in {"if", "while", "for", "typeswitch"} /\ f.pc # 0
  \/ p[f.n].kind = "match" /\ f.pc \in {2, 3}

(* The empty blocks a call has created and will move the builder to.       *)
Pending(p, f) ==
  CASE Doing(p, f, {"if"}) -> IF f.pc = 1 THEN {f.x, f.y} ELSE {f.y}
    [] Doing(p, f, {"while"}) -> {f.x + 1, f.y}
    [] Doing(p, f, {"for"}) -> {f.y}
    [] Doing(p, f, {"match"}) -> IF f.i < Len(p[f.n].kids) THEN {f.x, f.y} ELSE {f.y}
    [] OTHER -> {}

(* Which call f a call g makes.                                            *)
Calls(p, g, f) ==
  \/ g.act = "build" /\ g.pc = 1 /\ Coding(f) /\ f.n = g.n
  \/ g.act = "build" /\ g.pc = 2 /\ f.act = "exit"
  \/ /\ Coding(g) /\ Coding(f) /\ Busy(p, g) /\ f.n = Callee(p, g)
     /\ p[g.n].kind = "match" => g.pc = 2
     /\ p[g.n].kind = "typeswitch" => g.pc = 1
  \/ /\ Coding(g) /\ f.act = "exit"
     /\ \/ p[g.n].kind = "match" /\ g.pc = 3
        \/ p[g.n].kind = "typeswitch" /\ g.pc = 2
  \/ Unwinding(g) /\ Unwinding(f)
  \/ /\ g.act = "exit" /\ p[g.n].kind = "defer" /\ g.pc = 1
     /\ Coding(f) /\ f.n = p[g.n].kids[1]

(* The scope of the whole body is being ended: only defers are lowered,    *)
(* or that of some statement is.                                           *)
Closing(s) == s[1].pc = 2
Final == Closing(stack)
Caller == stack[Len(stack) - 1]
Ending == Unwinding(Top) \/ (Len(stack) > 1 /\ Unwinding(Caller))

(* Which statements the active calls are about.                            *)
Chain(p, s) ==
  /\ s # <<>> /\ s[1].act = "build" /\ s[1].n = Root
  /\ \A k \in 1..Len(s) : Fine(p, s[k].n)
  /\ \A k \in 2..Len(s) : Calls(p, s[k-1], s[k])
  /\ \A k, l \in 1..Len(s) : k < l =>
       /\ s[k].n <= s[l].n
       /\ Coding(s[k]) /\ Coding(s[l]) => s[k].n < s[l].n
       /\ InArm(p, s[k]) => StraightLine(p, s[l].n)
  /\ \A l \in 1..Len(s) : Unwinding(s[l]) /\ ~Closing(s) => StraightLine(p, s[l].n)
  /\ \A l \in 1..Len(s) :
       Coding(s[l]) /\ (Closing(s) \/ \E k \in 1..l-1 : Unwinding(s[k])) => p[s[l].n].kind = "expr"
  /\ \A l \in 1..Len(s) :
       (\A k \in 1..l-1 : ~Iterates(p, s[k])) => Unwinding(s[l]) \/ NoJump(p, s[l].n)

(* While the body is being lowered the only blocks that do not end are the *)
(* builder's and those its calls will move it to; in the end, only the     *)
(* last one, if it does not return.                                        *)
PendingAt(k) == Pending(prog, stack[k])
LastBlock == layout[Len(layout)]
Complete(b) == EndsOnce(blocks, b)
Blocks ==
  /\ \A b \in Made : Open(blocks, b) \/ Complete(b)
  /\ \A k \in 1..Len(stack) : \A b \in PendingAt(k) : Open(blocks, b) /\ b # ip.at
  /\ \A k, l \in 1..Len(stack) : k # l => PendingAt(k) \cap PendingAt(l) = {}
  /\ ip.back => Complete(ip.at)
  /\ ~Final => \A b \in Made :
       b = ip.at \/ Complete(b) \/ \E k \in 1..Len(stack) : b \in PendingAt(k)
  /\ Final => /\ \A b \in Made : b = LastBlock \/ Complete(b)
              /\ Open(blocks, LastBlock) \/ ReturnsIn(blocks, LastBlock)

(* What a call finds in the builder's block, once what it called has       *)
(* returned.                                                               *)
LeftBy(n) ==
  /\ Open(blocks, ip.at) \/ Leaves(prog)[n]
  /\ EndsFilled(prog)[n] => Filled(blocks, ip.at)
FillsBy(p, kids, i) ==
  \E j \in 1..i : /\ EndsFilled(p)[kids[j]]
                  /\ \A m \in j+1..i : p[kids[m]].kind \in {"nop", "defer"}
FilledUpto(f) == FillsBy(prog, prog[f.n].kids, f.i) => Filled(blocks, ip.at)
Finds(f) ==
  /\ Busy(prog, f) => LeftBy(Callee(prog, f))
  /\ ~Busy(prog, f) => IF prog[f.n].kind = "match" /\ f.pc = 1 THEN Complete(ip.at)
                                                              ELSE Open(blocks, ip.at)
  /\ prog[f.n].kind = "body" => FilledUpto(f)
  /\ prog[f.n].kind = "match" /\ f.pc = 0 => f.i = 0

(* A call that ends the scope of what it has lowered still finds it so.    *)
Awaits(f) ==
  \/ Doing(prog, f, {"match"}) /\ f.pc = 3
  \/ Doing(prog, f, {"typeswitch"}) /\ f.pc = 2

Found ==
  /\ Coding(Top) /\ ~Ending => Finds(Top)
  /\ /\ Coding(Top) /\ Me.kind \in {"nop", "defer"}
     /\ Len(stack) > 1 /\ Coding(Caller) /\ prog[Caller.n].kind = "body"
     => FilledUpto(Caller)
  /\ \A k \in 1..Len(stack) : Awaits(stack[k]) => LeftBy(Callee(prog, stack[k]))
  /\ Coding(Top) /\ Ending => Me.kind = "expr" /\ (Complete(ip.at) => ip.back)
  /\ stack[1].pc = 0 => Open(blocks, ip.at)
  /\ ~Final /\ Complete(ip.at) /\ (\A k \in 1..Len(stack) : ~Iterates(prog, stack[k])) =>
       ReturnsIn(blocks, ip.at) \/ (Doing(prog, Top, {"match"}) /\ Top.pc = 1)

(* Where the builder's block is in the function: behind it there are only  *)
(* the blocks of the innermost while.  The end of a for or a match is      *)
(* last.                                                                   *)
Behind(s, b) == {s[j] : j \in {k \in 1..Len(s) : \E i \in 1..k-1 : s[i] = b}}
Newest(p, s, k) ==
  /\ Doing(p, s[k], {"while"})
  /\ \A l \in k+1..Len(s) : ~Doing(p, s[l], {"while"})
Order ==
  /\ \A k \in 1..Len(stack) : Doing(prog, stack[k], {"while"}) =>
       stack[k].y = stack[k].x + 2 /\ held[stack[k].n].a = stack[k].x + 1
  /\ \A k \in 1..Len(stack) : Doing(prog, stack[k], {"match"}) => stack[k].y = stack[k].x + 1
  /\ \A k \in 1..Len(stack) : Doing(prog, stack[k], {"for", "match"}) => stack[k].y = LastBlock
  /\ ~Final /\ (\A k \in 1..Len(stack) : ~Doing(prog, stack[k], {"for", "match"})) =>
       /\ ip.at \in ToSet(layout)
       /\ \A b \in Behind(layout, ip.at) :
            \E k \in 1..Len(stack) : Newest(prog, stack, k) /\ b \in PendingAt(k)

(* What has been started on: only the statements around it, and none of    *)
(* those that come later.                                                  *)
Begun == lowered \cup {stack[k].n : k \in {l \in 1..Len(stack) : Coding(stack[l])}}
Later(p, f, j) ==
  CASE p[f.n].kind \in {"body", "match"} -> j > f.i
    [] p[f.n].kind = "if" -> j > f.pc
    [] OTHER -> f.pc = 0
Starts ==
  /\ \A n \in Node : deferrals[n] # <<>> => n \in Begun
  /\ \A n \in Node : \A j \in 1..Len(prog[n].kids) : prog[n].kids[j] \in Begun \ {Root} => n \in Begun
  /\ \A k \in 1..Len(stack) : Coding(stack[k]) =>
       \A j \in 1..Len(prog[stack[k].n].kids) :
         Later(prog, stack[k], j) => prog[stack[k].n].kids[j] \notin Begun
  /\ stack[1].pc = 0 => Root \notin Begun

(* The defers of an arm have been reached in the builder's block, and are  *)
(* run in it.                                                              *)
AllAt(n, b) == \A i \in 1..Len(deferrals[n]) : deferrals[n][i].at = b
Here(f) ==
  /\ Doing(prog, f, {"match", "typeswitch"}) /\ Busy(prog, f) => AllAt(Callee(prog, f), ip.at)
  /\ f.act = "exit" /\ prog[f.n].kind = "body" =>
       AllAt(f.n, ip.at) /\ (f.pc # 0 => f.x = ip.at)
  /\ f.act = "apply" => f.x = ip.at /\ f.y = ip.at /\ f.pc = 0
Remembered ==
  /\ \A n \in Node : \A i \in 1..Len(deferrals[n]) :
       /\ deferrals[n][i].stmt \in ToSet(prog[n].kids)
       /\ Fine(prog, deferrals[n][i].stmt)
  /\ ~Final => \A k \in 1..Len(stack) : Here(stack[k])

Whole == Chain(prog, stack) /\ Blocks /\ Found /\ Order /\ Starts /\ Remembered
Wholeness == status = "run" /\ Supported(prog) => Whole
==============================================================================
