------------------------------- MODULE Lowering -------------------------------
(***************************************************************************)
(* How whack lowers one function body to LLVM basic blocks: buildFunction  *)
(* (ast/function.hpp) and the codegen/runScopeExit pair of every statement *)
(* that touches control flow.                                              *)
(*                                                                         *)
(* The C++ is recursive over the statement tree and, for defers and        *)
(* break/continue, over the control-flow graph it is building.  The call   *)
(* stack is the variable "stack", one record per active call, and a step   *)
(* is what a call does up to the next call it makes.                       *)
(***************************************************************************)
EXTENDS IRBuilder

CONSTANTS
  Node,      \* the statements of a function, numbered; the root is its body
  Root,
  Programs,  \* the statement trees considered, as tables over Node
  Decls,     \* the declared return types considered
  Deduced,   \* the declared type of a function without a return type
  MaxStack   \* how many nested calls the C++ stack holds

Kinds == {"expr", "nop", "body", "defer", "if", "while", "for", "forin",
          "match", "typeswitch", "return", "break", "continue"}

(* kids: the sub-statements.  ok: its own expressions, types and tags      *)
(* compile.  arg: the type a return yields (0: void), 1 when the last kid  *)
(* of a match is its default, the kid a typeswitch selects (0: none).      *)
Tree == [kind : Kinds, kids : Seq(Node), ok : BOOLEAN, arg : Nat]

Void == 0

(* How many sub-statements the grammar gives each kind, what arg may say   *)
(* of them, and which kinds have no expression of their own.               *)
WellFormedNode(t) ==
  /\ t.kind \in {"expr", "nop", "return", "break", "continue"} => t.kids = <<>>
  /\ t.kind \in {"nop", "defer", "break", "continue"} => t.ok
  /\ t.kind \in {"defer", "while", "for"} => Len(t.kids) = 1
  /\ t.kind = "if" => Len(t.kids) \in {1, 2}
  /\ t.kind = "typeswitch" => t.arg <= Len(t.kids)

(* Statements are the nodes of a tree, numbered from the outside inwards.  *)
IsTree(p) ==
  \A m \in Node : \A i \in 1..Len(p[m].kids) :
    /\ m < p[m].kids[i]
    /\ \A n \in Node : \A j \in 1..Len(p[n].kids) :
         p[m].kids[i] = p[n].kids[j] => m = n /\ i = j

ASSUME NodeAssumption == Node \subseteq Nat /\ 0 \notin Node /\ Root \in Node
ASSUME ProgramAssumption ==
  \A p \in Programs :
    /\ p \in [Node -> Tree]
    /\ \A n \in Node : WellFormedNode(p[n])
    /\ p[Root].kind = "body"
    /\ IsTree(p)
ASSUME DeclAssumption == Deduced \notin Nat /\ Decls \subseteq Nat \cup {Deduced}
ASSUME StackAssumption == MaxStack \in Nat \ {0}

VARIABLES
  prog,       \* the function's statements
  decl,       \* its return type
  blocks,     \* every basic block created, with its instructions
  layout,     \* the blocks inserted in the function, in order
  ip,         \* the builder's insertion point
  held,       \* If::thenBlock_/elseBlock_, While::deferBlock_ (in a)
  deferrals,  \* Body::deferrals_, the block and the Defer of each entry
  lowered,    \* history: the statements whose codegen has returned
  stack,      \* the active calls, outermost first
  status      \* "run", or how buildFunction ended

vars == <<prog, decl, blocks, layout, ip, held, deferrals, lowered, stack, status>>
code == <<blocks, layout, ip>>
tree == <<prog, decl>>
notes == <<held, deferrals, lowered>>

Statuses == {"run", "done", "error", "crash", "overflow"}
Acts == {"build", "codegen", "exit", "apply"}

(* x and y are the call's local blocks (0: unset), i the index of its loop *)
(* and todo the rest of a range it iterates over.                          *)
Frame == [act : Acts, n : Node, pc : Nat, i : Nat, x : Nat, y : Nat,
          todo : Seq(Nat)]
Deferral == [at : Nat, stmt : Node]

Enter(act, n) ==
  [act |-> act, n |-> n, pc |-> 0, i |-> 0, x |-> 0, y |-> 0, todo |-> <<>>]

(* applyDefer(current, block) for the Defer n.                             *)
ApplyDefer(n, current, block) ==
  [Enter("apply", n) EXCEPT !.x = current, !.y = block]

TypeOK ==
  /\ prog \in [Node -> Tree]
  /\ decl \in Nat \cup {Deduced}
  /\ blocks \in Seq(Block)
  /\ layout \in Seq(Nat)
  /\ ip \in InsertPoint
  /\ held \in [Node -> [a : Nat, b : Nat]]
  /\ deferrals \in [Node -> Seq(Deferral)]
  /\ lowered \in SUBSET Node
  /\ stack \in Seq(Frame)
  /\ status \in Statuses

------------------------------------------------------------------------------
(* Calls and returns. *)

Top == stack[Len(stack)]
Below == SubSeq(stack, 1, Len(stack) - 1)
Me == prog[Top.n]
Kid(k) == Me.kids[k]
Next1 == Len(blocks) + 1    \* the number of the next block created

InCall(act, kind, pc) ==
  /\ status = "run"
  /\ Len(stack) \in 1..(MaxStack - 1)
  /\ Top.act = act
  /\ Me.kind = kind
  /\ Top.pc = pc

(* The running call makes a call and goes on as "then" when that returns,  *)
(* goes on at once (or makes its last call), or returns.                   *)
Invoke(then, callee) == stack' = Below \o <<then, callee>>
Become(frame) == stack' = Append(Below, frame)
Return == stack' = Below

Going == status' = status
EndWith(s) == status' = s /\ stack' = stack

(* What else changes when only the stack does, or the stack and ip.        *)
StackOnly == Going /\ UNCHANGED <<tree, code, notes>>
AndIp == Going /\ UNCHANGED <<tree, blocks, layout, notes>>

(* codegen returns without an error.                                       *)
Lowered ==
  /\ Return /\ Going
  /\ lowered' = lowered \cup {Top.n}
  /\ UNCHANGED <<tree, deferrals>>

Fail == EndWith("error") /\ UNCHANGED <<tree, code, notes>>
Crash == EndWith("crash") /\ UNCHANGED <<tree, code, notes>>

(* The builder is in a block of the function.  It can be led out of it: a  *)
(* defer may be applied to a block that an If has not inserted yet.        *)
Inside == ip.at \in ToSet(layout)

(* Lowering an expression, or creating blocks, asks the current block for  *)
(* its function without a check.                                           *)
NeedsFunction ==
  \/ \E kind \in {"expr", "if", "forin", "match", "typeswitch"} :
       InCall("codegen", kind, 0)
  \/ \E kind \in {"while", "for"}, pc \in {0, 1} : InCall("codegen", kind, pc)
  \/ InCall("codegen", "return", 0) /\ Me.arg # Void

OutsideFunction == NeedsFunction /\ ~Inside /\ Crash

------------------------------------------------------------------------------
(* Statements that stay inside the current block. *)

(* An expression statement becomes one call instruction, a return its ret. *)
Emitted == IF Me.kind = "expr" THEN Call(Top.n) ELSE Ret(Top.n, Me.arg)
Straight ==
  /\ \E kind \in {"expr", "return"} : InCall("codegen", kind, 0)
  /\ Me.ok
  /\ NeedsFunction => Inside
  /\ blocks' = Emit(blocks, ip, Emitted)
  /\ Lowered
  /\ UNCHANGED <<layout, ip, held>>

(* A comment, or a match over data classes, emits nothing; neither does a  *)
(* Defer when it is reached.                                               *)
Silent ==
  /\ \E kind \in {"nop", "defer"} : InCall("codegen", kind, 0)
  /\ Lowered
  /\ UNCHANGED <<code, held>>

(* An expression that does not compile, and "for x in", which is not       *)
(* implemented.                                                            *)
Rejected ==
  /\ \/ \E kind \in {"expr", "return", "if", "match", "typeswitch"} :
          InCall("codegen", kind, 0) /\ ~Me.ok
     \/ InCall("codegen", "forin", 0)
  /\ NeedsFunction => Inside
  /\ Fail

------------------------------------------------------------------------------
(* Body::codegen: its statements in order; a Defer is remembered, newest   *)
(* first, with the block the builder was in when it was reached.           *)

Remember(entry, list) == <<entry>> \o list

BodyStmt ==
  /\ InCall("codegen", "body", 0)
  /\ Top.i < Len(Me.kids)
  /\ LET kid  == Kid(Top.i + 1)
         next == [Top EXCEPT !.i = @ + 1]
     IN IF prog[kid].kind = "defer"
        THEN /\ deferrals' = [deferrals EXCEPT ![Top.n] =
                                Remember([at |-> ip.at, stmt |-> kid], @)]
             /\ lowered' = lowered \cup {kid}
             /\ Become(next)
        ELSE Invoke(next, Enter("codegen", kid)) /\ UNCHANGED <<deferrals, lowered>>
  /\ Going
  /\ UNCHANGED <<tree, code, held>>

BodyEnd ==
  /\ InCall("codegen", "body", 0)
  /\ Top.i = Len(Me.kids)
  /\ Lowered
  /\ UNCHANGED <<code, held>>

------------------------------------------------------------------------------
(* If::codegen.  "then" joins the function at once; "else" and "cont" stay *)
(* outside it until the branch before them has been lowered.               *)

HasElse == Len(Me.kids) = 2

IfEnter ==
  /\ InCall("codegen", "if", 0)
  /\ Me.ok /\ Inside
  /\ LET then  == Next1
         other == Next1 + 1     \* "else", or "cont" when there is none
         cont  == IF HasElse THEN Next1 + 2 ELSE other
         new   == IF HasElse
                  THEN <<Fresh("then"), Fresh("else"), Fresh("cont")>>
                  ELSE <<Fresh("then"), Fresh("cont")>>
     IN /\ blocks' = Emit(blocks \o new, ip, CondBr(Top.n, then, other))
        /\ layout' = Append(layout, then)
        /\ ip' = AtEnd(then)
        /\ held' = [held EXCEPT ![Top.n].a = then]
        /\ Invoke([Top EXCEPT !.pc = 1, !.x = other, !.y = cont],
                  Enter("codegen", Kid(1)))
  /\ Going
  /\ UNCHANGED <<tree, deferrals, lowered>>

(* Mutant: the branch jumps on even where it has returned.                 *)
AlwaysFallThrough(cont) == blocks' = Emit(blocks, ip, Br(cont))

(* A branch that does not end in a terminator falls through to cont.       *)
FallThrough(cont) ==
  \E terminated \in BackIsTerminator(blocks, ip.at) :
    blocks' = IF terminated THEN blocks ELSE Emit(blocks, ip, Br(cont))

Place(b) == layout' = Append(layout, b) /\ ip' = AtEnd(b)

IfElse ==
  /\ InCall("codegen", "if", 1)
  /\ HasElse
  /\ held' = [held EXCEPT ![Top.n].a = ip.at, ![Top.n].b = Top.x]
  /\ FallThrough(Top.y)
  /\ Place(Top.x)
  /\ Invoke([Top EXCEPT !.pc = 2], Enter("codegen", Kid(2)))
  /\ Going
  /\ UNCHANGED <<tree, deferrals, lowered>>

IfJoin ==
  /\ \/ InCall("codegen", "if", 1) /\ ~HasElse
     \/ InCall("codegen", "if", 2)
  /\ held' = IF HasElse THEN [held EXCEPT ![Top.n].b = ip.at]
                        ELSE [held EXCEPT ![Top.n].a = ip.at]
  /\ FallThrough(Top.y)
  /\ Place(Top.y)
  /\ Lowered

------------------------------------------------------------------------------
(* While::codegen.  All three blocks join the function before the          *)
(* condition is compiled; at the end the last two are moved behind the     *)
(* block the loop body ended in.                                           *)

WhileEnter ==
  /\ InCall("codegen", "while", 0)
  /\ Inside
  /\ LET loop  == Next1
         defer == Next1 + 1
         cont  == Next1 + 2
         all   == blocks \o <<Fresh("while"), Fresh("deferBlock"), Fresh("cont")>>
     IN /\ layout' = layout \o <<loop, defer, cont>>
        /\ held' = [held EXCEPT ![Top.n].a = defer]
        /\ IF Me.ok
           THEN /\ blocks' = Emit(all, ip, CondBr(Top.n, loop, defer))
                /\ ip' = AtEnd(loop)
                /\ Invoke([Top EXCEPT !.pc = 1, !.x = loop, !.y = cont],
                          Enter("codegen", Kid(1)))
                /\ Going
           ELSE blocks' = all /\ EndWith("error") /\ UNCHANGED ip
  /\ UNCHANGED <<tree, deferrals, lowered>>

CopyBehind(defer, cont) == layout \o <<defer, cont>>    \* mutant: not moved
MoveBehind(defer, cont) ==
  MoveAfter(MoveAfter(layout, defer, ip.at), cont, defer)

WhileEnd ==
  /\ InCall("codegen", "while", 1)
  /\ Inside
  /\ LET defer == held[Top.n].a
     IN /\ blocks' = Emit(Emit(blocks, ip, CondBr(Top.n, Top.x, defer)),
                          AtEnd(defer), Br(Top.y))
        /\ layout' = MoveBehind(defer, Top.y)
  /\ ip' = AtEnd(Top.y)
  /\ Lowered
  /\ UNCHANGED held

(* For::codegen.  As a while without a block for defers, and whose "cont"  *)
(* stays where it was created.                                             *)
ForEnter ==
  /\ InCall("codegen", "for", 0)
  /\ Inside
  /\ LET loop == Next1
         cont == Next1 + 1
         all  == blocks \o <<Fresh("for"), Fresh("cont")>>
     IN /\ layout' = layout \o <<loop, cont>>
        /\ IF Me.ok
           THEN /\ blocks' = Emit(all, ip, CondBr(Top.n, loop, cont))
                /\ ip' = AtEnd(loop)
                /\ Invoke([Top EXCEPT !.pc = 1, !.x = loop, !.y = cont],
                          Enter("codegen", Kid(1)))
                /\ Going
           ELSE blocks' = all /\ EndWith("error") /\ UNCHANGED ip
  /\ UNCHANGED <<tree, notes>>

(* The steps, then the condition again, then the jump back.                *)
ForEnd ==
  /\ InCall("codegen", "for", 1)
  /\ Inside
  /\ blocks' = Emit(Emit(blocks, ip, Call(Top.n)), ip,
                    CondBr(Top.n, Top.x, Top.y))
  /\ ip' = AtEnd(Top.y)
  /\ Lowered
  /\ UNCHANGED <<layout, held>>

------------------------------------------------------------------------------
(* Match::exprMatch and TypeSwitch::codegen.  An arm's scope ends inside   *)
(* its codegen; "default" without a statement is left empty.               *)

(* The statements of statement n.                                          *)
Within(p) ==
  LET within[n \in Node] == {n} \cup UNION {within[k] : k \in ToSet(p[n].kids)}
  IN  within

(* exprMatch makes the arms' statements anew each time it runs (a deferred *)
(* match runs several times), without the defers they remembered.          *)
Anew(n) == [m \in Node |-> IF m \in Within(prog)[n] THEN <<>> ELSE deferrals[m]]

MatchEnter ==
  /\ InCall("codegen", "match", 0)
  /\ Me.ok /\ Inside
  /\ LET default == Next1
         cont    == Next1 + 1
         all     == blocks \o <<Fresh("default"), Fresh("block")>>
     IN /\ blocks' = Emit(all, ip, Switch(Top.n, default))
        /\ layout' = layout \o <<default, cont>>
        /\ Become([Top EXCEPT !.pc = 1, !.x = default, !.y = cont,
                     !.todo = <<ip.at>>])
  /\ deferrals' = Anew(Top.n)
  /\ Going
  /\ UNCHANGED <<tree, ip, held, lowered>>

HasDefault == Me.arg = 1
IsDefault(k) == HasDefault /\ k = Len(Me.kids)

MatchCase ==
  /\ InCall("codegen", "match", 1)
  /\ Top.i < Len(Me.kids)
  /\ ~IsDefault(Top.i + 1)
  /\ blocks' = AddCase(Append(blocks, Fresh("case")),
                       Top.todo[1], Top.x, Next1)
  /\ layout' = InsertBefore(layout, Next1, Top.y)
  /\ ip' = AtEnd(Next1)
  /\ Invoke([Top EXCEPT !.pc = 2, !.i = @ + 1],
            Enter("codegen", Kid(Top.i + 1)))
  /\ Going
  /\ UNCHANGED <<tree, notes>>

MatchDefault ==
  /\ InCall("codegen", "match", 1)
  /\ Top.i < Len(Me.kids)
  /\ IsDefault(Top.i + 1)
  /\ ip' = AtEnd(Top.x)
  /\ Invoke([Top EXCEPT !.pc = 2, !.i = @ + 1],
            Enter("codegen", Kid(Top.i + 1)))
  /\ AndIp

MatchArmExit ==
  /\ InCall("codegen", "match", 2)
  /\ Invoke([Top EXCEPT !.pc = 3], Enter("exit", Kid(Top.i))) /\ StackOnly

MatchArmEnd ==
  /\ InCall("codegen", "match", 3)
  /\ FallThrough(Top.y)
  /\ Become([Top EXCEPT !.pc = 1])
  /\ Going
  /\ UNCHANGED <<tree, layout, ip, notes>>

MatchJoin ==
  /\ InCall("codegen", "match", 1)
  /\ Top.i = Len(Me.kids)
  /\ ip' = AtEnd(Top.y)
  /\ Lowered
  /\ UNCHANGED <<blocks, layout, held>>

(* The option is chosen while compiling, so no block is made for it.       *)
TypeSwitch ==
  /\ InCall("codegen", "typeswitch", 0)
  /\ Me.ok /\ Inside
  /\ Me.arg # 0
  /\ Invoke([Top EXCEPT !.pc = 1], Enter("codegen", Kid(Me.arg)))
  /\ StackOnly

TypeSwitchExit ==
  /\ InCall("codegen", "typeswitch", 1)
  /\ Invoke([Top EXCEPT !.pc = 2], Enter("exit", Kid(Me.arg)))
  /\ StackOnly

TypeSwitchEnd ==
  /\ \/ InCall("codegen", "typeswitch", 0) /\ Me.ok /\ Inside /\ Me.arg = 0
     \/ InCall("codegen", "typeswitch", 2)
  /\ Lowered
  /\ UNCHANGED <<code, held>>

------------------------------------------------------------------------------
(* Break::handleBreak and Continue::handleContinue: a depth-first search   *)
(* backwards from the current block for a block named after a loop.  todo  *)
(* holds the predecessors still to be tried, nearest call first.           *)

IsFor(b) == blocks[b].name = "for"                   \* mutant: whiles forgotten
IsLoop(b) == blocks[b].name \in {"while", "for"}

SearchStart ==
  /\ \E kind \in {"break", "continue"} : InCall("codegen", kind, 0)
  /\ Become([Top EXCEPT !.pc = 1, !.todo = blocks[ip.at].preds]) /\ StackOnly

Searching(kind) == InCall("codegen", kind, 1) /\ Top.todo # <<>>

(* Mutant: a block without predecessors is tried again.                    *)
SearchAgain(todo) ==
  IF blocks[Head(todo)].preds = <<>> THEN todo
  ELSE blocks[Head(todo)].preds \o Tail(todo)
SearchMore(todo) == blocks[Head(todo)].preds \o Tail(todo)

SearchOn ==
  /\ \E kind \in {"break", "continue"} : Searching(kind)
  /\ ~IsLoop(Head(Top.todo))
  /\ Become([Top EXCEPT !.todo = SearchMore(@)]) /\ StackOnly

(* "could not find a loop to break out of", "... to continue with"         *)
SearchFailed ==
  /\ \E kind \in {"break", "continue"} : InCall("codegen", kind, 1)
  /\ Top.todo = <<>>
  /\ Fail

(* Mutant: the other successor, back into the loop.                        *)
BackTargets(loop) ==
  {Succs(blocks, p)[1] :
     p \in {q \in ToSet(SinglePred(blocks, loop)) :
             HasTerminator(blocks, q) /\ Len(Succs(blocks, q)) = 2}}

(* Where a break goes once it has found the block of a loop: the block the *)
(* conditional branch in front of the loop skips to.  The pointer is used  *)
(* unchecked, so no single predecessor, or one that does not end in a      *)
(* conditional branch, is a crash.                                         *)
BreakTargets(loop) ==
  {Succs(blocks, p)[2] :
     p \in {q \in ToSet(SinglePred(blocks, loop)) :
             HasTerminator(blocks, q) /\ Len(Succs(blocks, q)) = 2}}

BreakFound ==
  /\ Searching("break")
  /\ IsLoop(Head(Top.todo))
  /\ \E target \in BreakTargets(Head(Top.todo)) :
       blocks' = Emit(blocks, ip, Jump(Top.n, target))
  /\ Lowered
  /\ UNCHANGED <<layout, ip, held>>

BreakCrash ==
  /\ Searching("break")
  /\ IsLoop(Head(Top.todo))
  /\ BreakTargets(Head(Top.todo)) = {}
  /\ Crash

(* Mutant: a continue goes back to the block in front of the loop.         *)
LoopEntry(loop) ==
  IF SinglePred(blocks, loop) = <<>> THEN loop ELSE Head(SinglePred(blocks, loop))

(* A continue jumps to the loop's body: the condition is not evaluated.    *)
ContinueTarget(loop) == loop

ContinueFound ==
  /\ Searching("continue")
  /\ IsLoop(Head(Top.todo))
  /\ blocks' = Emit(blocks, ip, Jump(Top.n, ContinueTarget(Head(Top.todo))))
  /\ Lowered
  /\ UNCHANGED <<layout, ip, held>>

------------------------------------------------------------------------------
(* runScopeExit.  The InsertPointGuards in these functions are unnamed     *)
(* temporaries, gone before the next statement: nothing restores ip.       *)

ExitNothing ==
  /\ \E kind \in Kinds \ {"body", "defer", "if", "while", "for"} :
       InCall("exit", kind, 0)
  /\ Return /\ StackOnly

ExitIfThen ==
  /\ InCall("exit", "if", 0)
  /\ ip' = AtEnd(held[Top.n].a)
  /\ IF HasElse
     THEN Invoke([Top EXCEPT !.pc = 1], Enter("exit", Kid(1)))
     ELSE Become(Enter("exit", Kid(1)))
  /\ AndIp

ExitIfElse ==
  /\ InCall("exit", "if", 1)
  /\ ip' = AtEnd(held[Top.n].b)
  /\ Become(Enter("exit", Kid(2)))
  /\ AndIp

ExitWhile ==
  /\ InCall("exit", "while", 0)
  /\ ip' = AtEnd(held[Top.n].a)
  /\ Become(Enter("exit", Kid(1)))
  /\ AndIp

ForgetFor == InCall("exit", "for", 0) /\ Return /\ StackOnly    \* mutant
ExitFor ==
  /\ InCall("exit", "for", 0)
  /\ Become(Enter("exit", Kid(1))) /\ StackOnly

(* Body::runScopeExit: "current" (x) is the block the builder is in when   *)
(* the scope ends; first the scopes inside, then the defers, last the tags.*)
ExitBody ==
  /\ InCall("exit", "body", 0)
  /\ Become([Top EXCEPT !.pc = 1, !.x = ip.at]) /\ StackOnly

ExitBodyStmt ==
  /\ InCall("exit", "body", 1)
  /\ Top.i < Len(Me.kids)
  /\ LET next == [Top EXCEPT !.i = @ + 1]
     IN IF prog[Kid(Top.i + 1)].kind = "defer" THEN Become(next)
        ELSE Invoke(next, Enter("exit", Kid(Top.i + 1)))
  /\ StackOnly

ExitBodyDefers ==
  /\ InCall("exit", "body", 1)
  /\ Top.i = Len(Me.kids)
  /\ Become([Top EXCEPT !.pc = 2, !.i = 0]) /\ StackOnly

ExitBodyDefer ==
  /\ InCall("exit", "body", 2)
  /\ Top.i < Len(deferrals[Top.n])
  /\ LET d == deferrals[Top.n][Top.i + 1]
     IN Invoke([Top EXCEPT !.i = @ + 1],
               ApplyDefer(d.stmt, Top.x, d.at))
  /\ StackOnly

ExitBodyEnd ==
  /\ InCall("exit", "body", 2)
  /\ Top.i = Len(deferrals[Top.n])
  /\ IF Me.ok THEN Return /\ Going ELSE EndWith("error")
  /\ UNCHANGED <<tree, code, notes>>

(* Body::applyDefer(current = x, block = y): the deferred statement goes   *)
(* into "current" and into every block that leaves the function, once for  *)
(* each path found from y; the recursion does not remember where it was.   *)
ApplyHere ==
  /\ InCall("apply", "defer", 0)
  /\ Top.y = Top.x
  /\ ip' = AtEnd(Top.y)
  /\ Become(Enter("exit", Top.n))
  /\ AndIp

ApplyBranch ==
  /\ InCall("apply", "defer", 0)
  /\ Top.y # Top.x
  /\ Become([Top EXCEPT !.pc = 1, !.todo = Succs(blocks, Top.y)]) /\ StackOnly

OnlyCurrent(b) == b = Top.x                          \* mutant: returns missed
AppliesTo(b) == b = Top.x \/ Succs(blocks, b) = <<>>

ApplyNext ==
  /\ InCall("apply", "defer", 1)
  /\ Top.todo # <<>>
  /\ LET succ == Head(Top.todo)
         next == [Top EXCEPT !.todo = Tail(@)]
     IN IF AppliesTo(succ)
        THEN /\ ip' = AtEnd(succ)
             /\ Invoke(next, Enter("exit", Top.n))
        ELSE /\ Invoke(next, ApplyDefer(Top.n, Top.x, succ))
             /\ UNCHANGED ip
  /\ AndIp

ApplyEnd ==
  /\ InCall("apply", "defer", 1)
  /\ Top.todo = <<>>
  /\ Return /\ StackOnly

(* Defer::runScopeExit lowers the statement again, in front of the block's *)
(* terminator.  On an empty block back() is undefined: taken for a         *)
(* terminator, it leaves the builder pointing at a block that is not there.*)
RunDefer ==
  /\ InCall("exit", "defer", 0)
  /\ \E terminated \in BackIsTerminator(blocks, ip.at) :
       IF terminated /\ blocks[ip.at].insts = <<>>
       THEN EndWith("crash") /\ UNCHANGED ip
       ELSE /\ ip' = IF terminated THEN BeforeLast(ip.at) ELSE ip
            /\ Invoke([Top EXCEPT !.pc = 1], Enter("codegen", Kid(1)))
            /\ Going
  /\ UNCHANGED <<tree, blocks, layout, notes>>

RunDeferExit ==
  /\ InCall("exit", "defer", 1)
  /\ Become(Enter("exit", Kid(1))) /\ StackOnly

------------------------------------------------------------------------------
(* buildFunction: the body, its scope exit, then the return type.          *)

Insts == UNION {ToSet(blocks[b].insts) : b \in ToSet(layout)}
Returned == {inst.ty : inst \in {i \in Insts : i.op = "ret"}}

(* Mutant: the scope is ended before the body has been lowered.            *)
ExitFirst ==
  /\ InCall("build", "body", 0)
  /\ Invoke([Top EXCEPT !.pc = 1], Enter("exit", Top.n)) /\ StackOnly

BuildBody ==
  /\ InCall("build", "body", 0)
  /\ Invoke([Top EXCEPT !.pc = 1], Enter("codegen", Top.n)) /\ StackOnly

BuildExit ==
  /\ InCall("build", "body", 1)
  /\ Invoke([Top EXCEPT !.pc = 2], Enter("exit", Top.n)) /\ StackOnly

(* "conflicting return types", "expected function to have a return value"  *)
(* or "returns an invalid type"; a void function is not looked at.         *)
TypeError ==
  \/ \E t, u \in Returned : t # u
  \/ decl = Deduced /\ Returned = {}
  \/ decl \notin {Deduced, Void} /\ Returned # {decl}

BuildRejected ==
  /\ InCall("build", "body", 2)
  /\ TypeError
  /\ Fail

ReturnsAtEnd(b) ==
  /\ blocks[b].insts # <<>>
  /\ blocks[b].insts[Len(blocks[b].insts)].op = "ret"

(* A deduced type replaces the function's.                                 *)
DeclaredType == decl                                 \* mutant: stays "auto"
FinalType == IF decl = Deduced THEN CHOOSE t \in Returned : TRUE ELSE decl

(* Only the last block of the layout is given a missing return.            *)
BuildEnd ==
  /\ InCall("build", "body", 2)
  /\ ~TypeError
  /\ decl' = FinalType
  /\ LET last == layout[Len(layout)]
     IN IF ReturnsAtEnd(last) THEN UNCHANGED <<blocks, ip>>
           ELSE /\ blocks' = Emit(blocks, AtEnd(last), Ret(0, FinalType))
                /\ ip' = AtEnd(last)
  /\ EndWith("done")
  /\ UNCHANGED <<prog, layout, notes>>

(* Nothing bounds the recursion of the calls but the C++ stack.            *)
StackOverflow ==
  /\ status = "run"
  /\ Len(stack) >= MaxStack
  /\ EndWith("overflow")
  /\ UNCHANGED <<tree, code, notes>>

Ended == status # "run" /\ UNCHANGED vars

------------------------------------------------------------------------------

Init ==
  /\ prog \in Programs
  /\ decl \in Decls
  /\ blocks = <<Fresh("entry")>>
  /\ layout = <<1>>
  /\ ip = AtEnd(1)
  /\ held = [n \in Node |-> [a |-> 0, b |-> 0]]
  /\ deferrals = [n \in Node |-> <<>>]
  /\ lowered = {}
  /\ stack = <<Enter("build", Root)>>
  /\ status = "run"

Codegen ==
  \/ Straight \/ Silent \/ Rejected \/ OutsideFunction
  \/ BodyStmt \/ BodyEnd
  \/ IfEnter \/ IfElse \/ IfJoin
  \/ WhileEnter \/ WhileEnd \/ ForEnter \/ ForEnd
  \/ MatchEnter \/ MatchCase \/ MatchDefault \/ MatchArmExit \/ MatchArmEnd
  \/ MatchJoin \/ TypeSwitch \/ TypeSwitchExit \/ TypeSwitchEnd
  \/ SearchStart \/ SearchOn \/ SearchFailed
  \/ BreakFound \/ BreakCrash \/ ContinueFound

ScopeExit ==
  \/ ExitNothing \/ ExitIfThen \/ ExitIfElse \/ ExitWhile \/ ExitFor
  \/ ExitBody \/ ExitBodyStmt \/ ExitBodyDefers \/ ExitBodyDefer
  \/ ExitBodyEnd \/ ApplyHere \/ ApplyBranch \/ ApplyNext \/ ApplyEnd
  \/ RunDefer \/ RunDeferExit

Next ==
  \/ Codegen
  \/ ScopeExit
  \/ BuildBody \/ BuildExit \/ BuildRejected \/ BuildEnd
  \/ StackOverflow \/ Ended

(* One thread runs buildFunction, and it goes on while it can.             *)
Spec == Init /\ [][Next]_vars
FairSpec == Spec /\ WF_vars(Next)

------------------------------------------------------------------------------
(* The entry block stays first and nothing jumps to it.                    *)
EntryStaysFirst == layout # <<>> /\ layout[1] = 1 /\ blocks[1].preds = <<>>

(* No block is inserted in the function twice, whatever moves it around;   *)
(* and when buildFunction succeeds every block that was created is in the  *)
(* function: no branch goes to a block that was left behind.               *)
PlacedOnce ==
  /\ \A i, j \in 1..Len(layout) : layout[i] = layout[j] => i = j
  /\ status = "done" => 1..Len(blocks) \subseteq ToSet(layout)

(* The statements that are lowered where they stand: not those of a defer, *)
(* nor the options a typeswitch does not select.                           *)
Parts(t) ==
  CASE t.kind = "defer" -> {}
    [] t.kind = "typeswitch" -> {t.kids[k] : k \in {t.arg} \ {0}}
    [] OTHER -> ToSet(t.kids)
CompiledIn(p) ==
  LET in[n \in Node] == {n} \cup UNION {in[k] : k \in Parts(p[n])}
  IN  in

(* buildFunction succeeds only on functions that are as they should be:    *)
(* every returned value has the function's type, unless it is declared     *)
(* void (the returns of a void function are not looked at), and every      *)
(* statement compiles: no error of a sub-statement is dropped on its way.  *)
OnlyRightIsLowered ==
  status = "done" =>
    /\ decl = Void \/ Returned = {decl}
    /\ \A n \in CompiledIn(prog)[Root] : prog[n].ok /\ prog[n].kind # "forin"

(* A statement's scope is only ended once its codegen has returned: what   *)
(* runScopeExit reads (If::thenBlock_, elseBlock_, While::deferBlock_) has *)
(* been set.  The members are not initialised by the constructors.         *)
ScopeExitAfterCodegen ==
  \A k \in 1..Len(stack) : stack[k].act = "exit" => stack[k].n \in lowered
==============================================================================
