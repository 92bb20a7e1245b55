---------------------------- MODULE LoweringProps ----------------------------
(***************************************************************************)
(* What the lowering of a function promises, for the functions whack can   *)
(* lower (LoweringSupport).                                                *)
(***************************************************************************)
EXTENDS LoweringSupport, FiniteSets

Kind(n) == prog[n].kind
Kids(n) == prog[n].kids

Under(n) == Within(prog)[n]
InLoop(n) == \E m \in Node : Kind(m) \in Loops /\ n \in Under(m)

(* The loop a statement belongs to; numbers grow inwards in preorder.      *)
Innermost(n) ==
  LET around == {m \in Node : Kind(m) \in Loops /\ n \in Under(m)}
  IN  CHOOSE m \in around : \A k \in around : k <= m

(* No loop has ended, and no continue has jumped, between the start of the *)
(* loop around n and n: the search for the loop meets nothing else.        *)
FirstJump(n) ==
  LET loop == Innermost(n)
  IN  \A m \in Under(loop) : loop < m /\ m < n =>
        /\ Kind(m) \in Loops => n \in Under(m)
        /\ Kind(m) # "continue"

JumpsIn(n) == {m \in Under(n) : Kind(m) \in Jumps}
PlainJumps == \A n \in JumpsIn(Root) : InLoop(n) /\ FirstJump(n)

Compiled == CompiledIn(prog)[Root]

(* No expression is wrong and the returns agree with each other and with  *)
(* the declared type.                                                      *)
WellTyped ==
  LET returns == {prog[n].arg : n \in {m \in Compiled : Kind(m) = "return"}}
  IN  /\ \A n \in Under(Root) : prog[n].ok /\ Kind(n) # "forin"
      /\ Cardinality(returns) <= 1
      /\ decl = Void \/ (returns # {} /\ decl \in returns \cup {Deduced})

------------------------------------------------------------------------------
(* A supported, well-typed function is lowered: buildFunction neither      *)
(* reports an error nor crashes nor recurses without end.  The functions   *)
(* left out are those whose break or continue comes after another loop or  *)
(* a continue of the same loop (Break::handleBreak).                       *)
SupportedIsLowered ==
  status \notin {"run", "done"} => ~(Supported(prog) /\ PlainJumps /\ WellTyped)

------------------------------------------------------------------------------
(* break and continue *)

(* The targets of the conditional branches lowered from a loop: the loop's *)
(* block and the block after it.                                           *)
TargetsOf(n) == {i.to : i \in {j \in Insts : j.op = "condbr" /\ j.of = n}}
JumpsOf(n) == {i.to[1] : i \in {j \in Insts : j.op = "br" /\ j.of = n}}

(* In a supported function a break that is lowered leaves the innermost    *)
(* loop around it, whatever the control flow between the two; a continue   *)
(* goes to that loop's body, if no other loop ended before it.             *)
JumpsBelongInside ==
  status = "done" /\ Supported(prog) =>
    \A n \in JumpsIn(Root) : \A to \in TargetsOf(Innermost(n)) :
      /\ Kind(n) = "break" => JumpsOf(n) \subseteq {to[2]}
      /\ Kind(n) = "continue" /\ FirstJump(n) => JumpsOf(n) \subseteq {to[1]}

(* What "could not find a loop to continue with" (ast/continuestmt.hpp)    *)
(* says a function is rejected for: a jump that no loop surrounds.         *)
JumpNeedsLoop ==
  status = "done" => \A n \in JumpsIn(Root) \cap Compiled : InLoop(n)

(* "could not find a loop to break out of" (ast/breakstmt.hpp) is true     *)
(* when it is said.                                                        *)
LoopNotFoundIsTrue ==
  status = "error" /\ Top.act = "codegen" /\ Kind(Top.n) = "break" =>
    ~InLoop(Top.n)

------------------------------------------------------------------------------
(* Defers *)

(* Every path through an acyclic function from block b to a return.        *)
RECURSIVE PathsFrom(_)
PathsFrom(b) ==
  IF Succs(blocks, b) = <<>> THEN {<<b>>}
  ELSE UNION {{<<b>> \o p : p \in PathsFrom(s)} : s \in ToSet(Succs(blocks, b))}

CallsAlong(path) ==
  LET calls(b) == [i \in DOMAIN blocks[b].insts |-> blocks[b].insts[i].of]
  IN  FlattenSeq([k \in DOMAIN path |-> calls(path[k])])

RECURSIVE Returns(_)
Returns(n) ==
  \/ Kind(n) = "return"
  \/ Kind(n) = "body" /\ Kids(n) # <<>> /\ Returns(Last(Kids(n)))

(* All branches of an if but one leave the function, so that at most one   *)
(* path goes from any point of the function to any other.                  *)
OneWay ==
  \A n \in Under(Root) :
    /\ Kind(n) = "if" => \E k \in ToSet(Kids(n)) : Returns(k)
    /\ Kind(n) \notin {"match"} \cup Loops

Places(seq, e) == {i \in DOMAIN seq : seq[i] = e}
Deferred == UNION {ToSet(deferrals[n]) : n \in Node}

Runs(path, n) == Places(CallsAlong(path), Kids(n)[1])

(* The defers of one body run in the reverse of the order they were        *)
(* reached in.                                                             *)
Unwinds(path) ==
  \A n \in {m \in Under(Root) : Kind(m) = "body"} : \A i, j \in DOMAIN Kids(n) :
    i < j /\ {Kind(Kids(n)[i]), Kind(Kids(n)[j])} = {"defer"} =>
      \A a \in Runs(path, Kids(n)[i]), b \in Runs(path, Kids(n)[j]) : b < a

(* Without loops no path that passed a defer returns without running it;   *)
(* with early exits only, it runs exactly once on every path that passed   *)
(* its defer, not at all on the others, and newest first.                  *)
DefersRunOnce ==
  status = "done" /\ Supported(prog) /\ Deferred # {} =>
    \A path \in PathsFrom(1) :
      /\ \A d \in Deferred :
           LET times == Cardinality(Runs(path, d.stmt))
               passed == d.at \in ToSet(path)
           IN  /\ passed => times # 0
               /\ OneWay => times = IF passed THEN 1 ELSE 0
      /\ OneWay => Unwinds(path)

------------------------------------------------------------------------------
(* Lowering ends: the searches through the graph under construction and    *)
(* the recursion over it come back, or the stack is exhausted.             *)
Ends == <>(status # "run")
==============================================================================
