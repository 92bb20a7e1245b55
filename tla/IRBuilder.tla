------------------------------ MODULE IRBuilder ------------------------------
(***************************************************************************)
(* The part of LLVM's IR containers that whack's statements drive: basic   *)
(* blocks, their instructions, the order of the blocks in a function, and  *)
(* the builder's insertion point.  LLVM is a library, so every definition  *)
(* here is modelled from the calls under ast/ and marked external.         *)
(*                                                                         *)
(* A block is the record [name, insts, preds].  Blocks are numbered in     *)
(* creation order; "blocks" is the sequence of all blocks ever created and *)
(* a layout is the sequence of those that were inserted in the function.   *)
(***************************************************************************)
EXTENDS Integers, Sequences, SequencesExt

Names == {"entry", "then", "else", "cont", "while", "deferBlock", "for",
          "default", "case", "block"}

Ops == {"call", "br", "condbr", "switch", "ret"}

(* Opcodes that end a basic block (llvm::TerminatorInst).                  *)
Terminators == Ops \ {"call"}

(* An instruction: the statement it was lowered from (0: none), the blocks *)
(* it may jump to and, for a return, the type of its value.                *)
Inst == [op : Ops, of : Nat, to : Seq(Nat), ty : Nat]
Block == [name : Names, insts : Seq(Inst), preds : Seq(Nat)]
InsertPoint == [at : Nat, back : BOOLEAN]

(* Blocks that only name blocks 1..n, and never jump to the entry.         *)
InstIn(n) == [op : Ops, of : Nat, to : Seq(2..n), ty : Nat]
BlockIn(n) == [name : Names, insts : Seq(InstIn(n)), preds : Seq(1..n)]
Linked(bs) == bs \in Seq(BlockIn(Len(bs)))

Call(n) == [op |-> "call", of |-> n, to |-> <<>>, ty |-> 0]
Jump(n, b) == [op |-> "br", of |-> n, to |-> <<b>>, ty |-> 0]
Br(b) == Jump(0, b)
CondBr(n, t, f) == [op |-> "condbr", of |-> n, to |-> <<t, f>>, ty |-> 0]
Switch(n, b) == [op |-> "switch", of |-> n, to |-> <<b>>, ty |-> 0]
Ret(n, t) == [op |-> "ret", of |-> n, to |-> <<>>, ty |-> t]

(* BasicBlock::Create *)
Fresh(name) == [name |-> name, insts |-> <<>>, preds |-> <<>>]

(* SetInsertPoint(block) inserts at the end of a block, SetInsertPoint(inst) *)
(* before an instruction: here only ever the last one of its block.          *)
AtEnd(b) == [at |-> b, back |-> FALSE]
BeforeLast(b) == [at |-> b, back |-> TRUE]

Placed(insts, back, inst) ==
  IF back THEN InsertAt(insts, Len(insts), inst) ELSE Append(insts, inst)

(* Inserting an instruction also puts the block at the head of the use     *)
(* list of every block the instruction names: predecessors come out newest *)
(* first.                                                                  *)
Emit(bs, ip, inst) ==
  [b \in 1..Len(bs) |->
     [name  |-> bs[b].name,
      insts |-> IF b = ip.at THEN Placed(bs[b].insts, ip.back, inst)
                             ELSE bs[b].insts,
      preds |-> IF b \in ToSet(inst.to) THEN <<ip.at>> \o bs[b].preds
                                        ELSE bs[b].preds]]

(* SwitchInst::addCase on the switch of block b whose default is given.    *)
WithCase(insts, default, case) ==
  [i \in 1..Len(insts) |->
     IF insts[i].op = "switch" /\ insts[i].to[1] = default
     THEN [insts[i] EXCEPT !.to = Append(@, case)] ELSE insts[i]]

AddCase(bs, b, default, case) ==
  [c \in 1..Len(bs) |->
     [name  |-> bs[c].name,
      insts |-> WithCase(bs[c].insts, default, case),
      preds |-> IF c = case THEN <<b>> \o bs[c].preds ELSE bs[c].preds]]

IsTerminator(inst) == inst.op \in Terminators

(* What block.back().isTerminator() may answer.  On an empty block back()  *)
(* reads the list's sentinel as if it were an instruction: undefined       *)
(* behaviour, either answer is possible.                                   *)
BackIsTerminator(bs, b) ==
  IF bs[b].insts = <<>> THEN BOOLEAN
  ELSE {IsTerminator(bs[b].insts[Len(bs[b].insts)])}

(* block.getTerminator(): the last instruction, when it is one.            *)
HasTerminator(bs, b) ==
  /\ bs[b].insts # <<>>
  /\ IsTerminator(bs[b].insts[Len(bs[b].insts)])

(* llvm::successors: none for a block that has no terminator (yet).        *)
Succs(bs, b) ==
  IF HasTerminator(bs, b) THEN bs[b].insts[Len(bs[b].insts)].to ELSE <<>>

(* getSinglePredecessor(), as a sequence: null is the empty sequence.      *)
SinglePred(bs, b) == IF Len(bs[b].preds) = 1 THEN bs[b].preds ELSE <<>>

(* Moving a block, or inserting a new one, right after another block.      *)
IndexOf(layout, b) == CHOOSE i \in 1..Len(layout) : layout[i] = b
Without(layout, b) == RemoveAt(layout, IndexOf(layout, b))
MoveAfter(layout, b, c) ==
  LET rest == Without(layout, b)
  IN  IF b = c THEN layout ELSE InsertAt(rest, IndexOf(rest, c) + 1, b)
InsertBefore(layout, b, c) == InsertAt(layout, IndexOf(layout, c), b)
==============================================================================
