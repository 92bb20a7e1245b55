------------------------------ MODULE MpcValues ------------------------------
(***************************************************************************)
(* The values mpc's parsers make: who holds each of them, from the call    *)
(* that makes it until it is folded, destroyed or returned to mpc_parse.   *)
(***************************************************************************)
EXTENDS MpcErrors

Dropping == \E n \in Node : Type(n) = "check" /\ ~Arg(n)

(* Blocks named by the calls: results kept, arrays, and the value returned. *)
Held == (UNION {ToSet(stack[k].outs) \cup {stack[k].array} : k \in DOMAIN stack})
        \cup (IF ret = NoReturn THEN {} ELSE {ret.out})
AliveIn(s) == {b \in DOMAIN s.blocks : s.blocks[b] # Freed}
Alive == AliveIn(store)

(* No block is freed twice or used after it is freed, no two are given the *)
(* same cell of the pool, and when the parse is over only the value        *)
(* returned is left, outside the pool; a value that does not pass its      *)
(* check is lost, and a lifted one is not mpc's to free.                   *)
ValuesOnce ==
  ~Has({"liftval"}) =>
    /\ ~store.misused
    /\ Held \ {0} \subseteq Alive
    /\ \A b, c \in Alive : InPool(store, b) /\ store.blocks[b] = store.blocks[c] => b = c
    /\ status = "done" /\ ~Dropping => Alive = {ret.out} \ {0} /\ store.cells = {}
    /\ status = "failed" /\ ~Dropping => Alive = {} /\ store.cells = {}
    /\ status = "done" => ~InPool(store, ret.out)

(* Results run over the end of the array on the C stack only where a       *)
(* parser counts none.                                                     *)
SmashedByNone == status = "smashed" => CountsNone

------------------------------------------------------------------------------
(* What makes them inductive.                                              *)

(* A cell of the pool is used by the one block that is in it.              *)
StoreSound(s) ==
  /\ DOMAIN s = {"cells", "next", "blocks", "misused"} /\ ~s.misused /\ s.next \in PoolIndex
  /\ s.blocks \in Seq(PoolIndex \cup {Heap, Freed})
  /\ s.cells = {s.blocks[b] : b \in DOMAIN s.blocks} \cap PoolIndex
  /\ \A b, c \in DOMAIN s.blocks : s.blocks[b] \in PoolIndex /\ s.blocks[b] = s.blocks[c] => b = c

Holds(f) == (ToSet(f.outs) \cup {f.array}) \ {0}
BackOf(r) == IF r = NoReturn THEN {} ELSE {r.out} \ {0}

(* A call holds no block twice, and keeps results and an array only if it  *)
(* is of a parser that gathers them.                                       *)
Gatherers == {"many", "many1", "count", "and"}
Tidy(f) ==
  /\ \A a, b \in DOMAIN f.outs : a # b /\ f.outs[a] = f.outs[b] => f.outs[a] = 0
  /\ f.array \in ToSet(f.outs) => f.array = 0
Orderly(g, f) ==
  /\ f.outs \in Seq(Nat) /\ f.array \in Nat
  /\ Len(f.outs) = IF g[f.p].type \in Gatherers THEN f.j ELSE 0
  /\ g[f.p].type \notin Gatherers \cup {"or"} => f.array = 0
  /\ g[f.p].type \in {"many", "many1"} /\ f.array # 0 => f.j >= StackMin
  /\ g[f.p].type = "count" /\ g[f.p].arg.n >= 1 => f.j < g[f.p].arg.n

(* Every block is held by one call, or is what was returned last.          *)
Accounted(s, calls, r) ==
  /\ StoreSound(s)
  /\ BackOf(r) \subseteq AliveIn(s)
  /\ \A k \in 1 .. Len(calls) :
       /\ Tidy(calls[k]) /\ Holds(calls[k]) \subseteq AliveIn(s)
       /\ Holds(calls[k]) \cap BackOf(r) = {}
       /\ \A l \in 1 .. Len(calls) : l # k => Holds(calls[k]) \cap Holds(calls[l]) = {}
NoneLost(s, calls, r) ==
  \A b \in AliveIn(s) : b \in BackOf(r) \/ \E k \in 1 .. Len(calls) : b \in Holds(calls[k])

CallsOrderly ==
  /\ \A k \in 1 .. Len(stack) : Orderly(prog, stack[k])
  /\ stack # <<>> /\ ret = NoReturn => Top.outs = <<>> /\ Top.array = 0 /\ Top.j = 0
  /\ \A k \in 1 .. Len(stack) :
       (k < Len(stack) \/ ret # NoReturn) /\ Type(stack[k].p) = "count"
         /\ Arg(stack[k].p).n > StackMin => stack[k].array # 0
  /\ ret # NoReturn => ret.out \in Nat /\ (~ret.ok => ret.out = 0)
Balanced ==
  ~Has({"liftval"}) =>
    /\ CallsOrderly
    /\ Accounted(store, stack, ret)
    /\ status = "run" /\ ~Dropping => NoneLost(store, stack, ret)
==============================================================================
